------------------------------- MODULE Shell -------------------------------
(***************************************************************************)
(* The GTK main loop of the program: src/src/shell.c, the timeout sources  *)
(* of the coincheck panel and its info bar.  App, which reads the          *)
(* configuration and drives the shell, makes the specification.            *)
(*                                                                         *)
(* There is one thread: a callback that asks the exchange keeps the loop   *)
(* waiting until its transfers end, and no transfer has a time limit.      *)
(* Meanwhile only the clock runs; a source that is due is dispatched late. *)
(* gtk_main_quit lets the loop finish the batch of sources it is in.       *)
(***************************************************************************)
EXTENDS Naturals

CONSTANTS
  Interval,     \* 5000 ms, how long a message stays
  MaxTime,      \* bound: the clock
  MaxMessages   \* bound: messages shown

ASSUME ShellAssumption ==
  Interval \in Nat \ {0} /\ MaxTime \in Nat /\ MaxMessages \in Nat

VARIABLES
  stage,         \* how far main() is
  is_running, quit, action_state,   \* of the shell_context
  window,        \* app_window exists
  quitting,      \* gtk_main_quit was called
  sources,       \* the panel's repeating timeout sources
  asked,         \* whose callback is waiting for the exchange
  now,
  timers,        \* the one-shot sources of hide_info
  bar,           \* the info bar is visible
  message,       \* the number of the last message
  shown_at       \* when it was shown

main == <<stage, is_running, quit, action_state, window, quitting, sources>>
info == <<timers, bar, message, shown_at>>
shell == <<main, asked, now, info>>

Source == {"update_tickers", "coincheck_update_order_book",
           "coincheck_check_banlance"}
Nobody == "nobody"
Timer == [due : 0..MaxTime, message : 1..MaxMessages]

ShellInit ==
  /\ stage = "created"
  /\ is_running = FALSE /\ quit = FALSE /\ action_state = FALSE
  /\ window = FALSE /\ quitting = FALSE
  /\ sources = {}
  /\ asked = Nobody
  /\ now = 0
  /\ timers = {} /\ bar = FALSE /\ message = 0 /\ shown_at = 0

-----------------------------------------------------------------------------
(* main() *)

(* The window is built with the switch on. *)
init_windows == window' = TRUE /\ action_state' = TRUE

(* The panel asks for the balance and the orders itself, *)
coincheck_panel_init == asked' = "coincheck_panel_init"

app_init ==
  /\ stage = "configured"
  /\ stage' = "initialising"
  /\ init_windows
  /\ coincheck_panel_init
  /\ UNCHANGED <<is_running, quit, quitting, sources, now, info>>

(* and when the answers are there it adds the ticker's source. *)
coincheck_panel_init_returns ==
  /\ stage = "initialising"
  /\ stage' = "initialised"
  /\ asked' = Nobody
  /\ sources' = {"update_tickers"}
  /\ UNCHANGED <<is_running, quit, action_state, window, quitting, now, info>>

(* app_run and shell_run, up to gtk_main. *)
shell_run ==
  /\ stage = "initialised"
  /\ ~is_running /\ ~quit
  /\ stage' = "gtk_main"
  /\ is_running' = TRUE
  /\ sources' = sources \cup {"coincheck_update_order_book", "coincheck_check_banlance"}
  /\ UNCHANGED <<quit, action_state, window, quitting, asked, now, info>>

(* gtk_main returns, and shell_run and app_run with it. *)
gtk_main_returns ==
  /\ stage = "gtk_main"
  /\ quitting
  /\ asked = Nobody
  /\ stage' = "returned"
  /\ is_running' = FALSE
  /\ quit' = TRUE
  /\ UNCHANGED <<action_state, window, quitting, sources, asked, now, info>>

(* app_stop, which finds the shell stopped. *)
app_stop ==
  /\ stage = "returned"
  /\ ~is_running
  /\ stage' = "stopped"
  /\ UNCHANGED <<is_running, quit, action_state, window, quitting, sources, asked, now, info>>

-----------------------------------------------------------------------------
(* Callbacks dispatched by gtk_main. *)

Dispatching == stage = "gtk_main" /\ asked = Nobody

(* Slips: no guard on is_running, a source removed by the switch. *)
May_ask_Always == action_state
removed_BySwitch(s) ==
  quit \/ ~action_state \/ (s = "coincheck_update_order_book" /\ ~is_running)

(* The conditions under which a callback of the panel asks the exchange,   *)
(* and those under which it answers G_SOURCE_REMOVE.                       *)
May_ask == is_running /\ ~quit /\ action_state
removed(s) == quit \/ (s = "coincheck_update_order_book" /\ ~is_running)

on_timeout(s) ==
  /\ Dispatching
  /\ s \in sources
  /\ sources' = IF removed(s) THEN sources \ {s} ELSE sources
  /\ asked' = IF May_ask THEN s ELSE Nobody
  /\ UNCHANGED <<stage, is_running, quit, action_state, window, quitting, now, info>>

on_toggle_action_state ==
  /\ Dispatching /\ window
  /\ action_state' = ~action_state
  /\ UNCHANGED <<stage, is_running, quit, window, quitting, sources, asked, now, info>>

(* Slip: one timer at a time. *)
show_info_OneTimer ==
  /\ message < MaxMessages /\ now + Interval <= MaxTime
  /\ message' = message + 1
  /\ bar' = TRUE
  /\ shown_at' = now
  /\ timers' = IF timers = {} THEN {[due |-> now + Interval, message |-> message']}
               ELSE timers

(* show_info: every message brings its own timer. *)
show_info ==
  /\ message < MaxMessages /\ now + Interval <= MaxTime
  /\ message' = message + 1
  /\ bar' = TRUE
  /\ shown_at' = now
  /\ timers' = timers \cup {[due |-> now + Interval, message |-> message']}

(* A click on a button or a row of the panel asks the exchange,           *)
on_clicked ==
  /\ Dispatching /\ window
  /\ asked' = "on_clicked"
  /\ UNCHANGED <<main, now, info>>

(* and shows its answer; then the balance and the orders are asked for.    *)
on_reply ==
  /\ asked = "on_clicked"
  /\ show_info
  /\ asked' = "update_balance"
  /\ UNCHANGED <<main, now>>

(* The last transfer of a callback ends, and the callback with it. *)
answered ==
  /\ stage = "gtk_main"
  /\ asked # Nobody
  /\ asked' = Nobody
  /\ UNCHANGED <<main, now, info>>

(* A timer of hide_info is due. *)
hide_info(t) ==
  /\ Dispatching
  /\ t.due <= now
  /\ timers' = timers \ {t}
  /\ bar' = FALSE
  /\ UNCHANGED <<main, asked, now, message, shown_at>>

(* The bar's "response": the user closes it. *)
on_response ==
  /\ Dispatching /\ window /\ bar
  /\ bar' = FALSE
  /\ UNCHANGED <<main, asked, now, timers, message, shown_at>>

(* Slip: the flag is cleared before it is tested. *)
shell_stop_FlagFirst ==
  is_running' = FALSE /\ UNCHANGED quitting

(* shell_stop. *)
shell_stop ==
  IF quit \/ ~is_running
  THEN UNCHANGED <<quitting, is_running>>
  ELSE quitting' = TRUE /\ is_running' = FALSE

(* The user closes the window. *)
on_destroy ==
  /\ Dispatching /\ window
  /\ window' = FALSE
  /\ shell_stop
  /\ UNCHANGED <<stage, quit, action_state, sources, asked, now, info>>

Tick ==
  /\ now < MaxTime
  /\ now' = now + 1
  /\ UNCHANGED <<main, asked, info>>

-----------------------------------------------------------------------------
Main == shell_run \/ gtk_main_returns \/ app_stop

Transfers == coincheck_panel_init_returns \/ on_reply \/ answered

Callbacks ==
  \/ \E s \in Source : on_timeout(s)
  \/ on_toggle_action_state
  \/ on_clicked
  \/ \E t \in timers : hide_info(t)
  \/ on_response
  \/ on_destroy

-----------------------------------------------------------------------------
(* A visible message has its own timer pending: it is not left on screen   *)
(* for good by the timers of the messages before it.                       *)
WillBeHidden ==
  bar => [due |-> shown_at + Interval, message |-> message] \in timers

(* "show infobar 5 seconds" (coincheck-gui.c:89): a timer does not hide a  *)
(* message that has been visible for less.                                 *)
ShownFiveSeconds ==
  [][\A t \in timers : hide_info(t) /\ bar => now >= shown_at + Interval]_shell
=============================================================================
