----------------------------- MODULE AppProofs -----------------------------
(***************************************************************************)
(* Theorems about the life of the program, for every set of configurations *)
(* and every interval, clock and number of messages.                       *)
(***************************************************************************)
EXTENDS App, WellFoundedInduction, TLAPS

(* Only a reply, a timer and the user touch the info bar.                  *)
LEMMA InfoLeftAlone ==
  Next => \/ on_reply
          \/ on_response
          \/ \E t \in timers : hide_info(t)
          \/ UNCHANGED info /\ (UNCHANGED now \/ Tick)
<1>1. AppMain => UNCHANGED <<info, now>>
  BY DEF AppMain, app_load_config, trading_agency_load_config, Abort, Reach,
         app_init_with_agent, app_init, app_init_without_agent, Main, shell_run,
         gtk_main_returns, app_stop, app_context_cleanup, info
<1>2. coincheck_panel_init_returns \/ answered => UNCHANGED <<info, now>>
  BY DEF coincheck_panel_init_returns, answered, info
<1>3. (\E s \in Source : on_timeout(s)) => UNCHANGED <<info, now>>
  BY DEF on_timeout
<1>4. on_toggle_action_state \/ on_clicked \/ on_destroy => UNCHANGED <<info, now>>
  BY DEF on_toggle_action_state, on_clicked, on_destroy
<1>5. Tick => UNCHANGED info
  BY DEF Tick
<1> QED
  BY <1>1, <1>2, <1>3, <1>4, <1>5 DEF Next, Transfers, Callbacks

(* A visible message always has its own timer pending.                     *)
THEOREM MessagesHidden == Spec => []WillBeHidden
<1>1. Init => WillBeHidden
  BY DEF Init, ShellInit, WillBeHidden
<1>2. WillBeHidden /\ [Next]_vars => WillBeHidden'
  <2> SUFFICES ASSUME WillBeHidden, [Next]_vars
               PROVE  WillBeHidden'
    OBVIOUS
  <2>1. CASE UNCHANGED info
    BY <2>1 DEF info, WillBeHidden
  <2>2. CASE on_reply
    BY <2>2 DEF on_reply, show_info, WillBeHidden
  <2>3. ASSUME NEW t \in timers, hide_info(t)
        PROVE  WillBeHidden'
    BY <2>3 DEF hide_info, WillBeHidden
  <2>4. CASE on_response
    BY <2>4 DEF on_response, WillBeHidden
  <2>5. UNCHANGED vars => UNCHANGED info
    BY DEF vars, shell
  <2> QED
    BY <2>1, <2>2, <2>3, <2>4, <2>5, InfoLeftAlone
<1> QED
  BY <1>1, <1>2, PTL DEF Spec

(* A timer never hides its own message too early: what is hidden within    *)
(* its five seconds is hidden by the timer of a message before it.         *)
THEOREM HiddenByOlderOnly ==
  Spec => [][\A t \in timers :
               hide_info(t) /\ bar /\ now < shown_at + Interval => t.message < message]_shell
<1> DEFINE Inv == /\ message \in Nat /\ now \in Nat /\ shown_at \in Nat
                  /\ \A t \in timers :
                       /\ t.message \in Nat /\ t.message <= message
                       /\ t.message = message => t.due = shown_at + Interval
           Older == \A t \in timers :
                      hide_info(t) /\ bar /\ now < shown_at + Interval => t.message < message
<1>1. Init => Inv
  BY DEF Init, ShellInit
<1>2. Inv /\ [Next]_vars => Inv'
  <2> SUFFICES ASSUME Inv, [Next]_vars PROVE Inv'
    OBVIOUS
  <2>1. CASE UNCHANGED info /\ now' \in Nat
    BY <2>1 DEF info
  <2>2. CASE on_reply
    <3>1. /\ message' = message + 1 /\ shown_at' = now /\ now' = now
          /\ timers' = timers \cup {[due |-> now + Interval, message |-> message']}
      BY <2>2 DEF on_reply, show_info
    <3> QED
      BY <3>1
  <2>3. ASSUME NEW t \in timers, hide_info(t)
        PROVE  Inv'
    BY <2>3 DEF hide_info
  <2>4. CASE on_response
    BY <2>4 DEF on_response
  <2>5. UNCHANGED vars => UNCHANGED <<info, now>>
    BY DEF vars, shell
  <2>6. Tick => now' \in Nat
    BY DEF Tick
  <2> QED
    BY <2>1, <2>2, <2>3, <2>4, <2>5, <2>6, InfoLeftAlone
<1>3. ASSUME Inv, NEW t \in timers, hide_info(t), now < shown_at + Interval
      PROVE  t.message < message
  <2>1. t.due <= now
    BY <1>3 DEF hide_info
  <2> QED
    BY <1>3, <2>1, ShellAssumption
<1>4. Inv => [Older]_shell
  BY <1>3
<1> QED
  BY <1>1, <1>2, <1>4, PTL DEF Spec

-----------------------------------------------------------------------------
(* The first agency of the name is one of the agencies.                    *)
LEMMA AgentNamed ==
  ASSUME DOMAIN agencies \subseteq Nat, Agent # 0
  PROVE  Agent \in DOMAIN agencies
<1> DEFINE T == Named("coincheck")
<1>1. T \subseteq Nat /\ T \subseteq DOMAIN agencies /\ T # {}
  BY DEF Agent, Named
<1>2. IsWellFoundedOn({p \in Nat \X Nat : p[1] < p[2]}, Nat)
  BY NatLessThanWellFounded DEF OpToRel
<1>3. \E x \in T : \A y \in T : ~ (<<y, x>> \in {p \in Nat \X Nat : p[1] < p[2]})
  BY <1>1, <1>2, WFMin
<1>4. \E x \in T : \A y \in T : x <= y
  <2> HIDE DEF T
  <2>1. PICK x \in T : \A y \in T : ~ (<<y, x>> \in {p \in Nat \X Nat : p[1] < p[2]})
    BY <1>3
  <2>2. ASSUME NEW y \in T PROVE x <= y
    <3>1. x \in Nat /\ y \in Nat
      BY <1>1
    <3>2. ~(y < x)
      BY <2>1, <3>1
    <3> QED
      BY <3>1, <3>2
  <2> QED
    BY <2>2
<1> HIDE DEF T
<1> QED
  BY <1>1, <1>4 DEF Agent, T

Agency == [name : ExchangeName, keys : SUBSET Class]

(* What the stages of main() know of the documents, of the agencies and of *)
(* the window.                                                             *)
RefsInv ==
  /\ jconfig \in Seq(Entry)
  /\ agencies \in Seq(Agency)
  /\ Len(agencies) <= Len(jconfig)
  /\ root \in {0, 1}
  /\ DOMAIN entries = DOMAIN jconfig
  /\ \A i \in DOMAIN jconfig :
       entries[i] = IF i <= Len(agencies) THEN root + 1 ELSE root
  /\ stage \in {"created", "freed"} => root = 0 /\ Len(agencies) = 0
  /\ stage \notin {"created", "freed", "aborted"} => root = 1

LEMMA RefsStep ==
  ASSUME RefsInv, [Next]_vars
  PROVE  RefsInv'
<1> USE DEF RefsInv
<1>1. CASE app_load_config
  BY <1>1 DEF app_load_config, Abort, Reach
<1>2. CASE trading_agency_load_config
  <2> DEFINE i == Len(agencies) + 1
             entry == jconfig[i]
  <2>1. CASE entry.exchange_name = NoName \/ ~entry.base_url
    <3>1. UNCHANGED app /\ stage' = "aborted"
      BY <1>2, <2>1 DEF trading_agency_load_config, Abort
    <3> QED
      BY <3>1 DEF app
  <2>2. CASE ~(entry.exchange_name = NoName \/ ~entry.base_url)
    <3>1. /\ stage = "loading" /\ i <= Len(jconfig)
          /\ agencies' = Append(agencies, [name |-> entry.exchange_name,
                                           keys |-> entry.credentials])
          /\ entries' = [entries EXCEPT ![i] = @ + 1]
          /\ stage' \in {"configured", "loading"}
          /\ jconfig' = jconfig /\ root' = root
      BY <1>2, <2>2 DEF trading_agency_load_config, Reach
    <3>2. /\ jconfig \in Seq(Entry) /\ agencies \in Seq(Agency)
          /\ Len(agencies) \in Nat /\ i \in 1..Len(jconfig)
          /\ DOMAIN jconfig = 1..Len(jconfig)
      <4>1. jconfig \in Seq(Entry) /\ agencies \in Seq(Agency)
        OBVIOUS
      <4>2. Len(agencies) \in Nat /\ Len(jconfig) \in Nat /\ DOMAIN jconfig = 1..Len(jconfig)
        BY <4>1
      <4> QED
        BY <3>1, <4>1, <4>2
    <3>3. agencies' \in Seq(Agency) /\ Len(agencies') = i
      <4>1. entry \in Entry
        BY <3>2
      <4>2. [name |-> entry.exchange_name, keys |-> entry.credentials] \in Agency
        BY <2>2, <4>1 DEF Entry, Agency
      <4> QED
        BY <3>1, <3>2, <4>2
    <3>4. /\ DOMAIN entries' = DOMAIN jconfig
          /\ \A j \in DOMAIN jconfig :
               entries'[j] = IF j <= i THEN root + 1 ELSE root
      BY <3>1, <3>2
    <3> QED
      BY <3>1, <3>2, <3>3, <3>4
  <2> QED
    BY <2>1, <2>2
<1>3. CASE app_context_cleanup
  <2>1. /\ stage = "stopped" /\ stage' = "freed" /\ jconfig' = jconfig
        /\ agencies' = <<>> /\ root' = root - 1
        /\ entries' = [i \in DOMAIN entries |->
                         IF root' = 0
                         THEN (IF i \in DOMAIN agencies THEN entries[i] - 1 ELSE entries[i]) - 1
                         ELSE (IF i \in DOMAIN agencies THEN entries[i] - 1 ELSE entries[i])]
    BY <1>3 DEF app_context_cleanup, Reach
  <2>2. root = 1 /\ root' = 0
    BY <2>1
  <2>3. DOMAIN entries' = DOMAIN jconfig /\ \A i \in DOMAIN jconfig : entries'[i] = 0
    <3>1. DOMAIN jconfig = 1..Len(jconfig) /\ Len(jconfig) \in Nat
      OBVIOUS
    <3> QED
      BY <2>1, <2>2, <3>1
  <2>4. Len(<<>>) = 0 /\ <<>> \in Seq(Agency)
    OBVIOUS
  <2>5. \A i \in DOMAIN jconfig : ~(i <= 0)
    OBVIOUS
  <2> QED
    BY <2>1, <2>2, <2>3, <2>4, <2>5
<1>4. CASE app_init_with_agent
  BY <1>4 DEF app_init_with_agent, app_init, app
<1>5. CASE app_init_without_agent
  BY <1>5 DEF app_init_without_agent, app
<1>6. CASE Main /\ UNCHANGED app
  BY <1>6 DEF Main, shell_run, gtk_main_returns, app_stop, app
<1>7. CASE UNCHANGED <<app, stage>>
  BY <1>7 DEF app
<1>8. CASE coincheck_panel_init_returns /\ UNCHANGED app
  BY <1>8 DEF coincheck_panel_init_returns, app
<1>9. on_reply \/ answered \/ Callbacks \/ Tick => UNCHANGED stage
  BY DEF on_reply, answered, Callbacks, Tick, on_timeout, on_toggle_action_state,
         on_clicked, hide_info, on_response, on_destroy, main
<1>10. UNCHANGED vars => UNCHANGED <<app, stage>>
  BY DEF vars, shell, main
<1> QED
  BY <1>1, <1>2, <1>3, <1>4, <1>5, <1>6, <1>7, <1>8, <1>9, <1>10
     DEF Next, AppMain, Transfers

(* The references agree with the stage of main() in every state.           *)
THEOREM RefsInvariance == Spec => []RefsInv
<1>1. Init => RefsInv
  BY AppAssumption DEF Init, ShellInit, RefsInv
<1> QED
  BY <1>1, RefsStep, PTL DEF Spec

(* The program ends only after every reference to its configuration was    *)
(* given back, and no agency outlives its entry.                           *)
THEOREM AllReturned == Spec => []ReferencesReturned
<1>1. RefsInv => ReferencesReturned
  <2> SUFFICES ASSUME RefsInv PROVE ReferencesReturned
    OBVIOUS
  <2> USE DEF RefsInv
  <2>1. DOMAIN jconfig = 1..Len(jconfig) /\ Len(jconfig) \in Nat
    OBVIOUS
  <2>2. stage = "freed" => root = 0 /\ \A i \in DOMAIN entries : entries[i] = 0
    BY <2>1
  <2>3. \A i \in DOMAIN agencies : entries[i] >= 1
    BY <2>1
  <2> QED
    BY <2>2, <2>3 DEF ReferencesReturned
<1> QED
  BY <1>1, RefsInvariance, PTL

-----------------------------------------------------------------------------
(* Who may be asking at which stage, and with which window and agencies.   *)
Late == {"initialising", "initialised", "gtk_main"}
LifeInv ==
  /\ asked # Nobody => stage \in {"initialising", "gtk_main"} /\ window
  /\ stage \in {"initialising", "initialised"} => window
  /\ is_running => window /\ ~quit
  /\ stage \in Late => Len(agencies) = Len(jconfig) /\ Agent # 0
  /\ stage = "configured" => Len(agencies) = Len(jconfig)
  /\ \A i \in DOMAIN agencies : agencies[i].keys = jconfig[i].credentials

(* As long as the agencies stay the same, so does what is known of them.   *)
LEMMA AgenciesKept ==
  ASSUME LifeInv, UNCHANGED app
  PROVE  /\ Agent' = Agent
         /\ \A i \in DOMAIN agencies' : agencies'[i].keys = jconfig'[i].credentials
BY DEF LifeInv, app, Agent, Named

LEMMA LifeStep ==
  ASSUME RefsInv, LifeInv, [Next]_vars
  PROVE  LifeInv'
<1> USE DEF Late
<1>1. CASE app_load_config
  <2>1. /\ stage = "created" /\ stage' \in {"aborted", "loading"}
        /\ UNCHANGED <<jconfig, agencies, asked, window, is_running, quit>>
    BY <1>1 DEF app_load_config, Abort, Reach
  <2> QED
    BY <2>1 DEF LifeInv
<1>2. CASE trading_agency_load_config
  <2>1. stage = "loading" /\ UNCHANGED <<asked, window, is_running, quit, jconfig>>
    BY <1>2 DEF trading_agency_load_config, Abort, Reach, app
  <2>2. asked = Nobody
    BY <2>1 DEF LifeInv
  <2>3. CASE UNCHANGED app /\ stage' = "aborted"
    BY <2>1, <2>2, <2>3, AgenciesKept DEF LifeInv
  <2>4. CASE ~(UNCHANGED app /\ stage' = "aborted")
    <3> DEFINE i == Len(agencies) + 1
               a == [name |-> jconfig[i].exchange_name, keys |-> jconfig[i].credentials]
    <3>1. /\ i <= Len(jconfig)
          /\ agencies' = Append(agencies, a)
          /\ stage' = IF i = Len(jconfig) THEN "configured" ELSE "loading"
      BY <1>2, <2>4 DEF trading_agency_load_config, Abort, Reach
    <3>2. agencies \in Seq(Agency) /\ Len(agencies) \in Nat
      BY DEF RefsInv
    <3> HIDE DEF a
    <3>3. /\ Len(agencies') = i /\ DOMAIN agencies' = 1..i
          /\ \A j \in 1..i : agencies'[j] = IF j = i THEN a ELSE agencies[j]
      BY <3>1, <3>2
    <3>4. \A j \in DOMAIN agencies' : agencies'[j].keys = jconfig'[j].credentials
      <4>1. a.keys = jconfig[i].credentials
        BY DEF a
      <4>2. ASSUME NEW j \in 1..Len(agencies) PROVE agencies[j].keys = jconfig[j].credentials
        BY <3>2 DEF LifeInv
      <4> QED
        BY <2>1, <3>2, <3>3, <4>1, <4>2
    <3> QED
      BY <2>1, <2>2, <3>1, <3>3, <3>4 DEF LifeInv
  <2> QED
    BY <2>3, <2>4
<1>3. CASE app_context_cleanup
  <2>1. /\ stage = "stopped" /\ stage' = "freed" /\ agencies' = <<>>
        /\ UNCHANGED <<asked, window, is_running, quit, jconfig>>
    BY <1>3 DEF app_context_cleanup, Reach
  <2> QED
    BY <2>1 DEF LifeInv
<1>4. CASE app_init_with_agent
  <2>1. UNCHANGED app
    BY <1>4 DEF app_init_with_agent
  <2> QED
    BY <1>4, <2>1, AgenciesKept
       DEF LifeInv, app_init_with_agent, app_init, init_windows, app
<1>5. CASE app_init_without_agent
  <2>1. UNCHANGED app
    BY <1>5 DEF app_init_without_agent, app
  <2> QED
    BY <1>5, <2>1, AgenciesKept DEF LifeInv, app_init_without_agent, init_windows, app
<1>6. CASE Main /\ UNCHANGED app
  BY <1>6, AgenciesKept DEF LifeInv, Main, shell_run, gtk_main_returns, app_stop, app
<1>7. CASE coincheck_panel_init_returns /\ UNCHANGED app
  BY <1>7, AgenciesKept DEF LifeInv, coincheck_panel_init_returns, app
<1>8. CASE on_reply /\ UNCHANGED app
  BY <1>8, AgenciesKept DEF LifeInv, on_reply, main, app, Nobody
<1>9. CASE answered /\ UNCHANGED app
  BY <1>9, AgenciesKept DEF LifeInv, answered, main, app
<1>10. CASE Callbacks /\ UNCHANGED app
  <2> USE AgenciesKept DEF app
  <2>1. ASSUME NEW s \in Source, on_timeout(s)
        PROVE  LifeInv'
    BY <1>10, <2>1 DEF LifeInv, on_timeout, Dispatching, May_ask
  <2>2. CASE on_toggle_action_state
    BY <1>10, <2>2 DEF LifeInv, on_toggle_action_state
  <2>3. CASE on_clicked
    BY <1>10, <2>3 DEF LifeInv, on_clicked, Dispatching, main
  <2>4. ASSUME NEW t \in timers, hide_info(t)
        PROVE  LifeInv'
    BY <1>10, <2>4 DEF LifeInv, hide_info, main
  <2>5. CASE on_response
    BY <1>10, <2>5 DEF LifeInv, on_response, main
  <2>6. CASE on_destroy
    BY <1>10, <2>6 DEF LifeInv, on_destroy, Dispatching, shell_stop
  <2> QED
    BY <1>10, <2>1, <2>2, <2>3, <2>4, <2>5, <2>6 DEF Callbacks
<1>11. CASE Tick /\ UNCHANGED app
  BY <1>11, AgenciesKept DEF LifeInv, Tick, main, app
<1>12. CASE UNCHANGED vars
  BY <1>12, AgenciesKept DEF LifeInv, vars, shell, main, app
<1> QED
  BY <1>1, <1>2, <1>3, <1>4, <1>5, <1>6, <1>7, <1>8, <1>9, <1>10, <1>11, <1>12
     DEF Next, AppMain, Transfers

(* No callback asks the exchange without its window or with an agency that *)
(* is not configured or already freed.                                     *)
THEOREM AskingAlive == Spec => []AsksOnlyAlive
<1>1. Init => LifeInv
  BY DEF Init, ShellInit, LifeInv, Late
<1>2. RefsInv /\ LifeInv => AsksOnlyAlive
  <2> SUFFICES ASSUME RefsInv, LifeInv, asked # Nobody
               PROVE  /\ window
                      /\ Len(agencies) = Len(jconfig)
                      /\ Agent # 0 /\ agencies[Agent].keys = jconfig[Agent].credentials
    BY DEF AsksOnlyAlive
  <2>1. window /\ Len(agencies) = Len(jconfig) /\ Agent # 0
    BY DEF LifeInv, Late
  <2>2. DOMAIN agencies \subseteq Nat
    BY DEF RefsInv
  <2>3. Agent \in DOMAIN agencies
    BY <2>1, <2>2, AgentNamed
  <2> QED
    BY <2>1, <2>3 DEF LifeInv
<1> QED
  BY <1>1, <1>2, LifeStep, RefsInvariance, PTL DEF Spec
=============================================================================
