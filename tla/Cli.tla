-------------------------------- MODULE Cli --------------------------------
(***************************************************************************)
(* The command line tool (src/tools/coincheck-cli.c) run beside the        *)
(* program, on the account whose orders the panel shows: a second client   *)
(* places and cancels orders between any two requests of the panel.  One   *)
(* tool runs at a time; the commands that only print an answer change      *)
(* nothing and are left out.                                               *)
(*                                                                         *)
(* The parameters of btc_buy and btc_sell are known by their names, their  *)
(* values by their positions.                                              *)
(***************************************************************************)
EXTENDS OrderSession

CONSTANT MaxCommands   \* bound: commands run

ASSUME CliAssumption == MaxCommands \in Nat

VARIABLES
  commands,   \* commands begun
  command,    \* the one that runs, "none" between two
  params,     \* its params_list
  order,      \* the positions of the values an order is posted with
  answers,    \* what the exchange did with each id, as far as it answered
  exit_code   \* of the last command

cli == <<commands, command, params, order, answers, exit_code>>
panel == <<todo, target, lists, tree, rows>>

Name == {"rate", "amount", "plain"}
NoOrder == [rate |-> 0, amount |-> 0]
Lists(S) == {<<a>> : a \in S} \cup {<<a, b>> : a, b \in S}

CliInit ==
  /\ commands = 0
  /\ command = "none"
  /\ params = <<>>
  /\ order = NoOrder
  /\ answers = <<>>
  /\ exit_code = 0

-----------------------------------------------------------------------------
(* The last parameter of a name, 0 if there is none: a NULL. *)
Named(ps, n) ==
  LET at == {i \in DOMAIN ps : ps[i] = n}
  IN  CHOOSE i \in at \cup {0} : \A j \in at : j <= i

(* Slip: each value that was not named is taken by its position. *)
Parsed_Mixed(ps) ==
  [rate |-> IF Named(ps, "rate") = 0 THEN 1 ELSE Named(ps, "rate"),
   amount |-> IF Named(ps, "amount") = 0 THEN 2 ELSE Named(ps, "amount")]

(* Values are taken by position only if neither was named. *)
Parsed(ps) ==
  IF Named(ps, "rate") = 0 /\ Named(ps, "amount") = 0
  THEN [rate |-> 1, amount |-> 2]
  ELSE [rate |-> Named(ps, "rate"), amount |-> Named(ps, "amount")]

Begin(c, ps) ==
  /\ command = "none"
  /\ commands < MaxCommands
  /\ commands' = commands + 1
  /\ command' = c
  /\ params' = ps
  /\ answers' = <<>>
  /\ exit_code' = 0

(* cli_btc_buy and cli_btc_sell up to the request.  One parameter fails    *)
(* the assertion, a value that is NULL crashes atof: nothing is sent.      *)
cli_btc_buy(ps) ==
  /\ Len(ps) = 2
  /\ Parsed(ps).rate # 0 /\ Parsed(ps).amount # 0
  /\ Begin("btc_buy", ps)
  /\ order' = Parsed(ps)
  /\ UNCHANGED <<exchange, panel>>

(* cli_cancel_order with one or more ids. *)
cli_cancel_order(ids) ==
  /\ Begin("cancel_order", ids)
  /\ order' = NoOrder
  /\ UNCHANGED <<exchange, panel>>

(* The tool ends, and its memory is gone. *)
Exit(rc) ==
  /\ command' = "none"
  /\ exit_code' = rc
  /\ params' = <<>> /\ order' = NoOrder /\ answers' = <<>>

(* coincheck_new_order for the tool; the order may have been accepted      *)
(* although no answer came, and an answer may say that it was not.         *)
cli_order(accepted, rc0) ==
  /\ command = "btc_buy"
  /\ accepted => placed < MaxOrders
  /\ IF accepted
     THEN /\ placed' = placed + 1
          /\ pending' = [pending EXCEPT ![placed + 1] = Units]
     ELSE UNCHANGED <<placed, pending>>
  /\ Exit(IF rc0 THEN 0 ELSE 1)
  /\ UNCHANGED <<trades, panel, commands>>

(* The loop of cli_cancel_order goes on with the next id or ends. *)
Cancelled == params[Len(answers) + 1]
LastId == Len(answers) + 1 = Len(params)
NextId(answer) ==
  /\ answers' = Append(answers, answer)
  /\ UNCHANGED <<command, params, order, exit_code>>

(* Slip: the loop goes on after an error, the last one's code is returned. *)
after_cancel_GoesOn(rc0, answer) ==
  IF LastId THEN Exit(IF rc0 THEN 0 ELSE 1)
  ELSE NextId(IF rc0 THEN answer ELSE "lost")

(* The first error ends the loop. *)
after_cancel(rc0, answer) ==
  IF ~rc0 THEN Exit(1) ELSE IF LastId THEN Exit(0) ELSE NextId(answer)

(* coincheck_cancel_order for the tool, which is answered or not. *)
cli_cancel(done, rc0) ==
  /\ command = "cancel_order"
  /\ done => pending[Cancelled] > 0
  /\ pending' = IF done THEN [pending EXCEPT ![Cancelled] = 0] ELSE pending
  /\ after_cancel(rc0, IF done THEN "done" ELSE "refused")
  /\ UNCHANGED <<placed, trades, panel, commands>>

CliNext ==
  \/ \E ps \in Lists(Name) : cli_btc_buy(ps)
  \/ \E ids \in Lists(Order) : cli_cancel_order(ids)
  \/ \E accepted, rc0 \in BOOLEAN : cli_order(accepted, rc0)
  \/ \E done, rc0 \in BOOLEAN : cli_cancel(done, rc0)

BothInit == Init /\ CliInit

BothNext ==
  \/ Next /\ UNCHANGED cli
  \/ CliNext

BothSpec == BothInit /\ [][BothNext]_<<vars, cli>>

-----------------------------------------------------------------------------
(* An order is posted with two different parameters, and never with one as *)
(* its rate that was given as the amount, or the other way round.          *)
PostedAsGiven ==
  command = "btc_buy" =>
    /\ order.rate # order.amount
    /\ params[order.rate] # "amount"
    /\ params[order.amount] # "rate"

(* When cancel_order ends with 0, every id it was given was answered, and  *)
(* none of these orders is open but those the exchange refused to cancel   *)
(* (of the last one: its step, which ends the tool, leaves it as it was),  *)
(* although answers are lost and the panel cancels orders meanwhile.       *)
ExitZeroClosed ==
  [][command = "cancel_order" /\ command' = "none" /\ exit_code' = 0 =>
       /\ Len(answers) + 1 = Len(params)
       /\ \A i \in DOMAIN params :
            \/ pending'[params[i]] = 0
            \/ i \in DOMAIN answers /\ answers[i] = "refused"
            \/ i > Len(answers) /\ UNCHANGED pending]_<<vars, cli>>
=============================================================================
