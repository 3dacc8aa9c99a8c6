---------------------------- MODULE JsonExchange ----------------------------
(***************************************************************************)
(* What an http_json_context promises its callers, with no headers, chunks *)
(* or reference counts: requests are made one at a time, each is answered  *)
(* by one document or by nothing, a document answers the request just      *)
(* made, and it stays what it was until the caller who got it drops it.    *)
(***************************************************************************)
EXTENDS Naturals

CONSTANT Obj

VARIABLES
  busy,     \* a request is under way
  asked,    \* requests made so far
  answers   \* documents callers own, each with the requests it answers

vars == <<busy, asked, answers>>

Owned == {a[1] : a \in answers}

Init == busy = FALSE /\ asked = 0 /\ answers = {}

Ask ==
  /\ ~busy
  /\ busy' = TRUE
  /\ asked' = asked + 1
  /\ UNCHANGED answers

Answer(o) ==
  /\ busy
  /\ busy' = FALSE
  /\ o \notin Owned
  /\ answers' = answers \cup {<<o, {asked}>>}
  /\ UNCHANGED asked

NoAnswer ==
  /\ busy
  /\ busy' = FALSE
  /\ UNCHANGED <<asked, answers>>

Drop(a) ==
  /\ answers' = answers \ {a}
  /\ UNCHANGED <<busy, asked>>

Next ==
  \/ Ask
  \/ \E o \in Obj : Answer(o)
  \/ NoAnswer
  \/ \E a \in answers : Drop(a)

Spec == Init /\ [][Next]_vars
=============================================================================
