--------------------------- MODULE HttpJsonProofs ---------------------------
(***************************************************************************)
(* Theorems about HttpJson for every set of headers and objects and every  *)
(* bound.                                                                  *)
(***************************************************************************)
EXTENDS HttpJson, TLAPS

(* A put of an owned reference leaves natural counts. *)
LEMMA PutType ==
  ASSUME NEW rc \in [Obj -> Nat], NEW o, o \in Obj => rc[o] > 0
  PROVE  Put(rc, o) \in [Obj -> Nat]
<1>1. CASE o \in Obj
  <2>1. rc[o] - 1 \in Nat
    BY <1>1
  <2> QED
    BY <1>1, <2>1 DEF Put
<1>2. CASE o \notin Obj
  BY <1>2 DEF Put
<1> QED
  BY <1>1, <1>2

(* json_response_context_clear keeps the types of what it assigns. *)
LEMMA ClearType ==
  ASSUME TypeOK, OwnersCounted, Clear
  PROVE  /\ refs' \in [Obj -> Nat]
         /\ jresponse' \in Obj \cup {NoObj}
         /\ tok' \in SUBSET Nat
         /\ jerr' \in JErr
         /\ buf' \in Seq(Nat)
<1>1. jresponse \in Obj => refs[jresponse] > 0
  BY DEF TypeOK, OwnersCounted, Owners, One
<1>2. refs' \in [Obj -> Nat]
  BY <1>1, PutType DEF TypeOK, Clear
<1> QED
  BY <1>2 DEF Clear, JErr

(* Every step keeps the types. *)
LEMMA TypeStep == TypeOK /\ OwnersCounted /\ [Next]_vars => TypeOK'
<1> SUFFICES ASSUME TypeOK, OwnersCounted, [Next]_vars PROVE TypeOK'
  OBVIOUS
<1> USE HttpAssumption DEF TypeOK
<1>1. ASSUME NEW h \in Header, AddHeader(h) PROVE TypeOK'
  BY <1>1 DEF AddHeader
<1>2. CASE ClearHeaders
  BY <1>2 DEF ClearHeaders
<1>3. CASE NotImplemented
  BY <1>3 DEF NotImplemented, CurlCode
<1>4. CASE Request
  <2>1. Clear /\ UNCHANGED <<headers, err_code, held, doc, lost>>
    BY <1>4 DEF Request
  <2>2. /\ phase' \in {"idle", "performing", "closed"}
        /\ docs' \in Nat
    BY <1>4 DEF Request
  <2>4. aborted' \in BOOLEAN
    BY <1>4 DEF Request
  <2>5. requests' \in Nat
    BY <1>4 DEF Request
  <2>3. /\ refs' \in [Obj -> Nat]
        /\ jresponse' \in Obj \cup {NoObj}
        /\ tok' \in SUBSET Nat
        /\ jerr' \in JErr
        /\ buf' \in Seq(Nat)
    BY <2>1, ClearType
  <2> QED
    BY <2>1, <2>2, <2>3, <2>4, <2>5
<1>5. ASSUME NEW o \in Obj, Release(o) PROVE TypeOK'
  <2>1. refs[o] > 0
    <3>1. refs[o] >= Owners(o) /\ o \in held
      BY <1>5 DEF OwnersCounted, Release
    <3>2. Owners(o) > 0 /\ Owners(o) \in Nat
      BY <3>1 DEF Owners, One
    <3> QED
      BY <3>1, <3>2
  <2>2. refs' \in [Obj -> Nat]
    BY <2>1, <1>5, PutType DEF Release
  <2> QED
    BY <2>2, <1>5 DEF Release
<1>6. CASE Cleanup
  BY <1>6, ClearType DEF Cleanup
<1>7. CASE Partial
  BY <1>7 DEF Partial, OnResponse, JErr
<1>8. CASE Malformed
  BY <1>8 DEF Malformed, OnResponse, JErr
<1>9. ASSUME NEW o \in Obj, EndDocument(o) PROVE TypeOK'
  BY <1>9 DEF EndDocument, OnResponse, JErr
<1>10. CASE EndNull
  BY <1>10 DEF EndNull, OnResponse, JErr
<1>11. CASE Fail
  BY <1>11 DEF Fail, CurlCode
<1>12. CASE Succeed
  BY <1>12 DEF Succeed, CurlCode
<1>13. CASE UNCHANGED vars
  BY <1>13 DEF vars
<1> QED
  BY <1>1, <1>2, <1>3, <1>4, <1>5, <1>6, <1>7, <1>8, <1>9, <1>10, <1>11,
     <1>12, <1>13 DEF Next, Caller, Transfer

(* Every step keeps at least one reference per owner. *)
LEMMA OwnersStep == TypeOK /\ OwnersCounted /\ [Next]_vars => OwnersCounted'
<1> SUFFICES ASSUME TypeOK, OwnersCounted, [Next]_vars,
                    NEW x \in Obj
             PROVE  (refs[x] >= Owners(x))'
  BY DEF OwnersCounted
<1> USE HttpAssumption DEF TypeOK, Owners, One
<1>0. refs[x] >= Owners(x) /\ refs[x] \in Nat
  BY DEF OwnersCounted
<1>1. ASSUME NEW h \in Header, AddHeader(h) PROVE (refs[x] >= Owners(x))'
  BY <1>0, <1>1 DEF AddHeader
<1>2. CASE ClearHeaders
  BY <1>0, <1>2 DEF ClearHeaders
<1>3. CASE NotImplemented
  BY <1>0, <1>3 DEF NotImplemented
<1>4. CASE Request
  BY <1>0, <1>4 DEF Request, Clear, Put
<1>5. ASSUME NEW o \in Obj, Release(o) PROVE (refs[x] >= Owners(x))'
  BY <1>0, <1>5 DEF Release, Put
<1>6. CASE Cleanup
  BY <1>0, <1>6 DEF Cleanup, Clear, Put
<1>7. CASE Partial
  BY <1>0, <1>7 DEF Partial, OnResponse
<1>8. CASE Malformed
  BY <1>0, <1>8 DEF Malformed, OnResponse
<1>9. ASSUME NEW o \in Obj, EndDocument(o) PROVE (refs[x] >= Owners(x))'
  <2>1. x = o => x \notin held
    BY <1>0, <1>9 DEF EndDocument
  <2> QED
    BY <1>0, <1>9, <2>1 DEF EndDocument, OnResponse
<1>10. CASE EndNull
  BY <1>0, <1>10 DEF EndNull, OnResponse
<1>11. CASE Fail
  BY <1>0, <1>11 DEF Fail
<1>12. CASE Succeed
  BY <1>0, <1>12 DEF Succeed
<1>13. CASE UNCHANGED vars
  BY <1>0, <1>13 DEF vars
<1> QED
  BY <1>1, <1>2, <1>3, <1>4, <1>5, <1>6, <1>7, <1>8, <1>9, <1>10, <1>11,
     <1>12, <1>13 DEF Next, Caller, Transfer

(* Every step keeps responses apart. *)
LEMMA OneResponseStep ==
  TypeOK /\ OneResponse /\ [Next]_vars => OneResponse'
<1> SUFFICES ASSUME TypeOK, OneResponse, [Next]_vars PROVE OneResponse'
  OBVIOUS
<1> USE HttpAssumption DEF TypeOK, OneResponse
<1>1. ASSUME NEW h \in Header, AddHeader(h) PROVE OneResponse'
  BY <1>1 DEF AddHeader
<1>2. CASE ClearHeaders
  BY <1>2 DEF ClearHeaders
<1>3. CASE NotImplemented
  BY <1>3 DEF NotImplemented
<1>4. CASE Request
  BY <1>4 DEF Request, Clear
<1>5. ASSUME NEW o \in Obj, Release(o) PROVE OneResponse'
  BY <1>5 DEF Release
<1>6. CASE Cleanup
  BY <1>6 DEF Cleanup, Clear
<1>7. CASE Partial
  BY <1>7 DEF Partial, OnResponse
<1>8. CASE Malformed
  BY <1>8 DEF Malformed, OnResponse
<1>9. ASSUME NEW o \in Obj, EndDocument(o) PROVE OneResponse'
  <2>1. requests' = requests /\ tok' = {} /\ jresponse' = o
    BY <1>9 DEF EndDocument, OnResponse
  <2>2. tok \cup {requests} = {requests}
    OBVIOUS
  <2>3. doc'[jresponse'] = {requests'}
    BY <1>9, <2>1, <2>2 DEF EndDocument
  <2>4. \A i \in DOMAIN buf' : buf'[i] = requests'
    BY <1>9, <2>1 DEF EndDocument, OnResponse
  <2> QED
    BY <2>1, <2>3, <2>4
<1>10. CASE EndNull
  BY <1>10 DEF EndNull, OnResponse
<1>11. CASE Fail
  BY <1>11 DEF Fail
<1>12. CASE Succeed
  BY <1>12 DEF Succeed
<1>13. CASE UNCHANGED vars
  BY <1>13 DEF vars
<1> QED
  BY <1>1, <1>2, <1>3, <1>4, <1>5, <1>6, <1>7, <1>8, <1>9, <1>10, <1>11,
     <1>12, <1>13 DEF Next, Caller, Transfer

(* Every step keeps a document being received the context's alone. *)
LEMMA FreshStep ==
  TypeOK /\ OwnersCounted /\ FreshDocument /\ [Next]_vars => FreshDocument'
<1> SUFFICES ASSUME TypeOK, OwnersCounted, FreshDocument, [Next]_vars
             PROVE  FreshDocument'
  OBVIOUS
<1> USE HttpAssumption DEF TypeOK, FreshDocument
<1>1. ASSUME NEW h \in Header, AddHeader(h) PROVE FreshDocument'
  BY <1>1 DEF AddHeader
<1>2. CASE ClearHeaders
  BY <1>2 DEF ClearHeaders
<1>3. CASE NotImplemented
  BY <1>3 DEF NotImplemented
<1>4. CASE Request
  BY <1>4 DEF Request, Clear
<1>5. ASSUME NEW o \in Obj, Release(o) PROVE FreshDocument'
  BY <1>5 DEF Release
<1>6. CASE Cleanup
  BY <1>6 DEF Cleanup, Clear
<1>7. CASE Partial
  BY <1>7 DEF Partial, OnResponse
<1>8. CASE Malformed
  BY <1>8 DEF Malformed, OnResponse
<1>9. ASSUME NEW o \in Obj, EndDocument(o) PROVE FreshDocument'
  <2>1. o \notin held
    BY <1>9 DEF EndDocument, OwnersCounted, Owners, One
  <2> QED
    BY <1>9, <2>1 DEF EndDocument, OnResponse
<1>10. CASE EndNull
  BY <1>10 DEF EndNull, OnResponse
<1>11. CASE Fail
  BY <1>11 DEF Fail
<1>12. CASE Succeed
  BY <1>12 DEF Succeed
<1>13. CASE UNCHANGED vars
  BY <1>13 DEF vars
<1> QED
  BY <1>1, <1>2, <1>3, <1>4, <1>5, <1>6, <1>7, <1>8, <1>9, <1>10, <1>11,
     <1>12, <1>13 DEF Next, Caller, Transfer

(* A document about to be overwritten has not been lost before. *)
LEMMA LostOnce ==
  ASSUME TypeOK, NoLeak, NEW o \in Obj, refs[o] = 0
  PROVE  o # jresponse /\ o \notin held /\ o \notin lost
BY DEF TypeOK, NoLeak, Owners, One

(* Every step keeps the current document out of the lost ones. *)
LEMMA LostStep ==
  TypeOK /\ NoLeak /\ [Next]_vars => jresponse' \notin lost'
<1> SUFFICES ASSUME TypeOK, NoLeak, [Next]_vars
             PROVE  jresponse' \notin lost'
  OBVIOUS
<1>0. jresponse \notin lost /\ NoObj \notin lost
  BY HttpAssumption DEF NoLeak, TypeOK
<1>1. CASE Caller
  BY <1>0, <1>1 DEF Caller, AddHeader, ClearHeaders, NotImplemented, Request,
                    Release, Cleanup, Clear
<1>2. CASE Partial \/ Malformed \/ Fail \/ Succeed
  BY <1>0, <1>2 DEF Partial, Malformed, OnResponse, Fail, Succeed
<1>3. ASSUME NEW o \in Obj, EndDocument(o) PROVE jresponse' \notin lost'
  BY <1>3, LostOnce DEF EndDocument
<1>4. CASE EndNull
  BY <1>0, <1>4, HttpAssumption DEF EndNull
<1>5. CASE UNCHANGED vars
  BY <1>0, <1>5 DEF vars
<1> QED
  BY <1>1, <1>2, <1>3, <1>4, <1>5 DEF Next, Transfer

(* Every step keeps the counts what owners and losses make them. *)
LEMMA NoLeakStep ==
  TypeOK /\ FreshDocument /\ NoLeak /\ [Next]_vars => NoLeak'
<1> SUFFICES ASSUME TypeOK, FreshDocument, NoLeak, [Next]_vars,
                    NEW x \in Obj
             PROVE  (refs[x] = Owners(x) + One(x \in lost))'
  BY LostStep DEF NoLeak
<1>0. jresponse \notin lost
  BY DEF NoLeak
<1>q. refs[x] = Owners(x) + One(x \in lost) /\ refs[x] \in Nat
  BY DEF NoLeak, TypeOK
<1> USE HttpAssumption DEF TypeOK, Owners, One
<1> DEFINE Goal == (refs[x] = Owners(x) + One(x \in lost))'
<1>1. ASSUME NEW h \in Header, AddHeader(h) PROVE Goal
  BY <1>0, <1>q, <1>1 DEF AddHeader
<1>2. CASE ClearHeaders
  BY <1>0, <1>q, <1>2 DEF ClearHeaders
<1>3. CASE NotImplemented
  BY <1>0, <1>q, <1>3 DEF NotImplemented
<1>4. CASE Request
  BY <1>0, <1>q, <1>4 DEF Request, Clear, Put
<1>5. ASSUME NEW o \in Obj, Release(o) PROVE Goal
  BY <1>0, <1>q, <1>5 DEF Release, Put
<1>6. CASE Cleanup
  BY <1>0, <1>q, <1>6 DEF Cleanup, Clear, Put
<1>7. CASE Partial
  BY <1>0, <1>q, <1>7 DEF Partial, OnResponse
<1>8. CASE Malformed
  BY <1>0, <1>q, <1>8 DEF Malformed, OnResponse
<1>9. ASSUME NEW o \in Obj, EndDocument(o) PROVE Goal
  <2>1. o # jresponse /\ o \notin held /\ o \notin lost
    BY <1>9, LostOnce DEF EndDocument
  <2>2. jresponse' = o /\ lost' = lost \cup ({jresponse} \cap Obj) /\ held' = held
        /\ refs' = [refs EXCEPT ![o] = 1]
    BY <1>9 DEF EndDocument, OnResponse
  <2>3. jresponse \in Obj => jresponse \notin held
    BY <1>9 DEF EndDocument, OnResponse, FreshDocument
  <2> QED
    BY <1>0, <1>q, <2>1, <2>2, <2>3
<1>10. CASE EndNull
  <2>1. jresponse' = NoObj /\ lost' = lost \cup ({jresponse} \cap Obj) /\ held' = held
        /\ refs' = refs
    BY <1>10 DEF EndNull, OnResponse
  <2>2. jresponse \in Obj => jresponse \notin held
    BY <1>10 DEF EndNull, OnResponse, FreshDocument
  <2> QED
    BY <1>0, <1>q, <2>1, <2>2
<1>11. CASE Fail
  BY <1>0, <1>q, <1>11 DEF Fail
<1>12. CASE Succeed
  <2>1. jresponse \in Obj => jresponse \notin held
    BY <1>12 DEF Succeed, FreshDocument
  <2> QED
    BY <1>0, <1>q, <1>12, <2>1 DEF Succeed
<1>13. CASE UNCHANGED vars
  BY <1>0, <1>q, <1>13 DEF vars
<1> QED
  BY <1>1, <1>2, <1>3, <1>4, <1>5, <1>6, <1>7, <1>8, <1>9, <1>10, <1>11,
     <1>12, <1>13 DEF Next, Caller, Transfer

(* A new context has its types and nothing to own. *)
LEMMA InitStep == Init => IInv
<1> SUFFICES ASSUME Init PROVE IInv
  OBVIOUS
<1>1. refs \in [Obj -> Nat] /\ \A o \in Obj : refs[o] = 0
  BY DEF Init
<1>2. doc \in [Obj -> SUBSET Nat]
  BY DEF Init
<1>3. OwnersCounted /\ NoLeak
  BY <1>1, HttpAssumption DEF Init, OwnersCounted, NoLeak, Owners, One
<1>4. headers \in Seq(Header) /\ buf \in Seq(Nat)
  BY DEF Init
<1>5. TypeOK
  BY <1>1, <1>2, <1>4 DEF Init, TypeOK, JErr, CurlCode
<1>6. OneResponse /\ FreshDocument
  BY HttpAssumption DEF Init, OneResponse, FreshDocument
<1> QED
  BY <1>3, <1>5, <1>6 DEF IInv

(* The inductive invariant holds in every reachable state. *)
THEOREM Invariance == Spec => []IInv
<1>1. IInv /\ [Next]_vars => IInv'
  BY TypeStep, OwnersStep, OneResponseStep, FreshStep, NoLeakStep DEF IInv
<1> QED
  BY <1>1, InitStep, PTL DEF Spec

(* The variables of a context always have their types. *)
THEOREM TypeCorrect == Spec => []TypeOK
<1>1. IInv => TypeOK
  BY DEF IInv
<1> QED
  BY <1>1, Invariance, PTL

(* No document is freed while the context or a caller may use it. *)
THEOREM NoUseAfterFree == Spec => []OwnersCounted
<1>1. IInv => OwnersCounted
  BY DEF IInv
<1> QED
  BY <1>1, Invariance, PTL

(* References and owners agree: only a document overwritten within its     *)
(* response keeps a reference nobody will put.                             *)
THEOREM NothingLeaks == Spec => []NoLeak
<1>1. IInv => NoLeak
  BY DEF IInv
<1> QED
  BY <1>1, Invariance, PTL

(* No byte of an earlier response reaches a later one. *)
THEOREM ResponsesApart == Spec => []OneResponse
<1>1. IInv => OneResponse
  BY DEF IInv
<1> QED
  BY <1>1, Invariance, PTL

(* A document that more bytes may replace is never a caller's. *)
THEOREM StaysFresh == Spec => []FreshDocument
<1>1. IInv => FreshDocument
  BY DEF IInv
<1> QED
  BY <1>1, Invariance, PTL

(* The documents callers own change only when one is released or answered. *)
LEMMA AnswersKept ==
  ASSUME held' = held, \A o \in held : doc'[o] = doc[o]
  PROVE  {<<o, doc[o]>> : o \in held}' = {<<o, doc[o]>> : o \in held}
OBVIOUS

(* A context implements JsonExchange: each step of it is a step of the     *)
(* exchange or leaves the exchange as it was.                              *)
THEOREM Refinement == Spec => ImplementsExchange
<1>1. Init => Exchange!Init
  BY DEF Init, Exchange!Init
<1>2. IInv /\ [Next]_vars => [Exchange!Next]_Exchange!vars
  <2> SUFFICES ASSUME IInv, [Next]_vars
               PROVE  [Exchange!Next]_Exchange!vars
    OBVIOUS
  <2> DEFINE answers == {<<o, doc[o]>> : o \in held}
  <2>0. TypeOK
    BY DEF IInv
  <2>q. ASSUME UNCHANGED <<phase, requests, held, doc>>
        PROVE  UNCHANGED Exchange!vars
    BY <2>q DEF Exchange!vars
  <2>1. CASE Request
    <3>1. phase = "idle" /\ phase' = "performing"
          /\ requests' = requests + 1 /\ UNCHANGED <<held, doc>>
      BY <2>1 DEF Request
    <3> QED
      BY <3>1 DEF Exchange!Next, Exchange!Ask
  <2>2. ASSUME NEW o \in Obj, Release(o)
        PROVE  Exchange!Next
    <3>1. o \in held /\ held' = held \ {o}
          /\ UNCHANGED <<phase, requests, doc>>
      BY <2>2 DEF Release
    <3>2. <<o, doc[o]>> \in answers /\ answers' = answers \ {<<o, doc[o]>>}
      BY <3>1
    <3> QED
      BY <3>1, <3>2 DEF Exchange!Next, Exchange!Drop
  <2>3. CASE Cleanup
    BY <2>3 DEF Cleanup, Exchange!vars
  <2>4. ASSUME NEW o \in Obj, EndDocument(o)
        PROVE  UNCHANGED Exchange!vars
    <3>1. o \notin held
      <4>1. refs[o] = 0
        BY <2>4 DEF EndDocument
      <4>2. refs[o] >= Owners(o)
        BY DEF IInv, OwnersCounted
      <4> QED
        BY <4>1, <4>2 DEF Owners, One
    <3>2. held' = held /\ \A x \in held : doc'[x] = doc[x]
      BY <3>1, <2>4, <2>0 DEF EndDocument, OnResponse, TypeOK
    <3>3. answers' = answers
      BY <3>2, AnswersKept
    <3> QED
      BY <3>3, <2>4 DEF EndDocument, OnResponse, Exchange!vars
  <2>5. CASE Fail
    <3>1. phase = "performing" /\ phase' = "idle"
          /\ UNCHANGED <<requests, held, doc>>
      BY <2>5 DEF Fail
    <3> QED
      BY <3>1 DEF Exchange!Next, Exchange!NoAnswer
  <2>6. CASE Succeed
    <3>1. phase = "performing" /\ phase' = "idle"
          /\ UNCHANGED <<requests, doc>>
      BY <2>6 DEF Succeed
    <3>2. CASE jresponse \in Obj
      <4>1. held' = held \cup {jresponse} /\ jresponse \notin held
            /\ doc[jresponse] = {requests}
        BY <2>6, <3>1, <3>2
           DEF Succeed, IInv, FreshDocument, OneResponse
      <4>2. answers' = answers \cup {<<jresponse, {requests}>>}
        BY <3>1, <4>1
      <4>3. jresponse \notin {a[1] : a \in answers}
        BY <4>1
      <4> QED
        BY <3>1, <3>2, <4>2, <4>3
           DEF Exchange!Next, Exchange!Answer, Exchange!Owned
    <3>3. CASE jresponse \notin Obj
      <4>1. held' = held
        BY <2>6, <3>3 DEF Succeed
      <4> QED
        BY <3>1, <4>1 DEF Exchange!Next, Exchange!NoAnswer
    <3> QED
      BY <3>2, <3>3
  <2>7. CASE Partial \/ Malformed \/ EndNull
    BY <2>7, <2>q DEF Partial, Malformed, EndNull, OnResponse
  <2>8. ASSUME NEW h \in Header, AddHeader(h)
        PROVE  UNCHANGED Exchange!vars
    BY <2>8, <2>q DEF AddHeader
  <2>9. CASE ClearHeaders \/ NotImplemented \/ UNCHANGED vars
    BY <2>9, <2>q DEF ClearHeaders, NotImplemented, vars
  <2> QED
    BY <2>1, <2>2, <2>3, <2>4, <2>5, <2>6, <2>7, <2>8, <2>9
       DEF Next, Caller, Transfer
<1> QED
  BY <1>1, <1>2, Invariance, PTL DEF Spec, ImplementsExchange, Exchange!Spec
=============================================================================
