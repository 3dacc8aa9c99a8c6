------------------------- MODULE CoincheckApiProofs -------------------------
(***************************************************************************)
(* Theorems about CoincheckApi for every set of API functions, objects and *)
(* every bound.                                                            *)
(***************************************************************************)
EXTENDS CoincheckApi, TLAPS

HttpP == INSTANCE HttpJsonProofs

(* What an API function does to its context is a step of the context. *)
LEMMA HttpStep ==
  ASSUME api \in Apis \cup {"none"}, requests \in 0..MaxRequests, StageOK, [Next]_vars
  PROVE  [Http!Next]_Http!vars
<1>c. stage # "waiting" => Current \in 1..(MaxRequests + 1)
  BY ApiAssumption DEF Current
<1>h. ASSUME UNCHANGED http PROVE UNCHANGED Http!vars
  BY <1>h DEF http, Http!vars
<1>1. ASSUME NEW a \in Apis, Call(a) PROVE UNCHANGED http
  BY <1>1 DEF Call
<1>2. CASE Sign
  <2>1. [kind |-> "auth", class |-> ClassOf(api), request |-> Current] \in Header
    BY <1>2, <1>c DEF Sign, StageOK, Header, Class, ClassOf, PrivateApis
  <2> QED
    BY <1>2, <2>1 DEF Sign, Http!Next, Http!Caller
<1>3. CASE Describe
  <2>1. [kind |-> "content", class |-> ClassOf(api), request |-> Current] \in Header
    BY <1>3, <1>c DEF Describe, StageOK, Header, Class, ClassOf, JsonBodyApis,
                WithdrawApis, QueryApis, TradeApis, OpenOrderApis, OrderApis,
                AccountApis, HistoryApis, BankApis, TransferApis
  <2> QED
    BY <1>3, <2>1 DEF Describe, Http!Next, Http!Caller
<1>4. CASE Send
  BY <1>4 DEF Send, Http!Next, Http!Caller
<1>5. CASE Receive
  BY <1>5 DEF Receive, Http!Next, Http!Transfer
<1>6. CASE Return
  BY <1>6 DEF Return, Http!Next, Http!Transfer
<1>7. ASSUME NEW o \in Obj, Drop(o) PROVE Http!Next
  BY <1>7 DEF Drop, Http!Next, Http!Caller
<1>8. CASE Free
  BY <1>8 DEF Free, Http!Next, Http!Caller
<1>9. CASE UNCHANGED vars
  BY <1>9, <1>h DEF vars
<1> QED
  BY <1>h, <1>1, <1>2, <1>3, <1>4, <1>5, <1>6, <1>7, <1>8, <1>9 DEF Next

(* A client only does what its http context offers, so every theorem about *)
(* the context holds of the client's.                                      *)
THEOREM HttpDiscipline == Spec => UsesHttp
<1> DEFINE Inv == api \in Apis \cup {"none"} /\ requests \in 0..MaxRequests /\ StageOK
<1>1. Init => Http!Init /\ Inv
  BY ApiAssumption DEF Init, StageOK, Http!Init
<1>2. Inv /\ [Next]_vars => Inv'
  <2> SUFFICES ASSUME Inv, [Next]_vars PROVE Inv'
    OBVIOUS
  <2> USE ApiAssumption DEF StageOK
  <2>1. ASSUME NEW a \in Apis, Call(a) PROVE Inv'
    <3>1. a \in PublicApis \cup PrivateApis /\ a # "none"
      BY DEF PublicApis, PrivateApis, QueryApis, TradeApis, WithdrawApis,
             OpenOrderApis, OrderApis, AccountApis, HistoryApis, BankApis,
             TransferApis
    <3> QED
      BY <2>1, <3>1 DEF Call, http
  <2>2. CASE Sign
    BY <2>2 DEF Sign, Http!AddHeader
  <2>3. CASE Describe
    BY <2>3 DEF Describe, Http!AddHeader
  <2>4. CASE Send
    BY <2>4 DEF Send, Http!Request
  <2>5. CASE Receive
    BY <2>5 DEF Receive, Http!Partial, Http!Malformed, Http!EndDocument,
                Http!EndNull, Http!OnResponse
  <2>6. CASE Return
    BY <2>6 DEF Return, Http!Fail, Http!Succeed
  <2>7. ASSUME NEW o \in Obj, Drop(o) PROVE Inv'
    BY <2>7 DEF Drop, Http!Release
  <2>8. CASE Free
    BY <2>8 DEF Free, Http!Cleanup
  <2>9. CASE UNCHANGED vars
    BY <2>9 DEF vars, http
  <2> QED
    BY <2>1, <2>2, <2>3, <2>4, <2>5, <2>6, <2>7, <2>8, <2>9 DEF Next
<1>3. Inv /\ [Next]_vars => [Http!Next]_Http!vars
  BY HttpStep
<1> QED
  BY <1>1, <1>2, <1>3, PTL DEF Spec, UsesHttp, Http!Spec

(* A behaviour of the client is one of the context, as the theorems about  *)
(* the context see it.                                                     *)
LEMMA HttpBehaviour == Spec => HttpP!Spec
<1>1. Http!Init => HttpP!Init
  BY DEF Http!Init, HttpP!Init
<1>2. [Http!Next]_Http!vars => [HttpP!Next]_HttpP!vars
  BY DEF Http!Next, HttpP!Next, Http!vars, HttpP!vars,
     Http!Caller, HttpP!Caller, Http!Transfer, HttpP!Transfer,
     Http!AddHeader, HttpP!AddHeader, Http!ClearHeaders, HttpP!ClearHeaders,
     Http!NotImplemented, HttpP!NotImplemented, Http!Request, HttpP!Request,
     Http!Release, HttpP!Release, Http!Cleanup, HttpP!Cleanup,
     Http!Clear, HttpP!Clear, Http!Put, HttpP!Put,
     Http!OnResponse, HttpP!OnResponse, Http!Partial, HttpP!Partial,
     Http!Malformed, HttpP!Malformed, Http!EndDocument, HttpP!EndDocument,
     Http!EndNull, HttpP!EndNull, Http!Fail, HttpP!Fail,
     Http!Succeed, HttpP!Succeed
<1> QED
  BY <1>1, <1>2, HttpDiscipline, PTL DEF UsesHttp, Http!Spec, HttpP!Spec

LEMMA ContextAssumption == HttpP!HttpAssumption
BY ApiAssumption DEF HttpP!HttpAssumption

(* The client's documents are never freed under its callers. *)
THEOREM ClientNoUseAfterFree == Spec => []Http!OwnersCounted
<1>1. HttpP!Spec => []HttpP!OwnersCounted
  BY ContextAssumption, HttpP!NoUseAfterFree
<1>2. HttpP!OwnersCounted => Http!OwnersCounted
  BY DEF Http!OwnersCounted, HttpP!OwnersCounted, Http!Owners, HttpP!Owners,
         Http!One, HttpP!One
<1> QED
  BY <1>1, <1>2, HttpBehaviour, PTL

(* The promise of JsonExchange reaches the callers of the API functions:   *)
(* what a call hands out was parsed from the bytes of that call's own      *)
(* response and stays what it is while the caller has it.                  *)
THEOREM ClientImplementsExchange == Spec => Http!ImplementsExchange
<1>1. HttpP!Spec => HttpP!ImplementsExchange
  BY ContextAssumption, HttpP!Refinement
<1>2. HttpP!Exchange!Init => Http!Exchange!Init
  BY DEF HttpP!Exchange!Init, Http!Exchange!Init
<1>3. [HttpP!Exchange!Next]_HttpP!Exchange!vars => [Http!Exchange!Next]_Http!Exchange!vars
  BY DEF HttpP!Exchange!Next, Http!Exchange!Next, HttpP!Exchange!vars, Http!Exchange!vars,
     HttpP!Exchange!Ask, Http!Exchange!Ask, HttpP!Exchange!Answer, Http!Exchange!Answer,
     HttpP!Exchange!NoAnswer, Http!Exchange!NoAnswer, HttpP!Exchange!Drop, Http!Exchange!Drop,
     HttpP!Exchange!Owned, Http!Exchange!Owned
<1> QED
  BY <1>1, <1>2, <1>3, HttpBehaviour, PTL
     DEF HttpP!ImplementsExchange, Http!ImplementsExchange, HttpP!Exchange!Spec, Http!Exchange!Spec

(* What the last call returned is a reference of the caller's until it is  *)
(* put, and only a call that returned 0 leaves one: update_balance asserts *)
(* as much.                                                                *)
THEOREM OutOwned == Spec => []OutIsOwned
<1> DEFINE Inv == out \in Obj => rc = "ok" /\ out \in held
<1>1. Init => Inv
  BY ApiAssumption DEF Init
<1>2. Inv /\ [Next]_vars => Inv'
  <2> SUFFICES ASSUME Inv, [Next]_vars PROVE Inv'
    OBVIOUS
  <2>1. ASSUME NEW a \in Apis, Call(a) PROVE Inv'
    BY <2>1 DEF Call, http
  <2>2. CASE Sign
    BY <2>2 DEF Sign, Http!AddHeader
  <2>3. CASE Describe
    BY <2>3 DEF Describe, Http!AddHeader
  <2>4. CASE Send
    BY <2>4 DEF Send, Http!Request
  <2>5. CASE Receive
    BY <2>5 DEF Receive, Http!Partial, Http!Malformed, Http!EndDocument,
                Http!EndNull, Http!OnResponse
  <2>6. CASE Return
    BY <2>6, ApiAssumption DEF Return, Http!Fail, Http!Succeed
  <2>7. ASSUME NEW o \in Obj, Drop(o) PROVE Inv'
    BY <2>7, ApiAssumption DEF Drop, Http!Release
  <2>8. CASE Free
    BY <2>8 DEF Free, Http!Cleanup
  <2>9. CASE UNCHANGED vars
    BY <2>9 DEF vars, http
  <2> QED
    BY <2>1, <2>2, <2>3, <2>4, <2>5, <2>6, <2>7, <2>8, <2>9 DEF Next
<1>3. HttpP!Spec => [](HttpP!TypeOK /\ HttpP!OwnersCounted)
  <2>1. HttpP!Spec => []HttpP!TypeOK
    BY ContextAssumption, HttpP!TypeCorrect
  <2>2. HttpP!Spec => []HttpP!OwnersCounted
    BY ContextAssumption, HttpP!NoUseAfterFree
  <2> QED
    BY <2>1, <2>2, PTL
<1>4. Inv /\ HttpP!TypeOK /\ HttpP!OwnersCounted => OutIsOwned
  <2> SUFFICES ASSUME Inv, HttpP!TypeOK, HttpP!OwnersCounted, out \in Obj
               PROVE  rc = "ok" /\ out \in held /\ refs[out] > 0
    BY DEF OutIsOwned
  <2>1. refs[out] \in Nat /\ refs[out] >= HttpP!Owners(out)
    BY DEF HttpP!TypeOK, HttpP!OwnersCounted
  <2>2. HttpP!Owners(out) \in Nat /\ HttpP!Owners(out) >= 1
    BY DEF HttpP!Owners, HttpP!One
  <2> QED
    BY <2>1, <2>2
<1> QED
  BY <1>1, <1>2, <1>3, <1>4, HttpBehaviour, PTL DEF Spec

(* The document a call leaves in *p_jresponse was parsed from the response *)
(* to that call's own request, whatever broken, empty or repeated          *)
(* responses came before, until the next call is made.                     *)
THEOREM OutAnswersOwnRequest == Spec => [](stage = "idle" /\ out \in Obj => doc[out] = {requests})
<1> DEFINE Inv == stage = "idle" /\ out \in Obj => doc[out] = {requests}
<1>1. Init => Inv
  BY ApiAssumption DEF Init
<1>2. Inv /\ HttpP!OneResponse /\ [Next]_vars => Inv'
  <2> SUFFICES ASSUME Inv, HttpP!OneResponse, [Next]_vars PROVE Inv'
    OBVIOUS
  <2>1. ASSUME NEW a \in Apis, Call(a) PROVE Inv'
    BY <2>1 DEF Call
  <2>2. CASE Sign
    BY <2>2 DEF Sign
  <2>3. CASE Describe
    BY <2>3 DEF Describe
  <2>4. CASE Send
    BY <2>4 DEF Send
  <2>5. CASE Receive
    BY <2>5 DEF Receive
  <2>6. CASE Return
    <3>1. /\ doc' = doc /\ requests' = requests
          /\ out' = IF err_code' = "ok" THEN jresponse ELSE NoObj
      BY <2>6 DEF Return, Http!Fail, Http!Succeed
    <3> QED
      BY <3>1, ApiAssumption DEF HttpP!OneResponse
  <2>7. ASSUME NEW o \in Obj, Drop(o) PROVE Inv'
    BY <2>7, ApiAssumption DEF Drop, Http!Release
  <2>8. CASE Free
    BY <2>8 DEF Free, Http!Cleanup
  <2>9. CASE UNCHANGED vars
    BY <2>9 DEF vars, http
  <2> QED
    BY <2>1, <2>2, <2>3, <2>4, <2>5, <2>6, <2>7, <2>8, <2>9 DEF Next
<1>3. HttpP!Spec => []HttpP!OneResponse
  BY ContextAssumption, HttpP!ResponsesApart
<1> QED
  BY <1>1, <1>2, <1>3, HttpBehaviour, PTL DEF Spec

(* What appending to the header list adds to it. *)
LEMMA ListedAppend ==
  ASSUME NEW h, headers \in Seq(Header), h \in Header,
         headers' = Append(headers, h)
  PROVE  headers' \in Seq(Header) /\ Listed' = Listed \cup {h}
<1>1. headers' \in Seq(Header) /\ Len(headers') = Len(headers) + 1
  OBVIOUS
<1>2. \A i \in 1..Len(headers) : headers'[i] = headers[i]
  OBVIOUS
<1>3. headers'[Len(headers) + 1] = h
  OBVIOUS
<1>4. DOMAIN headers = 1..Len(headers) /\ Len(headers) \in Nat
      /\ DOMAIN headers' = 1..(Len(headers) + 1)
  BY <1>1
<1> QED
  BY <1>2, <1>3, <1>4 DEF Listed

(* What is on the list agrees with the call and with the last result.      *)
THEOREM HeadersInvariance == Spec => []HeadersInv
<1>1. Init => HeadersInv
  BY ApiAssumption
     DEF Init, Http!Init, HeadersInv, StageOK, HeadersForgotten,
         OwnHeadersAfterSuccess
<1>2. HeadersInv /\ [Next]_vars => HeadersInv'
  <2> SUFFICES ASSUME HeadersInv, [Next]_vars PROVE HeadersInv'
    OBVIOUS
  <2>0. api \in Apis \cup {"none"} /\ requests \in 0..MaxRequests
        /\ headers \in Seq(Header)
    BY DEF HeadersInv
  <2> USE ApiAssumption DEF HeadersInv, StageOK, HeadersForgotten,
          OwnHeadersAfterSuccess
  <2>1. ASSUME NEW a \in Apis, Call(a) PROVE HeadersInv'
    <3>1. a \in PublicApis \cup PrivateApis /\ a # "none"
      BY DEF PublicApis, PrivateApis, QueryApis, TradeApis, WithdrawApis,
             OpenOrderApis, OrderApis, AccountApis, HistoryApis, BankApis,
             TransferApis
    <3>2. rc' = "ok" => Listed' = {}
      BY <2>1 DEF Call, http, Listed
    <3> QED
      BY <2>1, <3>1, <3>2 DEF Call, http
  <2>2. CASE Sign
    <3> DEFINE h == [kind |-> "auth", class |-> ClassOf(api), request |-> Current]
    <3>c. Current = requests + 1 /\ Current' = Current /\ Current \in 1..(MaxRequests + 1)
      BY <2>2, <2>0 DEF Sign, Current, Http!AddHeader
    <3>1. h \in Header
      BY <2>2, <3>c DEF Sign, Header, Class, ClassOf, PrivateApis
    <3>2. headers' = Append(headers, h)
      BY <2>2 DEF Sign, Http!AddHeader
    <3>3. headers' \in Seq(Header) /\ Listed' = Listed \cup {h}
      BY <3>1, <3>2, <2>0, ListedAppend
    <3>4. h.class = ClassOf(api) /\ h.request = Current
      OBVIOUS
    <3> HIDE DEF h
    <3> QED
      BY <2>2, <3>c, <3>3, <3>4 DEF Sign, Http!AddHeader
  <2>3. CASE Describe
    <3> DEFINE h == [kind |-> "content", class |-> ClassOf(api), request |-> Current]
    <3>0. api \in PrivateApis
      BY <2>3 DEF Describe, JsonBodyApis, PrivateApis, WithdrawApis,
                     BankApis, TransferApis
    <3>c. Current = requests + 1 /\ Current' = Current /\ Current \in 1..(MaxRequests + 1)
      BY <2>3, <2>0 DEF Describe, Current, Http!AddHeader
    <3>1. h \in Header
      BY <3>0, <3>c DEF Header, Class, ClassOf, PrivateApis
    <3>2. headers' = Append(headers, h)
      BY <2>3 DEF Describe, Http!AddHeader
    <3>3. headers' \in Seq(Header) /\ Listed' = Listed \cup {h}
      BY <3>1, <3>2, <2>0, ListedAppend
    <3>4. h.class = ClassOf(api) /\ h.request = Current
      OBVIOUS
    <3> HIDE DEF h
    <3> QED
      BY <2>3, <3>0, <3>c, <3>3, <3>4 DEF Describe, Http!AddHeader
  <2>4. CASE Send
    <3>1. Current' = Current /\ requests' \in 0..MaxRequests
      BY <2>4, <2>0 DEF Send, Current, Http!Request
    <3> QED
      BY <2>4, <3>1 DEF Send, Http!Request, Listed
  <2>5. CASE Receive
    BY <2>5 DEF Receive, Http!Partial, Http!Malformed, Http!EndDocument,
                Http!EndNull, Http!OnResponse, Listed, Current
  <2>6. CASE Return
    <3>1. stage' = "idle" /\ api' = "none" /\ requests' = requests /\ rc' = err_code'
      BY <2>6 DEF Return, Http!Fail, Http!Succeed
    <3>2. CASE Http!Fail
      BY <3>1, <3>2 DEF Http!Fail
    <3>3. CASE Http!Succeed
      <4>1. headers' = <<>> /\ phase' = "idle"
        BY <3>3 DEF Http!Succeed
      <4>2. headers' \in Seq(Header)
        BY <4>1
      <4> QED
        BY <3>1, <4>1, <4>2
    <3> QED
      BY <2>6, <3>2, <3>3 DEF Return
  <2>7. ASSUME NEW o \in Obj, Drop(o) PROVE HeadersInv'
    BY <2>7 DEF Drop, Http!Release, Listed
  <2>8. CASE Free
    BY <2>8 DEF Free, Http!Cleanup, Listed
  <2>9. CASE UNCHANGED vars
    BY <2>9 DEF vars, http, Listed, Current
  <2> QED
    BY <2>1, <2>2, <2>3, <2>4, <2>5, <2>6, <2>7, <2>8, <2>9 DEF Next
<1> QED
  BY <1>1, <1>2, PTL DEF Spec

(* After a call that succeeded, a request carries only its own headers:    *)
(* keys of other classes, and stale triples, follow failures alone.        *)
THEOREM OwnHeaders == Spec => []OwnHeadersAfterSuccess
<1>1. HeadersInv => OwnHeadersAfterSuccess
  BY DEF HeadersInv
<1> QED
  BY <1>1, HeadersInvariance, PTL

-----------------------------------------------------------------------------
(* The triple at i was made for the running call, those before it for      *)
(* earlier ones.                                                           *)
OwnTriple(i) ==
  /\ headers[i] = [kind |-> "auth", class |-> ClassOf(api), request |-> Current]
  /\ \A j \in 1..i-1 : headers[j].request < Current

Signed ==
  \E i \in DOMAIN headers :
    /\ OwnTriple(i)
    /\ \A j \in i+1..Len(headers) :
         /\ headers[j].kind = "content" /\ headers[j].request = Current
         /\ api \in JsonBodyApis

(* Up to the signature every header is of an earlier request. *)
Newest == IF stage \in {"describe", "ready"} THEN requests + 1 ELSE requests

SignedInv ==
  /\ \A i \in DOMAIN headers : headers[i].request <= Newest
  /\ stage = "describe" => Len(headers) > 0 /\ OwnTriple(Len(headers))
  /\ stage \in {"ready", "waiting"} /\ api \in PrivateApis => Signed

LEMMA ApisApart == PublicApis \cap PrivateApis = {}
BY DEF PublicApis, PrivateApis, QueryApis, TradeApis, WithdrawApis, OpenOrderApis,
       OrderApis, AccountApis, HistoryApis, BankApis, TransferApis

(* As long as list and call stay the same, so does what is signed.         *)
LEMMA SignedKept ==
  ASSUME UNCHANGED <<headers, api, Current>>
  PROVE  Signed' = Signed /\ \A i : OwnTriple(i)' = OwnTriple(i)
BY DEF Signed, OwnTriple

LEMMA SignedStep ==
  ASSUME HeadersInv, SignedInv, [Next]_vars
  PROVE  SignedInv'
<1>0. /\ requests \in Nat /\ headers \in Seq(Header) /\ Len(headers) \in Nat
      /\ DOMAIN headers = 1..Len(headers)
  BY ApiAssumption DEF HeadersInv
<1>n. \A i \in DOMAIN headers : headers[i].request \in Nat
  <2>1. \A i \in DOMAIN headers : headers[i] \in Header
    BY <1>0
  <2> QED
    BY <2>1, ApiAssumption DEF Header
<1>1. ASSUME NEW a \in Apis, Call(a) PROVE SignedInv'
  <2>1. stage' \in {"ready", "sign"} /\ (stage' = "ready" => api' \in PublicApis)
        /\ stage = "idle" /\ UNCHANGED <<headers, requests>>
    BY <1>1 DEF Call, http
  <2>2. \A i \in DOMAIN headers : headers[i].request <= requests
    BY <2>1 DEF SignedInv, Newest
  <2>3. \A i \in DOMAIN headers : headers[i].request <= Newest'
    BY <1>0, <1>n, <2>1, <2>2 DEF Newest
  <2> QED
    BY <2>1, <2>3, ApisApart DEF SignedInv
<1>2. CASE Sign
  <2> DEFINE h == [kind |-> "auth", class |-> ClassOf(api), request |-> Current]
  <2>0. PICK n \in Nat : n = Len(headers) + 1
    BY <1>0
  <2>1. /\ headers' = Append(headers, h) /\ stage = "sign"
        /\ stage' \in {"describe", "ready"} /\ UNCHANGED <<requests, api>>
    BY <1>2 DEF Sign, Http!AddHeader
  <2>c. Current = requests + 1 /\ Current' = Current /\ Newest = requests
        /\ Newest' = requests + 1
    BY <2>1 DEF Current, Newest
  <2>2. h.request = requests + 1
    BY <2>c
  <2>r. h = [kind |-> "auth", class |-> ClassOf(api), request |-> Current]
    OBVIOUS
  <2> HIDE DEF h
  <2>3. /\ Len(headers') = n /\ DOMAIN headers' = 1..n /\ n \in Nat
        /\ headers'[n] = h
        /\ \A i \in 1..n-1 : headers'[i] = headers[i]
    BY <1>0, <2>0, <2>1
  <2>e. \A i \in 1..n-1 : headers'[i].request < requests + 1
    <3>1. \A i \in 1..n-1 : headers[i].request <= requests /\ headers[i].request \in Nat
      BY <1>0, <1>n, <2>0, <2>c DEF SignedInv
    <3> QED
      BY <1>0, <2>3, <3>1
  <2>4. \A i \in 1..n : headers'[i].request <= requests + 1
    <3>1. ASSUME NEW i \in 1..n PROVE headers'[i].request <= requests + 1
      <4>1. CASE i = n
        BY <1>0, <2>2, <2>3, <4>1
      <4>2. CASE i # n
        <5>1. i \in 1..n-1
          BY <2>0, <4>2
        <5>2. headers'[i].request = headers[i].request /\ headers[i].request \in Nat
          BY <1>0, <1>n, <2>0, <2>3, <5>1
        <5> QED
          BY <1>0, <2>e, <5>1, <5>2
      <4> QED
        BY <4>1, <4>2
    <3> QED
      BY <3>1
  <2>5. OwnTriple(n)'
    BY <2>1, <2>c, <2>r, <2>3, <2>e DEF OwnTriple
  <2>6. Signed'
    <3>1. n \in DOMAIN headers' /\ n+1..Len(headers') = {}
      BY <1>0, <2>0, <2>3
    <3> QED
      BY <2>5, <3>1 DEF Signed
  <2>7. Len(headers') > 0
    BY <1>0, <2>0, <2>3
  <2> QED
    BY <2>1, <2>c, <2>3, <2>4, <2>5, <2>6, <2>7 DEF SignedInv
<1>3. CASE Describe
  <2> DEFINE h == [kind |-> "content", class |-> ClassOf(api), request |-> Current]
  <2>0. PICK n \in Nat : n = Len(headers)
    BY <1>0
  <2>1. /\ headers' = Append(headers, h) /\ stage = "describe" /\ stage' = "ready"
        /\ UNCHANGED <<requests, api>>
    BY <1>3 DEF Describe, Http!AddHeader
  <2>c. Current = requests + 1 /\ Current' = Current /\ Newest = requests + 1
        /\ Newest' = requests + 1
    BY <2>1 DEF Current, Newest
  <2>2. h.kind = "content" /\ h.request = Current
    OBVIOUS
  <2> HIDE DEF h
  <2>3. /\ Len(headers') = n + 1 /\ DOMAIN headers' = 1..n + 1
        /\ headers'[n + 1] = h
        /\ \A i \in 1..n : headers'[i] = headers[i]
    BY <1>0, <2>0, <2>1
  <2>4. \A i \in 1..n + 1 : headers'[i].request <= requests + 1
    <3>1. \A i \in 1..n : headers[i].request <= requests + 1
      BY <1>0, <2>0, <2>c DEF SignedInv
    <3> QED
      BY <1>0, <2>0, <2>2, <2>3, <2>c, <3>1
  <2>5. n > 0 /\ OwnTriple(n)
    BY <2>0, <2>1 DEF SignedInv
  <2>6. n \in 1..n /\ \A j \in 1..n-1 : j \in 1..n
    BY <1>0, <2>0, <2>5
  <2>7. OwnTriple(n)'
    BY <2>1, <2>c, <2>3, <2>5, <2>6 DEF OwnTriple
  <2>8. api' \in JsonBodyApis
    BY <2>1 DEF HeadersInv, StageOK
  <2>9. Signed'
    <3>1. n \in DOMAIN headers'
      BY <1>0, <2>0, <2>3, <2>5
    <3>2. \A j \in n+1..Len(headers)' :
            /\ headers[j]'.kind = "content" /\ headers[j]'.request = Current'
            /\ api' \in JsonBodyApis
      BY <1>0, <2>0, <2>c, <2>2, <2>3, <2>8
    <3> QED
      BY <2>7, <3>1, <3>2 DEF Signed
  <2> QED
    BY <2>0, <2>1, <2>c, <2>3, <2>4, <2>9 DEF SignedInv
<1>4. CASE Send
  <2>1. UNCHANGED <<headers, api>> /\ stage = "ready" /\ stage' = "waiting"
        /\ requests' = requests + 1
    BY <1>4 DEF Send, Http!Request
  <2>2. Current' = Current /\ Newest' = Newest
    BY <2>1 DEF Current, Newest
  <2> QED
    BY <2>1, <2>2, SignedKept DEF SignedInv
<1>5. ASSUME UNCHANGED <<headers, requests, api, stage>> PROVE SignedInv'
  <2>1. Current' = Current /\ Newest' = Newest
    BY <1>5 DEF Current, Newest
  <2> QED
    BY <1>5, <2>1, SignedKept DEF SignedInv
<1>6. CASE Receive
  BY <1>5, <1>6 DEF Receive, Http!Partial, Http!Malformed, Http!EndDocument,
                    Http!EndNull, Http!OnResponse
<1>7. CASE Return
  <2>1. stage = "waiting" /\ stage' = "idle" /\ requests' = requests
        /\ (headers' = headers \/ headers' = <<>>)
    BY <1>7 DEF Return, Http!Fail, Http!Succeed
  <2>2. Newest' = Newest
    BY <2>1 DEF Newest
  <2> QED
    BY <2>1, <2>2 DEF SignedInv
<1>8. ASSUME NEW o \in Obj, Drop(o) PROVE SignedInv'
  BY <1>5, <1>8 DEF Drop, Http!Release
<1>9. CASE Free
  <2>1. stage' = "idle" /\ headers' = <<>>
    BY <1>9 DEF Free, Http!Cleanup
  <2> QED
    BY <2>1 DEF SignedInv
<1>10. CASE UNCHANGED vars
  BY <1>5, <1>10 DEF vars, http
<1> QED
  BY <1>1, <1>2, <1>3, <1>4, <1>6, <1>7, <1>8, <1>9, <1>10 DEF Next

(* A private request is always signed by its own call: whatever triples    *)
(* failed calls left on the list, of its class or another, the last one    *)
(* was made for this request with the key of its class.                    *)
THEOREM SignedByOwn == Spec => []SignedByOwnKey
<1>1. Init => SignedInv
  BY DEF Init, Http!Init, SignedInv
<1>2. SignedInv => SignedByOwnKey
  <2> SUFFICES ASSUME SignedInv, stage = "waiting", api \in PrivateApis
               PROVE  SignedByOwnKey
    BY DEF SignedByOwnKey
  <2>1. Current = requests /\ Signed
    BY DEF Current, SignedInv
  <2> QED
    BY <2>1 DEF SignedByOwnKey, Signed, OwnTriple
<1> QED
  BY <1>1, <1>2, SignedStep, HeadersInvariance, PTL DEF Spec
=============================================================================
