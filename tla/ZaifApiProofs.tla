---------------------------- MODULE ZaifApiProofs ----------------------------
(***************************************************************************)
(* Theorems about ZaifApi for every set of API functions, objects and      *)
(* every bound.                                                            *)
(***************************************************************************)
EXTENDS ZaifApi, TLAPS

HttpP == INSTANCE HttpJsonProofs

(* The fields a function starts with and those it signs are fields.        *)
LEMMA FieldsTyped ==
  ASSUME NEW a \in PrivateApis, NEW n \in 1..(MaxRequests + 1)
  PROVE  [api |-> a, request |-> n, optional |-> {}] \in Fields
BY DEF Fields

LEMMA GivenTyped ==
  ASSUME NEW f \in Fields, NEW given \in SUBSET Optional(f.api)
  PROVE  /\ [f EXCEPT !.optional = given] \in Fields
         /\ [f EXCEPT !.optional = given].api = f.api
         /\ [f EXCEPT !.optional = given].request = f.request
<1>1. given \in SUBSET Field
  BY DEF Fields, Optional, Field, PrivateApis, InfoApis, OrderApis
<1> QED
  BY <1>1 DEF Fields

LEMMA PairTyped ==
  ASSUME NEW a, NEW f \in Fields
  PROVE  [class |-> ClassOf(a), signs |-> f] \in Header
BY DEF Header, Class, ClassOf

LEMMA ApisApart == \A a \in PublicApis \cup PrivateApis : a # "none"
BY DEF PublicApis, PrivateApis, InfoApis, OrderApis

(* What appending to the header list does to it. *)
LEMMA Appended ==
  ASSUME NEW h \in Header, headers \in Seq(Header),
         headers' = Append(headers, h)
  PROVE  /\ headers' \in Seq(Header) /\ headers' # <<>>
         /\ headers'[Len(headers')] = h
         /\ headers = <<>> => Listed' = {h}
<1>1. headers' \in Seq(Header) /\ Len(headers') = Len(headers) + 1
      /\ Len(headers) \in Nat
  OBVIOUS
<1>2. headers'[Len(headers) + 1] = h
  OBVIOUS
<1>3. ASSUME headers = <<>> PROVE Listed' = {h}
  <2>1. DOMAIN headers' = {1} /\ headers'[1] = h
    BY <1>1, <1>2, <1>3
  <2> QED
    BY <2>1 DEF Listed
<1> QED
  BY <1>1, <1>2, <1>3

-----------------------------------------------------------------------------
LEMMA CallStep ==
  ASSUME CallInv, NEW a \in Apis, Call(a) PROVE CallInv'
<1>1. a # "none" /\ a \in PublicApis \cup PrivateApis
  BY ApiAssumption, ApisApart
<1>2. headers' = headers /\ phase' = "idle" /\ requests' = requests /\ rc' = rc
      /\ api' = a /\ stage = "idle" /\ phase = "idle"
  BY DEF Call, http
<1>3. Listed' = Listed
  BY <1>2 DEF Listed
<1>4. rc = "ok" => Listed = {}
  BY <1>2 DEF CallInv, Listed
<1>5. CASE a \in PublicApis
  <2>1. stage' = "ready" /\ post_fields' = post_fields /\ a \notin PrivateApis
    BY <1>5 DEF Call, PublicApis, PrivateApis, InfoApis, OrderApis
  <2>2. post_fields = NoFields
    BY <1>2, ApiAssumption, ApisApart DEF CallInv, StageOK, FieldsFreed
  <2> QED
    BY <1>1, <1>2, <1>3, <1>4, <2>1, <2>2
       DEF CallInv, StageOK, Stages, FieldsFreed, OwnPairAfterSuccess
<1>6. CASE a \notin PublicApis
  <2>1. stage' = "fields" /\ post_fields' = [api |-> a, request |-> Current, optional |-> {}]
    BY <1>6 DEF Call, init_post_fields
  <2>n. Current \in 1..(MaxRequests + 1) /\ Current' = Current
    BY <1>2, <2>1, ApiAssumption DEF CallInv, Current
  <2>2. /\ post_fields' \in Fields /\ post_fields'.api = a
        /\ post_fields'.optional = {} /\ post_fields'.request = Current'
    BY <1>1, <1>6, <2>1, <2>n, FieldsTyped
  <2> QED
    BY <1>1, <1>2, <1>3, <1>4, <1>6, <2>1, <2>2
       DEF CallInv, StageOK, Stages, FieldsFreed, OwnPairAfterSuccess
<1> QED
  BY <1>5, <1>6

LEMMA AddFieldsStep ==
  ASSUME CallInv, NEW given \in SUBSET Optional(api), AddFields(given)
  PROVE  CallInv'
<1>1. /\ api \in PrivateApis /\ post_fields \in Fields /\ post_fields.api = api
      /\ post_fields.request = Current
  BY DEF CallInv, StageOK, FieldsFreed, AddFields
<1>2. /\ post_fields' \in Fields /\ post_fields'.api = api
      /\ post_fields'.request = Current
  BY <1>1, GivenTyped DEF AddFields
<1>3. headers' = headers /\ phase' = phase /\ requests' = requests /\ rc' = rc
      /\ api' = api /\ stage = "fields" /\ stage' = "sign"
  BY DEF AddFields, http
<1>c. Current' = Current
  BY <1>3 DEF Current
<1>4. Listed' = Listed /\ (rc = "ok" => Listed = {})
  BY <1>3 DEF Listed, CallInv
<1> QED
  BY <1>1, <1>2, <1>3, <1>c, <1>4
     DEF CallInv, StageOK, Stages, FieldsFreed, OwnPairAfterSuccess

LEMMA SignStep ==
  ASSUME CallInv, Sign PROVE CallInv'
<1> DEFINE h == [class |-> ClassOf(api), signs |-> post_fields]
<1>1. api \in PrivateApis /\ post_fields \in Fields /\ api # "none"
  BY ApisApart DEF CallInv, StageOK, FieldsFreed, Sign
<1>2. h \in Header /\ h.class = ClassOf(api) /\ h.signs = post_fields
  BY <1>1, PairTyped
<1>3. headers' = Append(headers, h) /\ phase' = phase /\ requests' = requests
      /\ rc' = rc /\ api' = api /\ stage = "sign" /\ stage' = "ready"
      /\ post_fields' = post_fields
  BY DEF Sign, Http!AddHeader
<1>4. h = [class |-> ClassOf(api), signs |-> post_fields]
  OBVIOUS
<1> HIDE DEF h
<1>5. /\ headers' \in Seq(Header) /\ headers' # <<>>
      /\ headers'[Len(headers')] = h
      /\ headers = <<>> => Listed' = {h}
  BY <1>2, <1>3, Appended DEF CallInv
<1>c. Current' = Current
  BY <1>3 DEF Current
<1>6. rc = "ok" => Listed' = {h}
  BY <1>3, <1>5 DEF CallInv
<1>7. OwnPairAfterSuccess'
  BY <1>2, <1>3, <1>6 DEF OwnPairAfterSuccess
<1> QED
  BY <1>1, <1>3, <1>c, <1>4, <1>5, <1>7
     DEF CallInv, StageOK, Stages, FieldsFreed

(* Sending and receiving leave the list and the fields as they are. *)
LEMMA SendStep ==
  ASSUME CallInv, Send \/ Receive PROVE CallInv'
<1>0. stage = "waiting" <=> phase = "performing"
  BY DEF CallInv, StageOK
<1>1. headers' = headers /\ Current' = Current /\ rc' = rc /\ api' = api
      /\ requests' \in 0..MaxRequests
      /\ post_fields' = post_fields /\ stage \in {"ready", "waiting"}
      /\ stage' = "waiting" /\ phase' = "performing"
  <2>1. CASE Send
    BY <2>1, ApiAssumption DEF Send, Http!Request, CallInv, Current
  <2>2. CASE Receive
    <3>1. Http!OnResponse
      BY <2>2 DEF Receive, Http!Partial, Http!Malformed, Http!EndDocument,
                  Http!EndNull
    <3> QED
      BY <1>0, <2>2, <3>1 DEF Receive, Http!OnResponse, CallInv, Current
  <2> QED
    BY <2>1, <2>2
<1>2. Listed' = Listed
  BY <1>1 DEF Listed
<1> QED
  BY <1>1, <1>2
     DEF CallInv, StageOK, Stages, FieldsFreed, OwnPairAfterSuccess

LEMMA ReturnStep ==
  ASSUME CallInv, Return PROVE CallInv'
<1>1. stage' = "idle" /\ api' = "none" /\ rc' = err_code'
      /\ post_fields' = NoFields /\ requests' = requests
  BY DEF Return, Http!Fail, Http!Succeed
<1>2. phase' = "idle" /\ headers' \in {headers, <<>>}
  BY DEF Return, Http!Fail, Http!Succeed
<1>3. headers' \in Seq(Header)
  <2>1. headers \in Seq(Header) /\ <<>> \in Seq(Header)
    BY DEF CallInv
  <2> QED
    BY <1>2, <2>1
<1>5. rc' = "ok" => headers' = <<>>
  BY <1>1 DEF Return, Http!Fail, Http!Succeed
<1>4. "none" \notin PrivateApis
  BY ApisApart
<1> QED
  BY <1>1, <1>2, <1>3, <1>4, <1>5
     DEF CallInv, StageOK, Stages, FieldsFreed, OwnPairAfterSuccess

(* Steps between calls. *)
LEMMA OtherStep ==
  ASSUME CallInv, (\E o \in Obj : Drop(o)) \/ Free \/ UNCHANGED vars
  PROVE  CallInv'
<1>1. rc' = rc /\ api' = api /\ stage' = stage /\ post_fields' = post_fields
  BY DEF Drop, Free, vars
<1>2. requests' \in 0..MaxRequests /\ Current' = Current
  BY <1>1 DEF CallInv, Current, Drop, Free, vars, http, Http!Release, Http!Cleanup
<1>3. headers' \in {headers, <<>>} /\ (headers' # headers => stage = "idle")
  BY DEF Drop, Free, vars, http, Http!Release, Http!Cleanup
<1>4. phase' = "performing" <=> phase = "performing"
  BY DEF Drop, Free, vars, http, Http!Release, Http!Cleanup
<1>5. CASE headers' = headers
  BY <1>1, <1>2, <1>4, <1>5
     DEF CallInv, StageOK, Stages, FieldsFreed, OwnPairAfterSuccess, Listed
<1>6. CASE headers' # headers
  <2>1. stage = "idle" /\ headers' = <<>> /\ <<>> \in Seq(Header)
    BY <1>3, <1>6
  <2>2. api = "none" /\ api \notin PrivateApis
    BY <2>1, ApisApart DEF CallInv, StageOK
  <2> QED
    BY <1>1, <1>2, <1>4, <2>1, <2>2
       DEF CallInv, StageOK, Stages, FieldsFreed, OwnPairAfterSuccess
<1> QED
  BY <1>5, <1>6

LEMMA CallInvStep == CallInv /\ [Next]_vars => CallInv'
BY CallStep, AddFieldsStep, SignStep, SendStep, ReturnStep, OtherStep DEF Next

LEMMA CallInvInit == Init => CallInv
<1>1. ASSUME Init
      PROVE  headers = <<>> /\ phase = "idle" /\ requests \in 0..MaxRequests
             /\ "none" \notin PrivateApis
  BY <1>1, ApisApart, ApiAssumption DEF Init, Http!Init
<1> QED
  BY <1>1, ApiAssumption
     DEF Init, CallInv, StageOK, Stages, FieldsFreed, OwnPairAfterSuccess

-----------------------------------------------------------------------------
(* zaif.c: the memory libcurl reads while it sends is allocated, and the   *)
(* last pair on the list signs exactly what it holds.                      *)
THEOREM SignedBodies == Spec => []BodyIsSigned
<1>1. CallInv => BodyIsSigned
  BY DEF CallInv, FieldsFreed, BodyIsSigned, Current
<1> QED
  BY <1>1, CallInvInit, CallInvStep, PTL DEF Spec

(* After a call that succeeded a request carries only its own pair.        *)
THEOREM OwnPairs == Spec => []OwnPairAfterSuccess
<1>1. CallInv => OwnPairAfterSuccess
  BY DEF CallInv
<1> QED
  BY <1>1, CallInvInit, CallInvStep, PTL DEF Spec

(* No call, however it ends, leaves its buffer allocated.                  *)
THEOREM BuffersFreed == Spec => []FieldsFreed
<1>1. CallInv => FieldsFreed
  BY DEF CallInv
<1> QED
  BY <1>1, CallInvInit, CallInvStep, PTL DEF Spec

(* The client does only what its http context offers. *)
THEOREM HttpDiscipline == Spec => UsesHttp
<1>1. Init => Http!Init
  BY DEF Init
<1>2. CallInv /\ [Next]_vars => [Http!Next]_Http!vars
  <2> SUFFICES ASSUME CallInv, [Next]_vars PROVE [Http!Next]_Http!vars
    OBVIOUS
  <2>h. ASSUME UNCHANGED http PROVE UNCHANGED Http!vars
    BY <2>h DEF http, Http!vars
  <2>1. ASSUME NEW a \in Apis, Call(a) PROVE UNCHANGED http
    BY <2>1 DEF Call
  <2>2. ASSUME NEW given \in SUBSET Optional(api), AddFields(given)
        PROVE  UNCHANGED http
    BY <2>2 DEF AddFields
  <2>3. CASE Sign
    <3>1. post_fields \in Fields
      BY <2>3 DEF CallInv, StageOK, FieldsFreed, Sign
    <3>2. [class |-> ClassOf(api), signs |-> post_fields] \in Header
      BY <3>1, PairTyped
    <3> QED
      BY <2>3, <3>2 DEF Sign, Http!Next, Http!Caller
  <2>4. CASE Send
    BY <2>4 DEF Send, Http!Next, Http!Caller
  <2>5. CASE Receive
    BY <2>5 DEF Receive, Http!Next, Http!Transfer
  <2>6. CASE Return
    BY <2>6 DEF Return, Http!Next, Http!Transfer
  <2>7. ASSUME NEW o \in Obj, Drop(o) PROVE Http!Next
    BY <2>7 DEF Drop, Http!Next, Http!Caller
  <2>8. CASE Free
    BY <2>8 DEF Free, Http!Next, Http!Caller
  <2>9. CASE UNCHANGED vars
    BY <2>9, <2>h DEF vars
  <2> QED
    BY <2>h, <2>1, <2>2, <2>3, <2>4, <2>5, <2>6, <2>7, <2>8, <2>9 DEF Next
<1> QED
  BY <1>1, <1>2, CallInvInit, CallInvStep, PTL DEF Spec, UsesHttp, Http!Spec

(* A behaviour of the client is one of the context, as the theorems about  *)
(* the context see it.                                                     *)
LEMMA HttpBehaviour == Spec => HttpP!Spec
<1>1. Http!Init => HttpP!Init
  BY DEF Http!Init, HttpP!Init
<1>2. [Http!Next]_Http!vars => [HttpP!Next]_HttpP!vars
  BY DEF Http!Next, HttpP!Next, Http!vars, HttpP!vars,
     Http!Caller, HttpP!Caller, Http!Transfer, HttpP!Transfer,
     Http!AddHeader, HttpP!AddHeader, Http!ClearHeaders, HttpP!ClearHeaders,
     Http!NotImplemented, HttpP!NotImplemented, Http!Request, HttpP!Request,
     Http!Release, HttpP!Release, Http!Cleanup, HttpP!Cleanup,
     Http!Clear, HttpP!Clear, Http!Put, HttpP!Put,
     Http!OnResponse, HttpP!OnResponse, Http!Partial, HttpP!Partial,
     Http!Malformed, HttpP!Malformed, Http!EndDocument, HttpP!EndDocument,
     Http!EndNull, HttpP!EndNull, Http!Fail, HttpP!Fail,
     Http!Succeed, HttpP!Succeed
<1> QED
  BY <1>1, <1>2, HttpDiscipline, PTL DEF UsesHttp, Http!Spec, HttpP!Spec

LEMMA ContextAssumption == HttpP!HttpAssumption
BY ApiAssumption DEF HttpP!HttpAssumption

(* The client's documents are never freed under its callers. *)
THEOREM ClientNoUseAfterFree == Spec => []Http!OwnersCounted
<1>1. HttpP!Spec => []HttpP!OwnersCounted
  BY ContextAssumption, HttpP!NoUseAfterFree
<1>2. HttpP!OwnersCounted => Http!OwnersCounted
  BY DEF Http!OwnersCounted, HttpP!OwnersCounted, Http!Owners, HttpP!Owners,
         Http!One, HttpP!One
<1> QED
  BY <1>1, <1>2, HttpBehaviour, PTL

(* The promise of JsonExchange reaches the callers of the API functions:   *)
(* what a call hands out was parsed from the bytes of that call's own      *)
(* response and stays what it is while the caller has it.                  *)
THEOREM ClientImplementsExchange == Spec => Http!ImplementsExchange
<1>1. HttpP!Spec => HttpP!ImplementsExchange
  BY ContextAssumption, HttpP!Refinement
<1>2. HttpP!Exchange!Init => Http!Exchange!Init
  BY DEF HttpP!Exchange!Init, Http!Exchange!Init
<1>3. [HttpP!Exchange!Next]_HttpP!Exchange!vars => [Http!Exchange!Next]_Http!Exchange!vars
  BY DEF HttpP!Exchange!Next, Http!Exchange!Next, HttpP!Exchange!vars, Http!Exchange!vars,
     HttpP!Exchange!Ask, Http!Exchange!Ask, HttpP!Exchange!Answer, Http!Exchange!Answer,
     HttpP!Exchange!NoAnswer, Http!Exchange!NoAnswer, HttpP!Exchange!Drop, Http!Exchange!Drop,
     HttpP!Exchange!Owned, Http!Exchange!Owned
<1> QED
  BY <1>1, <1>2, <1>3, HttpBehaviour, PTL
     DEF HttpP!ImplementsExchange, Http!ImplementsExchange, HttpP!Exchange!Spec, Http!Exchange!Spec
=============================================================================
