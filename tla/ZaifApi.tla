------------------------------ MODULE ZaifApi ------------------------------
(***************************************************************************)
(* The zaif client (src/src/trading_agencies/zaif.c) on top of the         *)
(* http_json_context of its agency.  A private function writes its fields  *)
(* into a buffer of its own, signs the buffer, posts it - libcurl reads    *)
(* the caller's memory while it sends - and frees it.  What is signed and  *)
(* sent is known by the function, the request it was written for and the   *)
(* optional fields it has; the nonce, a reading of CLOCK_REALTIME that may *)
(* be set back, is abstracted.                                             *)
(***************************************************************************)
EXTENDS Naturals, Sequences

CONSTANTS
  Apis,         \* the API functions that are called
  NoFields,     \* no memory
  Obj, NoObj, MaxDocs, MaxRequests, MaxHeaders, MaxChunks

VARIABLES
  phase, headers, buf, tok, jerr, jresponse, err_code, aborted, refs, held,
  doc, requests, docs, lost,   \* agent->http, see HttpJson
  api,          \* the API function being executed, "none" between calls
  stage,        \* how far it is
  post_fields,  \* what its buffer holds, NoFields when no memory is allocated
  rc            \* what the last call returned

http == <<phase, headers, buf, tok, jerr, jresponse, err_code, aborted, refs,
          held, doc, requests, docs, lost>>
vars == <<http, api, stage, post_fields, rc>>

PublicApis == {"get_currency"}
InfoApis ==
  {"get_info", "get_info2", "get_personal_info", "get_id_info",
   "trade_history"}
OrderApis == {"buy", "sell"}
PrivateApis == InfoApis \cup {"active_orders", "cancel_order"} \cup OrderApis

ASSUME ApiAssumption ==
  /\ Apis \subseteq PublicApis \cup PrivateApis
  /\ NoObj \notin Obj
  /\ MaxDocs \in Nat /\ MaxRequests \in Nat
  /\ MaxHeaders \in Nat /\ MaxChunks \in Nat

(* The key a function signs with. *)
Class == {"query", "trade"}
ClassOf(a) ==
  IF a \in OrderApis \cup {"cancel_order"} THEN "trade" ELSE "query"

(* The fields a function adds or leaves out, as it is asked to; a comment  *)
(* that cannot be escaped is left out too.                                 *)
Field == {"currency_pair", "is_token", "is_token_both", "limit", "comment"}
Optional(a) ==
  CASE a = "active_orders" -> {"currency_pair", "is_token", "is_token_both"}
    [] a = "cancel_order" -> {"currency_pair", "is_token"}
    [] a \in OrderApis -> {"limit", "comment"}
    [] OTHER -> {}

Fields ==
  {f \in [api : PrivateApis, request : 1..(MaxRequests + 1), optional : SUBSET Field] :
     f.optional \subseteq Optional(f.api)}
ASSUME FieldsAssumption == NoFields \notin Fields

(* The pair of a key and the signature of some fields. *)
Header == [class : Class, signs : Fields]

Http == INSTANCE HttpJson

Init ==
  /\ Http!Init
  /\ api = "none"
  /\ stage = "idle"
  /\ post_fields = NoFields
  /\ rc = "ok"

-----------------------------------------------------------------------------
(* The request of the running call: it is counted when it is sent. *)
Current == IF stage = "waiting" THEN requests ELSE requests + 1

(* A function is entered; a private one allocates its buffer and writes    *)
(* its nonce and its name into it.                                         *)
init_post_fields(a) == [api |-> a, request |-> Current, optional |-> {}]

Call(a) ==
  /\ stage = "idle"
  /\ phase = "idle"
  /\ api' = a
  /\ IF a \in PublicApis
     THEN stage' = "ready" /\ UNCHANGED post_fields
     ELSE stage' = "fields" /\ post_fields' = init_post_fields(a)
  /\ UNCHANGED <<http, rc>>

(* auto_buffer_add_fmt and auto_buffer_push for the rest of the fields. *)
AddFields(given) ==
  /\ stage = "fields"
  /\ post_fields' = [post_fields EXCEPT !.optional = given]
  /\ stage' = "sign"
  /\ UNCHANGED <<http, api, rc>>

(* send_request as far as zaif_auth_add_headers: the pair goes behind what *)
(* is on the list already.                                                 *)
Sign ==
  /\ stage = "sign"
  /\ Http!AddHeader([class |-> ClassOf(api), signs |-> post_fields])
  /\ stage' = "ready"
  /\ UNCHANGED <<api, post_fields, rc>>

(* Slip: the buffer is freed once it has been handed to libcurl. *)
Send_Freed ==
  /\ stage = "ready"
  /\ Http!Request
  /\ stage' = "waiting"
  /\ post_fields' = NoFields
  /\ UNCHANGED <<api, rc>>

(* http->post, for get_currency http->get, up to curl_easy_perform. *)
Send ==
  /\ stage = "ready"
  /\ Http!Request
  /\ stage' = "waiting"
  /\ UNCHANGED <<api, post_fields, rc>>

Receive ==
  /\ stage = "waiting"
  /\ \/ Http!Partial
     \/ Http!Malformed
     \/ \E o \in Obj : Http!EndDocument(o)
     \/ Http!EndNull
  /\ UNCHANGED <<api, stage, post_fields, rc>>

(* Slips: the buffer is freed only when there is a document, a call always *)
(* returns 0.                                                              *)
Return_FreeLate ==
  /\ stage = "waiting"
  /\ Http!Fail \/ Http!Succeed
  /\ stage' = "idle" /\ api' = "none" /\ rc' = err_code'
  /\ post_fields' =
       IF err_code' = "ok" /\ jresponse \in Obj THEN NoFields ELSE post_fields
Return_AlwaysZero ==
  /\ stage = "waiting"
  /\ Http!Fail \/ Http!Succeed
  /\ stage' = "idle" /\ api' = "none" /\ rc' = "ok"
  /\ post_fields' = NoFields

(* http->post returns, send_request frees the buffer and the function      *)
(* returns; the auto_buffer_cleanup of the function finds it freed.        *)
Return ==
  /\ stage = "waiting"
  /\ Http!Fail \/ Http!Succeed
  /\ stage' = "idle" /\ api' = "none" /\ rc' = err_code'
  /\ post_fields' = NoFields

(* Slip: the document is put twice. *)
Drop_Twice(o) ==
  /\ stage = "idle"
  /\ o \in held /\ held' = held \ {o}
  /\ refs' = [refs EXCEPT ![o] = @ - 2]
  /\ UNCHANGED <<phase, headers, buf, tok, jerr, jresponse, err_code, aborted,
                 doc, requests, docs, lost, api, stage, post_fields, rc>>

(* The caller puts a document it got. *)
Drop(o) ==
  /\ stage = "idle"
  /\ Http!Release(o)
  /\ UNCHANGED <<api, stage, post_fields, rc>>

(* trading_agency_free, between calls. *)
Free ==
  /\ stage = "idle"
  /\ Http!Cleanup
  /\ UNCHANGED <<api, stage, post_fields, rc>>

Next ==
  \/ \E a \in Apis : Call(a)
  \/ \E given \in SUBSET Optional(api) : AddFields(given)
  \/ Sign
  \/ Send
  \/ Receive
  \/ Return
  \/ \E o \in Obj : Drop(o)
  \/ Free

Spec == Init /\ [][Next]_vars

-----------------------------------------------------------------------------
Stages == {"idle", "fields", "sign", "ready", "waiting"}

Listed == {headers[i] : i \in DOMAIN headers}

(* While libcurl sends, it reads memory that is still allocated, and the   *)
(* last signature on the list is that of just these bytes, written for     *)
(* this request, with the key of their function, whatever earlier calls    *)
(* left on the list.                                                       *)
BodyIsSigned ==
  stage = "waiting" /\ api \in PrivateApis =>
    /\ post_fields \in Fields
    /\ post_fields.api = api
    /\ post_fields.request = requests
    /\ headers # <<>>
    /\ headers[Len(headers)] = [class |-> ClassOf(api), signs |-> post_fields]

(* After a call that succeeded, a request carries no pair but its own.     *)
OwnPairAfterSuccess ==
  stage # "idle" /\ rc = "ok" =>
    \A h \in Listed : h.signs = post_fields /\ h.class = ClassOf(api)

(* However a call ends, its buffer is freed; only a running private one    *)
(* has memory.                                                             *)
FieldsFreed ==
  IF api \in PrivateApis THEN post_fields \in Fields ELSE post_fields = NoFields

(* Where a call stands. *)
StageOK ==
  /\ stage \in Stages
  /\ stage = "idle" <=> api = "none"
  /\ stage = "waiting" <=> phase = "performing"
  /\ stage \in {"fields", "sign"} => api \in PrivateApis
  /\ stage = "fields" => post_fields.optional = {}

(* The inductive invariant of the client: after a success the list is      *)
(* empty until the next signature, and from there on its last pair is the  *)
(* signature of the fields.                                                *)
CallInv ==
  /\ api \in Apis \cup {"none"} /\ requests \in 0..MaxRequests
  /\ headers \in Seq(Header)
  /\ StageOK
  /\ FieldsFreed
  /\ api \in PrivateApis =>
       /\ post_fields.api = api
       /\ post_fields.request = Current
  /\ stage \in {"idle", "fields", "sign"} /\ rc = "ok" => headers = <<>>
  /\ stage \in {"ready", "waiting"} /\ api \in PrivateApis =>
       /\ headers # <<>>
       /\ headers[Len(headers)] = [class |-> ClassOf(api), signs |-> post_fields]
  /\ OwnPairAfterSuccess

(* A client uses its context only as HttpJson allows. *)
UsesHttp == Http!Spec
=============================================================================
