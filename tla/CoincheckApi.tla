---------------------------- MODULE CoincheckApi ----------------------------
(***************************************************************************)
(* The coincheck client (src/src/trading_agencies/coincheck.c) on top of   *)
(* the http_json_context of its agency.  Every API function does the same: *)
(* pick the credentials of its class, append the authentication headers to *)
(* whatever is on the list, send, and return the document and an error     *)
(* code.  The functions differ in their class and in whether they post a   *)
(* JSON body; URLs, parameters, the HMAC and the nonce, a reading of       *)
(* CLOCK_REALTIME that may be set back, are abstracted.  A header is known *)
(* by the call that appended it.                                           *)
(***************************************************************************)
EXTENDS Naturals, Sequences

CONSTANTS
  Apis,         \* the API functions that are called
  Obj, NoObj, MaxDocs, MaxRequests, MaxHeaders, MaxChunks

VARIABLES
  phase, headers, buf, tok, jerr, jresponse, err_code, aborted, refs, held,
  doc, requests, docs, lost,   \* agent->http, see HttpJson
  api,      \* the API function being executed, "none" between calls
  stage,    \* how far it is
  rc,       \* what the last call returned
  out       \* *p_jresponse of the last call, NULL once put

http == <<phase, headers, buf, tok, jerr, jresponse, err_code, aborted, refs,
          held, doc, requests, docs, lost>>
vars == <<http, api, stage, rc, out>>

PublicApis ==
  {"get_ticker", "get_trades", "get_order_book", "calc_rate", "get_buy_rate"}

(* The key each private function asks get_credentials for.  The functions  *)
(* that read orders, accounts and withdrawals ask for the query key.       *)
OpenOrderApis == {"get_unsettled_order_list"}
OrderApis == {"get_cancellation_status", "get_order_history"}
AccountApis ==
  {"account_get_balance", "account_get_info", "get_bank_accounts"}
HistoryApis == {"get_withdraws_history"}
QueryApis == OpenOrderApis \cup OrderApis \cup AccountApis \cup HistoryApis

TradeApis == {"new_order", "cancel_order"}

BankApis == {"bank_account_add", "bank_account_remove"}
TransferApis == {"withdraw_request", "withdraw_cancel"}
WithdrawApis == BankApis \cup TransferApis
PrivateApis == QueryApis \cup TradeApis \cup WithdrawApis

(* The functions that add Content-Type and Content-Length. *)
JsonBodyApis == {"bank_account_add", "withdraw_request"}

ASSUME ApiAssumption ==
  /\ Apis \subseteq PublicApis \cup PrivateApis
  /\ NoObj \notin Obj
  /\ MaxDocs \in Nat /\ MaxRequests \in Nat
  /\ MaxHeaders \in Nat /\ MaxChunks \in Nat

Class == {"query", "trade", "withdraw"}
ClassOf(a) ==
  CASE a \in QueryApis -> "query"
    [] a \in TradeApis -> "trade"
    [] a \in WithdrawApis -> "withdraw"

(* A key/nonce/signature triple, or the headers describing a JSON body,    *)
(* and the request they were made for.                                     *)
Header ==
  [kind : {"auth", "content"}, class : Class, request : 1..(MaxRequests + 1)]

Http == INSTANCE HttpJson

Init ==
  /\ Http!Init
  /\ api = "none"
  /\ stage = "idle"
  /\ rc = "ok"
  /\ out = NoObj

-----------------------------------------------------------------------------
(* The request of the running call: it is counted when it is sent. *)
Current == IF stage = "waiting" THEN requests ELSE requests + 1

(* An API function is entered; http->get, post or delete has not begun. *)
Call(a) ==
  /\ stage = "idle"
  /\ phase = "idle"
  /\ api' = a
  /\ stage' = IF a \in PublicApis THEN "ready" ELSE "sign"
  /\ UNCHANGED <<http, rc, out>>

(* Slip: a list that has a triple already is taken to be signed. *)
Sign_Once ==
  /\ stage = "sign"
  /\ IF headers = <<>>
     THEN Http!AddHeader([kind |-> "auth", class |-> ClassOf(api), request |-> Current])
     ELSE UNCHANGED http
  /\ stage' = IF api \in JsonBodyApis THEN "describe" ELSE "ready"
  /\ UNCHANGED <<api, rc, out>>

(* coincheck_auth_add_headers with the key of the function's class: the    *)
(* triple goes behind what is on the list already.                         *)
Sign ==
  /\ stage = "sign"
  /\ Http!AddHeader([kind |-> "auth", class |-> ClassOf(api), request |-> Current])
  /\ stage' = IF api \in JsonBodyApis THEN "describe" ELSE "ready"
  /\ UNCHANGED <<api, rc, out>>

(* The two calls of http->add_header for a JSON body. *)
Describe ==
  /\ stage = "describe"
  /\ Http!AddHeader([kind |-> "content", class |-> ClassOf(api), request |-> Current])
  /\ stage' = "ready"
  /\ UNCHANGED <<api, rc, out>>

Send ==
  /\ stage = "ready"
  /\ Http!Request
  /\ stage' = "waiting"
  /\ UNCHANGED <<api, rc, out>>

Receive ==
  /\ stage = "waiting"
  /\ \/ Http!Partial
     \/ Http!Malformed
     \/ \E o \in Obj : Http!EndDocument(o)
     \/ Http!EndNull
  /\ UNCHANGED <<api, stage, rc, out>>

(* Slips: a NULL document is no error, a document is returned whatever the *)
(* error.                                                                  *)
Return_AlwaysZero ==
  /\ stage = "waiting"
  /\ Http!Fail \/ Http!Succeed
  /\ stage' = "idle" /\ api' = "none" /\ rc' = "ok"
  /\ out' = IF err_code' = "ok" THEN jresponse ELSE NoObj
Return_AnyDocument ==
  /\ stage = "waiting"
  /\ Http!Fail \/ Http!Succeed
  /\ stage' = "idle" /\ api' = "none" /\ rc' = err_code'
  /\ out' = jresponse

(* http->get, post or delete returns, and the function with it: a NULL     *)
(* document leaves *p_jresponse alone, the callers initialise it to NULL.  *)
Return ==
  /\ stage = "waiting"
  /\ Http!Fail \/ Http!Succeed
  /\ stage' = "idle"
  /\ api' = "none"
  /\ rc' = err_code'
  /\ out' = IF err_code' = "ok" THEN jresponse ELSE NoObj

(* Slip: the document is put twice. *)
Drop_Twice(o) ==
  /\ stage = "idle"
  /\ o \in held /\ held' = held \ {o}
  /\ refs' = [refs EXCEPT ![o] = @ - 2]
  /\ out' = IF o = out THEN NoObj ELSE out
  /\ UNCHANGED <<phase, headers, buf, tok, jerr, jresponse, err_code, aborted,
                 doc, requests, docs, lost, api, stage, rc>>

(* The caller puts a document it got from this or an earlier call. *)
Drop(o) ==
  /\ stage = "idle"
  /\ Http!Release(o)
  /\ out' = IF o = out THEN NoObj ELSE out
  /\ UNCHANGED <<api, stage, rc>>

(* trading_agency_free, between calls. *)
Free ==
  /\ stage = "idle"
  /\ Http!Cleanup
  /\ UNCHANGED <<api, stage, rc, out>>

Next ==
  \/ \E a \in Apis : Call(a)
  \/ Sign
  \/ Describe
  \/ Send
  \/ Receive
  \/ Return
  \/ \E o \in Obj : Drop(o)
  \/ Free

Spec == Init /\ [][Next]_vars

-----------------------------------------------------------------------------
Listed == {headers[i] : i \in DOMAIN headers}

(* Where a call stands: it is in curl exactly while it waits, it signs     *)
(* only with a key and describes only a JSON body.                         *)
StageOK ==
  /\ stage = "idle" <=> api = "none"
  /\ stage = "waiting" <=> phase = "performing"
  /\ stage = "sign" => api \in PrivateApis
  /\ stage = "describe" => api \in JsonBodyApis

(* Least privilege, as the comments of coincheck.c have it: a request that *)
(* only queries is never sent with the trade or the withdraw key.          *)
LeastPrivilege ==
  stage = "waiting" /\ api \in QueryApis =>
    \A h \in Listed : h.class = "query"

(* What does hold: after a call that succeeded, a request carries no       *)
(* header but those of its own call, whatever failed before.               *)
OwnHeadersAfterSuccess ==
  stage # "idle" /\ rc = "ok" =>
    \A h \in Listed :
      api \in PrivateApis /\ h.class = ClassOf(api) /\ h.request = Current

(* A private request is signed by its own call: whatever calls that failed *)
(* have left on the list, the last triple on it was made for this request  *)
(* with the key of its class, what stands before it is of earlier requests *)
(* and what stands behind it describes this request's JSON body.           *)
SignedByOwnKey ==
  stage = "waiting" /\ api \in PrivateApis =>
    \E i \in DOMAIN headers :
      /\ headers[i] = [kind |-> "auth", class |-> ClassOf(api), request |-> requests]
      /\ \A j \in 1..i-1 : headers[j].request < requests
      /\ \A j \in i+1..Len(headers) :
           /\ headers[j].kind = "content" /\ headers[j].request = requests
           /\ api \in JsonBodyApis

(* The caller's pointer: it is set only by a call that returned 0, which   *)
(* update_balance asserts, and it is a reference the caller owns.          *)
OutIsOwned == out \in Obj => rc = "ok" /\ out \in held /\ refs[out] > 0

(* The list of headers is empty between calls unless the last one failed.  *)
HeadersForgotten == stage = "idle" /\ rc = "ok" => headers = <<>>

(* The inductive invariant of the two. *)
HeadersInv ==
  /\ api \in Apis \cup {"none"} /\ requests \in 0..MaxRequests /\ headers \in Seq(Header)
  /\ StageOK
  /\ HeadersForgotten
  /\ OwnHeadersAfterSuccess

(* A client uses its context only as HttpJson allows. *)
UsesHttp == Http!Spec
=============================================================================
