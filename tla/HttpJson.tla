------------------------------ MODULE HttpJson ------------------------------
(***************************************************************************)
(* One http_json_context of src/src/json-response.c: a reusable libcurl    *)
(* handle with a header list that callers append to, a body buffer, an     *)
(* incremental json-c tokener and a reference-counted parsed document.     *)
(*                                                                         *)
(* curl_easy_perform() calls the write callback once per chunk of the      *)
(* body, so one request is three kinds of step: Request (everything up to  *)
(* curl_easy_perform), OnResponse (one chunk) and Complete (the transfer   *)
(* ends, well or not, and the function returns).  The text of headers and  *)
(* bodies is abstracted: a header is a member of Header, a chunk is known  *)
(* by what it does to the tokener, and a byte by the request it answers.   *)
(***************************************************************************)
EXTENDS Naturals, Sequences

CONSTANTS
  Header,       \* what callers append to the header list
  Obj,          \* json objects, an object with no references is free memory
  NoObj,        \* NULL
  MaxDocs,      \* bound: documents in one response
  MaxRequests,  \* bound: requests made
  MaxHeaders,   \* bound: length of the header list
  MaxChunks     \* bound: chunks in one response

ASSUME HttpAssumption ==
  /\ NoObj \notin Obj
  /\ MaxDocs \in Nat /\ MaxRequests \in Nat
  /\ MaxHeaders \in Nat /\ MaxChunks \in Nat

VARIABLES
  phase,      \* "idle", "performing" inside curl_easy_perform, "closed"
  headers,    \* http->headers
  buf,        \* response->buf, each chunk as the request it answers
  tok,        \* response->jtok, requests whose bytes form the open prefix
  jerr,       \* response->jerr
  jresponse,  \* response->jresponse
  err_code,   \* response->err_code
  aborted,    \* the write callback returned less than it was given
  refs,       \* json-c reference counts
  held,       \* references the callers own
  doc,        \* for each object, the requests whose bytes it was parsed from
  requests,   \* requests made so far, the number of the current one
  docs,       \* documents completed in the current response
  lost        \* documents overwritten by a later one of their response

vars == <<phase, headers, buf, tok, jerr, jresponse, err_code, aborted,
          refs, held, doc, requests, docs, lost>>

JErr == {"success", "continue", "error"}
CurlCode == {"ok", "failed", "not_implemented"}

One(b) == IF b THEN 1 ELSE 0

(* json_object_put of o, when there is one. *)
Put(rc, o) == IF o \in Obj THEN [rc EXCEPT ![o] = @ - 1] ELSE rc

Init ==
  /\ phase = "idle"
  /\ headers = <<>>
  /\ buf = <<>>
  /\ tok = {}
  /\ jerr = "success"
  /\ jresponse = NoObj
  /\ err_code = "ok"
  /\ aborted = FALSE
  /\ refs = [o \in Obj |-> 0]
  /\ held = {}
  /\ doc = [o \in Obj |-> {}]
  /\ requests = 0
  /\ docs = 0
  /\ lost = {}

(* Plausible slips in json_response_context_clear, for the mutation runs.  *)
Clear_KeepPointer ==
  /\ refs' = Put(refs, jresponse)
  /\ tok' = {} /\ jerr' = "success" /\ buf' = <<>>
  /\ UNCHANGED jresponse
Clear_NoPut ==
  /\ jresponse' = NoObj
  /\ tok' = {} /\ jerr' = "success" /\ buf' = <<>>
  /\ UNCHANGED refs
Clear_KeepDocument ==
  /\ tok' = {} /\ jerr' = "success" /\ buf' = <<>>
  /\ UNCHANGED <<refs, jresponse>>
Clear_KeepTokener ==
  /\ refs' = Put(refs, jresponse)
  /\ jresponse' = NoObj
  /\ jerr' = "success" /\ buf' = <<>>
  /\ UNCHANGED tok

(* json_response_context_clear: the last document is put, the tokener      *)
(* forgets its prefix, the buffer is emptied.                              *)
Clear ==
  /\ refs' = Put(refs, jresponse)
  /\ jresponse' = NoObj
  /\ tok' = {}
  /\ jerr' = "success"
  /\ buf' = <<>>

-----------------------------------------------------------------------------
(* Calls of the code that uses the context.                                *)

AddHeader(h) ==
  /\ phase = "idle"
  /\ Len(headers) < MaxHeaders
  /\ headers' = Append(headers, h)
  /\ UNCHANGED <<phase, buf, tok, jerr, jresponse, err_code, aborted, refs,
                 held, doc, requests, docs, lost>>

ClearHeaders ==
  /\ phase = "idle"
  /\ headers' = <<>>
  /\ UNCHANGED <<phase, buf, tok, jerr, jresponse, err_code, aborted, refs,
                 held, doc, requests, docs, lost>>

(* http_send with a method other than GET, POST and DELETE. *)
NotImplemented ==
  /\ phase = "idle"
  /\ err_code' = "not_implemented"
  /\ UNCHANGED <<phase, headers, buf, tok, jerr, jresponse, aborted, refs,
                 held, doc, requests, docs, lost>>

(* http_get, http_post and http_delete up to curl_easy_perform: the        *)
(* headers on the list are the headers sent.                               *)
Request ==
  /\ phase = "idle"
  /\ requests < MaxRequests
  /\ phase' = "performing"
  /\ Clear
  /\ aborted' = FALSE
  /\ requests' = requests + 1
  /\ docs' = 0
  /\ UNCHANGED <<headers, err_code, held, doc, lost>>

(* The caller drops a document it was given. *)
Release(o) ==
  /\ o \in held
  /\ held' = held \ {o}
  /\ refs' = Put(refs, o)
  /\ UNCHANGED <<phase, headers, buf, tok, jerr, jresponse, err_code,
                 aborted, doc, requests, docs, lost>>

(* http_json_context_cleanup. *)
Cleanup ==
  /\ phase = "idle"
  /\ phase' = "closed"
  /\ Clear
  /\ headers' = <<>>
  /\ UNCHANGED <<err_code, aborted, held, doc, requests, docs, lost>>

-----------------------------------------------------------------------------
(* http_on_response_default: a chunk is pushed to the buffer, then parsed. *)
(* An empty chunk changes nothing.  After a completed document json-c's    *)
(* tokener starts afresh at the next chunk.                                *)
OnResponse ==
  /\ phase = "performing"
  /\ ~aborted
  /\ Len(buf) < MaxChunks
  /\ buf' = Append(buf, requests)
  /\ UNCHANGED <<phase, headers, err_code, held, requests>>

Partial ==
  /\ OnResponse
  /\ tok' = tok \cup {requests}
  /\ jerr' = "continue"
  /\ UNCHANGED <<jresponse, aborted, refs, doc, docs, lost>>

Malformed ==
  /\ OnResponse
  /\ tok' = tok \cup {requests}
  /\ jerr' = "error"
  /\ aborted' = TRUE
  /\ UNCHANGED <<jresponse, refs, doc, docs, lost>>

(* The chunk ends a document: the tokener returns a new object, held by    *)
(* nobody else, and jresponse is overwritten, its reference never put.     *)
EndDocument(o) ==
  /\ OnResponse
  /\ docs < MaxDocs
  /\ refs[o] = 0
  /\ refs' = [refs EXCEPT ![o] = 1]
  /\ doc' = [doc EXCEPT ![o] = tok \cup {requests}]
  /\ jresponse' = o
  /\ tok' = {}
  /\ jerr' = "success"
  /\ docs' = docs + 1
  /\ lost' = lost \cup ({jresponse} \cap Obj)
  /\ UNCHANGED aborted

(* The same for the document null, whose object is NULL. *)
EndNull ==
  /\ OnResponse
  /\ docs < MaxDocs
  /\ jresponse' = NoObj
  /\ tok' = {}
  /\ jerr' = "success"
  /\ docs' = docs + 1
  /\ lost' = lost \cup ({jresponse} \cap Obj)
  /\ UNCHANGED <<aborted, refs, doc>>

-----------------------------------------------------------------------------
(* curl_easy_perform fails: no answer, a broken transfer, or the callback  *)
(* refused a chunk.  The early return leaves the headers on the list.      *)
Fail ==
  /\ phase = "performing"
  /\ phase' = "idle"
  /\ err_code' = "failed"
  /\ UNCHANGED <<headers, buf, tok, jerr, jresponse, aborted, refs, held,
                 doc, requests, docs, lost>>

(* Slip: the document is returned without a reference of its own. *)
Succeed_NoReference ==
  /\ phase = "performing"
  /\ ~aborted
  /\ phase' = "idle"
  /\ err_code' = "ok"
  /\ headers' = <<>>
  /\ held' = IF jresponse \in Obj THEN held \cup {jresponse} ELSE held
  /\ UNCHANGED <<refs, buf, tok, jerr, jresponse, aborted, doc, requests, docs, lost>>

(* It succeeds: the headers are freed and the caller is given a reference  *)
(* of its own to the document, if the body held one.                       *)
Succeed ==
  /\ phase = "performing"
  /\ ~aborted
  /\ phase' = "idle"
  /\ err_code' = "ok"
  /\ headers' = <<>>
  /\ IF jresponse \in Obj
     THEN /\ refs' = [refs EXCEPT ![jresponse] = @ + 1]
          /\ held' = held \cup {jresponse}
     ELSE UNCHANGED <<refs, held>>
  /\ UNCHANGED <<buf, tok, jerr, jresponse, aborted, doc, requests, docs, lost>>

-----------------------------------------------------------------------------
Caller ==
  \/ \E h \in Header : AddHeader(h)
  \/ ClearHeaders
  \/ NotImplemented
  \/ Request
  \/ \E o \in Obj : Release(o)
  \/ Cleanup

Transfer ==
  \/ Partial
  \/ Malformed
  \/ \E o \in Obj : EndDocument(o)
  \/ EndNull
  \/ Fail
  \/ Succeed

Next == Caller \/ Transfer

Spec == Init /\ [][Next]_vars

-----------------------------------------------------------------------------
(* The variables hold values of their types. *)
TypeOK ==
  /\ phase \in {"idle", "performing", "closed"}
  /\ headers \in Seq(Header)
  /\ buf \in Seq(Nat)
  /\ tok \in SUBSET Nat
  /\ jerr \in JErr
  /\ jresponse \in Obj \cup {NoObj}
  /\ err_code \in CurlCode
  /\ aborted \in BOOLEAN
  /\ refs \in [Obj -> Nat]
  /\ held \in SUBSET Obj
  /\ doc \in [Obj -> SUBSET Nat]
  /\ requests \in Nat
  /\ docs \in Nat
  /\ lost \in SUBSET Obj

Owners(o) == One(jresponse = o) + One(o \in held)

(* No use after free: the context and every caller that may still          *)
(* dereference a document each own a reference to it, so json-c has not    *)
(* freed it, whatever mix of failed, empty and repeated requests and of    *)
(* releases came before.                                                   *)
OwnersCounted == \A o \in Obj : refs[o] >= Owners(o)

(* No leak but one: an object has exactly as many references as owners     *)
(* that will put it, unless a second document of its response overwrote    *)
(* jresponse, which is never put then.                                     *)
NoLeak ==
  /\ jresponse \notin lost
  /\ \A o \in Obj : refs[o] = Owners(o) + One(o \in lost)

(* Nothing of an earlier response survives into the current one: neither   *)
(* a prefix left in the tokener by a transfer that broke off, nor buffered *)
(* chunks, nor the document.                                               *)
OneResponse ==
  /\ tok \subseteq {requests}
  /\ \A i \in DOMAIN buf : buf[i] = requests
  /\ jresponse \in Obj => doc[jresponse] = {requests}

(* While a response arrives, the document parsed from it is still the      *)
(* context's alone: a caller is never given a document that more bytes     *)
(* may replace.                                                            *)
FreshDocument ==
  phase = "performing" /\ jresponse \in Obj => jresponse \notin held

(* The inductive invariant. *)
IInv == TypeOK /\ OwnersCounted /\ OneResponse /\ FreshDocument /\ NoLeak

(* The context keeps the promise of JsonExchange: every document handed to *)
(* a caller was parsed from the bytes of that caller's own response, and   *)
(* its memory is not reused for another document while the caller has it.  *)
Exchange == INSTANCE JsonExchange WITH
  busy <- (phase = "performing"),
  asked <- requests,
  answers <- {<<o, doc[o]>> : o \in held}

ImplementsExchange == Exchange!Spec
=============================================================================
