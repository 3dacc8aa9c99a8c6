----------------------------- MODULE AutoBuffer -----------------------------
(***************************************************************************)
(* auto_buffer_t (src/utils/auto_buffer.c): the growing byte buffer behind *)
(* every request body and response.  Bytes are appended behind             *)
(* start_pos + length, taken at start_pos, and the memory grows by whole   *)
(* units of Alloc bytes and never moves its contents down.                 *)
(*                                                                         *)
(* No object exceeds half the address space, so no sum of sizes wraps and  *)
(* the EOVERFLOW return is not taken; a failed realloc ends the process.   *)
(***************************************************************************)
EXTENDS Naturals, Sequences

CONSTANTS
  Byte,      \* the bytes that are stored
  Junk,      \* the content of memory that was never written
  Alloc,     \* AUTO_BUFFER_ALLOC_SIZE
  PathMax,   \* PATH_MAX, what auto_buffer_add_fmt reserves for a line
  MaxPush,   \* bound: bytes pushed at once
  MaxSize    \* bound: start_pos + length

ASSUME BufferAssumption ==
  /\ Junk \notin Byte
  /\ Alloc \in Nat \ {0} /\ PathMax \in Nat \ {0}
  /\ MaxPush \in Nat /\ MaxSize \in Nat

VARIABLES
  data,       \* the allocated bytes, by address
  size,       \* buf->size
  length,     \* buf->length
  start_pos   \* buf->start_pos

vars == <<data, size, length, start_pos>>

(* What callers store: one to n bytes. *)
Bytes(n) == UNION {[1..k -> Byte] : k \in 1..n}

(* The size auto_buffer_resize allocates for a request of n bytes; the     *)
(* slip rounds down.                                                       *)
Rounded_Down(n) == IF n = 0 THEN Alloc ELSE (n \div Alloc) * Alloc
Rounded(n) == IF n = 0 THEN Alloc ELSE ((n + Alloc - 1) \div Alloc) * Alloc

(* auto_buffer_resize to n bytes: it never shrinks, and realloc keeps what *)
(* was there.                                                              *)
Resized(n) == IF Rounded(n) <= size THEN size ELSE Rounded(n)
Grown(n) ==
  [i \in 0..(Resized(n) - 1) |-> IF i \in DOMAIN data THEN data[i] ELSE Junk]

(* memcpy of s to address at of d, wherever d ends. *)
Written(d, at, s) ==
  [i \in DOMAIN d \cup at..(at + Len(s) - 1) |->
     IF i \in at..(at + Len(s) - 1) THEN s[i - at + 1] ELSE d[i]]

(* Every user begins with auto_buffer_init(buf, 0). *)
Init ==
  /\ size = Rounded(0)
  /\ data = [i \in 0..(Rounded(0) - 1) |-> Junk]
  /\ length = 0
  /\ start_pos = 0

-----------------------------------------------------------------------------
resize(n) ==
  /\ size' = Resized(n)
  /\ data' = Grown(n)
  /\ UNCHANGED <<length, start_pos>>

(* Slip: room is made as if the buffer began at address 0. *)
push_FromZero(s) ==
  /\ start_pos + length + Len(s) <= MaxSize
  /\ size' = Resized(length + Len(s))
  /\ data' = Written(Grown(length + Len(s)), start_pos + length, s)
  /\ length' = length + Len(s)
  /\ UNCHANGED start_pos

(* auto_buffer_push; pushing nothing does nothing. *)
push(s) ==
  /\ start_pos + length + Len(s) <= MaxSize
  /\ size' = Resized(start_pos + length + Len(s))
  /\ data' = Written(Grown(start_pos + length + Len(s)), start_pos + length, s)
  /\ length' = length + Len(s)
  /\ UNCHANGED start_pos

(* Slips: more is taken than there is, bytes are taken from the end. *)
pop_TooMany(n) ==
  /\ length' = length - n
  /\ start_pos' = IF length' = 0 THEN 0 ELSE start_pos + n
  /\ UNCHANGED <<data, size>>
pop_FromEnd(n) ==
  LET taken == IF n > length THEN length ELSE n
  IN  /\ length' = length - taken
      /\ start_pos' = IF length' = 0 THEN 0 ELSE start_pos
      /\ UNCHANGED <<data, size>>

(* auto_buffer_pop into a buffer of n bytes. *)
pop(n) ==
  LET taken == IF n > length THEN length ELSE n
  IN  /\ length' = length - taken
      /\ start_pos' = IF length' = 0 THEN 0 ELSE start_pos + taken
      /\ UNCHANGED <<data, size>>

(* auto_buffer_add_fmt of zaif.c: vsnprintf writes a line and the NUL      *)
(* behind it into the room reserved.  It is used on buffers that are never *)
(* popped, with lines that fit.                                            *)
add_fmt(s) ==
  /\ start_pos = 0
  /\ Len(s) < PathMax
  /\ length + Len(s) <= MaxSize
  /\ size' = Resized(length + PathMax)
  /\ data' = Written(Grown(length + PathMax), length, Append(s, Junk))
  /\ length' = length + Len(s)
  /\ UNCHANGED start_pos

(* Slip: the position of the first byte is kept. *)
clear_KeepStart ==
  /\ size > 0
  /\ length' = 0
  /\ UNCHANGED <<data, size, start_pos>>

(* json_response_context_clear, for the next response. *)
clear ==
  /\ size > 0
  /\ length' = 0
  /\ start_pos' = 0
  /\ UNCHANGED <<data, size>>

(* auto_buffer_cleanup: the memory is freed, the buffer may be used again. *)
cleanup ==
  /\ data' = [i \in 0..(0 - 1) |-> Junk]
  /\ size' = 0
  /\ length' = 0
  /\ start_pos' = 0

Next ==
  \/ \E n \in 0..MaxSize : resize(n)
  \/ \E s \in Bytes(MaxPush) : push(s)
  \/ \E n \in 0..MaxSize : pop(n)
  \/ \E s \in Bytes(MaxPush) : add_fmt(s)
  \/ clear
  \/ cleanup

Spec == Init /\ [][Next]_vars

-----------------------------------------------------------------------------
(* The variables hold values of their types. *)
TypeOK ==
  /\ size \in Nat /\ length \in Nat /\ start_pos \in Nat
  /\ data \in [DOMAIN data -> Byte \cup {Junk}]

(* No write leaves the memory allocated, and what the buffer says it holds *)
(* lies inside, wherever pops have moved its start.                        *)
InBounds ==
  /\ DOMAIN data = 0..(size - 1)
  /\ start_pos + length <= size

(* A buffer that has been emptied, by pops or a clear, starts again at     *)
(* address 0: its memory does not grow with everything ever stored.        *)
EmptyAtZero == length = 0 => start_pos = 0

(* No byte that can be popped is memory that was never written. *)
Filled == \A i \in start_pos..(start_pos + length - 1) : data[i] \in Byte

(* The inductive invariant. *)
IInv == TypeOK /\ InBounds /\ EmptyAtZero /\ Filled

Contents == [i \in 1..length |-> data[start_pos + i - 1]]

(* The buffer is a queue of bytes: none is lost, repeated or left unset by *)
(* growing, by the terminator of a formatted line or by the start moving.  *)
Queue == INSTANCE ByteQueue WITH queue <- Contents

ImplementsQueue == Queue!Spec
=============================================================================
