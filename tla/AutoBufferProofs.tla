-------------------------- MODULE AutoBufferProofs --------------------------
(* Proofs about AutoBuffer, for every unit of allocation and every size.   *)
EXTENDS AutoBuffer, TLAPS


(* Rounding up to whole units gives at least what was asked for. *)
LEMMA RoundedUp ==
  ASSUME NEW n \in Nat
  PROVE  Rounded(n) \in Nat /\ Rounded(n) >= n
<1>1. Alloc \in Nat /\ Alloc > 0
  BY BufferAssumption
<1>2. CASE n = 0
  BY <1>1, <1>2 DEF Rounded
<1>3. CASE n # 0
  <2>. DEFINE m == n + Alloc - 1
              q == m \div Alloc
  <2>1. m \in Nat /\ q \in Nat
    BY <1>1, <1>3
  <2>2. m = Alloc * q + (m % Alloc) /\ m % Alloc \in 0..(Alloc - 1)
    BY <1>1, <2>1
  <2>3. Rounded(n) = q * Alloc
    BY <1>3 DEF Rounded
  <2>4. q * Alloc \in Nat /\ q * Alloc = Alloc * q
    BY <1>1, <2>1
  <2>5. m - (m % Alloc) >= n
    BY <1>1, <2>1, <2>2
  <2>. QED BY <2>1, <2>2, <2>3, <2>4, <2>5
<1>. QED BY <1>2, <1>3

Cell == Byte \cup {Junk}
Memory(n) == [0..(n - 1) -> Cell]

(* The type of the memory, with its bounds. *)
LEMMA MemoryTyped ==
  TypeOK /\ InBounds => data \in Memory(size)
BY DEF TypeOK, InBounds, Memory, Cell

(* Growing keeps what was there and makes room for what was asked. *)
LEMMA GrowKeeps ==
  ASSUME TypeOK, InBounds, NEW n \in Nat
  PROVE  /\ Resized(n) \in Nat /\ Resized(n) >= n /\ Resized(n) >= size
         /\ Grown(n) \in Memory(Resized(n))
         /\ \A i \in 0..(size - 1) : Grown(n)[i] = data[i]
<1>1. Rounded(n) \in Nat /\ Rounded(n) >= n
  BY RoundedUp
<1>2. Resized(n) \in Nat /\ Resized(n) >= n /\ Resized(n) >= size
  BY <1>1 DEF Resized, TypeOK
<1>3. data \in Memory(size)
  BY MemoryTyped
<1>4. \A i \in 0..(Resized(n) - 1) : Grown(n)[i] \in Cell
  BY <1>3 DEF Grown, Memory, Cell
<1>5. Grown(n) \in Memory(Resized(n))
  BY <1>4 DEF Grown, Memory
<1>6. \A i \in 0..(size - 1) : Grown(n)[i] = data[i]
  BY <1>2, <1>3 DEF Grown, Memory, TypeOK
<1>. QED BY <1>2, <1>5, <1>6

(* Writing inside the memory neither moves its end nor touches the rest. *)
LEMMA WriteInside ==
  ASSUME NEW k \in Nat, NEW d \in Memory(k), NEW at \in Nat,
         NEW s \in Seq(Cell), at + Len(s) <= k
  PROVE  /\ Written(d, at, s) \in Memory(k)
         /\ \A i \in 0..(at - 1) : Written(d, at, s)[i] = d[i]
         /\ \A i \in 1..Len(s) : Written(d, at, s)[at + i - 1] = s[i]
<1>. DEFINE w == Written(d, at, s)
<1>1. Len(s) \in Nat /\ \A i \in 1..Len(s) : s[i] \in Cell
  OBVIOUS
<1>2. DOMAIN d = 0..(k - 1)
  BY DEF Memory
<1>3. DOMAIN d \cup at..(at + Len(s) - 1) = 0..(k - 1)
  BY <1>1, <1>2
<1>4. w = [i \in 0..(k - 1) |->
             IF i \in at..(at + Len(s) - 1) THEN s[i - at + 1] ELSE d[i]]
  BY <1>3 DEF Written
<1>. HIDE DEF w
<1>5. \A i \in 0..(k - 1) : w[i] \in Cell
  BY <1>1, <1>4 DEF Memory
<1>6. w \in Memory(k)
  BY <1>4, <1>5 DEF Memory
<1>7. \A i \in 0..(at - 1) : w[i] = d[i]
  BY <1>1, <1>4
<1>8. \A i \in 1..Len(s) : w[at + i - 1] = s[i]
  <2>. TAKE i \in 1..Len(s)
  <2>1. at + i - 1 \in 0..(k - 1) /\ at + i - 1 \in at..(at + Len(s) - 1)
    BY <1>1
  <2>2. (at + i - 1) - at + 1 = i
    BY <1>1
  <2>. QED BY <1>4, <2>1, <2>2
<1>. QED BY <1>6, <1>7, <1>8 DEF w

(* What callers append is a sequence of bytes. *)
LEMMA BytesTyped ==
  ASSUME NEW s \in Bytes(MaxPush)
  PROVE  s \in Seq(Byte) /\ Len(s) \in Nat /\ s \in Seq(Cell)
         /\ \A i \in 1..Len(s) : s[i] \in Byte
<1>1. PICK k \in 1..MaxPush : s \in [1..k -> Byte]
  BY DEF Bytes
<1>2. k \in Nat
  BY BufferAssumption
<1>. QED BY <1>1, <1>2 DEF Cell

(* Under the invariant the contents are a sequence of bytes. *)
LEMMA ContentsTyped ==
  IInv => Contents \in Seq(Byte) /\ Len(Contents) = length
<1>. SUFFICES ASSUME IInv PROVE Contents \in Seq(Byte) /\ Len(Contents) = length
  OBVIOUS
<1>1. length \in Nat /\ start_pos \in Nat
  BY DEF IInv, TypeOK
<1>2. \A i \in 1..length : data[start_pos + i - 1] \in Byte
  <2>. TAKE i \in 1..length
  <2>1. start_pos + i - 1 \in start_pos..(start_pos + length - 1)
    BY <1>1
  <2>. QED BY <2>1 DEF IInv, Filled
<1>. QED BY <1>1, <1>2 DEF Contents

(* auto_buffer_push and auto_buffer_add_fmt: n bytes of room are made, s   *)
(* is written behind the contents, and its first m bytes become contents.  *)
LEMMA StoreStep ==
  ASSUME IInv, NEW n \in Nat, NEW s \in Seq(Cell), NEW m \in 0..Len(s),
         start_pos + length + Len(s) <= n,
         \A i \in 1..m : s[i] \in Byte,
         size' = Resized(n),
         data' = Written(Grown(n), start_pos + length, s),
         length' = length + m,
         start_pos' = start_pos
  PROVE  IInv' /\ Queue!Put
<1>1. size \in Nat /\ length \in Nat /\ start_pos \in Nat /\ Len(s) \in Nat /\ m \in Nat
  BY DEF IInv, TypeOK
<1>2. start_pos + length <= size
  BY DEF IInv, InBounds
<1>3. /\ size' \in Nat /\ size' >= n /\ size' >= size
      /\ Grown(n) \in Memory(size')
      /\ \A i \in 0..(size - 1) : Grown(n)[i] = data[i]
  BY GrowKeeps DEF IInv
<1>4. start_pos + length \in Nat /\ (start_pos + length) + Len(s) <= size'
  BY <1>1, <1>3
<1>5. /\ data' \in Memory(size')
      /\ \A i \in 0..(start_pos + length - 1) : data'[i] = Grown(n)[i]
      /\ \A i \in 1..Len(s) : data'[start_pos + length + i - 1] = s[i]
  <2>. DEFINE k == Resized(n)
              d == Grown(n)
              at == start_pos + length
  <2>1. k \in Nat /\ d \in Memory(k) /\ at \in Nat /\ at + Len(s) <= k
    BY <1>3, <1>4
  <2>2. data' = Written(d, at, s) /\ size' = k
    OBVIOUS
  <2>. HIDE DEF k, d, at
  <2>3. /\ Written(d, at, s) \in Memory(k)
        /\ \A i \in 0..(at - 1) : Written(d, at, s)[i] = d[i]
        /\ \A i \in 1..Len(s) : Written(d, at, s)[at + i - 1] = s[i]
    BY <2>1, WriteInside
  <2>4. /\ data' \in Memory(k)
        /\ \A i \in 0..(at - 1) : data'[i] = d[i]
        /\ \A i \in 1..Len(s) : data'[at + i - 1] = s[i]
    BY <2>2, <2>3
  <2>5. data' \in Memory(size')
    BY <2>2, <2>4
  <2>6. \A i \in 0..(start_pos + length - 1) : data'[i] = Grown(n)[i]
    BY <1>1, <2>4 DEF d, at
  <2>7. \A i \in 1..Len(s) : data'[start_pos + length + i - 1] = s[i]
    BY <1>1, <2>4 DEF at
  <2>. QED BY <2>5, <2>6, <2>7
<1>6. \A i \in 0..(start_pos + length - 1) : data'[i] = data[i]
  BY <1>1, <1>2, <1>3, <1>5
<1>7. \A i \in start_pos..(start_pos + length + m - 1) : data'[i] \in Byte
  <2>. TAKE i \in start_pos..(start_pos + length + m - 1)
  <2>1. CASE i < start_pos + length
    <3>1. i \in start_pos..(start_pos + length - 1) /\ i \in 0..(start_pos + length - 1)
      BY <1>1, <2>1
    <3>. QED BY <1>6, <3>1 DEF IInv, Filled
  <2>2. CASE i >= start_pos + length
    <3>. DEFINE k == i - (start_pos + length) + 1
    <3>1. k \in 1..m /\ k \in 1..Len(s) /\ i = start_pos + length + k - 1
      BY <1>1, <2>2
    <3>. HIDE DEF k
    <3>. QED BY <1>5, <3>1
  <2>. QED BY <1>1, <2>1, <2>2
<1>8. TypeOK'
  <2>1. length' \in Nat /\ start_pos' \in Nat
    BY <1>1
  <2>2. data' \in [DOMAIN data' -> Byte \cup {Junk}]
    BY <1>5 DEF Memory, Cell
  <2>. QED BY <1>3, <2>1, <2>2 DEF TypeOK
<1>9. InBounds'
  BY <1>1, <1>3, <1>5 DEF InBounds, Memory
<1>10. EmptyAtZero'
  BY <1>1 DEF IInv, EmptyAtZero
<1>11. Filled'
  BY <1>1, <1>7 DEF Filled
<1>12. IInv'
  BY <1>8, <1>9, <1>10, <1>11 DEF IInv
<1>13. Contents \in Seq(Byte) /\ Len(Contents) = length
  BY ContentsTyped
<1>14. Contents' = [i \in 1..(length + m) |-> data'[start_pos + i - 1]]
  BY DEF Contents
<1>15. \A i \in 1..(length + m) : data'[start_pos + i - 1] \in Byte
  <2>. TAKE i \in 1..(length + m)
  <2>1. start_pos + i - 1 \in start_pos..(start_pos + length + m - 1)
    BY <1>1
  <2>. QED BY <1>7, <2>1
<1>16. Contents' \in Seq(Byte) /\ Len(Contents') = length + m
  BY <1>1, <1>14, <1>15
<1>17. \A i \in 1..length : Contents'[i] = Contents[i]
  <2>. TAKE i \in 1..length
  <2>1. start_pos + i - 1 \in 0..(start_pos + length - 1) /\ i \in 1..(length + m)
    BY <1>1
  <2>. QED BY <1>6, <1>14, <2>1 DEF Contents
<1>18. Queue!Put
  BY <1>1, <1>13, <1>16, <1>17 DEF Queue!Put
<1>. QED BY <1>12, <1>18

(* auto_buffer_resize: the contents stay what they are. *)
LEMMA ResizeStep ==
  ASSUME IInv, NEW n \in Nat, resize(n)
  PROVE  IInv' /\ Contents' = Contents
<1>1. size \in Nat /\ length \in Nat /\ start_pos \in Nat /\ start_pos + length <= size
  BY DEF IInv, TypeOK, InBounds
<1>2. /\ size' \in Nat /\ size' >= size
      /\ data' \in Memory(size')
      /\ \A i \in 0..(size - 1) : data'[i] = data[i]
  <2>1. size' = Resized(n) /\ data' = Grown(n)
    BY DEF resize
  <2>. QED BY <2>1, GrowKeeps DEF IInv
<1>3. length' = length /\ start_pos' = start_pos
  BY DEF resize
<1>4. \A i \in start_pos..(start_pos + length - 1) : data'[i] = data[i]
  BY <1>1, <1>2
<1>5. TypeOK'
  BY <1>1, <1>2, <1>3 DEF TypeOK, Memory, Cell
<1>6. InBounds'
  BY <1>1, <1>2, <1>3 DEF InBounds, Memory
<1>7. EmptyAtZero' /\ Filled'
  BY <1>1, <1>3, <1>4 DEF IInv, EmptyAtZero, Filled
<1>8. \A i \in 1..length : data'[start_pos + i - 1] = data[start_pos + i - 1]
  <2>. TAKE i \in 1..length
  <2>1. start_pos + i - 1 \in start_pos..(start_pos + length - 1)
    BY <1>1
  <2>. QED BY <1>4, <2>1
<1>9. Contents' = Contents
  BY <1>3, <1>8 DEF Contents
<1>. QED BY <1>5, <1>6, <1>7, <1>9 DEF IInv

(* auto_buffer_push. *)
LEMMA PushStep ==
  ASSUME IInv, NEW s \in Bytes(MaxPush), push(s)
  PROVE  IInv' /\ Queue!Put
<1>1. s \in Seq(Cell) /\ Len(s) \in 0..Len(s) /\ \A i \in 1..Len(s) : s[i] \in Byte
  BY BytesTyped
<1>2. start_pos + length + Len(s) \in Nat
  BY BytesTyped DEF IInv, TypeOK
<1>. DEFINE n == start_pos + length + Len(s)
<1>3. /\ size' = Resized(n) /\ data' = Written(Grown(n), start_pos + length, s)
      /\ length' = length + Len(s) /\ start_pos' = start_pos
  BY DEF push
<1>4. n \in Nat /\ start_pos + length + Len(s) <= n
  BY <1>2
<1>. HIDE DEF n
<1>. QED BY <1>1, <1>3, <1>4, StoreStep

(* auto_buffer_add_fmt: the NUL behind the line is inside as well. *)
LEMMA AddFmtStep ==
  ASSUME IInv, NEW s \in Bytes(MaxPush), add_fmt(s)
  PROVE  IInv' /\ Queue!Put
<1>. DEFINE n == length + PathMax
            t == Append(s, Junk)
<1>1. length \in Nat /\ PathMax \in Nat /\ start_pos = 0 /\ Len(s) < PathMax
  BY BufferAssumption DEF IInv, TypeOK, add_fmt
<1>2. s \in Seq(Cell) /\ Len(s) \in Nat /\ \A i \in 1..Len(s) : s[i] \in Byte
  BY BytesTyped
<1>3. Junk \in Cell
  BY DEF Cell
<1>4. /\ t \in Seq(Cell) /\ Len(t) = Len(s) + 1
      /\ \A i \in 1..Len(s) : t[i] = s[i]
  BY <1>2, <1>3
<1>5. Len(s) \in 0..Len(t) /\ \A i \in 1..Len(s) : t[i] \in Byte
  BY <1>2, <1>4
<1>6. n \in Nat /\ start_pos + length + Len(t) <= n
  BY <1>1, <1>2, <1>4
<1>7. start_pos + length = length
  BY <1>1
<1>8. /\ size' = Resized(n) /\ data' = Written(Grown(n), length, t)
      /\ length' = length + Len(s) /\ start_pos' = start_pos
  BY DEF add_fmt
<1>9. data' = Written(Grown(n), start_pos + length, t)
  BY <1>7, <1>8
<1>. HIDE DEF n, t
<1>. QED BY <1>4, <1>5, <1>6, <1>8, <1>9, StoreStep

(* auto_buffer_pop takes the oldest bytes, all of them if n is larger. *)
LEMMA PopStep ==
  ASSUME IInv, NEW n \in Nat, pop(n)
  PROVE  IInv' /\ Queue!Take
<1>. DEFINE taken == IF n > length THEN length ELSE n
<1>1. /\ size \in Nat /\ length \in Nat /\ start_pos \in Nat
      /\ start_pos + length <= size /\ DOMAIN data = 0..(size - 1)
  BY DEF IInv, TypeOK, InBounds
<1>2. taken \in 0..length
  BY <1>1
<1>3. /\ length' = length - taken
      /\ start_pos' = (IF length' = 0 THEN 0 ELSE start_pos + taken)
      /\ data' = data /\ size' = size
  BY DEF pop
<1>. HIDE DEF taken
<1>4. /\ length' \in Nat /\ start_pos' \in Nat
      /\ start_pos' + length' <= size
  BY <1>1, <1>2, <1>3
<1>5. TypeOK' /\ InBounds'
  BY <1>1, <1>3, <1>4 DEF IInv, TypeOK, InBounds
<1>6. EmptyAtZero'
  BY <1>3 DEF EmptyAtZero
<1>7. Filled'
  <2>1. CASE length' = 0
    BY <1>3, <2>1 DEF Filled
  <2>2. CASE length' # 0
    <3>1. start_pos' = start_pos + taken /\ start_pos' + length' = start_pos + length
      BY <1>1, <1>2, <1>3, <2>2
    <3>2. start_pos' >= start_pos
      BY <1>1, <1>2, <3>1
    <3>3. ASSUME NEW i \in start_pos'..(start_pos' + length' - 1)
          PROVE  i \in start_pos..(start_pos + length - 1)
      BY <1>1, <1>4, <3>1, <3>2
    <3>. QED BY <1>3, <3>3 DEF IInv, Filled
  <2>. QED BY <2>1, <2>2
<1>8. Len(Contents) = length
  BY ContentsTyped
<1>9. Contents' = [i \in 1..(length - taken) |-> data[start_pos' + i - 1]]
  BY <1>3 DEF Contents
<1>10. \A i \in 1..(length - taken) : data[start_pos' + i - 1] = Contents[taken + i]
  <2>. TAKE i \in 1..(length - taken)
  <2>1. start_pos' = start_pos + taken
    BY <1>1, <1>2, <1>3
  <2>2. taken + i \in 1..length /\ start_pos' + i - 1 = start_pos + (taken + i) - 1
    BY <1>1, <1>2, <2>1
  <2>. QED BY <2>2 DEF Contents
<1>11. Contents' = [i \in 1..(Len(Contents) - taken) |-> Contents[taken + i]]
  BY <1>8, <1>9, <1>10
<1>12. Queue!Take
  BY <1>2, <1>8, <1>11 DEF Queue!Take
<1>. QED BY <1>5, <1>6, <1>7, <1>12 DEF IInv

(* Clearing and freeing both leave an empty buffer at address 0. *)
LEMMA EmptyStep ==
  ASSUME IInv, clear \/ cleanup
  PROVE  IInv' /\ Queue!Clear
<1>1. length' = 0 /\ start_pos' = 0
  BY DEF clear, cleanup
<1>2. TypeOK' /\ InBounds'
  <2>1. CASE clear
    BY <2>1 DEF clear, IInv, TypeOK, InBounds
  <2>2. CASE cleanup
    BY <2>2 DEF cleanup, TypeOK, InBounds
  <2>. QED BY <2>1, <2>2
<1>3. EmptyAtZero' /\ Filled'
  BY <1>1 DEF EmptyAtZero, Filled
<1>4. Contents' = <<>>
  BY <1>1 DEF Contents
<1>. QED BY <1>2, <1>3, <1>4 DEF IInv, Queue!Clear

-----------------------------------------------------------------------------
LEMMA Start == Init => IInv /\ Contents = <<>>
<1>. SUFFICES ASSUME Init PROVE IInv /\ Contents = <<>>
  OBVIOUS
<1>1. Rounded(0) \in Nat
  BY RoundedUp
<1>2. TypeOK /\ InBounds
  BY <1>1 DEF Init, TypeOK, InBounds
<1>3. EmptyAtZero /\ Filled /\ Contents = <<>>
  BY DEF Init, EmptyAtZero, Filled, Contents
<1>. QED BY <1>2, <1>3 DEF IInv

(* Every step keeps the invariant and is a step of the queue. *)
LEMMA EveryStep ==
  ASSUME IInv, [Next]_vars
  PROVE  IInv' /\ [Queue!Next]_Contents
<1>0. MaxSize \in Nat
  BY BufferAssumption
<1>1. CASE \E n \in 0..MaxSize : resize(n)
  BY <1>0, <1>1, ResizeStep
<1>2. CASE \E s \in Bytes(MaxPush) : push(s)
  BY <1>2, PushStep DEF Queue!Next
<1>3. CASE \E n \in 0..MaxSize : pop(n)
  BY <1>0, <1>3, PopStep DEF Queue!Next
<1>4. CASE \E s \in Bytes(MaxPush) : add_fmt(s)
  BY <1>4, AddFmtStep DEF Queue!Next
<1>5. CASE clear \/ cleanup
  BY <1>5, EmptyStep DEF Queue!Next
<1>6. CASE UNCHANGED vars
  BY <1>6 DEF vars, IInv, TypeOK, InBounds, EmptyAtZero, Filled, Contents
<1>. QED BY <1>1, <1>2, <1>3, <1>4, <1>5, <1>6 DEF Next

(* Types, bounds, the reset of empty buffers and the absence of unwritten  *)
(* bytes hold together, for every unit, every line limit and every size.   *)
THEOREM Invariance == Spec => []IInv
<1>1. Init => IInv
  BY Start
<1>2. IInv /\ [Next]_vars => IInv'
  BY EveryStep
<1>. QED BY <1>1, <1>2, PTL DEF Spec

(* Every variable of the buffer keeps its type. *)
THEOREM TypeCorrect == Spec => []TypeOK
<1>1. IInv => TypeOK
  BY DEF IInv
<1>. QED BY <1>1, Invariance, PTL

(* Nothing is written or read behind the memory allocated. *)
THEOREM BoundsKept == Spec => []InBounds
<1>1. IInv => InBounds
  BY DEF IInv
<1>. QED BY <1>1, Invariance, PTL

(* An emptied buffer starts again at address 0. *)
THEOREM StartsAgain == Spec => []EmptyAtZero
<1>1. IInv => EmptyAtZero
  BY DEF IInv
<1>. QED BY <1>1, Invariance, PTL

(* The buffer is a queue of bytes. *)
THEOREM Refinement == Spec => ImplementsQueue
<1>1. Init => Queue!Init
  BY Start DEF Queue!Init
<1>2. IInv /\ [Next]_vars => [Queue!Next]_Contents
  BY EveryStep
<1>. QED BY <1>1, <1>2, Invariance, PTL DEF Spec, ImplementsQueue, Queue!Spec
=============================================================================
