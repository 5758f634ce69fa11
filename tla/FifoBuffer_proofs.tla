-------------------------- MODULE FifoBuffer_proofs --------------------------
(***************************************************************************)
(* Proofs about FifoBuffer, for arrays of any length and any blocks.       *)
(***************************************************************************)
EXTENDS FifoBuffer, SequenceTheorems, TLAPS

(* The index of the k-th byte behind position p in a ring of l bytes.      *)
Slot(p, l, k) == IF p + k < l THEN p + k ELSE p + k - l

(* What is held was written: no byte of Contents is left from new char[n]. *)
Held ==
  \A k \in 0 .. data_length - 1 :
    buffer[Slot(read_position, buffer_length, k)] \in Bytes

FifoInv ==
  /\ FifoTypeOK
  /\ RingInBounds
  /\ ReaderNotShort
  /\ Held

-----------------------------------------------------------------------------
(* The helpers.                                                            *)

LEMMA Wrap ==
  ASSUME NEW l \in Nat, NEW p \in Nat, p < 2 * l
  PROVE  p % l = IF p < l THEN p ELSE p - l
<1>1. CASE p < l
  BY <1>1
<1>2. CASE l <= p
  BY <1>2
<1> QED
  BY <1>1, <1>2

LEMMA NewFacts ==
  ASSUME NEW n \in Nat
  PROVE  New(n) \in [0 .. n - 1 -> Bytes \cup {Garbage}]
  BY DEF New

LEMMA LoadIs ==
  ASSUME NEW S, NEW array, NEW p \in Nat, NEW n \in Nat, NEW s \in Seq(S),
         Len(s) = n, \A i \in 1 .. n : s[i] = array[p + i - 1]
  PROVE  Load(array, p, n) = s
  BY DEF Load

(* A part of a sequence, given by the numbers of elements before its first *)
(* and up to its last.                                                     *)
LEMMA PartFacts ==
  ASSUME NEW S, NEW s \in Seq(S), NEW m \in Nat, NEW n \in Nat,
         m <= n, n <= Len(s)
  PROVE  /\ SubSeq(s, m + 1, n) \in Seq(S)
         /\ Len(SubSeq(s, m + 1, n)) = n - m
         /\ \A i \in 1 .. n - m : SubSeq(s, m + 1, n)[i] = s[m + i]
  OBVIOUS

LEMMA PartsFacts ==
  ASSUME NEW S, NEW s \in Seq(S), NEW m \in Nat, NEW n \in Nat,
         m <= n, n <= Len(s)
  PROVE  SubSeq(s, 1, m) \o SubSeq(s, m + 1, n) = SubSeq(s, 1, n)
  OBVIOUS

-----------------------------------------------------------------------------
(* The ring.                                                               *)

LEMMA ContentsFacts ==
  ASSUME FifoInv
  PROVE  /\ Contents \in Seq(Bytes)
         /\ Len(Contents) = data_length
         /\ \A i \in 1 .. data_length :
              Contents[i] = buffer[Slot(read_position, buffer_length, i - 1)]
<1>0. /\ data_length \in Nat /\ buffer_length \in Nat /\ read_position \in Nat
      /\ data_length <= buffer_length
      /\ read_position < buffer_length \/ read_position = 0
  BY DEF FifoInv, FifoTypeOK, RingInBounds
<1>1. ASSUME NEW i \in 1 .. data_length
      PROVE  (read_position + i - 1) % buffer_length
               = Slot(read_position, buffer_length, i - 1)
  <2> DEFINE p == read_position + i - 1
  <2>1. p \in Nat /\ p < 2 * buffer_length
    BY <1>0
  <2>2. Slot(read_position, buffer_length, i - 1)
          = IF p < buffer_length THEN p ELSE p - buffer_length
    BY <1>0 DEF Slot
  <2> HIDE DEF p
  <2>3. p % buffer_length = IF p < buffer_length THEN p ELSE p - buffer_length
    BY <1>0, <2>1, Wrap
  <2> QED
    BY <2>2, <2>3 DEF p
<1>2. \A i \in 1 .. data_length :
        Contents[i] = buffer[Slot(read_position, buffer_length, i - 1)]
  BY <1>0, <1>1 DEF Contents
<1>3. \A i \in 1 .. data_length : Contents[i] \in Bytes
  <2>1. \A i \in 1 .. data_length : i - 1 \in 0 .. data_length - 1
    BY <1>0
  <2> QED
    BY <1>2, <2>1 DEF FifoInv, Held
<1>4. Contents \in [1 .. data_length -> Bytes]
  BY <1>3 DEF Contents
<1> QED
  BY <1>0, <1>2, <1>4

(* The two memcpys of an operation get the oldest bytes.                   *)
LEMMA OldestFacts ==
  ASSUME FifoInv, NEW n \in 0 .. data_length
  PROVE  Oldest(n) = SubSeq(Contents, 1, n)
<1> DEFINE t == Least(n, buffer_length - read_position)
<1>0. /\ data_length \in Nat /\ buffer_length \in Nat /\ read_position \in Nat
      /\ data_length <= buffer_length
      /\ read_position < buffer_length \/ read_position = 0
      /\ n \in Nat /\ n <= data_length
  BY DEF FifoInv, FifoTypeOK, RingInBounds
<1>1. /\ t \in Nat /\ n - t \in Nat
      /\ t < n => t = buffer_length - read_position
      /\ t <= buffer_length - read_position
  BY <1>0 DEF Least
<1>2. ASSUME NEW i \in 1 .. n
      PROVE  Contents[i] = IF i <= t THEN buffer[read_position + i - 1]
                           ELSE buffer[i - t - 1]
  <2>1. Slot(read_position, buffer_length, i - 1)
          = IF i <= t THEN read_position + i - 1 ELSE i - t - 1
    BY <1>0, <1>1 DEF Slot
  <2> QED
    BY <1>0, <2>1, ContentsFacts
<1> HIDE DEF t
<1>3. Contents \in Seq(Bytes) /\ Len(Contents) = data_length
  BY ContentsFacts
<1>4. Load(buffer, read_position, t) = SubSeq(Contents, 1, t)
  <2>1. /\ SubSeq(Contents, 1, t) \in Seq(Bytes)
        /\ Len(SubSeq(Contents, 1, t)) = t
        /\ \A i \in 1 .. t : SubSeq(Contents, 1, t)[i] = Contents[i]
    BY <1>0, <1>1, <1>3, PartFacts
  <2>2. \A i \in 1 .. t :
          SubSeq(Contents, 1, t)[i] = buffer[read_position + i - 1]
    BY <1>0, <1>1, <1>2, <2>1
  <2>3. read_position \in Nat /\ t \in Nat
    BY <1>0, <1>1
  <2>4. PICK s \in Seq(Bytes) : s = SubSeq(Contents, 1, t)
    BY <2>1
  <2>5. /\ Len(s) = t
        /\ \A i \in 1 .. t : s[i] = buffer[read_position + i - 1]
    BY <2>1, <2>2, <2>4
  <2>6. Load(buffer, read_position, t) = s
    BY <2>3, <2>5, LoadIs
  <2> QED
    BY <2>4, <2>6
<1>5. Load(buffer, 0, n - t) = SubSeq(Contents, t + 1, n)
  <2>1. /\ SubSeq(Contents, t + 1, n) \in Seq(Bytes)
        /\ Len(SubSeq(Contents, t + 1, n)) = n - t
        /\ \A i \in 1 .. n - t : SubSeq(Contents, t + 1, n)[i] = Contents[t + i]
    BY <1>0, <1>1, <1>3, PartFacts
  <2>2. \A i \in 1 .. n - t :
          SubSeq(Contents, t + 1, n)[i] = buffer[0 + i - 1]
    BY <1>0, <1>1, <1>2, <2>1
  <2>3. PICK s \in Seq(Bytes) : s = SubSeq(Contents, t + 1, n)
    BY <2>1
  <2>4. /\ Len(s) = n - t /\ n - t \in Nat
        /\ \A i \in 1 .. n - t : s[i] = buffer[0 + i - 1]
    BY <1>1, <2>1, <2>2, <2>3
  <2>5. Load(buffer, 0, n - t) = s
    BY <2>4, LoadIs, 0 \in Nat, Zenon
  <2> QED
    BY <2>3, <2>5
<1>6. SubSeq(Contents, 1, t) \o SubSeq(Contents, t + 1, n) = SubSeq(Contents, 1, n)
  BY <1>0, <1>1, <1>3, PartsFacts
<1>7. Oldest(n) = Load(buffer, read_position, t) \o Load(buffer, 0, n - t)
  BY DEF Oldest, t
<1> QED
  BY <1>4, <1>5, <1>6, <1>7

LEMMA NextContentsFacts ==
  (FifoInv => /\ Contents \in Seq(Bytes)
              /\ Len(Contents) = data_length
              /\ \A i \in 1 .. data_length :
                   Contents[i] = buffer[Slot(read_position, buffer_length, i - 1)])'
<1>1. FifoInv => /\ Contents \in Seq(Bytes)
                 /\ Len(Contents) = data_length
                 /\ \A i \in 1 .. data_length :
                      Contents[i] = buffer[Slot(read_position, buffer_length, i - 1)]
  BY ContentsFacts
<1> QED
  BY <1>1, PTL

(* After a step: if the ring holds the sequence s, the step has kept the   *)
(* invariant, and s is what ByteFifo sees of the ring.                     *)
LEMMA RingHolds ==
  ASSUME FifoTypeOK', RingInBounds', ReaderNotShort',
         NEW s \in Seq(Bytes), Len(s) = data_length',
         \A i \in 1 .. data_length' :
           buffer'[Slot(read_position', buffer_length', i - 1)] = s[i]
  PROVE  FifoInv' /\ Contents' = s
<1>1. data_length' \in Nat
  BY DEF FifoTypeOK
<1>2. \A i \in 1 .. data_length' : s[i] \in Bytes
  BY ElementOfSeq
<1>3. Held'
  <2>1. ASSUME NEW k \in 0 .. data_length' - 1
        PROVE  buffer'[Slot(read_position', buffer_length', k)] \in Bytes
    <3>1. k + 1 \in 1 .. data_length' /\ (k + 1) - 1 = k
      BY <1>1
    <3> QED
      BY <1>2, <3>1
  <2> QED
    BY <2>1 DEF Held
<1>4. FifoInv'
  BY <1>3 DEF FifoInv
<1>5. /\ Contents' \in Seq(Bytes) /\ Len(Contents') = data_length'
      /\ \A i \in 1 .. data_length' :
           Contents'[i] = buffer'[Slot(read_position', buffer_length', i - 1)]
  BY <1>4, NextContentsFacts
<1>6. Contents' = s
  BY <1>1, <1>5, SeqEqual
<1> QED
  BY <1>4, <1>6

-----------------------------------------------------------------------------
(* Each operation keeps the invariant and does what ByteFifo promises.     *)

LEMMA InvFacts ==
  ASSUME FifoInv
  PROVE  /\ data_length \in Nat /\ buffer_length \in Nat
         /\ read_position \in Nat /\ result \in Nat /\ seen \in Nat
         /\ buffer \in [0 .. buffer_length - 1 -> Bytes \cup {Garbage}]
         /\ out \in Seq(Bytes)
         /\ data_length <= buffer_length
         /\ read_position < buffer_length \/ read_position = 0
         /\ seen <= data_length
  BY DEF FifoInv, FifoTypeOK, RingInBounds, ReaderNotShort

(* Going on from a place in the ring.                                      *)
LEMMA SlotSum ==
  ASSUME NEW l \in Nat, NEW p \in Nat, p < l,
         NEW n \in Nat, NEW k \in Nat, n + k < l
  PROVE  Slot(Slot(p, l, n), l, k) = Slot(p, l, n + k)
  BY DEF Slot

(* Where two memcpys put n bytes behind the d bytes that are held from p   *)
(* on, t of them up to the end of the array: each in a place of its own,   *)
(* and none in one of the d.                                               *)
Placed(l, p, d, n, w, t) ==
  /\ \A j \in 0 .. d - 1 :
       /\ Slot(p, l, j) \in 0 .. l - 1
       /\ ~(Slot(p, l, j) < n - t)
       /\ ~(w <= Slot(p, l, j) /\ Slot(p, l, j) < w + t)
  /\ \A j \in 1 .. n :
       /\ Slot(p, l, d + j - 1) \in 0 .. l - 1
       /\ j <= t => /\ ~(Slot(p, l, d + j - 1) < n - t)
                    /\ Slot(p, l, d + j - 1) = w + (j - 1)
       /\ j > t => Slot(p, l, d + j - 1) = j - t - 1

LEMMA SlotFacts ==
  ASSUME NEW l \in Nat, NEW p \in Nat, p < l, NEW d \in Nat, d < l,
         NEW n \in Nat, d + n <= l, NEW w \in Nat, w = Slot(p, l, d),
         NEW t \in Nat, t = Least(n, l - w)
  PROVE  Placed(l, p, d, n, w, t)
<1>1. CASE p + d < l
  <2>1. w = p + d
    BY <1>1 DEF Slot
  <2>2. CASE n <= l - w
    <3>1. t = n
      BY <2>2 DEF Least
    <3> QED
      BY <2>1, <2>2, <3>1 DEF Slot, Placed
  <2>3. CASE ~(n <= l - w)
    <3>1. t = l - w
      BY <2>3 DEF Least
    <3> QED
      BY <1>1, <2>1, <2>3, <3>1 DEF Slot, Placed
  <2> QED
    BY <2>2, <2>3
<1>2. CASE ~(p + d < l)
  <2>1. w = p + d - l
    BY <1>2 DEF Slot
  <2>2. t = n
    BY <1>2, <2>1 DEF Least
  <2> QED
    BY <1>2, <2>1, <2>2 DEF Slot, Placed
<1> QED
  BY <1>1, <1>2

LEMMA NothingSaid == <<>> \in Seq(Bytes)
  OBVIOUS

LEMMA FifoInitInv == FifoInit => FifoInv /\ Ring!ByteFifoInit
<1> SUFFICES ASSUME FifoInit
             PROVE  FifoInv /\ Ring!ByteFifoInit
  OBVIOUS
<1>1. buffer_length \in Nat /\ buffer_length \in Sizes
  BY FifoAssumption DEF FifoInit
<1>2. /\ data_length = 0 /\ read_position = 0 /\ out = <<>> /\ result = 0
      /\ seen = 0 /\ buffer = New(buffer_length)
  BY DEF FifoInit
<1>3. FifoTypeOK
  BY <1>1, <1>2, NewFacts, NothingSaid DEF FifoTypeOK
<1>4. RingInBounds /\ ReaderNotShort /\ Held
  BY <1>1, <1>2 DEF RingInBounds, ReaderNotShort, Held
<1>5. Contents = <<>>
  BY <1>2 DEF Contents
<1> QED
  BY <1>1, <1>2, <1>3, <1>4, <1>5 DEF FifoInv, Ring!ByteFifoInit

(* A step that leaves the ring as it is.                                   *)
LEMMA RingSame ==
  ASSUME FifoInv,
         UNCHANGED <<buffer, buffer_length, data_length, read_position>>,
         out' \in Seq(Bytes), result' \in Nat, seen' \in Nat, seen' <= data_length
  PROVE  FifoInv' /\ Contents' = Contents
<1>1. FifoInv'
  BY DEF FifoInv, FifoTypeOK, RingInBounds, ReaderNotShort, Held
<1>2. Contents' = Contents
  BY DEF Contents
<1> QED
  BY <1>1, <1>2

LEMMA GetDataLenStep ==
  ASSUME FifoInv, GetDataLen
  PROVE  FifoInv' /\ Ring!Count
<1>1. /\ UNCHANGED <<buffer, buffer_length, data_length, read_position>>
      /\ seen' = data_length /\ result' = data_length /\ out' = <<>>
  BY DEF GetDataLen
<1>2. FifoInv' /\ Contents' = Contents
  BY <1>1, InvFacts, NothingSaid, RingSame
<1> QED
  BY <1>1, <1>2, ContentsFacts DEF Ring!Count

LEMMA SetCapacityStep ==
  ASSUME FifoInv, NEW size \in Sizes, SetCapacity(size)
  PROVE  FifoInv' /\ Ring!Resize(size)
<1>0. size \in Nat
  BY FifoAssumption
<1>1. out' = <<>> /\ UNCHANGED <<data_length, seen>>
  BY DEF SetCapacity
<1>2. Len(Contents) = data_length
  BY ContentsFacts
<1>3. CASE UNCHANGED <<buffer, buffer_length, read_position>>
  <2>1. result' \in Nat
    BY <1>3, InvFacts DEF SetCapacity
  <2>2. FifoInv' /\ Contents' = Contents
    BY <1>1, <1>3, <2>1, InvFacts, NothingSaid, RingSame
  <2>3. \/ data_length > size /\ result' = 0
        \/ data_length <= size /\ size = buffer_length' /\ result' = 1
    BY <1>3 DEF SetCapacity
  <2> QED
    BY <1>0, <1>1, <1>2, <1>3, <2>2, <2>3, InvFacts DEF Ring!Resize
<1>4. CASE /\ data_length <= size /\ size # buffer_length
           /\ buffer' = Store(New(size), 0, Oldest(data_length))
           /\ read_position' = 0 /\ buffer_length' = size /\ result' = 1
  <2>1. Oldest(data_length) = Contents /\ Contents \in Seq(Bytes)
    <3>1. data_length \in 0 .. data_length
      BY InvFacts
    <3>2. Oldest(data_length) = SubSeq(Contents, 1, data_length)
      BY <3>1, OldestFacts
    <3> QED
      BY <1>2, <3>2, ContentsFacts, SubSeqFull
  <2>2. /\ buffer' \in [0 .. size - 1 -> Bytes \cup {Garbage}]
        /\ \A k \in 0 .. size - 1 : k < data_length => buffer'[k] = Contents[k + 1]
    <3>1. Contents \in Seq(Bytes \cup {Garbage})
      BY <2>1, SeqMonotonic
    <3>2. New(size) \in [0 .. size - 1 -> Bytes \cup {Garbage}]
      BY <1>0, NewFacts
    <3>3. buffer' = Store(New(size), 0, Contents)
      BY <1>4, <2>1
    <3>4. /\ Store(New(size), 0, Contents)
               \in [0 .. size - 1 -> Bytes \cup {Garbage}]
          /\ \A k \in 0 .. size - 1 :
               k < Len(Contents) =>
                 Store(New(size), 0, Contents)[k] = Contents[k + 1]
      BY <1>0, <3>1, <3>2 DEF Store
    <3> QED
      BY <1>0, <1>2, <3>3, <3>4
  <2>3. FifoTypeOK' /\ RingInBounds' /\ ReaderNotShort'
    BY <1>0, <1>1, <1>4, <2>2, InvFacts, NothingSaid
    DEF FifoTypeOK, RingInBounds, ReaderNotShort
  <2>4. ASSUME NEW i \in 1 .. data_length'
        PROVE  buffer'[Slot(read_position', buffer_length', i - 1)] = Contents[i]
    <3>1. /\ i - 1 \in 0 .. size - 1 /\ i - 1 < data_length /\ (i - 1) + 1 = i
          /\ Slot(read_position', buffer_length', i - 1) = i - 1
      BY <1>0, <1>1, <1>4, InvFacts DEF Slot
    <3> QED
      BY <2>2, <3>1
  <2>5. FifoInv' /\ Contents' = Contents
    BY <1>1, <1>2, <2>1, <2>3, <2>4, RingHolds
  <2> QED
    BY <1>1, <1>2, <1>4, <2>5 DEF Ring!Resize
<1> QED
  BY <1>3, <1>4 DEF SetCapacity

LEMMA ReadStep ==
  ASSUME FifoInv, NEW bytes \in Sizes, Read(bytes)
  PROVE  FifoInv' /\ Ring!Take(bytes)
<1> DEFINE copy == Least(bytes, data_length)
<1>0. bytes \in Nat
  BY FifoAssumption
<1>1. copy \in Nat /\ copy <= data_length
  BY <1>0, InvFacts DEF Least
<1>2. /\ result' = copy /\ out' = Oldest(copy) /\ seen' = 0
      /\ UNCHANGED <<buffer, buffer_length>>
  BY DEF Read
<1>3. \/ data_length = 0 /\ UNCHANGED <<data_length, read_position>>
      \/ /\ data_length > 0
         /\ read_position' = (read_position + copy) % buffer_length
         /\ data_length' = data_length - copy
  BY DEF Read
<1>4. Ring!Least(bytes, Len(Contents)) = copy
  BY ContentsFacts DEF Least, Ring!Least
<1> HIDE DEF copy
<1>5. /\ Contents \in Seq(Bytes) /\ Len(Contents) = data_length
      /\ \A i \in 1 .. data_length :
           Contents[i] = buffer[Slot(read_position, buffer_length, i - 1)]
  BY ContentsFacts
<1>6. out' = SubSeq(Contents, 1, copy) /\ out' \in Seq(Bytes)
  <2>1. copy \in 0 .. data_length
    BY <1>1, InvFacts
  <2>2. out' = SubSeq(Contents, 1, copy)
    BY <1>2, <2>1, OldestFacts
  <2>3. SubSeq(Contents, 1, copy) \in Seq(Bytes)
    BY <1>1, <1>5, PartFacts, InvFacts
  <2> QED
    BY <2>2, <2>3
<1>7. data_length' = data_length - copy
  BY <1>1, <1>3, InvFacts
<1>8. data_length > 0 =>
        read_position' = Slot(read_position, buffer_length, copy)
  <2> SUFFICES ASSUME data_length > 0
               PROVE  read_position' = Slot(read_position, buffer_length, copy)
    OBVIOUS
  <2> DEFINE p == read_position + copy
  <2>1. p \in Nat /\ p < 2 * buffer_length
    BY <1>1, InvFacts
  <2>2. Slot(read_position, buffer_length, copy)
          = IF p < buffer_length THEN p ELSE p - buffer_length
    BY <1>1, InvFacts DEF Slot
  <2>3. read_position' = p % buffer_length
    BY <1>3, InvFacts
  <2> HIDE DEF p
  <2> QED
    BY <2>1, <2>2, <2>3, InvFacts, Wrap
<1>9. FifoTypeOK' /\ RingInBounds' /\ ReaderNotShort'
  <2>1. /\ read_position' \in Nat
        /\ read_position' < buffer_length \/ read_position' = 0
    BY <1>1, <1>3, <1>8, InvFacts DEF Slot
  <2>2. data_length' \in Nat /\ data_length' <= buffer_length
    BY <1>1, <1>7, InvFacts
  <2> QED
    BY <1>1, <1>2, <1>6, <2>1, <2>2, InvFacts
    DEF FifoTypeOK, RingInBounds, ReaderNotShort
<1> DEFINE s == SubSeq(Contents, copy + 1, data_length)
<1>10. /\ s \in Seq(Bytes) /\ Len(s) = data_length - copy
       /\ \A i \in 1 .. data_length - copy : s[i] = Contents[copy + i]
  BY <1>1, <1>5, InvFacts, PartFacts
<1> HIDE DEF s
<1>11. ASSUME NEW i \in 1 .. data_length'
       PROVE  buffer'[Slot(read_position', buffer_length', i - 1)] = s[i]
  <2>1. /\ copy + i \in 1 .. data_length /\ i \in 1 .. data_length - copy
        /\ data_length > 0
    BY <1>1, <1>7, InvFacts
  <2>2. Slot(read_position', buffer_length, i - 1)
          = Slot(read_position, buffer_length, (copy + i) - 1)
    <3>1. PICK k \in Nat : k = i - 1 /\ copy + k < data_length
      BY <1>1, <2>1, InvFacts
    <3>2. read_position < buffer_length /\ copy + k < buffer_length
      <4>1. /\ data_length <= buffer_length /\ read_position \in Nat
            /\ read_position < buffer_length \/ read_position = 0
            /\ buffer_length \in Nat /\ data_length \in Nat
        BY InvFacts
      <4> QED
        BY <1>1, <2>1, <3>1, <4>1
    <3>3. Slot(Slot(read_position, buffer_length, copy), buffer_length, k)
            = Slot(read_position, buffer_length, copy + k)
      BY <1>1, <3>1, <3>2, InvFacts, SlotSum
    <3>4. copy + k = (copy + i) - 1
      BY <1>1, <3>1
    <3> QED
      BY <1>8, <2>1, <3>1, <3>3, <3>4
  <2>3. buffer[Slot(read_position, buffer_length, (copy + i) - 1)]
          = Contents[copy + i]
    BY <1>5, <2>1
  <2> QED
    BY <1>2, <1>10, <2>1, <2>2, <2>3
<1>12. FifoInv' /\ Contents' = s
  BY <1>7, <1>9, <1>10, <1>11, RingHolds
<1> QED
  BY <1>2, <1>4, <1>5, <1>6, <1>12 DEF Ring!Take, s

(* What the two memcpys of c bytes leave in the array: t of them from w on,*)
(* the others at its start.                                                *)
Stored(new, l, array, w, data, c, t) ==
  \A k \in 0 .. l - 1 :
    new[k] = IF k < c - t THEN data[t + (k + 1)]
             ELSE IF w <= k /\ k < w + t THEN data[k - w + 1]
             ELSE array[k]

LEMMA CopyFacts ==
  ASSUME NEW S, NEW l \in Nat, NEW array \in [0 .. l - 1 -> S], NEW w \in Nat,
         NEW data \in Seq(S), NEW c \in Nat, NEW t \in Nat,
         t <= c, c <= Len(data)
  PROVE  LET new == Store(Store(array, w, SubSeq(data, 1, t)), 0,
                          SubSeq(data, t + 1, c))
         IN  new \in [0 .. l - 1 -> S] /\ Stored(new, l, array, w, data, c, t)
<1> DEFINE first == SubSeq(data, 1, t)
           rest  == SubSeq(data, t + 1, c)
           tail  == Store(array, w, first)
           full  == Store(tail, 0, rest)
<1>1. /\ first \in Seq(S) /\ Len(first) = t
      /\ \A i \in 1 .. t : first[i] = data[i]
  OBVIOUS
<1>2. /\ rest \in Seq(S) /\ Len(rest) = c - t
      /\ \A i \in 1 .. c - t : rest[i] = data[t + i]
  OBVIOUS
<1> HIDE DEF first, rest
<1>3. /\ tail \in [0 .. l - 1 -> S]
      /\ \A k \in 0 .. l - 1 :
           tail[k] = IF w <= k /\ k < w + Len(first) THEN first[k - w + 1]
                     ELSE array[k]
  BY <1>1 DEF Store
<1> HIDE DEF tail
<1>4. /\ full \in [0 .. l - 1 -> S]
      /\ \A k \in 0 .. l - 1 :
           full[k] = IF k < Len(rest) THEN rest[k + 1] ELSE tail[k]
  BY <1>2, <1>3 DEF Store
<1> HIDE DEF full
<1>5. ASSUME NEW k \in 0 .. l - 1
      PROVE  full[k] = IF k < c - t THEN data[t + (k + 1)]
                       ELSE IF w <= k /\ k < w + t THEN data[k - w + 1]
                       ELSE array[k]
  <2>1. CASE k < c - t
    <3>1. k + 1 \in 1 .. c - t
      BY <2>1
    <3> QED
      BY <1>2, <1>4, <2>1, <3>1
  <2>2. CASE ~(k < c - t) /\ w <= k /\ k < w + t
    <3>1. k - w + 1 \in 1 .. t
      BY <2>2
    <3> QED
      BY <1>1, <1>2, <1>3, <1>4, <2>2, <3>1
  <2>3. CASE ~(k < c - t) /\ ~(w <= k /\ k < w + t)
    BY <1>1, <1>2, <1>3, <1>4, <2>3
  <2> QED
    BY <2>1, <2>2, <2>3
<1> QED
  BY <1>4, <1>5 DEF full, tail, first, rest, Stored

(* The n bytes of data are behind the d bytes that the ring held, and      *)
(* those are where they were.                                              *)
Appended(new, l, array, p, d, data, n) ==
  /\ \A j \in 0 .. d - 1 : new[Slot(p, l, j)] = array[Slot(p, l, j)]
  /\ \A j \in 1 .. n : new[Slot(p, l, d + j - 1)] = data[j]

LEMMA StoredFacts ==
  ASSUME NEW l \in Nat, NEW p \in Nat, NEW d \in Nat, NEW n \in Nat,
         NEW w \in Nat, NEW t \in Nat, Placed(l, p, d, n, w, t),
         NEW array, NEW data, NEW new, Stored(new, l, array, w, data, n, t)
  PROVE  Appended(new, l, array, p, d, data, n)
<1>1. ASSUME NEW j \in 0 .. d - 1
      PROVE  new[Slot(p, l, j)] = array[Slot(p, l, j)]
  BY DEF Placed, Stored
<1>2. ASSUME NEW j \in 1 .. n
      PROVE  new[Slot(p, l, d + j - 1)] = data[j]
  <2>1. PICK k \in 0 .. l - 1 :
          /\ k = Slot(p, l, d + j - 1)
          /\ j <= t => ~(k < n - t) /\ k = w + (j - 1)
          /\ j > t => k = j - t - 1
    BY DEF Placed
  <2>2. CASE j <= t
    <3>1. w <= k /\ k < w + t /\ k - w + 1 = j /\ ~(k < n - t)
      BY <2>1, <2>2
    <3> QED
      BY <2>1, <3>1 DEF Stored
  <2>3. CASE ~(j <= t)
    <3>1. k < n - t /\ t + (k + 1) = j
      BY <2>1, <2>3
    <3> QED
      BY <2>1, <3>1 DEF Stored
  <2> QED
    BY <2>2, <2>3
<1> QED
  BY <1>1, <1>2 DEF Appended

LEMMA WriteStep ==
  ASSUME FifoInv, NEW data \in Blocks, Write(data)
  PROVE  FifoInv' /\ Ring!Put(data)
<1> DEFINE copy == Least(Len(data), buffer_length - data_length)
           w == (read_position + data_length) % buffer_length
           t == Least(copy, buffer_length - w)
<1>0. data \in Seq(Bytes)
  BY FifoAssumption
<1>1. copy \in Nat /\ data_length + copy <= buffer_length /\ copy <= Len(data)
  BY <1>0, InvFacts DEF Least
<1>2. Ring!Least(Len(data), buffer_length - Len(Contents)) = copy
  BY ContentsFacts DEF Least, Ring!Least
<1>3. /\ Contents \in Seq(Bytes) /\ Len(Contents) = data_length
      /\ \A i \in 1 .. data_length :
           Contents[i] = buffer[Slot(read_position, buffer_length, i - 1)]
  BY ContentsFacts
<1>4. /\ out' = <<>>
      /\ UNCHANGED <<buffer_length, read_position, seen>>
  BY DEF Write
<1>5. CASE data_length >= buffer_length /\ result' = 0 /\ UNCHANGED <<buffer, data_length>>
  <2>1. FifoInv' /\ Contents' = Contents
    BY <1>4, <1>5, InvFacts, NothingSaid, RingSame
  <2>2. copy = 0
    BY <1>0, <1>1, <1>5, InvFacts
  <2>3. Contents \o SubSeq(data, 1, 0) = Contents
    BY <1>0, <1>3
  <2> HIDE DEF copy
  <2> QED
    BY <1>2, <1>4, <1>5, <2>1, <2>2, <2>3 DEF Ring!Put
<1>6. CASE /\ data_length < buffer_length
           /\ buffer' = Store(Store(buffer, w, SubSeq(data, 1, t)), 0,
                             SubSeq(data, t + 1, copy))
           /\ data_length' = data_length + copy /\ result' = copy
  <2> HIDE DEF copy
  <2>0. /\ data_length \in Nat /\ buffer_length \in Nat /\ read_position \in Nat
        /\ data_length < buffer_length /\ read_position < buffer_length
    BY <1>6, InvFacts
  <2>1. w = Slot(read_position, buffer_length, data_length)
    <3> DEFINE p == read_position + data_length
    <3>1. p \in Nat /\ p < 2 * buffer_length
      BY <2>0
    <3>2. Slot(read_position, buffer_length, data_length)
            = IF p < buffer_length THEN p ELSE p - buffer_length
      BY InvFacts DEF Slot
    <3> HIDE DEF p
    <3>3. p % buffer_length = IF p < buffer_length THEN p ELSE p - buffer_length
      BY <3>1, InvFacts, Wrap
    <3> QED
      BY <3>2, <3>3 DEF p
  <2> HIDE DEF w
  <2>2. /\ buffer' \in [0 .. buffer_length - 1 -> Bytes \cup {Garbage}]
        /\ \A j \in 0 .. data_length - 1 :
             buffer'[Slot(read_position, buffer_length, j)]
               = buffer[Slot(read_position, buffer_length, j)]
        /\ \A j \in 1 .. copy :
             buffer'[Slot(read_position, buffer_length, data_length + j - 1)]
               = data[j]
    <3>1. data \in Seq(Bytes \cup {Garbage})
      BY <1>0, SeqMonotonic
    <3>2. PICK l \in Nat, p \in Nat, d \in Nat, n \in Nat :
            /\ l = buffer_length /\ p = read_position
            /\ d = data_length /\ n = copy
      BY <1>1, <2>0
    <3>3. PICK v \in Nat : v = w /\ v = Slot(p, l, d) /\ v < l
      BY <2>0, <2>1, <3>2 DEF Slot
    <3>4. PICK u \in Nat : u = Least(n, l - v) /\ u <= n
      BY <3>3 DEF Least
    <3>5. PICK S : S = Bytes \cup {Garbage}
      OBVIOUS
    <3>6. PICK array \in [0 .. l - 1 -> S] : array = buffer
      BY <3>2, <3>5, InvFacts
    <3>7. PICK new : new = Store(Store(array, v, SubSeq(data, 1, u)), 0,
                                 SubSeq(data, u + 1, n))
      OBVIOUS
    <3>8. p < l /\ d < l /\ d + n <= l
      BY <1>1, <2>0, <3>2
    <3>9. data \in Seq(S) /\ n <= Len(data)
      BY <1>1, <3>1, <3>2, <3>5
    <3>10. /\ new \in [0 .. l - 1 -> S]
           /\ Stored(new, l, array, v, data, n, u)
      BY <3>4, <3>7, <3>9, CopyFacts
    <3>11. Appended(new, l, array, p, d, data, n)
      <4>1. Placed(l, p, d, n, v, u)
        BY <3>3, <3>4, <3>8, SlotFacts
      <4> QED
        BY <3>10, <4>1, StoredFacts
    <3>12. buffer' = new
      BY <1>6, <3>2, <3>3, <3>4, <3>6, <3>7 DEF t
    <3> QED
      BY <3>2, <3>5, <3>6, <3>10, <3>11, <3>12 DEF Appended
  <2>3. FifoTypeOK' /\ RingInBounds' /\ ReaderNotShort'
    BY <1>1, <1>4, <1>6, <2>2, InvFacts, NothingSaid
    DEF FifoTypeOK, RingInBounds, ReaderNotShort
  <2> DEFINE block == SubSeq(data, 1, copy)
             s     == Contents \o block
  <2>4. /\ block \in Seq(Bytes) /\ Len(block) = copy
        /\ \A i \in 1 .. copy : block[i] = data[i]
    BY <1>0, <1>1
  <2> HIDE DEF block
  <2>5. /\ s \in Seq(Bytes) /\ Len(s) = data_length + copy
        /\ \A i \in 1 .. data_length + copy :
                s[i] = IF i <= data_length THEN Contents[i] ELSE block[i - data_length]
    <3>1. /\ s \in Seq(Bytes) /\ Len(s) = Len(Contents) + Len(block)
          /\ \A i \in 1 .. Len(Contents) + Len(block) :
               s[i] = IF i <= Len(Contents) THEN Contents[i]
                      ELSE block[i - Len(Contents)]
      BY <1>3, <2>4, ConcatProperties
    <3> HIDE DEF s
    <3> QED
      BY <1>3, <2>4, <3>1
  <2> HIDE DEF s
  <2>6. ASSUME NEW i \in 1 .. data_length'
        PROVE  buffer'[Slot(read_position', buffer_length', i - 1)] = s[i]
    <3>1. CASE i <= data_length
      <4>1. i \in 1 .. data_length /\ i - 1 \in 0 .. data_length - 1
            /\ i \in 1 .. data_length + copy
        BY <1>1, <1>6, <3>1, InvFacts
      <4> QED
        BY <1>3, <1>4, <2>2, <2>5, <3>1, <4>1
    <3>2. CASE i > data_length
      <4>1. /\ i - data_length \in 1 .. copy /\ i \in 1 .. data_length + copy
            /\ data_length + (i - data_length) - 1 = i - 1 /\ ~(i <= data_length)
        BY <1>1, <1>6, <2>0, <3>2
      <4>2. PICK j \in 1 .. copy : j = i - data_length
        BY <4>1
      <4>3. buffer'[Slot(read_position, buffer_length, i - 1)] = data[j]
        BY <2>2, <4>1, <4>2
      <4>4. s[i] = data[j]
        BY <2>4, <2>5, <4>1, <4>2
      <4> QED
        BY <1>4, <4>3, <4>4
    <3> QED
      BY <1>1, <1>6, <3>1, <3>2, InvFacts
  <2>7. FifoInv' /\ Contents' = s
    BY <1>6, <2>3, <2>5, <2>6, RingHolds
  <2> QED
    BY <1>2, <1>4, <1>6, <2>7 DEF Ring!Put, s, block
<1> QED
  BY <1>5, <1>6 DEF Write

-----------------------------------------------------------------------------
LEMMA FifoNextStep ==
  FifoInv /\ [FifoNext]_fifoVars
    => FifoInv' /\ [Ring!ByteFifoNext]_(Ring!byteFifoVars)
<1> SUFFICES ASSUME FifoInv, [FifoNext]_fifoVars
             PROVE  /\ FifoInv'
                    /\ \/ Ring!ByteFifoNext
                       \/ UNCHANGED <<Contents, buffer_length, out, result>>
  BY DEF Ring!byteFifoVars
<1>1. CASE GetDataLen
  BY <1>1, GetDataLenStep DEF Ring!ByteFifoNext
<1>2. ASSUME NEW size \in Sizes, SetCapacity(size) \/ Read(size)
      PROVE  FifoInv' /\ Ring!ByteFifoNext
  BY <1>2, SetCapacityStep, ReadStep DEF Ring!ByteFifoNext
<1>3. ASSUME NEW data \in Blocks, Write(data)
      PROVE  FifoInv' /\ Ring!ByteFifoNext
  BY <1>3, WriteStep DEF Ring!ByteFifoNext
<1>4. CASE UNCHANGED fifoVars
  <2>1. /\ UNCHANGED <<buffer, buffer_length, data_length, read_position, out,
                       result, seen>>
    BY <1>4 DEF fifoVars
  <2>2. FifoInv' /\ Contents' = Contents
    BY <2>1, InvFacts, RingSame
  <2> QED
    BY <2>1, <2>2
<1> QED
  BY <1>1, <1>2, <1>3, <1>4 DEF FifoNext

(* FifoInv holds in every reachable state, for blocks of any length and    *)
(* capacities of any size, zero included.                                  *)
THEOREM FifoInvariance == FifoSpec => []FifoInv
<1>1. FifoInit => FifoInv
  BY FifoInitInv
<1>2. FifoInv /\ [FifoNext]_fifoVars => FifoInv'
  BY FifoNextStep
<1> QED
  BY <1>1, <1>2, PTL DEF FifoSpec

(* The variables keep their types and the array has the length recorded;   *)
(* a Read hands over bytes that were written, never one of new char[n].    *)
THEOREM FifoTypeCorrect == FifoSpec => []FifoTypeOK
<1>1. FifoInv => FifoTypeOK
  BY DEF FifoInv
<1> QED
  BY <1>1, FifoInvariance, PTL

(* No memcpy of an operation leaves the array.                             *)
THEOREM FifoInBounds == FifoSpec => []RingInBounds
<1>1. FifoInv => RingInBounds
  BY DEF FifoInv
<1> QED
  BY <1>1, FifoInvariance, PTL

(* The reader gets at least as much as GetDataLen has told it.             *)
THEOREM ReaderServed == FifoSpec => []ReaderNotShort
<1>1. FifoInv => ReaderNotShort
  BY DEF FifoInv
<1> QED
  BY <1>1, FifoInvariance, PTL

(* The ring hands over the bytes written, in order, whatever wraps around  *)
(* and is reallocated.                                                     *)
THEOREM ImplementsByteFifo == FifoSpec => IsByteFifo
<1>1. FifoInit => Ring!ByteFifoInit
  BY FifoInitInv
<1>2. FifoInv /\ [FifoNext]_fifoVars
        => [Ring!ByteFifoNext]_(Ring!byteFifoVars)
  BY FifoNextStep
<1> QED
  BY <1>1, <1>2, FifoInvariance, PTL
  DEF FifoSpec, IsByteFifo, Ring!ByteFifoSpec

=============================================================================
