---------------------------- MODULE Buffer_proofs ----------------------------
(***************************************************************************)
(* Proofs about Buffer, for any objects, values, sizes and words.          *)
(***************************************************************************)
EXTENDS Buffer, SequenceTheorems, TLAPS

Values == Elems \cup {Garbage}

Records == [size : Nat, capacity : Nat, data : Seq(Values), copied : Nat]

Sane(r) == r.size <= r.capacity /\ r.capacity <= Len(r.data)

(* No object needs more than two thirds of the numbers there are, so that  *)
(* one and a half times its capacity can be represented.                   *)
RoomToGrow ==
  /\ 3 * MaxSize <= 2 * Limit
  /\ 3 * MaxLength <= 2 * Limit
  /\ \A word \in Words : 3 * Len(word) <= 2 * Limit

Paid(r) == 2 * r.copied <= 5 * r.capacity

Good(r) == r \in Records /\ Sane(r) /\ (RoomToGrow => Paid(r))

(* Every array is as long as its object believes, and the objects that do  *)
(* not exist have none.                                                    *)
BufferInv ==
  /\ alive \subseteq Buffers
  /\ buf \in [Buffers -> Records]
  /\ \A b \in Buffers : Good(buf[b])
  /\ \A b \in Buffers \ alive : buf[b] = Empty
  /\ overrun = FALSE

Front(r) == SubSeq(r.data, 1, r.size)

-----------------------------------------------------------------------------
(* Arrays.                                                                 *)

LEMMA LargerFacts ==
  ASSUME NEW a \in Nat, NEW b \in Nat
  PROVE  Larger(a, b) \in Nat /\ Larger(a, b) >= a /\ Larger(a, b) >= b
  BY DEF Larger

LEMMA NewFacts ==
  ASSUME NEW n \in Nat
  PROVE  New(n) \in Seq(Values) /\ Len(New(n)) = n
<1>1. New(n) \in [1 .. n -> Values]
  BY DEF New, Values
<1> QED
  BY <1>1

(* A memcpy of word changes the elements behind offset, and no others.     *)
LEMMA CopyFacts ==
  ASSUME NEW S, NEW array \in Seq(S), NEW offset \in Nat, NEW word \in Seq(S)
  PROVE  /\ Copy(array, offset, word) \in Seq(S)
         /\ Len(Copy(array, offset, word)) = Len(array)
         /\ \A i \in 1 .. Len(array) :
              Copy(array, offset, word)[i] =
                IF offset < i /\ i <= offset + Len(word) THEN word[i - offset]
                ELSE array[i]
<1> DEFINE copy == Copy(array, offset, word)
<1>1. ASSUME NEW i \in 1 .. Len(array)
      PROVE  /\ copy[i] = IF offset < i /\ i <= offset + Len(word)
                          THEN word[i - offset] ELSE array[i]
             /\ copy[i] \in S
  <2>1. i - offset \in DOMAIN word <=> offset < i /\ i <= offset + Len(word)
    OBVIOUS
  <2>2. copy[i] = IF i - offset \in DOMAIN word THEN word[i - offset]
                  ELSE array[i]
    BY DEF Copy
  <2>3. i - offset \in DOMAIN word => word[i - offset] \in S
    OBVIOUS
  <2> QED
    BY <2>1, <2>2, <2>3
<1>2. copy \in [1 .. Len(array) -> S]
  BY <1>1 DEF Copy
<1>3. Len(array) \in Nat
  OBVIOUS
<1> HIDE DEF copy
<1>4. copy \in Seq(S) /\ Len(copy) = Len(array)
  BY <1>2, <1>3
<1> QED
  BY <1>1, <1>4 DEF copy

(* The first n elements of an array.                                       *)
LEMMA FrontFacts ==
  ASSUME NEW S, NEW array \in Seq(S), NEW n \in Nat, n <= Len(array)
  PROVE  /\ SubSeq(array, 1, n) \in Seq(S)
         /\ Len(SubSeq(array, 1, n)) = n
         /\ \A i \in 1 .. n : SubSeq(array, 1, n)[i] = array[i]
  OBVIOUS

(* What is left of an array, the old front of which the new one has kept.  *)
LEMMA FrontKept ==
  ASSUME NEW S, NEW old \in Seq(S), NEW new \in Seq(S), NEW n \in Nat,
         n <= Len(old), n <= Len(new), \A i \in 1 .. n : new[i] = old[i]
  PROVE  SubSeq(new, 1, n) = SubSeq(old, 1, n)
<1>1. /\ SubSeq(new, 1, n) \in Seq(S) /\ Len(SubSeq(new, 1, n)) = n
      /\ \A i \in 1 .. n : SubSeq(new, 1, n)[i] = new[i]
  BY FrontFacts
<1>2. /\ SubSeq(old, 1, n) \in Seq(S) /\ Len(SubSeq(old, 1, n)) = n
      /\ \A i \in 1 .. n : SubSeq(old, 1, n)[i] = old[i]
  BY FrontFacts
<1> QED
  BY <1>1, <1>2, SeqEqual

(* An element of the front is replaced.                                    *)
LEMMA FrontPut ==
  ASSUME NEW S, NEW old \in Seq(S), NEW n \in Nat, n <= Len(old),
         NEW i \in 1 .. n, NEW v \in S
  PROVE  /\ SubSeq([old EXCEPT ![i] = v], 1, n)
              = [SubSeq(old, 1, n) EXCEPT ![i] = v]
         /\ i \in DOMAIN SubSeq(old, 1, n)
<1>1. PICK new : new = [old EXCEPT ![i] = v]
  OBVIOUS
<1>2. PICK front : front = SubSeq(old, 1, n)
  OBVIOUS
<1>3. PICK put : put = [front EXCEPT ![i] = v]
  OBVIOUS
<1>4. /\ new \in Seq(S) /\ Len(new) = Len(old)
      /\ \A j \in 1 .. Len(old) : new[j] = IF j = i THEN v ELSE old[j]
  BY <1>1
<1>5. /\ front \in Seq(S) /\ Len(front) = n
      /\ \A j \in 1 .. n : front[j] = old[j]
  BY <1>2, FrontFacts
<1>6. /\ put \in Seq(S) /\ Len(put) = n
      /\ \A j \in 1 .. n : put[j] = IF j = i THEN v ELSE front[j]
  BY <1>3, <1>5
<1>7. /\ SubSeq(new, 1, n) \in Seq(S) /\ Len(SubSeq(new, 1, n)) = n
      /\ \A j \in 1 .. n : SubSeq(new, 1, n)[j] = new[j]
  BY <1>4, FrontFacts
<1>8. \A j \in 1 .. n : SubSeq(new, 1, n)[j] = put[j]
  BY <1>4, <1>5, <1>6, <1>7
<1>9. SubSeq(new, 1, n) = put
  BY <1>6, <1>7, <1>8, SeqEqual
<1> QED
  BY <1>1, <1>2, <1>3, <1>5, <1>9

-----------------------------------------------------------------------------
(* Growth.                                                                 *)

(* A larger array that has been filled from the old one.                   *)
LEMMA RefilledFacts ==
  ASSUME NEW r \in Records, Sane(r), NEW n \in Nat, n > r.capacity
  PROVE  /\ Copy(New(n), 0, SubSeq(r.data, 1, r.size)) \in Seq(Values)
         /\ Len(Copy(New(n), 0, SubSeq(r.data, 1, r.size))) = n
         /\ SubSeq(Copy(New(n), 0, SubSeq(r.data, 1, r.size)), 1, r.size)
              = Front(r)
<1> DEFINE front == SubSeq(r.data, 1, r.size)
           array == New(n)
           new   == Copy(array, 0, front)
<1>0. /\ r.size \in Nat /\ r.data \in Seq(Values) /\ r.size <= Len(r.data)
      /\ r.size < n
  BY DEF Records, Sane
<1>1. front \in Seq(Values) /\ Len(front) = r.size
  BY <1>0, FrontFacts
<1>2. array \in Seq(Values) /\ Len(array) = n
  BY NewFacts
<1> HIDE DEF front, array
<1>3. /\ new \in Seq(Values) /\ Len(new) = n
      /\ \A i \in 1 .. n :
           new[i] = IF 0 < i /\ i <= 0 + Len(front) THEN front[i - 0] ELSE array[i]
  BY <1>1, <1>2, CopyFacts
<1> HIDE DEF new
<1>4. \A i \in 1 .. r.size : new[i] = front[i]
  BY <1>0, <1>1, <1>3
<1>5. SubSeq(new, 1, r.size) = SubSeq(front, 1, r.size)
  BY <1>0, <1>1, <1>3, <1>4, FrontKept
<1>6. SubSeq(front, 1, r.size) = front
  BY <1>0, <1>1, SubSeqFull
<1> QED
  BY <1>3, <1>5, <1>6 DEF new, array, front, Front

LEMMA EnsureFacts ==
  ASSUME NEW r \in Records, Sane(r), NEW n \in Nat
  PROVE  /\ EnsureCapacity(r, n) \in Records
         /\ Sane(EnsureCapacity(r, n))
         /\ EnsureCapacity(r, n).size = r.size
         /\ EnsureCapacity(r, n).copied = r.copied
         /\ EnsureCapacity(r, n).capacity = Larger(n, r.capacity)
         /\ Front(EnsureCapacity(r, n)) = Front(r)
<1>0. /\ r.size \in Nat /\ r.capacity \in Nat /\ r.copied \in Nat
      /\ r.size <= r.capacity
  BY DEF Records, Sane
<1>1. CASE n <= r.capacity
  BY <1>0, <1>1 DEF EnsureCapacity, Larger
<1>2. CASE n > r.capacity
  <2> DEFINE new == Copy(New(n), 0, SubSeq(r.data, 1, r.size))
             e   == [r EXCEPT !.capacity = n, !.data = new]
  <2>1. /\ new \in Seq(Values) /\ Len(new) = n
        /\ SubSeq(new, 1, r.size) = Front(r)
    BY <1>2, RefilledFacts
  <2>2. EnsureCapacity(r, n) = e
    BY <1>0, <1>2 DEF EnsureCapacity
  <2> HIDE DEF new
  <2>3. /\ e \in Records /\ e.size = r.size /\ e.copied = r.copied
        /\ e.capacity = n /\ e.data = new
    BY <2>1 DEF Records
  <2>4. Larger(n, r.capacity) = n
    BY <1>0, <1>2 DEF Larger
  <2> HIDE DEF e
  <2> QED
    BY <1>0, <1>2, <2>1, <2>2, <2>3, <2>4 DEF Sane, Front
<1> QED
  BY <1>0, <1>1, <1>2

(* Growth by half pays for what it copies.                                 *)
LEMMA GrowthIsPaid ==
  ASSUME NEW capacity \in Nat, NEW copied \in Nat, NEW size \in Nat,
         NEW new \in Nat, 2 * copied <= 5 * capacity, size <= capacity,
         new > capacity, new >= capacity + capacity \div 2
  PROVE  2 * (copied + size) <= 5 * new
<1> DEFINE half == capacity \div 2
<1>1. half \in Nat /\ (capacity = 2 * half \/ capacity = 2 * half + 1)
  OBVIOUS
<1>2. new >= capacity + half
  OBVIOUS
<1> HIDE DEF half
<1>3. CASE capacity = 2 * half
  BY <1>1, <1>2, <1>3
<1>4. CASE capacity = 2 * half + 1
  BY <1>1, <1>2, <1>4
<1> QED
  BY <1>1, <1>3, <1>4

LEMMA HeadroomFacts ==
  ASSUME NEW capacity \in Nat, NEW asked \in Nat, asked > capacity
  PROVE  /\ Headroom(capacity, asked) \in Nat
         /\ Headroom(capacity, asked) >= asked
         /\ 3 * asked <= 2 * Limit =>
              Headroom(capacity, asked) >= capacity + capacity \div 2
<1> DEFINE half == capacity \div 2
           more == capacity + half
<1>0. half \in Nat /\ 2 * half <= capacity
  OBVIOUS
<1>1. Limit \in Nat \ {0}
  BY BufferAssumption
<1> HIDE DEF half
<1>2. more \in Nat /\ (3 * asked <= 2 * Limit => more < Limit)
  BY <1>0, <1>1
<1> HIDE DEF more
<1>3. more % Limit \in Nat /\ (more < Limit => more % Limit = more)
  BY <1>1, <1>2
<1>4. Headroom(capacity, asked) = Larger(asked, more % Limit)
  BY DEF Headroom, more, half
<1> QED
  BY <1>2, <1>3, <1>4, LargerFacts DEF more, half

LEMMA GrowFacts ==
  ASSUME NEW r \in Records, Sane(r), NEW n \in Nat
  PROVE  /\ EnsureCapacityWithHeadroom(r, n) \in Records
         /\ Sane(EnsureCapacityWithHeadroom(r, n))
         /\ EnsureCapacityWithHeadroom(r, n).size = r.size
         /\ EnsureCapacityWithHeadroom(r, n).capacity >= n
         /\ Front(EnsureCapacityWithHeadroom(r, n)) = Front(r)
         /\ Paid(r) /\ 3 * n <= 2 * Limit
              => Paid(EnsureCapacityWithHeadroom(r, n))
<1>0. /\ r.size \in Nat /\ r.capacity \in Nat /\ r.copied \in Nat
      /\ r.size <= r.capacity
  BY DEF Records, Sane
<1>1. CASE n <= r.capacity
  BY <1>0, <1>1 DEF EnsureCapacityWithHeadroom
<1>2. CASE n > r.capacity
  <2> DEFINE h == Headroom(r.capacity, n)
             f == EnsureCapacity(r, h)
             e == [f EXCEPT !.copied = @ + r.size]
  <2>1. /\ h \in Nat /\ h >= n /\ h > r.capacity
        /\ 3 * n <= 2 * Limit => h >= r.capacity + r.capacity \div 2
    BY <1>0, <1>2, HeadroomFacts
  <2>2. EnsureCapacityWithHeadroom(r, n) = e
    BY <1>0, <1>2 DEF EnsureCapacityWithHeadroom
  <2> HIDE DEF h
  <2>3. /\ f \in Records /\ Sane(f) /\ f.size = r.size /\ f.copied = r.copied
        /\ f.capacity = Larger(h, r.capacity) /\ Front(f) = Front(r)
    BY <2>1, EnsureFacts
  <2>4. Larger(h, r.capacity) = h
    BY <1>0, <2>1 DEF Larger
  <2> HIDE DEF f
  <2>5. /\ e \in Records /\ e.size = r.size /\ e.capacity = h
        /\ e.data = f.data /\ e.copied = r.copied + r.size
    BY <1>0, <2>3, <2>4 DEF Records
  <2> HIDE DEF e
  <2>6. Sane(e) /\ Front(e) = Front(r)
    BY <2>3, <2>4, <2>5 DEF Sane, Front
  <2>7. Paid(r) /\ 3 * n <= 2 * Limit => Paid(e)
    BY <1>0, <2>1, <2>5, GrowthIsPaid DEF Paid
  <2> QED
    BY <1>2, <2>1, <2>2, <2>5, <2>6, <2>7
<1> QED
  BY <1>0, <1>1, <1>2

(* A word copied behind the first k elements of an array.                  *)
LEMMA CopyBehind ==
  ASSUME NEW S, NEW array \in Seq(S), NEW k \in Nat, NEW word \in Seq(S),
         k + Len(word) <= Len(array)
  PROVE  /\ Copy(array, k, word) \in Seq(S)
         /\ Len(Copy(array, k, word)) = Len(array)
         /\ SubSeq(Copy(array, k, word), 1, k + Len(word))
              = SubSeq(array, 1, k) \o word
<1> DEFINE new == Copy(array, k, word)
           n   == k + Len(word)
           s   == SubSeq(new, 1, n)
           f   == SubSeq(array, 1, k)
           t   == f \o word
<1>1. /\ new \in Seq(S) /\ Len(new) = Len(array)
      /\ \A i \in 1 .. Len(array) :
           new[i] = IF k < i /\ i <= k + Len(word) THEN word[i - k] ELSE array[i]
  BY CopyFacts
<1> HIDE DEF new
<1>2. n \in Nat /\ k <= n /\ n <= Len(new) /\ n = k + Len(word)
  BY <1>1
<1>3. /\ f \in Seq(S) /\ Len(f) = k /\ \A i \in 1 .. k : f[i] = array[i]
  BY <1>1, <1>2
<1> HIDE DEF f
<1>4. /\ t \in Seq(S) /\ Len(t) = k + Len(word)
      /\ \A i \in 1 .. k + Len(word) :
           t[i] = IF i <= k THEN f[i] ELSE word[i - k]
  BY <1>3
<1> HIDE DEF n, t
<1>5. s \in Seq(S) /\ Len(s) = n /\ \A i \in 1 .. n : s[i] = new[i]
  BY <1>1, <1>2
<1> HIDE DEF s
<1>6. ASSUME NEW i \in 1 .. n
      PROVE  s[i] = t[i]
  <2>1. i \in 1 .. Len(array) /\ i \in 1 .. k + Len(word)
    BY <1>1, <1>2
  <2>2. CASE i <= k
    <3>1. t[i] = array[i]
      BY <1>3, <1>4, <2>1, <2>2
    <3>2. s[i] = array[i]
      BY <1>1, <1>5, <2>1, <2>2
    <3> QED
      BY <3>1, <3>2
  <2>3. CASE k < i
    <3>1. t[i] = word[i - k]
      BY <1>4, <2>1, <2>3
    <3>2. s[i] = word[i - k]
      BY <1>1, <1>2, <1>5, <2>1, <2>3
    <3> QED
      BY <3>1, <3>2
  <2> QED
    BY <1>2, <2>2, <2>3
<1>7. s = t
  BY <1>2, <1>4, <1>5, <1>6, SeqEqual
<1> QED
  BY <1>1, <1>7 DEF new, n, s, f, t

LEMMA AppendFacts ==
  ASSUME NEW r \in Records, Sane(r), NEW word \in Words,
         r.size + Len(word) < Limit
  PROVE  /\ Appended(r, word) \in Records
         /\ Sane(Appended(r, word))
         /\ Front(Appended(r, word)) = Front(r) \o word
         /\ ~Overruns(r, word)
         /\ Paid(r) /\ 3 * (r.size + Len(word)) <= 2 * Limit
              => Paid(Appended(r, word))
<1> DEFINE n   == r.size + Len(word)
           g   == EnsureCapacityWithHeadroom(r, n)
           new == Copy(g.data, r.size, word)
           a   == [g EXCEPT !.data = new, !.size = n]
<1>0. /\ r.size \in Nat /\ r.size <= Len(r.data) /\ r.data \in Seq(Values)
      /\ word \in Seq(Elems) /\ Len(word) \in Nat /\ n \in Nat
      /\ Limit \in Nat \ {0}
  BY BufferAssumption DEF Records, Sane
<1>1. NewSize(r, word) = n /\ Grown(r, word) = g
  <2>1. n < Limit
    OBVIOUS
  <2> HIDE DEF n
  <2>2. n % Limit = n
    BY <1>0, <2>1
  <2> QED
    BY <2>2 DEF NewSize, Grown, n
<1>2. /\ g \in Records /\ Sane(g) /\ g.size = r.size /\ g.capacity >= n
      /\ Front(g) = Front(r)
      /\ Paid(r) /\ 3 * n <= 2 * Limit => Paid(g)
  BY <1>0, GrowFacts
<1>3. Appended(r, word) = a
  BY <1>1 DEF Appended
<1> HIDE DEF g
<1>4. /\ g.data \in Seq(Values) /\ g.capacity \in Nat
      /\ g.capacity <= Len(g.data) /\ n <= Len(g.data)
  BY <1>0, <1>2 DEF Records, Sane
<1> HIDE DEF n
<1>5. /\ new \in Seq(Values) /\ Len(new) = Len(g.data)
      /\ SubSeq(new, 1, n) = SubSeq(g.data, 1, r.size) \o word
  <2> DEFINE array == g.data
             k     == r.size
  <2>1. word \in Seq(Values)
    BY <1>0, SeqMonotonic DEF Values
  <2>2. array \in Seq(Values) /\ k \in Nat /\ k + Len(word) <= Len(array)
    BY <1>0, <1>4 DEF n
  <2> HIDE DEF array, k
  <2>3. /\ Copy(array, k, word) \in Seq(Values)
        /\ Len(Copy(array, k, word)) = Len(array)
        /\ SubSeq(Copy(array, k, word), 1, k + Len(word))
             = SubSeq(array, 1, k) \o word
    BY <2>1, <2>2, CopyBehind
  <2> QED
    BY <2>3 DEF array, k, n
<1> HIDE DEF new
<1>6. /\ a \in Records /\ a.data = new /\ a.size = n
      /\ a.capacity = g.capacity /\ a.copied = g.copied
  BY <1>0, <1>2, <1>5 DEF Records
<1> HIDE DEF a
<1>7. Sane(a) /\ (Paid(g) => Paid(a))
  BY <1>2, <1>4, <1>5, <1>6 DEF Sane, Paid
<1>8. Front(a) = Front(r) \o word
  BY <1>2, <1>5, <1>6 DEF Front
<1>9. ~Overruns(r, word)
  BY <1>0, <1>1, <1>4 DEF Overruns, n
<1> QED
  BY <1>2, <1>3, <1>6, <1>7, <1>8, <1>9 DEF n

-----------------------------------------------------------------------------
(* Steps that change one object.                                           *)

LEMMA EmptyFacts == Good(Empty) /\ Front(Empty) = <<>>
<1>1. <<>> \in Seq(Values) /\ Len(<<>>) = 0
  OBVIOUS
<1>2. Empty \in Records
  BY <1>1 DEF Empty, Records
<1> QED
  BY <1>1, <1>2 DEF Empty, Good, Sane, Paid, Front

LEMMA ContentsIs ==
  ASSUME BufferInv
  PROVE  Contents = [b \in Buffers |-> Front(buf[b])]
  BY DEF Contents, Front

LEMMA OneChanges ==
  ASSUME BufferInv, NEW b \in Buffers, NEW r, Good(r),
         buf' = [buf EXCEPT ![b] = r], alive' = alive \cup {b},
         overrun' = FALSE
  PROVE  BufferInv' /\ Contents' = [Contents EXCEPT ![b] = Front(r)]
<1>1. r \in Records
  BY DEF Good
<1> QED
  BY <1>1 DEF BufferInv, Contents, Front

(* An object that is edited stays one of those that exist.                 *)
LEMMA EditInv ==
  ASSUME BufferInv, NEW b \in alive, NEW r, Good(r), Become(b, r)
  PROVE  /\ BufferInv' /\ alive' = alive
         /\ Contents' = [Contents EXCEPT ![b] = Front(r)]
<1>1. /\ b \in Buffers /\ overrun' = FALSE /\ alive' = alive \cup {b}
      /\ buf' = [buf EXCEPT ![b] = r] /\ alive' = alive
  BY DEF BufferInv, Become
<1> QED
  BY <1>1, OneChanges

LEMMA InvOf ==
  ASSUME BufferInv, NEW b \in Buffers
  PROVE  /\ buf[b] \in Records /\ Good(buf[b]) /\ Sane(buf[b])
         /\ buf[b].size \in Nat
         /\ Contents[b] = Front(buf[b])
         /\ b \notin alive => Contents[b] = <<>>
  BY EmptyFacts DEF BufferInv, Good, Records, Contents, Front

LEMMA ContentsType ==
  ASSUME BufferInv
  PROVE  /\ Contents \in [Buffers -> Seq(Values)]
         /\ \A b \in Buffers : Len(Contents[b]) = buf[b].size
<1>1. ASSUME NEW b \in Buffers
      PROVE  Contents[b] \in Seq(Values) /\ Len(Contents[b]) = buf[b].size
  <2> DEFINE array == buf[b].data
             n     == buf[b].size
  <2>1. array \in Seq(Values) /\ n \in Nat /\ n <= Len(array)
    BY InvOf DEF Records, Sane
  <2>2. Contents[b] = SubSeq(array, 1, n)
    BY InvOf DEF Front
  <2> HIDE DEF array, n
  <2>3. SubSeq(array, 1, n) \in Seq(Values) /\ Len(SubSeq(array, 1, n)) = n
    BY <2>1, FrontFacts
  <2> QED
    BY <2>2, <2>3 DEF n
<1> QED
  BY <1>1 DEF Contents

LEMMA ConstructSizedStep ==
  ASSUME BufferInv, NEW b \in Buffers, NEW size \in Sizes,
         NEW capacity \in Sizes, ConstructSized(b, size, capacity)
  PROVE  BufferInv' /\ Promise!Create(b)
<1> DEFINE n == Larger(size, capacity)
           r == [Empty EXCEPT !.size = size, !.capacity = n, !.data = New(n)]
<1>0. size \in Nat /\ capacity \in Nat
  BY BufferAssumption DEF Sizes
<1>1. n \in Nat /\ size <= n /\ New(n) \in Seq(Values) /\ Len(New(n)) = n
  BY <1>0, LargerFacts, NewFacts
<1>2. /\ b \notin alive /\ alive' = alive \cup {b}
      /\ buf' = [buf EXCEPT ![b] = r] /\ overrun' = FALSE
  BY DEF ConstructSized, BufferInv
<1> HIDE DEF n
<1>3. /\ r \in Records /\ r.size = size /\ r.capacity = n /\ r.copied = 0
      /\ r.data = New(n)
  BY <1>0, <1>1, EmptyFacts DEF Good, Records, Empty
<1> HIDE DEF r
<1>4. Good(r)
  BY <1>0, <1>1, <1>3 DEF Good, Sane, Paid
<1>5. Len(Front(r)) = size
  BY <1>0, <1>1, <1>3, FrontFacts DEF Front
<1>6. BufferInv' /\ Contents' = [Contents EXCEPT ![b] = Front(r)]
  BY <1>2, <1>4, OneChanges
<1>7. Contents[b] = <<>> /\ Contents \in [Buffers -> Seq(Values)]
  BY <1>2, InvOf, ContentsType
<1>8. Promise!Resized(b, size)
  BY <1>0, <1>5, <1>6, <1>7 DEF Promise!Resized
<1> QED
  BY <1>2, <1>6, <1>8 DEF Promise!Create

LEMMA ConstructFromStep ==
  ASSUME BufferInv, NEW b \in Buffers, NEW word \in Words,
         NEW capacity \in Sizes, ConstructFrom(b, word, capacity)
  PROVE  BufferInv' /\ Promise!Create(b)
<1> DEFINE n    == Larger(Len(word), capacity)
           data == Copy(New(n), 0, word)
           r    == [Empty EXCEPT !.size = Len(word), !.capacity = n,
                                 !.data = data]
<1>0. /\ capacity \in Nat /\ word \in Seq(Elems) /\ word \in Seq(Values)
      /\ Len(word) \in Nat
  <2>1. word \in Seq(Elems) /\ capacity \in Nat
    BY BufferAssumption DEF Sizes
  <2> QED
    BY <2>1, SeqMonotonic DEF Values
<1>1. n \in Nat /\ Len(word) <= n /\ New(n) \in Seq(Values) /\ Len(New(n)) = n
  BY <1>0, LargerFacts, NewFacts
<1>2. /\ b \notin alive /\ alive' = alive \cup {b}
      /\ buf' = [buf EXCEPT ![b] = r] /\ overrun' = FALSE
  BY DEF ConstructFrom, BufferInv
<1> HIDE DEF n
<1>3. /\ data \in Seq(Values) /\ Len(data) = n
      /\ SubSeq(data, 1, Len(word)) = word
  <2> DEFINE array == New(n)
  <2>1. array \in Seq(Values) /\ Len(array) = n
    BY <1>1
  <2> HIDE DEF array
  <2>2. /\ Copy(array, 0, word) \in Seq(Values)
        /\ Len(Copy(array, 0, word)) = n
        /\ SubSeq(Copy(array, 0, word), 1, 0 + Len(word))
             = SubSeq(array, 1, 0) \o word
    BY <1>0, <1>1, <2>1, CopyBehind
  <2>3. SubSeq(array, 1, 0) = <<>> /\ <<>> \o word = word /\ 0 + Len(word) = Len(word)
    BY <1>0, <2>1
  <2> QED
    BY <2>2, <2>3 DEF array
<1> HIDE DEF data
<1>4. /\ r \in Records /\ r.size = Len(word) /\ r.capacity = n /\ r.copied = 0
      /\ r.data = data
  BY <1>0, <1>1, <1>3, EmptyFacts DEF Good, Records, Empty
<1> HIDE DEF r
<1>5. Good(r) /\ Front(r) = word
  BY <1>0, <1>1, <1>3, <1>4 DEF Good, Sane, Paid, Front
<1>6. BufferInv' /\ Contents' = [Contents EXCEPT ![b] = word]
  BY <1>2, <1>5, OneChanges
<1> QED
  BY <1>2, <1>6 DEF Promise!Create, Promise!Holds

(* Two objects change, and their contents with them.                       *)
BothBecome(b, r, c, q) ==
  /\ buf' = [buf EXCEPT ![b] = r, ![c] = q]
  /\ alive' = alive \cup {b}
  /\ overrun' = FALSE

BothHold(b, r, c, q) ==
  Contents' = [Contents EXCEPT ![b] = Front(r), ![c] = Front(q)]

LEMMA TwoChange ==
  ASSUME BufferInv, NEW b \in Buffers, NEW c \in Buffers, b # c, c \in alive,
         NEW r, Good(r), NEW q, Good(q), BothBecome(b, r, c, q)
  PROVE  BufferInv' /\ BothHold(b, r, c, q)
<1>1. r \in Records /\ q \in Records
  BY DEF Good
<1>2. /\ buf' \in [Buffers -> Records] /\ buf'[b] = r /\ buf'[c] = q
      /\ \A x \in Buffers \ {b, c} : buf'[x] = buf[x]
  BY <1>1 DEF BufferInv, BothBecome
<1>3. BufferInv'
  BY <1>1, <1>2 DEF BufferInv, BothBecome
<1>4. Contents' = [Contents EXCEPT ![b] = Front(r), ![c] = Front(q)]
  BY <1>2 DEF Contents, Front
<1> QED
  BY <1>3, <1>4 DEF BothHold

(* An object moved from keeps its array at most.                           *)
LEMMA MovedFromFacts ==
  ASSUME NEW r \in Records, NEW data \in Seq(Values)
  PROVE  /\ Good(OnMovedFrom([r EXCEPT !.data = data]))
         /\ Front(OnMovedFrom([r EXCEPT !.data = data])) = <<>>
<1> DEFINE s == [r EXCEPT !.data = data]
           q == OnMovedFrom(s)
<1>1. s \in Records /\ s.data = data
  BY DEF Records
<1> HIDE DEF s
<1>2. /\ q \in Records /\ q.size = 0 /\ q.capacity = 0 /\ q.copied = 0
      /\ q.data = data
  BY <1>1 DEF OnMovedFrom, Records
<1> HIDE DEF q
<1>3. Len(data) \in Nat /\ SubSeq(data, 1, 0) = <<>>
  OBVIOUS
<1>4. Good(q) /\ Front(q) = <<>>
  BY <1>2, <1>3 DEF Good, Sane, Paid, Front
<1> QED
  BY <1>4 DEF q, s

LEMMA MoveConstructStep ==
  ASSUME BufferInv, NEW b \in Buffers, NEW from \in Buffers,
         MoveConstruct(b, from)
  PROVE  BufferInv' /\ from \in alive /\ Promise!CreateFrom(b, from)
<1>1. /\ b \notin alive /\ from \in alive /\ b # from
      /\ alive' = alive \cup {b} /\ overrun' = FALSE
  BY DEF MoveConstruct, BufferInv
<1>2. PICK r : r = buf[from]
  OBVIOUS
<1>3. PICK q : q = OnMovedFrom([r EXCEPT !.data = <<>>])
  OBVIOUS
<1>4. buf' = [buf EXCEPT ![b] = r, ![from] = q]
  BY <1>1, <1>2, <1>3 DEF MoveConstruct, BufferInv
<1>5. Good(r) /\ Front(r) = Contents[from] /\ r \in Records
  BY <1>2, InvOf
<1>6. Good(q) /\ Front(q) = <<>>
  <2>1. <<>> \in Seq(Values)
    OBVIOUS
  <2> QED
    BY <1>3, <1>5, <2>1, MovedFromFacts
<1>7. BothBecome(b, r, from, q)
  BY <1>1, <1>4 DEF BothBecome
<1>8. BufferInv' /\ BothHold(b, r, from, q)
  BY <1>1, <1>5, <1>6, <1>7, TwoChange
<1> QED
  BY <1>1, <1>5, <1>6, <1>8 DEF Promise!CreateFrom, BothHold

LEMMA MoveAssignStep ==
  ASSUME BufferInv, NEW b \in Buffers, NEW from \in Buffers,
         MoveAssign(b, from)
  PROVE  BufferInv' /\ {b, from} \subseteq alive /\ Promise!Move(b, from)
<1>1. /\ b \in alive /\ from \in alive /\ overrun' = FALSE
      /\ alive' = alive \cup {b} /\ alive' = alive
  BY DEF MoveAssign, BufferInv
<1>2. PICK r : r = buf[from]
  OBVIOUS
<1>3. Good(r) /\ Front(r) = Contents[from] /\ r \in Records
  BY <1>2, InvOf
<1>4. CASE b = from
  <2>1. PICK q : q = OnMovedFrom([r EXCEPT !.data = r.data])
    OBVIOUS
  <2>2. r.data \in Seq(Values) /\ [r EXCEPT !.data = r.data] = r
    BY <1>3 DEF Records
  <2>3. Good(q) /\ Front(q) = <<>>
    BY <1>3, <2>1, <2>2, MovedFromFacts
  <2>4. buf' = [buf EXCEPT ![b] = q]
    BY <1>2, <1>4, <2>1, <2>2 DEF MoveAssign, BufferInv
  <2>5. BufferInv' /\ Contents' = [Contents EXCEPT ![b] = Front(q)]
    BY <1>1, <2>3, <2>4, OneChanges
  <2>6. [Contents EXCEPT ![b] = <<>>]
          = [Contents EXCEPT ![b] = Contents[from], ![from] = <<>>]
    BY <1>4
  <2> QED
    BY <1>1, <2>3, <2>5, <2>6 DEF Promise!Move
<1>5. CASE b # from
  <2>1. PICK q : q = OnMovedFrom([r EXCEPT !.data = <<>>])
    OBVIOUS
  <2>2. Good(q) /\ Front(q) = <<>>
    <3>1. <<>> \in Seq(Values)
      OBVIOUS
    <3> QED
      BY <1>3, <2>1, <3>1, MovedFromFacts
  <2>3. buf' = [buf EXCEPT ![b] = r, ![from] = q]
    BY <1>2, <1>5, <2>1 DEF MoveAssign, BufferInv
  <2>4. BothBecome(b, r, from, q)
    BY <1>1, <2>3 DEF BothBecome
  <2>5. BufferInv' /\ BothHold(b, r, from, q)
    BY <1>1, <1>3, <1>5, <2>2, <2>4, TwoChange
  <2> QED
    BY <1>1, <1>3, <2>2, <2>5 DEF Promise!Move, BothHold
<1> QED
  BY <1>4, <1>5

LEMMA SwapStep ==
  ASSUME BufferInv, NEW a \in Buffers, NEW b \in Buffers, Swap(a, b)
  PROVE  BufferInv' /\ {a, b} \subseteq alive /\ Promise!Swap(a, b)
<1>1. /\ a \in alive /\ b \in alive /\ overrun' = FALSE
      /\ alive' = alive \cup {a} /\ alive' = alive
  BY DEF Swap, BufferInv
<1>2. PICK r : r = buf[b]
  OBVIOUS
<1>3. PICK q : q = buf[a]
  OBVIOUS
<1>4. /\ Good(r) /\ Front(r) = Contents[b]
      /\ Good(q) /\ Front(q) = Contents[a]
  BY <1>2, <1>3, InvOf
<1>5. buf' = [buf EXCEPT ![a] = r, ![b] = q]
  BY <1>2, <1>3 DEF Swap
<1>6. CASE a = b
  <2>1. buf' = [buf EXCEPT ![a] = r]
    BY <1>2, <1>3, <1>5, <1>6
  <2>2. BufferInv' /\ Contents' = [Contents EXCEPT ![a] = Front(r)]
    BY <1>1, <1>4, <2>1, OneChanges
  <2> QED
    BY <1>1, <1>4, <1>6, <2>2 DEF Promise!Swap
<1>7. CASE a # b
  <2>1. BothBecome(a, r, b, q)
    BY <1>1, <1>5 DEF BothBecome
  <2>2. BufferInv' /\ BothHold(a, r, b, q)
    BY <1>1, <1>4, <1>7, <2>1, TwoChange
  <2> QED
    BY <1>1, <1>4, <2>2 DEF Promise!Swap, BothHold
<1> QED
  BY <1>6, <1>7

LEMMA DestructStep ==
  ASSUME BufferInv, NEW b \in Buffers, Destruct(b)
  PROVE  BufferInv' /\ b \in alive /\ Promise!Destroy(b)
<1>1. /\ b \in alive /\ overrun' = FALSE /\ alive' = alive \ {b}
      /\ buf' = [buf EXCEPT ![b] = Empty]
  BY DEF Destruct, BufferInv
<1>2. Empty \in Records
  BY EmptyFacts DEF Good
<1>3. BufferInv'
  BY <1>1, <1>2, EmptyFacts DEF BufferInv
<1>4. Contents' = [Contents EXCEPT ![b] = Front(Empty)]
  BY <1>1, <1>2 DEF BufferInv, Contents, Front
<1> QED
  BY <1>1, <1>3, <1>4, EmptyFacts DEF Promise!Destroy, Promise!Holds

(* What the edited objects hold.                                           *)

LEMMA SetDataStep ==
  ASSUME BufferInv, NEW b \in Buffers, NEW word \in Words, SetData(b, word)
  PROVE  BufferInv' /\ b \in alive /\ Promise!Edit(b)
<1>0. PICK p : p = [buf[b] EXCEPT !.size = 0]
  OBVIOUS
<1>1. PICK r : r = Appended(p, word)
  OBVIOUS
<1>2. /\ b \in alive /\ buf' = [buf EXCEPT ![b] = r]
      /\ alive' = alive \cup {b} /\ alive' = alive
      /\ overrun' = (overrun \/ Overruns(p, word))
  BY <1>0, <1>1 DEF SetData
<1>3. /\ p \in Records /\ p.size = 0 /\ Good(p) /\ Front(p) = <<>>
  <2>1. /\ buf[b] \in Records /\ Good(buf[b])
    BY InvOf
  <2>2. /\ p \in Records /\ p.size = 0 /\ p.capacity = buf[b].capacity
        /\ p.copied = buf[b].copied /\ p.data = buf[b].data
        /\ p.capacity \in Nat /\ p.data \in Seq(Values)
    BY <1>0, <2>1 DEF Records
  <2>3. SubSeq(p.data, 1, 0) = <<>>
    BY <2>2
  <2> QED
    BY <2>1, <2>2, <2>3 DEF Good, Sane, Paid, Front
<1>4. word \in Seq(Elems) /\ Len(word) < Limit /\ Len(word) \in Nat
  BY BufferAssumption
<1>5. p.size + Len(word) = Len(word)
  BY <1>3, <1>4
<1>6. /\ r \in Records /\ Sane(r) /\ Front(r) = <<>> \o word
      /\ ~Overruns(p, word)
      /\ Paid(p) /\ 3 * Len(word) <= 2 * Limit => Paid(r)
  BY <1>1, <1>3, <1>4, <1>5, AppendFacts DEF Good
<1>7. Good(r) /\ Front(r) = word
  BY <1>3, <1>4, <1>6 DEF Good, RoomToGrow
<1>8. overrun' = FALSE
  BY <1>2, <1>6 DEF BufferInv
<1>9. BufferInv' /\ Contents' = [Contents EXCEPT ![b] = Front(r)]
  BY <1>2, <1>7, <1>8, OneChanges
<1> QED
  BY <1>2, <1>7, <1>9 DEF Promise!Edit, Promise!Holds

LEMMA AppendDataStep ==
  ASSUME BufferInv, NEW b \in Buffers, NEW word \in Words, AppendData(b, word)
  PROVE  BufferInv' /\ b \in alive /\ Promise!Edit(b)
<1>0. PICK p : p = buf[b]
  OBVIOUS
<1>1. PICK r : r = Appended(p, word)
  OBVIOUS
<1>2. /\ b \in alive /\ buf' = [buf EXCEPT ![b] = r]
      /\ alive' = alive \cup {b} /\ alive' = alive
      /\ overrun' = (overrun \/ Overruns(p, word))
      /\ p.size + Len(word) <= MaxLength
  BY <1>0, <1>1 DEF AppendData
<1>3. /\ p \in Records /\ p.size \in Nat /\ Good(p) /\ Front(p) = Contents[b]
  BY <1>0, InvOf
<1>4. /\ Len(word) \in Nat /\ MaxLength \in Nat /\ MaxLength < Limit
      /\ Limit \in Nat
  BY BufferAssumption
<1>5. p.size + Len(word) < Limit
  BY <1>2, <1>3, <1>4
<1>6. /\ r \in Records /\ Sane(r) /\ Front(r) = Front(p) \o word
      /\ ~Overruns(p, word)
      /\ Paid(p) /\ 3 * (p.size + Len(word)) <= 2 * Limit => Paid(r)
  BY <1>1, <1>3, <1>5, AppendFacts DEF Good
<1>7. RoomToGrow => 3 * (p.size + Len(word)) <= 2 * Limit
  BY <1>2, <1>3, <1>4 DEF RoomToGrow
<1>8. Good(r) /\ overrun' = FALSE
  BY <1>2, <1>3, <1>6, <1>7 DEF Good, BufferInv
<1>9. BufferInv' /\ Contents' = [Contents EXCEPT ![b] = Front(r)]
  BY <1>2, <1>8, OneChanges
<1> QED
  BY <1>2, <1>3, <1>6, <1>9 DEF Promise!Edit, Promise!Holds

LEMMA SetSizeStep ==
  ASSUME BufferInv, NEW b \in Buffers, NEW size \in Sizes, SetSize(b, size)
  PROVE  BufferInv' /\ b \in alive /\ Promise!Edit(b)
<1>0. PICK p : p = buf[b]
  OBVIOUS
<1>1. PICK g : g = EnsureCapacityWithHeadroom(p, size)
  OBVIOUS
<1>2. PICK r : r = [g EXCEPT !.size = size]
  OBVIOUS
<1>3. b \in alive /\ Become(b, r)
  BY <1>0, <1>1, <1>2 DEF SetSize
<1>4. /\ p \in Records /\ p.size \in Nat /\ Good(p) /\ Sane(p)
      /\ Front(p) = Contents[b]
  BY <1>0, InvOf
<1>5. size \in Nat /\ size <= MaxSize /\ MaxSize \in Nat /\ Limit \in Nat
  BY BufferAssumption DEF Sizes
<1>6. /\ g \in Records /\ Sane(g) /\ g.size = p.size /\ g.capacity >= size
      /\ Front(g) = Front(p)
      /\ Paid(p) /\ 3 * size <= 2 * Limit => Paid(g)
  BY <1>1, <1>4, <1>5, GrowFacts
<1>7. RoomToGrow => 3 * size <= 2 * Limit
  BY <1>5 DEF RoomToGrow
<1>8. /\ r \in Records /\ r.size = size /\ r.capacity = g.capacity
      /\ r.copied = g.copied /\ r.data = g.data
      /\ g.data \in Seq(Values) /\ g.capacity \in Nat
  BY <1>2, <1>5, <1>6 DEF Records
<1>9. Good(r)
  BY <1>4, <1>5, <1>6, <1>7, <1>8 DEF Good, Sane, Paid
<1>10. /\ BufferInv' /\ alive' = alive
       /\ Contents' = [Contents EXCEPT ![b] = Front(r)]
  BY <1>3, <1>9, EditInv
<1>11. Promise!Resized(b, size)
  <2>1. PICK array : array = g.data
    OBVIOUS
  <2>2. array \in Seq(Values) /\ size <= Len(array) /\ p.size <= Len(array)
    BY <1>4, <1>5, <1>6, <1>8, <2>1 DEF Sane
  <2>3. /\ Len(SubSeq(array, 1, size)) = size
        /\ \A i \in 1 .. size : SubSeq(array, 1, size)[i] = array[i]
    BY <1>5, <2>2, FrontFacts
  <2>4. PICK n \in Nat : n = p.size
    BY <1>4
  <2>5. /\ Len(SubSeq(array, 1, n)) = n
        /\ \A i \in 1 .. n : SubSeq(array, 1, n)[i] = array[i]
    BY <2>2, <2>4, FrontFacts
  <2>6. Front(r) = SubSeq(array, 1, size) /\ Contents[b] = SubSeq(array, 1, n)
    BY <1>4, <1>6, <1>8, <2>1, <2>4 DEF Front
  <2>7. /\ Contents'[b] = Front(r) /\ b \in Buffers
        /\ \A c \in Buffers \ {b} : Contents'[c] = Contents[c]
    BY <1>10, ContentsType
  <2>8. /\ Len(Contents'[b]) = size
        /\ \A i \in 1 .. size :
             i <= Len(Contents[b]) => Contents'[b][i] = Contents[b][i]
    <3>1. Len(Contents'[b]) = size
      BY <2>3, <2>6, <2>7
    <3>2. ASSUME NEW i \in 1 .. size, i <= Len(Contents[b])
          PROVE  Contents'[b][i] = Contents[b][i]
      <4>1. i \in 1 .. n
        BY <1>5, <2>5, <2>6, <3>2
      <4> QED
        BY <2>3, <2>5, <2>6, <2>7, <4>1
    <3> QED
      BY <3>1, <3>2
  <2> QED
    BY <2>7, <2>8 DEF Promise!Resized
<1> QED
  BY <1>3, <1>10, <1>11 DEF Promise!Edit

LEMMA ReserveStep ==
  ASSUME BufferInv, NEW b \in Buffers, NEW capacity \in Sizes,
         Reserve(b, capacity)
  PROVE  BufferInv' /\ UNCHANGED <<alive, Contents>>
<1>0. PICK p : p = buf[b]
  OBVIOUS
<1>1. PICK r : r = EnsureCapacity(p, capacity)
  OBVIOUS
<1>2. b \in alive /\ Become(b, r)
  BY <1>0, <1>1 DEF Reserve
<1>3. /\ p \in Records /\ Good(p) /\ Sane(p) /\ Front(p) = Contents[b]
      /\ p.capacity \in Nat /\ p.copied \in Nat
  BY <1>0, InvOf DEF Records
<1>4. capacity \in Nat
  BY BufferAssumption DEF Sizes
<1>5. /\ r \in Records /\ Sane(r) /\ r.copied = p.copied
      /\ r.capacity = Larger(capacity, p.capacity) /\ Front(r) = Front(p)
  BY <1>1, <1>3, <1>4, EnsureFacts
<1>6. r.capacity \in Nat /\ r.capacity >= p.capacity
  BY <1>3, <1>4, <1>5, LargerFacts
<1>7. Good(r)
  BY <1>3, <1>5, <1>6 DEF Good, Paid
<1>8. /\ BufferInv' /\ alive' = alive
      /\ Contents' = [Contents EXCEPT ![b] = Front(r)]
  BY <1>2, <1>7, EditInv
<1>9. [Contents EXCEPT ![b] = Contents[b]] = Contents
  BY ContentsType
<1> QED
  BY <1>3, <1>5, <1>8, <1>9

LEMMA ClearStep ==
  ASSUME BufferInv, NEW b \in Buffers, Clear(b)
  PROVE  BufferInv' /\ b \in alive /\ Promise!Edit(b)
<1>1. PICK p : p = buf[b]
  OBVIOUS
<1>2. PICK r : r = [p EXCEPT !.size = 0]
  OBVIOUS
<1>3. b \in alive /\ Become(b, r)
  BY <1>1, <1>2 DEF Clear
<1>4. p \in Records /\ Good(p)
  BY <1>1, InvOf
<1>5. /\ r \in Records /\ r.size = 0 /\ r.capacity = p.capacity
      /\ r.copied = p.copied /\ r.data = p.data
      /\ r.capacity \in Nat /\ r.data \in Seq(Values)
  BY <1>2, <1>4 DEF Records
<1>6. SubSeq(r.data, 1, 0) = <<>>
  BY <1>5
<1>7. Good(r) /\ Front(r) = <<>>
  BY <1>4, <1>5, <1>6 DEF Good, Sane, Paid, Front
<1>8. /\ BufferInv' /\ alive' = alive
      /\ Contents' = [Contents EXCEPT ![b] = Front(r)]
  BY <1>3, <1>7, EditInv
<1> QED
  BY <1>3, <1>7, <1>8 DEF Promise!Edit, Promise!Holds

LEMMA PutStep ==
  ASSUME BufferInv, NEW b \in Buffers, NEW i \in Sizes, NEW v \in Elems,
         Put(b, i, v)
  PROVE  BufferInv' /\ b \in alive /\ Promise!Edit(b)
<1>1. PICK p : p = buf[b]
  OBVIOUS
<1>2. PICK array : array = [p.data EXCEPT ![i] = v]
  OBVIOUS
<1>3. PICK r : r = [p EXCEPT !.data = array]
  OBVIOUS
<1>4. b \in alive /\ Become(b, r) /\ i \in 1 .. p.size
  BY <1>1, <1>2, <1>3 DEF Put
<1>5. /\ p \in Records /\ Good(p) /\ p.size \in Nat /\ p.data \in Seq(Values)
      /\ p.size <= Len(p.data) /\ p.capacity \in Nat
      /\ Contents[b] = SubSeq(p.data, 1, p.size)
  BY <1>1, InvOf DEF Records, Good, Sane, Front
<1>6. array \in Seq(Values) /\ Len(array) = Len(p.data)
  BY <1>2, <1>4, <1>5 DEF Values
<1>7. /\ r \in Records /\ r.size = p.size /\ r.capacity = p.capacity
      /\ r.copied = p.copied /\ r.data = array
  BY <1>3, <1>5, <1>6 DEF Records
<1>8. Good(r)
  BY <1>5, <1>6, <1>7 DEF Good, Sane, Paid
<1>9. /\ BufferInv' /\ alive' = alive
      /\ Contents' = [Contents EXCEPT ![b] = Front(r)]
  BY <1>4, <1>8, EditInv
<1>10. Front(r) = [Contents[b] EXCEPT ![i] = v] /\ i \in DOMAIN Contents[b]
  <2>1. PICK old \in Seq(Values) : old = p.data
    BY <1>5
  <2>2. PICK n \in Nat : n = p.size
    BY <1>5
  <2>3. n <= Len(old) /\ i \in 1 .. n /\ array = [old EXCEPT ![i] = v]
    BY <1>2, <1>4, <1>5, <2>1, <2>2
  <2>4. v \in Values
    BY DEF Values
  <2>5. /\ SubSeq(array, 1, n) = [SubSeq(old, 1, n) EXCEPT ![i] = v]
        /\ i \in DOMAIN SubSeq(old, 1, n)
    BY <2>3, <2>4, FrontPut
  <2> QED
    BY <1>5, <1>7, <2>1, <2>2, <2>5 DEF Front
<1>11. Contents' = [Contents EXCEPT ![b][i] = v]
  BY <1>9, <1>10
<1> QED
  BY <1>4, <1>9, <1>10, <1>11 DEF Promise!Edit

-----------------------------------------------------------------------------
(* The specification.                                                      *)

LEMMA BufferInitStep ==
  ASSUME BufferInit
  PROVE  BufferInv /\ Promise!VectorsInit
<1>1. Good(Empty) /\ Front(Empty) = <<>> /\ Empty \in Records
  BY EmptyFacts DEF Good
<1>2. BufferInv
  BY <1>1 DEF BufferInit, BufferInv
<1>3. Contents = [b \in Buffers |-> <<>>]
  BY <1>1 DEF BufferInit, Contents, Front
<1> QED
  BY <1>2, <1>3 DEF BufferInit, Promise!VectorsInit

LEMMA BufferStutter ==
  ASSUME BufferInv, UNCHANGED bufferVars
  PROVE  BufferInv' /\ UNCHANGED <<alive, Contents>>
  BY DEF bufferVars, BufferInv, Contents

(* Every step keeps the invariant and is one of Vectors, or changes        *)
(* nothing that can be read.                                               *)
LEMMA BufferNextStep ==
  ASSUME BufferInv, [BufferNext]_bufferVars
  PROVE  BufferInv' /\ [Promise!VectorsNext]_(Promise!vectorsVars)
<1>1. ASSUME NEW b \in Buffers, NEW size \in Sizes, NEW capacity \in Sizes,
             ConstructSized(b, size, capacity)
      PROVE  BufferInv' /\ Promise!VectorsNext
  BY <1>1, ConstructSizedStep DEF Promise!VectorsNext
<1>2. ASSUME NEW b \in Buffers, NEW word \in Words, NEW capacity \in Sizes,
             ConstructFrom(b, word, capacity)
      PROVE  BufferInv' /\ Promise!VectorsNext
  BY <1>2, ConstructFromStep DEF Promise!VectorsNext
<1>3. ASSUME NEW b \in Buffers, NEW c \in Buffers, MoveConstruct(b, c)
      PROVE  BufferInv' /\ Promise!VectorsNext
  BY <1>3, MoveConstructStep DEF Promise!VectorsNext
<1>4. ASSUME NEW b \in Buffers, NEW c \in Buffers, MoveAssign(b, c)
      PROVE  BufferInv' /\ Promise!VectorsNext
  BY <1>4, MoveAssignStep DEF Promise!VectorsNext
<1>5. ASSUME NEW b \in Buffers, NEW c \in Buffers, Swap(b, c)
      PROVE  BufferInv' /\ Promise!VectorsNext
  BY <1>5, SwapStep DEF Promise!VectorsNext
<1>6. ASSUME NEW b \in Buffers, NEW word \in Words, SetData(b, word)
      PROVE  BufferInv' /\ Promise!VectorsNext
  BY <1>6, SetDataStep DEF Promise!VectorsNext
<1>7. ASSUME NEW b \in Buffers, NEW word \in Words, AppendData(b, word)
      PROVE  BufferInv' /\ Promise!VectorsNext
  BY <1>7, AppendDataStep DEF Promise!VectorsNext
<1>8. ASSUME NEW b \in Buffers, NEW size \in Sizes, SetSize(b, size)
      PROVE  BufferInv' /\ Promise!VectorsNext
  BY <1>8, SetSizeStep DEF Promise!VectorsNext
<1>9. ASSUME NEW b \in Buffers, NEW size \in Sizes, Reserve(b, size)
      PROVE  BufferInv' /\ UNCHANGED Promise!vectorsVars
  BY <1>9, ReserveStep DEF Promise!vectorsVars
<1>10. ASSUME NEW b \in Buffers, NEW v \in Elems, NEW i \in Sizes, Put(b, i, v)
       PROVE  BufferInv' /\ Promise!VectorsNext
  BY <1>10, PutStep DEF Promise!VectorsNext
<1>11. ASSUME NEW b \in Buffers, Destruct(b)
       PROVE  BufferInv' /\ Promise!VectorsNext
  BY <1>11, DestructStep DEF Promise!VectorsNext
<1>12. ASSUME NEW b \in Buffers, Clear(b)
       PROVE  BufferInv' /\ Promise!VectorsNext
  BY <1>12, ClearStep DEF Promise!VectorsNext
<1>13. CASE UNCHANGED bufferVars
  BY <1>13, BufferStutter DEF Promise!vectorsVars
<1> QED
  BY <1>1, <1>2, <1>3, <1>4, <1>5, <1>6, <1>7, <1>8, <1>9, <1>10, <1>11,
     <1>12, <1>13 DEF BufferNext

(* Whatever constructors, moves, exchanges and growth follow each other,   *)
(* every array is as long as its object believes, and objects that do not  *)
(* exist have none.                                                        *)
THEOREM BufferInvariance == BufferSpec => []BufferInv
<1>1. BufferInit => BufferInv
  BY BufferInitStep
<1>2. BufferInv /\ [BufferNext]_bufferVars => BufferInv'
  BY BufferNextStep
<1> QED
  BY <1>1, <1>2, PTL DEF BufferSpec

(* The variables of the buffers keep their types.                          *)
THEOREM BufferTypeCorrect == BufferSpec => []BufferTypeOK
<1>1. BufferInv => BufferTypeOK
  BY DEF BufferInv, BufferTypeOK, Records, Values
<1> QED
  BY <1>1, BufferInvariance, PTL

(* The CHECKs of IsConsistent never end the program and no memcpy writes   *)
(* behind an array.                                                        *)
THEOREM ArraysConsistent == BufferSpec => []Consistent
<1>1. BufferInv => Consistent
  BY DEF BufferInv, Good, Sane, Consistent
<1> QED
  BY <1>1, BufferInvariance, PTL

(* As long as one and a half times what is asked for can be represented,   *)
(* growth with headroom copies at most two and a half elements for each    *)
(* one there is room for.                                                  *)
THEOREM GrowthAmortised ==
  ASSUME RoomToGrow
  PROVE  BufferSpec => []Amortised
<1>1. BufferInv => Amortised
  BY DEF BufferInv, Good, Paid, Amortised
<1> QED
  BY <1>1, BufferInvariance, PTL

(* BufferT implements Vectors: growth, assignment and exchange lose none   *)
(* of the values put into an object and show them in no other.             *)
THEOREM ImplementsVectors == BufferSpec => IsVectors
<1>1. BufferInit => Promise!VectorsInit
  BY BufferInitStep
<1>2. BufferInv /\ [BufferNext]_bufferVars
        => [Promise!VectorsNext]_(Promise!vectorsVars)
  BY BufferNextStep
<1> QED
  BY <1>1, <1>2, BufferInvariance, PTL
     DEF BufferSpec, IsVectors, Promise!VectorsSpec

=============================================================================
