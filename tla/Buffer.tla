------------------------------- MODULE Buffer -------------------------------
(***************************************************************************)
(* nbsdk::memory::BufferT (memery/include/buffer.h): arrays that grow.     *)
(* The objects are used by one thread.  Sizes are unsigned and Limit is    *)
(* the first number they cannot represent.                                 *)
(***************************************************************************)
EXTENDS Integers, Sequences

CONSTANTS
  Buffers,   \* the objects
  Elems,     \* the values of T
  Garbage,   \* what new T[n] leaves in an element
  Words,     \* the arrays data is copied from
  MaxSize,   \* bounds the sizes and capacities asked for
  MaxLength, \* bounds the length AppendData gives an object
  Limit      \* 2^32 in the code

(* What is asked for is an unsigned number, and so is the length of every  *)
(* object: that of AppendData's callers nobody makes size_ wrap around.    *)
ASSUME BufferAssumption ==
  /\ Words \subseteq Seq(Elems)
  /\ MaxSize \in Nat
  /\ MaxLength \in Nat
  /\ Limit \in Nat
  /\ MaxSize < Limit
  /\ MaxLength < Limit
  /\ \A word \in Words : Len(word) < Limit
  /\ Garbage \notin Elems

VARIABLES
  alive,     \* the objects that exist
  buf,       \* the fields of each object, and with the array its history:
             \* how many elements growth with headroom has copied
  overrun    \* a memcpy has written behind the end of an array

bufferVars == <<alive, buf, overrun>>

Sizes == 0 .. MaxSize

-----------------------------------------------------------------------------
Larger(a, b) == IF a >= b THEN a ELSE b

New(n) == [i \in 1 .. n |-> Garbage]

(* memcpy of a word to array + offset, as far as it hits the array.        *)
Copy(array, offset, word) ==
  [i \in 1 .. Len(array) |->
     IF i - offset \in DOMAIN word THEN word[i - offset] ELSE array[i]]

Empty == [size |-> 0, capacity |-> 0, data |-> <<>>, copied |-> 0]

OnMovedFrom(r) == [r EXCEPT !.size = 0, !.capacity = 0, !.copied = 0]

(* Mutant: an array grows by no more than what is asked for.               *)
HeadroomNone(capacity, asked) == asked

Headroom(capacity, asked) ==
  Larger(asked, (capacity + capacity \div 2) % Limit)

EnsureCapacity(r, capacity) ==
  IF capacity <= r.capacity THEN r
  ELSE [r EXCEPT !.capacity = capacity,
                 !.data = Copy(New(capacity), 0, SubSeq(r.data, 1, r.size))]

(* Mutant: the new array is not filled from the old one.                   *)
EnsureCapacityWithHeadroomEmpty(r, asked) ==
  IF asked <= r.capacity THEN r
  ELSE [r EXCEPT !.capacity = Headroom(r.capacity, asked),
                 !.data = New(Headroom(r.capacity, asked))]

EnsureCapacityWithHeadroom(r, asked) ==
  IF asked <= r.capacity THEN r
  ELSE [EnsureCapacity(r, Headroom(r.capacity, asked)) EXCEPT
          !.copied = @ + r.size]

NewSize(r, word) == (r.size + Len(word)) % Limit

Grown(r, word) == EnsureCapacityWithHeadroom(r, NewSize(r, word))

Appended(r, word) ==
  [Grown(r, word) EXCEPT !.data = Copy(@, r.size, word),
                         !.size = NewSize(r, word)]

Overruns(r, word) == r.size + Len(word) > Len(Grown(r, word).data)

-----------------------------------------------------------------------------
Become(b, r) ==
  /\ buf' = [buf EXCEPT ![b] = r]
  /\ UNCHANGED <<alive, overrun>>

(* The constructors; BufferT() is that with no size and no capacity.       *)
ConstructSized(b, size, capacity) ==
  /\ b \notin alive
  /\ alive' = alive \cup {b}
  /\ LET n == Larger(size, capacity) IN
     buf' = [buf EXCEPT ![b] =
               [Empty EXCEPT !.size = size, !.capacity = n, !.data = New(n)]]
  /\ UNCHANGED overrun

ConstructFrom(b, word, capacity) ==
  /\ b \notin alive
  /\ alive' = alive \cup {b}
  /\ LET n == Larger(Len(word), capacity) IN
     buf' = [buf EXCEPT ![b] =
               [Empty EXCEPT !.size = Len(word), !.capacity = n,
                             !.data = Copy(New(n), 0, word)]]
  /\ UNCHANGED overrun

MoveConstruct(b, from) ==
  /\ b \notin alive
  /\ from \in alive
  /\ alive' = alive \cup {b}
  /\ buf' = [buf EXCEPT ![b] = buf[from],
                        ![from] = OnMovedFrom([@ EXCEPT !.data = <<>>])]
  /\ UNCHANGED overrun

Destruct(b) ==
  /\ b \in alive
  /\ alive' = alive \ {b}
  /\ buf' = [buf EXCEPT ![b] = Empty]
  /\ UNCHANGED overrun

(* Mutant: the object moved from keeps its size and capacity.              *)
MoveAssignKeeping(b, from) ==
  /\ {b, from} \subseteq alive
  /\ b # from
  /\ buf' = [buf EXCEPT ![b] = buf[from], ![from].data = <<>>]
  /\ UNCHANGED <<alive, overrun>>

(* A buffer that is assigned to itself keeps its array and forgets it.     *)
MoveAssign(b, from) ==
  /\ {b, from} \subseteq alive
  /\ buf' = IF b = from
            THEN [buf EXCEPT ![b] = OnMovedFrom(@)]
            ELSE [buf EXCEPT ![b] = buf[from],
                             ![from] = OnMovedFrom([@ EXCEPT !.data = <<>>])]
  /\ UNCHANGED <<alive, overrun>>

Swap(a, b) ==
  /\ {a, b} \subseteq alive
  /\ buf' = [buf EXCEPT ![a] = buf[b], ![b] = buf[a]]
  /\ UNCHANGED <<alive, overrun>>

(* SetData appends to what has become a buffer of size 0.                  *)
SetData(b, word) ==
  LET r == [buf[b] EXCEPT !.size = 0] IN
  /\ b \in alive
  /\ buf' = [buf EXCEPT ![b] = Appended(r, word)]
  /\ overrun' = (overrun \/ Overruns(r, word))
  /\ UNCHANGED alive

AppendData(b, word) ==
  /\ b \in alive
  /\ buf[b].size + Len(word) <= MaxLength
  /\ buf' = [buf EXCEPT ![b] = Appended(buf[b], word)]
  /\ overrun' = (overrun \/ Overruns(buf[b], word))
  /\ UNCHANGED alive

SetSize(b, size) ==
  /\ b \in alive
  /\ Become(b, [EnsureCapacityWithHeadroom(buf[b], size) EXCEPT !.size = size])

Reserve(b, capacity) ==
  /\ b \in alive
  /\ Become(b, EnsureCapacity(buf[b], capacity))

(* Mutant: one element is removed, whether or not there is one.            *)
ClearOne(b) ==
  /\ b \in alive
  /\ Become(b, [buf[b] EXCEPT !.size = @ - 1])

Clear(b) ==
  /\ b \in alive
  /\ Become(b, [buf[b] EXCEPT !.size = 0])

(* operator[] on the left of an assignment: an index that is not below     *)
(* size_ ends the program.                                                 *)
Put(b, i, v) ==
  /\ b \in alive
  /\ i \in 1 .. buf[b].size
  /\ Become(b, [buf[b] EXCEPT !.data[i] = v])

-----------------------------------------------------------------------------
BufferInit ==
  /\ alive = {}
  /\ buf = [b \in Buffers |-> Empty]
  /\ overrun = FALSE

BufferNext ==
  \/ \E b \in Buffers, size, capacity \in Sizes :
       ConstructSized(b, size, capacity)
  \/ \E b \in Buffers, word \in Words, capacity \in Sizes :
       ConstructFrom(b, word, capacity)
  \/ \E b, c \in Buffers :
       MoveConstruct(b, c) \/ MoveAssign(b, c) \/ Swap(b, c)
  \/ \E b \in Buffers, word \in Words : SetData(b, word) \/ AppendData(b, word)
  \/ \E b \in Buffers, size \in Sizes : SetSize(b, size) \/ Reserve(b, size)
  \/ \E b \in Buffers, v \in Elems, i \in Sizes : Put(b, i, v)
  \/ \E b \in Buffers : Destruct(b) \/ Clear(b)

BufferSpec == BufferInit /\ [][BufferNext]_bufferVars

-----------------------------------------------------------------------------
(* Properties.                                                             *)

(* Every variable keeps its type.                                          *)
BufferTypeOK ==
  /\ alive \subseteq Buffers
  /\ \A b \in Buffers :
       /\ buf[b].size \in Nat
       /\ buf[b].capacity \in Nat
       /\ buf[b].copied \in Nat
       /\ buf[b].data \in Seq(Elems \cup {Garbage})
  /\ overrun \in BOOLEAN

(* The CHECKs of IsConsistent never end the program, and no memcpy leaves  *)
(* its array: through every sequence of moves, swaps and growth, the array *)
(* of a buffer is at least as long as it believes.                         *)
Consistent ==
  /\ \A b \in Buffers :
       /\ buf[b].size <= buf[b].capacity
       /\ buf[b].capacity <= Len(buf[b].data)
  /\ ~overrun

(* Growth is paid for: since the array grows by half, appending and        *)
(* resizing have copied at most two and a half elements for each one there *)
(* is room for, in whatever order they and all other calls came.           *)
Amortised ==
  \A b \in Buffers : 2 * buf[b].copied <= 5 * buf[b].capacity

(* The objects behave as Vectors: nothing that was put into one is lost or *)
(* moved by growth, assignment or exchange, nor shows up in another.       *)
Contents == [b \in Buffers |-> SubSeq(buf[b].data, 1, buf[b].size)]

Promise == INSTANCE Vectors WITH contents <- Contents

IsVectors == Promise!VectorsSpec

=============================================================================
