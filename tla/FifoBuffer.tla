----------------------------- MODULE FifoBuffer -----------------------------
(***************************************************************************)
(* nbsdk::memory::FifoBuffer (memery/fifo_buffer.{h,cc}): a ring of bytes. *)
(* Every operation holds the mutex from its first to its last line, so it  *)
(* is one step.  The array is indexed from 0, as in the code; what is      *)
(* written and read is a sequence.                                         *)
(*                                                                         *)
(* One thread reads, and asks for GetDataLen before it does; any number of *)
(* others write and change the capacity.                                   *)
(***************************************************************************)
EXTENDS Integers, Sequences

CONSTANTS
  Bytes,     \* the values of a byte
  Garbage,   \* what new char[n] leaves in a byte
  Blocks,    \* what is written
  Sizes      \* the numbers of bytes asked for, and the capacities given

ASSUME FifoAssumption ==
  /\ Blocks \subseteq Seq(Bytes)
  /\ Sizes \subseteq Nat
  /\ Garbage \notin Bytes

VARIABLES
  buffer,         \* buffer_
  buffer_length,  \* buffer_length_
  data_length,    \* data_length_
  read_position,  \* read_position_
  out,            \* what the last operation stored at the caller's address
  result,         \* what it returned; 0 and 1 for false and true
  seen            \* what GetDataLen told the reader, since its last Read

fifoVars == <<buffer, buffer_length, data_length, read_position, out, result,
              seen>>

-----------------------------------------------------------------------------
Least(a, b) == IF a <= b THEN a ELSE b

New(length) == [i \in 0 .. length - 1 |-> Garbage]

(* memcpy out of and into an array.                                        *)
Load(array, position, n) == [i \in 1 .. n |-> array[position + i - 1]]

Store(array, position, data) ==
  [i \in DOMAIN array |->
     IF i \in position .. position + Len(data) - 1
     THEN data[i - position + 1]
     ELSE array[i]]

(* The n oldest bytes: up to the end of the array, then on from its start. *)
Oldest(n) ==
  LET tail_copy == Least(n, buffer_length - read_position) IN
  Load(buffer, read_position, tail_copy) \o Load(buffer, 0, n - tail_copy)

-----------------------------------------------------------------------------
GetDataLen ==
  /\ seen' = data_length
  /\ result' = data_length
  /\ out' = <<>>
  /\ UNCHANGED <<buffer, buffer_length, data_length, read_position>>

(* Mutants: a smaller array keeps what fits of the data; a larger one is   *)
(* filled from its start and read from where the old one was.              *)
SetCapacityCutting(size) ==
  /\ out' = <<>>
  /\ result' = 1
  /\ data_length' = Least(data_length, size)
  /\ buffer' = Store(New(size), 0, Oldest(data_length'))
  /\ read_position' = 0
  /\ buffer_length' = size
  /\ UNCHANGED seen

SetCapacityInPlace(size) ==
  /\ out' = <<>>
  /\ data_length <= size
  /\ buffer' = Store(New(size), 0, Oldest(data_length))
  /\ buffer_length' = size
  /\ result' = 1
  /\ UNCHANGED <<data_length, read_position, seen>>

SetCapacity(size) ==
  /\ out' = <<>>
  /\ \/ /\ data_length > size
        /\ result' = 0
        /\ UNCHANGED <<buffer, buffer_length, read_position>>
     \/ /\ data_length <= size
        /\ size = buffer_length
        /\ result' = 1
        /\ UNCHANGED <<buffer, buffer_length, read_position>>
     \/ /\ data_length <= size
        /\ size # buffer_length
        /\ buffer' = Store(New(size), 0, Oldest(data_length))
        /\ read_position' = 0
        /\ buffer_length' = size
        /\ result' = 1
  /\ UNCHANGED <<data_length, seen>>

(* Mutant: the length is reduced by what was asked for, not by what there  *)
(* was.                                                                    *)
ReadAsked(bytes) ==
  /\ data_length > 0
  /\ out' = Oldest(Least(bytes, data_length))
  /\ read_position' = (read_position + Len(out')) % buffer_length
  /\ data_length' = data_length - bytes
  /\ result' = Len(out')
  /\ seen' = 0
  /\ UNCHANGED <<buffer, buffer_length>>

Read(bytes) ==
  LET copy == Least(bytes, data_length) IN
  /\ result' = copy
  /\ out' = Oldest(copy)
  /\ \/ /\ data_length = 0
        /\ UNCHANGED <<data_length, read_position>>
     \/ /\ data_length > 0
        /\ read_position' = (read_position + copy) % buffer_length
        /\ data_length' = data_length - copy
  /\ seen' = 0
  /\ UNCHANGED <<buffer, buffer_length>>

(* Mutant: the room to the end of the array is taken from read_position_.  *)
WriteMisplaced(data) ==
  LET copy == Least(Len(data), buffer_length - data_length)
      write_position == (read_position + data_length) % buffer_length
      tail_copy == Least(copy, buffer_length - read_position)
      tail == Store(buffer, write_position, SubSeq(data, 1, tail_copy))
  IN
  /\ data_length < buffer_length
  /\ buffer' = Store(tail, 0, SubSeq(data, tail_copy + 1, copy))
  /\ data_length' = data_length + copy
  /\ result' = copy
  /\ out' = <<>>
  /\ UNCHANGED <<buffer_length, read_position, seen>>

Write(data) ==
  LET copy == Least(Len(data), buffer_length - data_length)
      write_position == (read_position + data_length) % buffer_length
      tail_copy == Least(copy, buffer_length - write_position)
      tail == Store(buffer, write_position, SubSeq(data, 1, tail_copy))
  IN
  /\ \/ /\ data_length >= buffer_length
        /\ result' = 0
        /\ UNCHANGED <<buffer, data_length>>
     \/ /\ data_length < buffer_length
        /\ buffer' = Store(tail, 0, SubSeq(data, tail_copy + 1, copy))
        /\ data_length' = data_length + copy
        /\ result' = copy
  /\ out' = <<>>
  /\ UNCHANGED <<buffer_length, read_position, seen>>

-----------------------------------------------------------------------------
FifoInit ==
  /\ buffer_length \in Sizes
  /\ buffer = New(buffer_length)
  /\ data_length = 0
  /\ read_position = 0
  /\ out = <<>>
  /\ result = 0
  /\ seen = 0

FifoNext ==
  \/ GetDataLen
  \/ \E size \in Sizes : SetCapacity(size) \/ Read(size)
  \/ \E data \in Blocks : Write(data)

FifoSpec == FifoInit /\ [][FifoNext]_fifoVars

-----------------------------------------------------------------------------
(* Properties.                                                             *)

(* Every variable keeps its type; the array has the length recorded.       *)
FifoTypeOK ==
  /\ buffer_length \in Nat
  /\ buffer \in [0 .. buffer_length - 1 -> Bytes \cup {Garbage}]
  /\ data_length \in Nat
  /\ read_position \in Nat
  /\ out \in Seq(Bytes)
  /\ result \in Nat
  /\ seen \in Nat

(* The lengths the two memcpys of an operation are given stay inside the   *)
(* array, also when it has been replaced by a smaller one or by none.      *)
RingInBounds ==
  /\ data_length <= buffer_length
  /\ read_position < buffer_length \/ read_position = 0

(* The one reader gets at least as much as GetDataLen told it, whatever is *)
(* written and however the capacity is changed before it reads.            *)
ReaderNotShort == seen <= data_length

(* The ring behaves as a ByteFifo: each Read gets exactly the bytes that   *)
(* were written, in order, whatever the wrap-arounds and reallocations.    *)
Contents ==
  [i \in 1 .. data_length |-> buffer[(read_position + i - 1) % buffer_length]]

Ring == INSTANCE ByteFifo WITH contents <- Contents, capacity <- buffer_length

IsByteFifo == Ring!ByteFifoSpec

=============================================================================
