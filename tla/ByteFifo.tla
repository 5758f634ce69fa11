------------------------------ MODULE ByteFifo ------------------------------
(***************************************************************************)
(* What a FifoBuffer promises: a queue of bytes of limited capacity.  Each *)
(* operation takes or hands over as many bytes as it can and returns their *)
(* number.                                                                 *)
(***************************************************************************)
EXTENDS Naturals, Sequences

CONSTANTS
  Blocks,   \* the sequences of bytes that are put into it
  Sizes     \* the numbers of bytes asked for, and the capacities given

VARIABLES contents,   \* the bytes held, oldest first
          capacity,   \* how many it can hold
          out,        \* what the last operation handed over
          result      \* what the last operation returned

byteFifoVars == <<contents, capacity, out, result>>

Least(a, b) == IF a <= b THEN a ELSE b

ByteFifoInit ==
  /\ contents = <<>>
  /\ capacity \in Sizes
  /\ out = <<>>
  /\ result = 0

Put(data) ==
  LET n == Least(Len(data), capacity - Len(contents)) IN
  /\ contents' = contents \o SubSeq(data, 1, n)
  /\ out' = <<>>
  /\ result' = n
  /\ UNCHANGED capacity

Take(bytes) ==
  LET n == Least(bytes, Len(contents)) IN
  /\ out' = SubSeq(contents, 1, n)
  /\ contents' = SubSeq(contents, n + 1, Len(contents))
  /\ result' = n
  /\ UNCHANGED capacity

Count ==
  /\ result' = Len(contents)
  /\ out' = <<>>
  /\ UNCHANGED <<contents, capacity>>

Resize(size) ==
  /\ out' = <<>>
  /\ \/ /\ Len(contents) <= size
        /\ capacity' = size
        /\ result' = 1
        /\ UNCHANGED contents
     \/ /\ Len(contents) > size
        /\ result' = 0
        /\ UNCHANGED <<contents, capacity>>

ByteFifoNext ==
  \/ \E data \in Blocks : Put(data)
  \/ \E n \in Sizes : Take(n) \/ Resize(n)
  \/ Count

ByteFifoSpec == ByteFifoInit /\ [][ByteFifoNext]_byteFifoVars

=============================================================================
