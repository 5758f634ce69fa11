------------------------------ MODULE Vectors ------------------------------
(***************************************************************************)
(* What the objects of BufferT promise: each holds a sequence of values    *)
(* that can be appended to, replaced, resized and moved.  Capacities are   *)
(* none of the reader's concern.                                           *)
(***************************************************************************)
EXTENDS Naturals, Sequences

CONSTANTS
  Buffers,   \* the objects
  Elems,     \* the values
  Words,     \* the arrays data is copied from
  Sizes      \* the sizes asked for

VARIABLES alive,      \* the objects that exist
          contents    \* what each of them holds

vectorsVars == <<alive, contents>>

VectorsInit ==
  /\ alive = {}
  /\ contents = [b \in Buffers |-> <<>>]

Holds(b, seq) == contents' = [contents EXCEPT ![b] = seq]

(* The values a new or a larger object has beyond those that were put into *)
(* it are not determined.                                                  *)
Resized(b, n) ==
  /\ Len(contents'[b]) = n
  /\ \A i \in 1 .. n :
       i <= Len(contents[b]) => contents'[b][i] = contents[b][i]
  /\ \A c \in Buffers \ {b} : contents'[c] = contents[c]

Create(b) ==
  /\ b \notin alive
  /\ alive' = alive \cup {b}
  /\ \/ \E n \in Sizes : Resized(b, n)
     \/ \E word \in Words : Holds(b, word)

Destroy(b) ==
  /\ alive' = alive \ {b}
  /\ Holds(b, <<>>)

CreateFrom(b, from) ==
  /\ b \notin alive
  /\ alive' = alive \cup {b}
  /\ contents' = [contents EXCEPT ![b] = contents[from], ![from] = <<>>]

Move(b, from) ==
  /\ contents' = [contents EXCEPT ![b] = contents[from], ![from] = <<>>]
  /\ UNCHANGED alive

Swap(a, b) ==
  /\ contents' = [contents EXCEPT ![a] = contents[b], ![b] = contents[a]]
  /\ UNCHANGED alive

Edit(b) ==
  /\ \/ \E word \in Words : Holds(b, word) \/ Holds(b, contents[b] \o word)
     \/ \E n \in Sizes : Resized(b, n)
     \/ \E i \in DOMAIN contents[b], v \in Elems :
          contents' = [contents EXCEPT ![b][i] = v]
     \/ Holds(b, <<>>)
  /\ UNCHANGED alive

VectorsNext ==
  \/ \E b \in Buffers : Create(b)
  \/ \E b \in alive : Destroy(b) \/ Edit(b)
  \/ \E b \in Buffers, from \in alive : CreateFrom(b, from)
  \/ \E a, b \in alive : Move(a, b) \/ Swap(a, b)

VectorsSpec == VectorsInit /\ [][VectorsNext]_vectorsVars

=============================================================================
