---------------------------- MODULE HttpUrl_proofs ----------------------------
(***************************************************************************)
(* Proofs about Text and HttpUrl, for any URLs and any calls: what Trim    *)
(* leaves, the normal form of the path, and, in the second half, that a    *)
(* URL is taken apart into what it was put together from.                  *)
(*                                                                         *)
(* No theorem of the library can be used for induction, since those have   *)
(* an operator as a parameter; LeastNat and the lemmas on folds take its   *)
(* place, with sets and functions for operators.                           *)
(***************************************************************************)
EXTENDS HttpUrl, WellFoundedInduction, FiniteSetTheorems, SequenceTheorems,
        TLAPS

-----------------------------------------------------------------------------
(* Numbers.                                                                *)

LEMMA LeastNat ==
  ASSUME NEW T \in SUBSET Nat, T # {}
  PROVE  \E x \in T : \A y \in T : x <= y
<1>1. PICK R : R = {pair \in Nat \X Nat : pair[1] < pair[2]}
  OBVIOUS
<1>2. IsWellFoundedOn(R, Nat)
  BY <1>1, NatLessThanWellFounded DEF OpToRel
<1>3. PICK x \in T : \A y \in T : ~ (<<y, x>> \in R)
  BY <1>2, WFMin
<1>4. ASSUME NEW y \in T
      PROVE  x <= y
  <2>1. x \in Nat /\ y \in Nat /\ <<y, x>> \in Nat \X Nat
    OBVIOUS
  <2>2. ~ (<<y, x>> \in R)
    BY <1>3
  <2>3. ~ (y < x)
    BY <1>1, <2>1, <2>2
  <2> QED
    BY <2>1, <2>3
<1> QED
  BY <1>4

(* Induction up to n, for a set of numbers.                                *)
LEMMA Induction ==
  ASSUME NEW n \in Nat, NEW T, 0 \in T,
         \A i \in 1 .. n : i - 1 \in T => i \in T
  PROVE  \A k \in 0 .. n : k \in T
<1> DEFINE Lacking == {k \in Nat : k <= n /\ k \notin T}
<1>1. SUFFICES ASSUME Lacking # {}
               PROVE  FALSE
  OBVIOUS
<1>2. PICK k \in Lacking : \A l \in Lacking : k <= l
  BY <1>1, LeastNat
<1>3. k # 0
  BY <1>2
<1>4. k \in 1 .. n /\ k - 1 \in Nat /\ k - 1 <= n /\ ~ (k <= k - 1)
  BY <1>2, <1>3
<1>5. k - 1 \in T
  BY <1>2, <1>4
<1> QED
  BY <1>2, <1>4, <1>5

LEMMA MinFacts ==
  ASSUME NEW T \in SUBSET Nat, T # {}
  PROVE  Min(T) \in T /\ \A y \in T : Min(T) <= y
  BY LeastNat DEF Min

LEMMA MaxFacts ==
  ASSUME NEW n \in Nat, NEW T \in SUBSET (1 .. n), T # {}
  PROVE  Max(T) \in T /\ \A y \in T : y <= Max(T)
<1> DEFINE Bounds == {k \in Nat : \A y \in T : y <= k}
<1>1. n \in Bounds
  OBVIOUS
<1>2. PICK u \in Bounds : \A k \in Bounds : u <= k
  BY <1>1, LeastNat
<1>3. u \in T
  <2> SUFFICES ASSUME u \notin T
               PROVE  FALSE
    OBVIOUS
  <2>1. \A y \in T : y \in Nat /\ y >= 1 /\ y <= u /\ y # u
    BY <1>2
  <2>2. u \in Nat /\ u >= 1 /\ u - 1 \in Nat
    <3>1. PICK y : y \in T
      OBVIOUS
    <3>2. y \in Nat /\ y >= 1 /\ y <= u /\ u \in Nat
      BY <1>2, <2>1, <3>1
    <3> QED
      BY <3>2
  <2>3. \A y \in T : y <= u - 1
    BY <2>1, <2>2
  <2>4. u - 1 \in Bounds
    BY <2>2, <2>3
  <2>5. u <= u - 1
    BY <1>2, <2>4
  <2> QED
    BY <2>2, <2>5
<1>4. \E x \in T : \A y \in T : x >= y
  BY <1>2, <1>3
<1>5. Max(T) \in T /\ \A y \in T : Max(T) >= y
  BY <1>4 DEF Max
<1> QED
  BY <1>5

-----------------------------------------------------------------------------
(* Folds.  FoldLeft over the elements 1 .. n is a recursive function on    *)
(* the subsets of 1 .. n, which takes the largest element last.            *)

IsFold(g, S, base, n, step) ==
  /\ g \in [SUBSET (1 .. n) -> S]
  /\ \A s \in SUBSET (1 .. n) :
       g[s] = IF s = {} THEN base ELSE step[Max(s)][g[s \ {Max(s)}]]

(* Such a function exists: on the subsets of 1 .. k for every k up to n.   *)
LEMMA FoldExists ==
  ASSUME NEW S, NEW base \in S, NEW n \in Nat,
         NEW step \in [1 .. n -> [S -> S]]
  PROVE  \E g : IsFold(g, S, base, n, step)
<1> DEFINE Sizes == {k \in 0 .. n : \E g : IsFold(g, S, base, k, step)}
<1>1. 0 \in Sizes
  <2>1. PICK g : g = [s \in SUBSET (1 .. 0) |-> base]
    OBVIOUS
  <2>2. SUBSET (1 .. 0) = {{}}
    OBVIOUS
  <2>3. IsFold(g, S, base, 0, step)
    BY <2>1, <2>2 DEF IsFold
  <2> QED
    BY <2>3
<1>2. ASSUME NEW k \in 1 .. n, k - 1 \in Sizes
      PROVE  k \in Sizes
  <2>1. PICK l \in Nat : l = k - 1
    OBVIOUS
  <2>2. k \in Nat /\ k = l + 1 /\ k \in 0 .. n
    BY <2>1
  <2>3. PICK g : IsFold(g, S, base, l, step)
    BY <1>2, <2>1
  <2>4. 1 .. k = (1 .. l) \cup {k} /\ k \notin 1 .. l
    BY <2>2
  <2>5. PICK h : h = [s \in SUBSET (1 .. k) |->
                        IF k \in s THEN step[k][g[s \ {k}]] ELSE g[s]]
    OBVIOUS
  <2>6. ASSUME NEW s \in SUBSET (1 .. k)
        PROVE  /\ h[s] \in S
               /\ h[s] = IF s = {} THEN base
                         ELSE step[Max(s)][h[s \ {Max(s)}]]
    <3>1. CASE k \in s
      <4>1. Max(s) = k
        <5>1. Max(s) \in s /\ k <= Max(s)
          BY <2>2, <3>1, MaxFacts
        <5>2. Max(s) \in 1 .. k
          BY <5>1
        <5> QED
          BY <2>2, <5>1, <5>2
      <4>2. s \ {k} \in SUBSET (1 .. l) /\ s \ {k} \in SUBSET (1 .. k)
        BY <2>4
      <4>3. h[s] = step[k][g[s \ {k}]] /\ h[s \ {k}] = g[s \ {k}]
        BY <2>5, <3>1, <4>2
      <4>4. step[k] \in [S -> S] /\ g[s \ {k}] \in S
        BY <2>3, <4>2 DEF IsFold
      <4> QED
        BY <3>1, <4>1, <4>3, <4>4
    <3>2. CASE k \notin s
      <4>1. s \in SUBSET (1 .. l)
        BY <2>4, <3>2
      <4>2. \A t \in SUBSET s : t \in SUBSET (1 .. k) /\ k \notin t
        BY <3>2
      <4>3. \A t \in SUBSET s : h[t] = g[t]
        BY <2>5, <4>2
      <4>4. h[s] = g[s] /\ h[s \ {Max(s)}] = g[s \ {Max(s)}]
        BY <4>3
      <4>5. /\ g[s] = IF s = {} THEN base ELSE step[Max(s)][g[s \ {Max(s)}]]
            /\ g[s] \in S
        BY <2>3, <4>1 DEF IsFold
      <4> QED
        BY <4>4, <4>5
    <3> QED
      BY <3>1, <3>2
  <2>7. IsFold(h, S, base, k, step)
    BY <2>5, <2>6 DEF IsFold
  <2> QED
    BY <2>2, <2>7
<1>3. \A k \in 0 .. n : k \in Sizes
  <2> HIDE DEF Sizes
  <2> QED
    BY <1>1, <1>2, Induction
<1> QED
  BY <1>3

(* What a fold passes through: the values after each of the n elements.    *)
IsRun(h, S, base, n, step) ==
  /\ h \in [0 .. n -> S]
  /\ h[0] = base
  /\ \A i \in 1 .. n : h[i] = step[i][h[i - 1]]

Yields(value, S, base, n, step) ==
  /\ base \in S /\ step \in [1 .. n -> [S -> S]]
  /\ \E h : IsRun(h, S, base, n, step) /\ value = h[n]

LEMMA YieldType ==
  ASSUME NEW S, NEW base, NEW n \in Nat, NEW step, NEW value,
         Yields(value, S, base, n, step)
  PROVE  value \in S
  BY DEF Yields, IsRun

(* What a fold has reached after i elements.                               *)
Follows(f, S, n, step) ==
  \A i \in 1 .. n :
    f[(1 .. i) \ {i}] \in S => f[1 .. i] = step[i][f[(1 .. i) \ {i}]]

LEMMA FoldYields ==
  ASSUME NEW S, NEW base \in S, NEW n \in Nat,
         NEW step \in [1 .. n -> [S -> S]], NEW f, f[{}] = base,
         Follows(f, S, n, step)
  PROVE  Yields(f[1 .. n], S, base, n, step)
<1> DEFINE Reached == {k \in 0 .. n : f[1 .. k] \in S}
<1>1. 1 .. 0 = {} /\ \A i \in 1 .. n : (1 .. i) \ {i} = 1 .. i - 1
  OBVIOUS
<1>2. ASSUME NEW i \in 1 .. n, i - 1 \in Reached
      PROVE  i \in Reached
  <2>1. f[1 .. i] = step[i][f[1 .. i - 1]] /\ f[1 .. i - 1] \in S
    BY <1>1, <1>2 DEF Follows
  <2> QED
    BY <2>1
<1>3. \A k \in 0 .. n : f[1 .. k] \in S
  <2>1. 0 \in Reached
    BY <1>1
  <2>2. \A k \in 0 .. n : k \in Reached
    <3> HIDE DEF Reached
    <3> QED
      BY <1>2, <2>1, Induction
  <2> QED
    BY <2>2
<1>4. PICK h : h = [k \in 0 .. n |-> f[1 .. k]]
  OBVIOUS
<1>5. \A i \in 1 .. n : h[i] = step[i][h[i - 1]]
  <2> TAKE i \in 1 .. n
  <2>1. i \in 0 .. n /\ i - 1 \in 0 .. n
    OBVIOUS
  <2>2. f[1 .. i] = step[i][f[1 .. i - 1]]
    BY <1>1, <1>3, <2>1 DEF Follows
  <2> QED
    BY <1>4, <2>1, <2>2
<1>6. h \in [0 .. n -> S] /\ h[0] = base /\ h[n] = f[1 .. n]
  BY <1>1, <1>3, <1>4
<1> QED
  BY <1>5, <1>6 DEF Yields, IsRun

(* 1 .. i loses its largest element to the next step.                      *)
LEMMA MaxOfFirst ==
  ASSUME NEW i \in Nat \ {0}
  PROVE  1 .. i # {} /\ Max(1 .. i) = i
<1>1. i \in 1 .. i
  OBVIOUS
<1>2. Max(1 .. i) \in 1 .. i /\ i <= Max(1 .. i)
  BY <1>1, MaxFacts
<1> QED
  BY <1>1, <1>2

-----------------------------------------------------------------------------
(* Texts.                                                                  *)

(* All strings; that these are among them is more than the provers know.   *)
Tokens == STRING \cup {":", "/", "?", "#", "&", "=", "http", "https"}

Texts == Seq(Tokens)

LEMMA SubSeqType ==
  ASSUME NEW S, NEW seq \in Seq(S), NEW from \in Nat \ {0}, NEW to \in Int,
         to <= Len(seq)
  PROVE  SubSeq(seq, from, to) \in Seq(S)
  OBVIOUS

(* A token is found where it is looked for, or not at all.                 *)
LEMMA FirstFacts ==
  ASSUME NEW text \in Texts, NEW token, NEW from \in Nat \ {0}
  PROVE  FirstFrom(text, token, from) \in {0} \cup from .. Len(text)
<1> DEFINE I == {i \in from .. Len(text) : text[i] = token}
<1>1. I \in SUBSET Nat
  OBVIOUS
<1>2. FirstFrom(text, token, from) = IF I # {} THEN Min(I) ELSE 0
  BY DEF FirstFrom, SelectInSubSeq
<1>3. I # {} => Min(I) \in I
  BY <1>1, MinFacts
<1> QED
  BY <1>2, <1>3

LEMMA FirstType ==
  ASSUME NEW text \in Texts, NEW token
  PROVE  First(text, token) \in Nat /\ First(text, token) <= Len(text)
<1>1. First(text, token) \in {0} \cup 1 .. Len(text)
  BY FirstFacts DEF First
<1>2. Len(text) \in Nat
  BY DEF Texts
<1> QED
  BY <1>1, <1>2

LEMMA SubstrType ==
  ASSUME NEW text \in Texts, NEW from \in Nat \ {0}, NEW to \in Nat,
         to <= Len(text) + 1
  PROVE  Substr(text, from, to) \in Texts
<1>1. Len(text) \in Nat
  BY DEF Texts
<1>2. PICK last \in Int : /\ last = IF to < from THEN Len(text) ELSE to - 1
                          /\ last <= Len(text)
  BY <1>1
<1>3. SubSeq(text, from, last) \in Texts
  BY <1>2, SubSeqType DEF Texts
<1> QED
  BY <1>2, <1>3 DEF Substr

LEMMA UpToType ==
  ASSUME NEW text \in Texts, NEW token
  PROVE  UpTo(text, token) \in Texts
<1>1. /\ First(text, token) \in Nat
      /\ First(text, token) <= Len(text) + 1 /\ Len(text) \in Nat
  BY FirstType DEF Texts
<1> QED
  BY <1>1, SubstrType DEF UpTo

LEMMA AfterType ==
  ASSUME NEW text \in Texts, NEW token
  PROVE  After(text, token) \in Texts
<1>1. /\ First(text, token) + 1 \in Nat \ {0} /\ Len(text) \in Nat
      /\ Len(text) \in Int /\ Len(text) <= Len(text)
  BY FirstType DEF Texts
<1>2. PICK from \in Nat \ {0} : from = First(text, token) + 1
  BY <1>1
<1> QED
  BY <1>1, <1>2, SubSeqType DEF After, Texts

LEMMA TrimLeftType ==
  ASSUME NEW text \in Texts, NEW blank
  PROVE  TrimLeft(text, blank) \in Texts
<1> DEFINE I == {i \in 1 .. Len(text) : text[i] # blank}
<1>1. I \in SUBSET Nat
  OBVIOUS
<1>2. PICK kept : kept = IF I # {} THEN Min(I) ELSE 0
  OBVIOUS
<1>3. TrimLeft(text, blank) =
        IF kept = 0 THEN <<>> ELSE SubSeq(text, kept, Len(text))
  BY <1>2 DEF TrimLeft, SelectInSeq
<1>4. kept = 0 \/ kept \in 1 .. Len(text)
  BY <1>1, <1>2, MinFacts
<1>5. <<>> \in Texts /\ Len(text) \in Nat
  BY DEF Texts
<1> QED
  BY <1>3, <1>4, <1>5, SubSeqType DEF Texts

LEMMA ReverseType ==
  ASSUME NEW text \in Texts
  PROVE  Reverse(text) \in Texts
<1>1. /\ Len(text) \in Nat
      /\ \A i \in 1 .. Len(text) : text[Len(text) - i + 1] \in Tokens
  BY DEF Texts
<1>2. Reverse(text) \in [1 .. Len(text) -> Tokens]
  BY <1>1 DEF Reverse
<1> QED
  BY <1>1, <1>2 DEF Texts

LEMMA TrimRightType ==
  ASSUME NEW text \in Texts, NEW blank
  PROVE  TrimRight(text, blank) \in Texts
<1>1. Reverse(text) \in Texts
  BY ReverseType
<1>2. TrimLeft(Reverse(text), blank) \in Texts
  BY <1>1, TrimLeftType
<1> QED
  BY <1>2, ReverseType DEF TrimRight

(* The folds of the model, each over what its step keeps.                  *)
LEMMA TrimLeftFold ==
  ASSUME NEW text \in Texts,
         NEW step, step = [i \in 1 .. Len(Blanks) |->
                            [x \in Texts |-> TrimLeft(x, Blanks[i])]]
  PROVE  Yields(FoldLeft(TrimLeft, text, Blanks), Texts, text, Len(Blanks), step)
<1>1. PICK n \in Nat : n = Len(Blanks) /\ DOMAIN Blanks = 1 .. n
  BY UrlAssumption
<1>2. PICK f :
        f = CHOOSE g : g = [s \in SUBSET DOMAIN Blanks |->
              IF s = {} THEN text
              ELSE TrimLeft(g[s \ {Max(s)}], Blanks[Max(s)])]
  OBVIOUS
<1>3. FoldLeft(TrimLeft, text, Blanks) = f[1 .. n]
  BY <1>1, <1>2 DEF FoldLeft, MapThenFoldSet
<1>4. step \in [1 .. n -> [Texts -> Texts]] /\ text \in Texts
  BY <1>1, TrimLeftType
<1>5. PICK g : IsFold(g, Texts, text, n, step)
  BY <1>4, FoldExists
<1>6. ASSUME NEW s \in SUBSET (1 .. n), s # {}
      PROVE  g[s] = TrimLeft(g[s \ {Max(s)}], Blanks[Max(s)])
  <2>1. Max(s) \in 1 .. n /\ g[s \ {Max(s)}] \in Texts
    BY <1>5, <1>6, MaxFacts DEF IsFold
  <2> QED
    BY <1>1, <1>5, <1>6, <2>1 DEF IsFold
<1>7. g = [s \in SUBSET DOMAIN Blanks |->
             IF s = {} THEN text
             ELSE TrimLeft(g[s \ {Max(s)}], Blanks[Max(s)])]
  BY <1>1, <1>5, <1>6 DEF IsFold
<1>8. f = [s \in SUBSET DOMAIN Blanks |->
             IF s = {} THEN text
             ELSE TrimLeft(f[s \ {Max(s)}], Blanks[Max(s)])]
  BY <1>2, <1>7
<1>9. Follows(f, Texts, n, step)
  <2> SUFFICES ASSUME NEW i \in 1 .. n, f[(1 .. i) \ {i}] \in Texts
               PROVE  f[1 .. i] = step[i][f[(1 .. i) \ {i}]]
    BY DEF Follows
  <2>1. 1 .. i # {} /\ Max(1 .. i) = i /\ 1 .. i \in SUBSET (1 .. n)
    BY MaxOfFirst
  <2>2. f[1 .. i] = TrimLeft(f[(1 .. i) \ {i}], Blanks[i])
    BY <1>1, <1>8, <2>1
  <2> QED
    BY <1>1, <2>2
<1>10. f[{}] = text
  BY <1>8
<1>11. Yields(f[1 .. n], Texts, text, n, step)
  BY <1>4, <1>9, <1>10, FoldYields
<1> QED
  BY <1>1, <1>3, <1>11

LEMMA TrimRightFold ==
  ASSUME NEW text \in Texts,
         NEW step, step = [i \in 1 .. Len(Blanks) |->
                            [x \in Texts |-> TrimRight(x, Blanks[i])]]
  PROVE  Yields(FoldLeft(TrimRight, text, Blanks), Texts, text, Len(Blanks), step)
<1>1. PICK n \in Nat : n = Len(Blanks) /\ DOMAIN Blanks = 1 .. n
  BY UrlAssumption
<1>2. PICK f :
        f = CHOOSE g : g = [s \in SUBSET DOMAIN Blanks |->
              IF s = {} THEN text
              ELSE TrimRight(g[s \ {Max(s)}], Blanks[Max(s)])]
  OBVIOUS
<1>3. FoldLeft(TrimRight, text, Blanks) = f[1 .. n]
  BY <1>1, <1>2 DEF FoldLeft, MapThenFoldSet
<1>4. step \in [1 .. n -> [Texts -> Texts]] /\ text \in Texts
  BY <1>1, TrimRightType
<1>5. PICK g : IsFold(g, Texts, text, n, step)
  BY <1>4, FoldExists
<1>6. ASSUME NEW s \in SUBSET (1 .. n), s # {}
      PROVE  g[s] = TrimRight(g[s \ {Max(s)}], Blanks[Max(s)])
  <2>1. Max(s) \in 1 .. n /\ g[s \ {Max(s)}] \in Texts
    BY <1>5, <1>6, MaxFacts DEF IsFold
  <2> QED
    BY <1>1, <1>5, <1>6, <2>1 DEF IsFold
<1>7. g = [s \in SUBSET DOMAIN Blanks |->
             IF s = {} THEN text
             ELSE TrimRight(g[s \ {Max(s)}], Blanks[Max(s)])]
  BY <1>1, <1>5, <1>6 DEF IsFold
<1>8. f = [s \in SUBSET DOMAIN Blanks |->
             IF s = {} THEN text
             ELSE TrimRight(f[s \ {Max(s)}], Blanks[Max(s)])]
  BY <1>2, <1>7
<1>9. Follows(f, Texts, n, step)
  <2> SUFFICES ASSUME NEW i \in 1 .. n, f[(1 .. i) \ {i}] \in Texts
               PROVE  f[1 .. i] = step[i][f[(1 .. i) \ {i}]]
    BY DEF Follows
  <2>1. 1 .. i # {} /\ Max(1 .. i) = i /\ 1 .. i \in SUBSET (1 .. n)
    BY MaxOfFirst
  <2>2. f[1 .. i] = TrimRight(f[(1 .. i) \ {i}], Blanks[i])
    BY <1>1, <1>8, <2>1
  <2> QED
    BY <1>1, <2>2
<1>10. f[{}] = text
  BY <1>8
<1>11. Yields(f[1 .. n], Texts, text, n, step)
  BY <1>4, <1>9, <1>10, FoldYields
<1> QED
  BY <1>1, <1>3, <1>11

LEMMA TrimmedType ==
  ASSUME NEW text \in Texts
  PROVE  Trimmed(text) \in Texts
<1>1. Len(Blanks) \in Nat
  BY UrlAssumption
<1>2. PICK left \in Texts : left = FoldLeft(TrimLeft, text, Blanks)
  BY <1>1, TrimLeftFold, YieldType
<1>3. FoldLeft(TrimRight, left, Blanks) \in Texts
  BY <1>1, TrimRightFold, YieldType
<1> QED
  BY <1>2, <1>3 DEF Trimmed

LEMMA ExceptType ==
  ASSUME NEW S, NEW seq \in Seq(S), NEW i \in Nat, NEW x \in S
  PROVE  [seq EXCEPT ![i] = x] \in Seq(S)
<1>1. PICK n \in Nat : n = Len(seq)
  OBVIOUS
<1>2. seq \in [1 .. n -> S]
  BY <1>1
<1>3. [seq EXCEPT ![i] = x] \in [1 .. n -> S]
  BY <1>2
<1> QED
  BY <1>3

(* What separates is left out, and what is not belongs to a piece.         *)
LEMMA ExtendType ==
  ASSUME NEW pieces \in Seq(Texts), NEW text \in Texts,
         NEW i \in 1 .. Len(text), NEW separator
  PROVE  Extend(pieces, text, i, separator) \in Seq(Texts)
<1>1. PICK token \in Tokens : token = text[i]
  BY DEF Texts
<1>2. CASE token = separator
  BY <1>1, <1>2 DEF Extend
<1>3. CASE token # separator /\ (i = 1 \/ text[i - 1] = separator)
  <2>1. <<token>> \in Texts
    BY DEF Texts
  <2> QED
    BY <1>1, <1>3, <2>1 DEF Extend
<1>4. CASE token # separator /\ i # 1 /\ text[i - 1] # separator
  <2>1. PICK last \in Nat : last = Len(pieces)
    OBVIOUS
  <2>2. Extend(pieces, text, i, separator) =
          [pieces EXCEPT ![last] = Append(pieces[last], token)]
    BY <1>1, <1>4, <2>1 DEF Extend
  <2>3. CASE last = 0
    <3>1. [pieces EXCEPT ![last] = Append(pieces[last], token)] = pieces
      BY <2>1, <2>3
    <3> QED
      BY <2>2, <3>1
  <2>4. CASE last # 0
    <3>1. PICK piece \in Texts : piece = pieces[last]
      BY <2>1, <2>4
    <3>2. Append(piece, token) \in Texts
      BY DEF Texts
    <3>3. PICK more \in Texts : more = Append(piece, token)
      BY <3>2
    <3>4. [pieces EXCEPT ![last] = more] \in Seq(Texts)
      BY ExceptType
    <3> QED
      BY <2>2, <3>1, <3>3, <3>4
  <2> QED
    BY <2>3, <2>4
<1> QED
  BY <1>2, <1>3, <1>4

LEMMA PiecesFold ==
  ASSUME NEW text \in Texts, NEW separator,
         NEW step, step = [i \in 1 .. Len(text) |->
                            [x \in Seq(Texts) |->
                               Extend(x, text, [j \in DOMAIN text |-> j][i],
                                      separator)]]
  PROVE  Yields(Pieces(text, separator), Seq(Texts), <<>>, Len(text), step)
<1>1. PICK n \in Nat : n = Len(text) /\ DOMAIN text = 1 .. n
  BY DEF Texts
<1>2. PICK f :
        f = CHOOSE g : g = [s \in SUBSET DOMAIN text |->
              IF s = {} THEN <<>>
              ELSE Extend(g[s \ {Max(s)}], text,
                          [j \in DOMAIN text |-> j][Max(s)], separator)]
  OBVIOUS
<1>3. Pieces(text, separator) = f[1 .. n]
  BY <1>1, <1>2 DEF Pieces, FoldLeftDomain, FoldLeft, MapThenFoldSet
<1>4. step \in [1 .. n -> [Seq(Texts) -> Seq(Texts)]] /\ <<>> \in Seq(Texts)
  BY <1>1, ExtendType
<1>5. PICK g : IsFold(g, Seq(Texts), <<>>, n, step)
  BY <1>4, FoldExists
<1>6. ASSUME NEW s \in SUBSET (1 .. n), s # {}
      PROVE  g[s] = Extend(g[s \ {Max(s)}], text,
                            [j \in DOMAIN text |-> j][Max(s)], separator)
  <2>1. Max(s) \in 1 .. n /\ g[s \ {Max(s)}] \in Seq(Texts)
    BY <1>5, <1>6, MaxFacts DEF IsFold
  <2> QED
    BY <1>1, <1>5, <1>6, <2>1 DEF IsFold
<1>7. g = [s \in SUBSET DOMAIN text |->
             IF s = {} THEN <<>>
             ELSE Extend(g[s \ {Max(s)}], text,
                         [j \in DOMAIN text |-> j][Max(s)], separator)]
  BY <1>1, <1>5, <1>6 DEF IsFold
<1>8. f = [s \in SUBSET DOMAIN text |->
             IF s = {} THEN <<>>
             ELSE Extend(f[s \ {Max(s)}], text,
                         [j \in DOMAIN text |-> j][Max(s)], separator)]
  BY <1>2, <1>7
<1>9. Follows(f, Seq(Texts), n, step)
  <2> SUFFICES ASSUME NEW i \in 1 .. n, f[(1 .. i) \ {i}] \in Seq(Texts)
               PROVE  f[1 .. i] = step[i][f[(1 .. i) \ {i}]]
    BY DEF Follows
  <2>1. 1 .. i # {} /\ Max(1 .. i) = i /\ 1 .. i \in SUBSET (1 .. n)
    BY MaxOfFirst
  <2>2. f[1 .. i] = Extend(f[(1 .. i) \ {i}], text,
                          [j \in DOMAIN text |-> j][i], separator)
    BY <1>1, <1>8, <2>1
  <2> QED
    BY <1>1, <2>2
<1>10. f[{}] = <<>>
  BY <1>8
<1>11. Yields(f[1 .. n], Seq(Texts), <<>>, n, step)
  BY <1>4, <1>9, <1>10, FoldYields
<1> QED
  BY <1>1, <1>3, <1>11

LEMMA PiecesType ==
  ASSUME NEW text \in Texts, NEW separator
  PROVE  Pieces(text, separator) \in Seq(Texts)
<1>1. Len(text) \in Nat
  BY DEF Texts
<1> QED
  BY <1>1, PiecesFold, YieldType

-----------------------------------------------------------------------------
(* Builders.                                                               *)

Normal == Texts \ {<<>>, Dot, DotDot}

PortNumbers == Ports \cup {-1, 0, 80, 443}

(* A query is a map of sets that has been filled by calls: finitely many   *)
(* names have values, and finitely many each, and the empty name has none. *)
Entries(query) == {entry \in Names \X Texts : entry[2] \in query[entry[1]]}

Queries ==
  {query \in [Names -> SUBSET Texts] :
     IsFiniteSet(Entries(query)) /\ \A entry \in Entries(query) : entry[1] # <<>>}

Builders ==
  [scheme   : {<<>>, <<"http">>, <<"https">>},
   host     : Texts,
   port     : PortNumbers,
   segments : Seq(Normal),
   query    : Queries,
   fragment : Texts]

LEMMA CallTexts ==
  Hosts \cup Segments \cup Paths \cup Names \cup Values \cup Fragments
    \cup Urls \subseteq Texts
  BY UrlAssumption, SeqMonotonic DEF Texts, Tokens

LEMMA DotsDiffer == DotDot \notin {<<>>, Dot}
<1>1. Dot[1] = "." /\ DotDot[1] = ".." /\ Len(DotDot) = 1 /\ Len(<<>>) = 0
  BY DEF Dot, DotDot
<1> QED
  BY <1>1

(* A segment that is pushed leaves a path in its normal form.              *)
LEMMA PushType ==
  ASSUME NEW segments \in Seq(Normal), NEW segment \in Texts
  PROVE  Push(segments, segment) \in Seq(Normal)
<1>1. CASE segment \in {<<>>, Dot}
  <2>1. segment # DotDot
    BY <1>1, DotsDiffer
  <2> QED
    BY <1>1, <2>1 DEF Push
<1>2. CASE segment = DotDot
  <2>1. segment \notin {<<>>, Dot}
    BY <1>2, DotsDiffer
  <2>2. Pop(segments) \in Seq(Normal)
    BY DEF Pop, Front
  <2> QED
    BY <1>2, <2>1, <2>2 DEF Push
<1>3. CASE segment \notin {<<>>, Dot, DotDot}
  BY <1>3 DEF Push, Normal
<1> QED
  BY <1>1, <1>2, <1>3

LEMMA PushFold ==
  ASSUME NEW segments \in Seq(Normal), NEW pieces \in Seq(Texts),
         NEW step, step = [i \in 1 .. Len(pieces) |->
                            [x \in Seq(Normal) |-> Push(x, pieces[i])]]
  PROVE  Yields(FoldLeft(Push, segments, pieces), Seq(Normal), segments, Len(pieces), step)
<1>1. PICK n \in Nat : n = Len(pieces) /\ DOMAIN pieces = 1 .. n
  OBVIOUS
<1>2. PICK f :
        f = CHOOSE g : g = [s \in SUBSET DOMAIN pieces |->
              IF s = {} THEN segments
              ELSE Push(g[s \ {Max(s)}], pieces[Max(s)])]
  OBVIOUS
<1>3. FoldLeft(Push, segments, pieces) = f[1 .. n]
  BY <1>1, <1>2 DEF FoldLeft, MapThenFoldSet
<1>4. step \in [1 .. n -> [Seq(Normal) -> Seq(Normal)]] /\ segments \in Seq(Normal)
  BY <1>1, PushType
<1>5. PICK g : IsFold(g, Seq(Normal), segments, n, step)
  BY <1>4, FoldExists
<1>6. ASSUME NEW s \in SUBSET (1 .. n), s # {}
      PROVE  g[s] = Push(g[s \ {Max(s)}], pieces[Max(s)])
  <2>1. Max(s) \in 1 .. n /\ g[s \ {Max(s)}] \in Seq(Normal)
    BY <1>5, <1>6, MaxFacts DEF IsFold
  <2> QED
    BY <1>1, <1>5, <1>6, <2>1 DEF IsFold
<1>7. g = [s \in SUBSET DOMAIN pieces |->
             IF s = {} THEN segments
             ELSE Push(g[s \ {Max(s)}], pieces[Max(s)])]
  BY <1>1, <1>5, <1>6 DEF IsFold
<1>8. f = [s \in SUBSET DOMAIN pieces |->
             IF s = {} THEN segments
             ELSE Push(f[s \ {Max(s)}], pieces[Max(s)])]
  BY <1>2, <1>7
<1>9. Follows(f, Seq(Normal), n, step)
  <2> SUFFICES ASSUME NEW i \in 1 .. n, f[(1 .. i) \ {i}] \in Seq(Normal)
               PROVE  f[1 .. i] = step[i][f[(1 .. i) \ {i}]]
    BY DEF Follows
  <2>1. 1 .. i # {} /\ Max(1 .. i) = i /\ 1 .. i \in SUBSET (1 .. n)
    BY MaxOfFirst
  <2>2. f[1 .. i] = Push(f[(1 .. i) \ {i}], pieces[i])
    BY <1>1, <1>8, <2>1
  <2> QED
    BY <1>1, <2>2
<1>10. f[{}] = segments
  BY <1>8
<1>11. Yields(f[1 .. n], Seq(Normal), segments, n, step)
  BY <1>4, <1>9, <1>10, FoldYields
<1> QED
  BY <1>1, <1>3, <1>11

-----------------------------------------------------------------------------
(* What the functions make of a Builder.                                   *)

LEMMA FreshType == Fresh \in Builders
<1>1. <<>> \in Texts /\ <<>> \in Seq(Normal)
  BY DEF Texts
<1>2. PICK query : query = [n \in Names |-> {}]
  OBVIOUS
<1>3. query \in Queries
  <2>1. Entries(query) = {}
    BY <1>2 DEF Entries
  <2> QED
    BY <1>2, <2>1, FS_EmptySet DEF Queries
<1> QED
  BY <1>1, <1>2, <1>3 DEF Fresh, Builders, PortNumbers

LEMMA FieldTypes ==
  ASSUME NEW b \in Builders
  PROVE  /\ \A s \in Seq(Normal) : [b EXCEPT !.segments = s] \in Builders
         /\ \A q \in Queries : [b EXCEPT !.query = q] \in Builders
         /\ \A t \in Texts : [b EXCEPT !.host = t] \in Builders
         /\ \A t \in Texts, n \in PortNumbers :
              [b EXCEPT !.host = t, !.port = n] \in Builders
         /\ \A n \in PortNumbers : [b EXCEPT !.port = n] \in Builders
  BY DEF Builders

LEMMA DefaultPortType ==
  ASSUME NEW scheme
  PROVE  DefaultPort(scheme) \in {-1, 80, 443}
  BY DEF DefaultPort

LEMMA AddSegmentsType ==
  ASSUME NEW b \in Builders, NEW path \in Texts
  PROVE  AddEncodedPathSegments(b, path) \in Builders
<1>1. PICK pieces \in Seq(Texts) : pieces = Pieces(path, "/")
  BY PiecesType
<1>2. PICK segments \in Seq(Normal) : segments = b.segments
  BY DEF Builders
<1>3. FoldLeft(Push, segments, pieces) \in Seq(Normal)
  <2>1. Len(pieces) \in Nat
    OBVIOUS
  <2> QED
    BY <2>1, PushFold, YieldType
<1>4. PICK more \in Seq(Normal) : more = FoldLeft(Push, segments, pieces)
  BY <1>3
<1>5. AddEncodedPathSegments(b, path) = [b EXCEPT !.segments = more]
  BY <1>1, <1>2, <1>4 DEF AddEncodedPathSegments
<1> QED
  BY <1>5, FieldTypes

LEMMA PushSegmentType ==
  ASSUME NEW b \in Builders, NEW segment \in Texts
  PROVE  [b EXCEPT !.segments = Push(@, segment)] \in Builders
<1>1. PICK segments \in Seq(Normal) : segments = b.segments
  BY DEF Builders
<1>2. PICK more \in Seq(Normal) : more = Push(segments, segment)
  BY PushType
<1>3. [b EXCEPT !.segments = Push(@, segment)] = [b EXCEPT !.segments = more]
  BY <1>1, <1>2
<1> QED
  BY <1>3, FieldTypes

LEMMA SetSegmentType ==
  ASSUME NEW b \in Builders, NEW index \in Nat, NEW segment \in Texts
  PROVE  SetEncodedPathSegment(b, index, segment) \in Builders
<1>1. PICK segments \in Seq(Normal) : segments = b.segments
  BY DEF Builders
<1>2. CASE segment \in Normal
  <2>1. PICK more \in Seq(Normal) : more = [segments EXCEPT ![index] = segment]
    BY <1>2, ExceptType
  <2>2. [b EXCEPT !.segments[index] = segment] = [b EXCEPT !.segments = more]
    BY <1>1, <2>1 DEF Builders
  <2>3. [b EXCEPT !.segments = more] \in Builders
    BY DEF Builders
  <2> QED
    BY <2>2, <2>3 DEF SetEncodedPathSegment
<1>3. CASE segment \notin Normal
  BY <1>3 DEF Normal, SetEncodedPathSegment
<1> QED
  BY <1>2, <1>3

LEMMA RemoveSegmentType ==
  ASSUME NEW b \in Builders, NEW index \in Nat
  PROVE  RemovePathSegment(b, index) \in Builders
<1>1. PICK segments \in Seq(Normal) : segments = b.segments
  BY DEF Builders
<1>2. CASE index \in DOMAIN segments
  <2>1. index - 1 \in Int /\ index - 1 <= Len(segments)
        /\ index + 1 \in Nat \ {0} /\ Len(segments) \in Int
    BY <1>2
  <2>2. /\ SubSeq(segments, 1, index - 1) \in Seq(Normal)
        /\ SubSeq(segments, index + 1, Len(segments)) \in Seq(Normal)
    BY <2>1, SubSeqType
  <2>3. RemoveAt(segments, index) \in Seq(Normal)
    BY <2>2 DEF RemoveAt
  <2>4. PICK less \in Seq(Normal) : less = RemoveAt(segments, index)
    BY <2>3
  <2>5. RemovePathSegment(b, index) = [b EXCEPT !.segments = less]
    BY <1>1, <1>2, <2>4 DEF RemovePathSegment
  <2> QED
    BY <2>5, FieldTypes
<1>3. CASE index \notin DOMAIN segments
  BY <1>1, <1>3 DEF RemovePathSegment
<1> QED
  BY <1>2, <1>3

LEMMA FewerEntries ==
  ASSUME NEW query \in Queries, NEW name, NEW values \in SUBSET query[name]
  PROVE  [query EXCEPT ![name] = values] \in Queries
<1>1. PICK less : less = [query EXCEPT ![name] = values]
  OBVIOUS
<1>2. less \in [Names -> SUBSET Texts]
  BY <1>1 DEF Queries
<1>3. Entries(less) \in SUBSET Entries(query)
  BY <1>1 DEF Queries, Entries
<1>4. IsFiniteSet(Entries(less))
  BY <1>3, FS_Subset DEF Queries
<1> QED
  BY <1>1, <1>2, <1>3, <1>4 DEF Queries

LEMMA OneEntryMore ==
  ASSUME NEW query \in Queries, NEW name, name # <<>>, NEW value \in Texts
  PROVE  [query EXCEPT ![name] = @ \cup {value}] \in Queries
<1>1. PICK more : more = [query EXCEPT ![name] = @ \cup {value}]
  OBVIOUS
<1>2. more \in [Names -> SUBSET Texts]
  BY <1>1 DEF Queries
<1>3. Entries(more) \in SUBSET (Entries(query) \cup {<<name, value>>})
  BY <1>1 DEF Queries, Entries
<1>4. IsFiniteSet(Entries(query) \cup {<<name, value>>})
  BY FS_AddElement DEF Queries
<1>5. IsFiniteSet(Entries(more))
  BY <1>3, <1>4, FS_Subset
<1>6. \A entry \in Entries(more) : entry[1] # <<>>
  BY <1>3 DEF Queries
<1> QED
  BY <1>1, <1>2, <1>5, <1>6 DEF Queries

LEMMA QueryType ==
  ASSUME NEW b \in Builders, NEW name \in Texts, NEW value \in Texts
  PROVE  /\ AddEncodedQueryParameter(b, name, value) \in Builders
         /\ RemoveValue(b, name, value) \in Builders
         /\ RemoveName(b, name) \in Builders
<1>1. PICK query \in Queries : query = b.query
  BY DEF Builders
<1>2. PICK added : added = [query EXCEPT ![name] = @ \cup {value}]
  OBVIOUS
<1>3. PICK taken : taken = [query EXCEPT ![name] = @ \ {value}]
  OBVIOUS
<1>4. PICK cleared : cleared = [query EXCEPT ![name] = {}]
  OBVIOUS
<1>5. (name # <<>> => added \in Queries) /\ taken \in Queries /\ cleared \in Queries
  <2>1. query[name] \ {value} \in SUBSET query[name] /\ {} \in SUBSET query[name]
    OBVIOUS
  <2>2. \A values \in SUBSET query[name] :
          [query EXCEPT ![name] = values] \in Queries
    BY FewerEntries
  <2> QED
    BY <1>2, <1>3, <1>4, <2>1, <2>2, OneEntryMore
<1>6. \A q \in Queries : [b EXCEPT !.query = q] \in Builders
  BY FieldTypes
<1>7. /\ [b EXCEPT !.query[name] = @ \cup {value}] = [b EXCEPT !.query = added]
      /\ [b EXCEPT !.query[name] = @ \ {value}] = [b EXCEPT !.query = taken]
      /\ [b EXCEPT !.query[name] = {}] = [b EXCEPT !.query = cleared]
  BY <1>1, <1>2, <1>3, <1>4
<1> QED
  BY <1>5, <1>6, <1>7 DEF AddEncodedQueryParameter, RemoveValue, RemoveName

LEMMA FragmentType ==
  ASSUME NEW b \in Builders, NEW fragment \in Texts
  PROVE  AddEncodedFragment(b, fragment) \in Builders
  BY DEF AddEncodedFragment, Builders

-----------------------------------------------------------------------------
(* What Parse makes of a text.                                             *)

LEMMA WithParameterType ==
  ASSUME NEW b \in Builders, NEW parameter \in Texts
  PROVE  WithParameter(b, parameter) \in Builders
<1>1. PICK name \in Texts : name = UpTo(parameter, "=")
  BY UpToType
<1>2. PICK value \in Texts :
        value = IF Contains(parameter, "=") THEN After(parameter, "=") ELSE <<>>
  <2>1. <<>> \in Texts
    BY DEF Texts
  <2> QED
    BY <2>1, AfterType
<1> QED
  BY <1>1, <1>2, QueryType DEF WithParameter

LEMMA ParameterFold ==
  ASSUME NEW b \in Builders, NEW pieces \in Seq(Texts),
         NEW step, step = [i \in 1 .. Len(pieces) |->
                            [x \in Builders |-> WithParameter(x, pieces[i])]]
  PROVE  Yields(FoldLeft(WithParameter, b, pieces), Builders, b, Len(pieces), step)
<1>1. PICK n \in Nat : n = Len(pieces) /\ DOMAIN pieces = 1 .. n
  OBVIOUS
<1>2. PICK f :
        f = CHOOSE g : g = [s \in SUBSET DOMAIN pieces |->
              IF s = {} THEN b
              ELSE WithParameter(g[s \ {Max(s)}], pieces[Max(s)])]
  OBVIOUS
<1>3. FoldLeft(WithParameter, b, pieces) = f[1 .. n]
  BY <1>1, <1>2 DEF FoldLeft, MapThenFoldSet
<1>4. step \in [1 .. n -> [Builders -> Builders]] /\ b \in Builders
  BY <1>1, WithParameterType
<1>5. PICK g : IsFold(g, Builders, b, n, step)
  BY <1>4, FoldExists
<1>6. ASSUME NEW s \in SUBSET (1 .. n), s # {}
      PROVE  g[s] = WithParameter(g[s \ {Max(s)}], pieces[Max(s)])
  <2>1. Max(s) \in 1 .. n /\ g[s \ {Max(s)}] \in Builders
    BY <1>5, <1>6, MaxFacts DEF IsFold
  <2> QED
    BY <1>1, <1>5, <1>6, <2>1 DEF IsFold
<1>7. g = [s \in SUBSET DOMAIN pieces |->
             IF s = {} THEN b
             ELSE WithParameter(g[s \ {Max(s)}], pieces[Max(s)])]
  BY <1>1, <1>5, <1>6 DEF IsFold
<1>8. f = [s \in SUBSET DOMAIN pieces |->
             IF s = {} THEN b
             ELSE WithParameter(f[s \ {Max(s)}], pieces[Max(s)])]
  BY <1>2, <1>7
<1>9. Follows(f, Builders, n, step)
  <2> SUFFICES ASSUME NEW i \in 1 .. n, f[(1 .. i) \ {i}] \in Builders
               PROVE  f[1 .. i] = step[i][f[(1 .. i) \ {i}]]
    BY DEF Follows
  <2>1. 1 .. i # {} /\ Max(1 .. i) = i /\ 1 .. i \in SUBSET (1 .. n)
    BY MaxOfFirst
  <2>2. f[1 .. i] = WithParameter(f[(1 .. i) \ {i}], pieces[i])
    BY <1>1, <1>8, <2>1
  <2> QED
    BY <1>1, <2>2
<1>10. f[{}] = b
  BY <1>8
<1>11. Yields(f[1 .. n], Builders, b, n, step)
  BY <1>4, <1>9, <1>10, FoldYields
<1> QED
  BY <1>1, <1>3, <1>11

LEMMA EndsType ==
  ASSUME NEW text \in Texts
  PROVE  /\ HostPathEnd(text) \in Nat /\ HostPathEnd(text) <= Len(text) + 1
         /\ QueryEnd(text) \in Nat /\ QueryEnd(text) <= Len(text) + 1
<1>1. PICK q \in Nat : q = First(text, "?") /\ q <= Len(text)
  BY FirstType
<1>2. PICK h \in Nat : h = First(text, "#") /\ h <= Len(text)
  BY FirstType
<1>3. PICK n \in Nat : n = Len(text)
  BY DEF Texts
<1> QED
  BY <1>1, <1>2, <1>3 DEF HostPathEnd, QueryEnd

LEMMA WithQueryType ==
  ASSUME NEW b \in Builders, NEW text \in Texts
  PROVE  WithQuery(b, text) \in Builders
<1>1. PICK from \in Nat \ {0} : from = First(text, "?") + 1
  BY FirstType
<1>2. PICK to \in Nat : to = QueryEnd(text) /\ to <= Len(text) + 1
  BY EndsType
<1>3. PICK query \in Texts : query = Substr(text, from, to)
  BY <1>2, SubstrType
<1>4. PICK pieces \in Seq(Texts) : pieces = Pieces(query, "&")
  BY PiecesType
<1>5. FoldLeft(WithParameter, b, pieces) \in Builders
  <2>1. Len(pieces) \in Nat
    OBVIOUS
  <2> QED
    BY <2>1, ParameterFold, YieldType
<1> QED
  BY <1>1, <1>2, <1>3, <1>4, <1>5 DEF WithQuery

LEMMA WithFragmentType ==
  ASSUME NEW b \in Builders, NEW text \in Texts
  PROVE  WithFragment(b, text) \in Builders
<1>1. PICK fragment \in Texts : fragment = After(text, "#")
  BY AfterType
<1> QED
  BY <1>1, FragmentType DEF WithFragment

LEMMA NumberType ==
  ASSUME NEW text
  PROVE  Number(text) \in Ports \cup {0}
  BY DEF Number

LEMMA WithHostType ==
  ASSUME NEW b \in Builders, NEW hostPath \in Texts
  PROVE  WithHost(b, hostPath) \in Builders
<1>1. PICK colon : colon = First(hostPath, ":")
  OBVIOUS
<1>2. PICK slash : slash = First(hostPath, "/")
  OBVIOUS
<1>3. PICK port : port = Substr(hostPath, colon + 1,
                           IF slash = 0 THEN Len(hostPath) + 1 ELSE slash)
  OBVIOUS
<1>4. PICK host \in Texts :
        host = IF colon = 0 THEN UpTo(hostPath, "/") ELSE UpTo(hostPath, ":")
  BY UpToType
<1>5. PICK number \in PortNumbers :
        number = IF colon = 0 \/ port = <<>> THEN DefaultPort(b.scheme)
                 ELSE Number(port)
  BY DefaultPortType, NumberType DEF PortNumbers
<1>6. PICK path \in Texts : path = After(hostPath, "/")
  BY AfterType
<1>7. PICK hosted \in Builders :
        hosted = [b EXCEPT !.host = host, !.port = number]
  BY FieldTypes
<1>8. WithHost(b, hostPath) = AddEncodedPathSegments(hosted, path)
  BY <1>1, <1>2, <1>3, <1>4, <1>5, <1>6, <1>7 DEF WithHost
<1> QED
  BY <1>8, AddSegmentsType

LEMMA ParseType ==
  ASSUME NEW b \in Builders, NEW text \in Texts
  PROVE  Parse(b, text).b \in Builders
<1>1. PICK trimmed \in Texts : trimmed = Trimmed(text)
  BY TrimmedType
<1>2. PICK scheme :
        scheme = IF trimmed = <<>> THEN <<>>
                 ELSE UpTo([trimmed EXCEPT ![1] = Lower(@)], ":")
  OBVIOUS
<1>3. PICK with : with = [Fresh EXCEPT !.scheme = scheme]
  OBVIOUS
<1>4. PICK end \in Nat : end = HostPathEnd(trimmed) /\ end <= Len(trimmed) + 1
  BY EndsType
<1>5. PICK hostPath \in Texts : hostPath = Substr(trimmed, 5, end)
  BY <1>4, SubstrType
<1>6. PICK whole :
        whole = WithFragment(WithQuery(WithHost(with, hostPath), trimmed),
                             trimmed)
  OBVIOUS
<1>7. scheme \in {<<"http">>, <<"https">>} => with \in Builders
  BY <1>3, FreshType DEF Builders
<1>8. scheme \in {<<"http">>, <<"https">>} => whole \in Builders
  <2> SUFFICES ASSUME with \in Builders
               PROVE  whole \in Builders
    BY <1>7
  <2>1. PICK hosted \in Builders : hosted = WithHost(with, hostPath)
    BY WithHostType
  <2>2. PICK queried \in Builders : queried = WithQuery(hosted, trimmed)
    BY WithQueryType
  <2> QED
    BY <1>6, <2>1, <2>2, WithFragmentType
<1>9. Parse(b, text) =
        CASE TooShort(text) -> Outcome("false", b)
          [] ~TooShort(text) /\ scheme \notin {<<"http">>, <<"https">>} ->
               Outcome("false", Fresh)
          [] OTHER ->
               CASE Len(trimmed) < 4 -> Outcome("throws", with)
                 [] Len(trimmed) >= 4 /\ hostPath = <<>> ->
                      Outcome("false", with)
                 [] OTHER -> Outcome("true", whole)
  BY <1>1, <1>2, <1>3, <1>4, <1>5, <1>6 DEF Parse
<1>10. \/ Parse(b, text) = Outcome("false", b)
       \/ Parse(b, text) = Outcome("false", Fresh)
       \/ /\ scheme \in {<<"http">>, <<"https">>}
          /\ \/ Parse(b, text) = Outcome("throws", with)
             \/ Parse(b, text) = Outcome("false", with)
             \/ Parse(b, text) = Outcome("true", whole)
  BY <1>9
<1>11. \A answer, o : Outcome(answer, o).b = o
  BY DEF Outcome
<1> QED
  BY <1>7, <1>8, <1>10, <1>11, FreshType

-----------------------------------------------------------------------------
(* Where a token is in a text that has been put together.                  *)

Without(token) == Seq(Tokens \ {token})

LEMMA WithoutFacts ==
  ASSUME NEW token, NEW part \in Without(token)
  PROVE  part \in Texts /\ \A i \in 1 .. Len(part) : part[i] # token
  BY DEF Without, Texts

FoundAt(text, token, from, at) ==
  /\ at \in from .. Len(text) /\ text[at] = token
  /\ \A i \in from .. at - 1 : text[i] # token

LEMMA FirstIs ==
  ASSUME NEW text \in Texts, NEW token, NEW from \in Nat \ {0},
         NEW at \in Nat, FoundAt(text, token, from, at)
  PROVE  FirstFrom(text, token, from) = at
<1> DEFINE I == {i \in from .. Len(text) : text[i] = token}
<1>1. I \in SUBSET Nat /\ at \in I
  BY DEF FoundAt
<1>2. FirstFrom(text, token, from) = Min(I)
  BY <1>1 DEF FirstFrom, SelectInSubSeq
<1>3. Min(I) \in I /\ Min(I) <= at
  BY <1>1, MinFacts
<1>4. Min(I) \in from .. Len(text) /\ text[Min(I)] = token
  BY <1>3
<1>5. ~ (Min(I) \in from .. at - 1)
  BY <1>4 DEF FoundAt
<1> QED
  BY <1>2, <1>3, <1>4, <1>5

LEMMA FirstIsNone ==
  ASSUME NEW text, NEW token, NEW from \in Nat \ {0},
         \A i \in from .. Len(text) : text[i] # token
  PROVE  FirstFrom(text, token, from) = 0
  BY DEF FirstFrom, SelectInSubSeq

FollowedBy(text, front, part, token) ==
  \E rest \in Texts : text = (front \o part) \o (<<token>> \o rest)

LEMMA FirstBehind ==
  ASSUME NEW front \in Texts, NEW token \in Tokens, NEW part \in Without(token),
         NEW text, FollowedBy(text, front, part, token)
  PROVE  FirstFrom(text, token, Len(front) + 1) = Len(front) + Len(part) + 1
<1>1. PICK rest \in Texts : text = (front \o part) \o (<<token>> \o rest)
  BY DEF FollowedBy
<1>2. /\ part \in Texts /\ Len(part) \in Nat /\ Len(front) \in Nat
      /\ \A i \in 1 .. Len(part) : part[i] # token
  BY WithoutFacts DEF Texts
<1>3. PICK at \in Nat : at = Len(front) + Len(part) + 1
  BY <1>2
<1>4. text \in Texts /\ at \in Len(front) + 1 .. Len(text)
  BY <1>1, <1>2, <1>3 DEF Texts
<1>5. text[at] = token
  BY <1>1, <1>2, <1>3 DEF Texts
<1>6. ASSUME NEW i \in Len(front) + 1 .. at - 1
      PROVE  text[i] # token
  <2>1. i - Len(front) \in 1 .. Len(part)
    BY <1>2, <1>3
  <2>2. text[i] = part[i - Len(front)]
    BY <1>1, <1>2, <1>3, <2>1 DEF Texts
  <2> QED
    BY <1>2, <2>1, <2>2
<1>7. PICK from \in Nat \ {0} : from = Len(front) + 1
  BY <1>2
<1>8. FoundAt(text, token, from, at)
  BY <1>4, <1>5, <1>6, <1>7 DEF FoundAt
<1>9. FirstFrom(text, token, from) = at
  BY <1>4, <1>8, FirstIs
<1> QED
  BY <1>3, <1>7, <1>9

LEMMA FirstOf ==
  ASSUME NEW token \in Tokens, NEW part \in Without(token), NEW rest \in Texts,
         NEW text, text = part \o (<<token>> \o rest)
  PROVE  First(text, token) = Len(part) + 1 /\ Contains(text, token)
<1>1. /\ part \in Texts /\ Len(part) \in Nat
      /\ \A i \in 1 .. Len(part) : part[i] # token
  BY WithoutFacts DEF Texts
<1>2. PICK at \in Nat : at = Len(part) + 1
  BY <1>1
<1>3. text \in Texts /\ at \in 1 .. Len(text) /\ text[at] = token
  BY <1>1, <1>2 DEF Texts
<1>4. \A i \in 1 .. at - 1 : text[i] # token
  BY <1>1, <1>2 DEF Texts
<1>5. PICK from \in Nat \ {0} : from = 1
  OBVIOUS
<1>6. FoundAt(text, token, from, at)
  BY <1>3, <1>4, <1>5 DEF FoundAt
<1>7. FirstFrom(text, token, from) = at
  BY <1>3, <1>6, FirstIs
<1> QED
  BY <1>2, <1>3, <1>5, <1>7 DEF First, Contains

LEMMA FirstOfNone ==
  ASSUME NEW token, NEW text \in Without(token)
  PROVE  First(text, token) = 0 /\ ~ Contains(text, token)
  BY WithoutFacts, FirstIsNone DEF First, Contains

LEMMA Between ==
  ASSUME NEW front \in Texts, NEW part \in Texts, NEW rest \in Texts
  PROVE  SubSeq((front \o part) \o rest, Len(front) + 1, Len(front) + Len(part))
           = part
  BY DEF Texts

LEMMA TextsConcat ==
  ASSUME NEW front \in Texts, NEW rest \in Texts
  PROVE  /\ front \o rest \in Texts
         /\ Len(front) \in Nat /\ Len(rest) \in Nat
         /\ Len(front \o rest) = Len(front) + Len(rest)
  BY ConcatProperties DEF Texts

Associate(front, middle, rest) ==
  (front \o middle) \o rest = front \o (middle \o rest)

LEMMA TextsAssociate ==
  ASSUME NEW front \in Texts, NEW middle \in Texts, NEW rest \in Texts
  PROVE  Associate(front, middle, rest)
<1>1. /\ front \in Seq(Tokens) /\ middle \in Seq(Tokens)
      /\ rest \in Seq(Tokens)
  BY DEF Texts
<1>2. (front \o middle) \o rest = front \o (middle \o rest)
  BY <1>1, ConcatAssociative
<1> QED
  BY <1>2 DEF Associate

-----------------------------------------------------------------------------
(* What a text that has been joined is cut into.                           *)

IsCut(h, text, separator) ==
  /\ h \in [0 .. Len(text) -> Seq(Texts)]
  /\ h[0] = <<>>
  /\ \A i \in 1 .. Len(text) : h[i] = Extend(h[i - 1], text, i, separator)
  /\ Pieces(text, separator) = h[Len(text)]

LEMMA CutExists ==
  ASSUME NEW text \in Texts, NEW separator
  PROVE  \E h : IsCut(h, text, separator)
<1>1. PICK n \in Nat : n = Len(text) /\ DOMAIN text = 1 .. n
  BY DEF Texts
<1>2. PICK step : step = [i \in 1 .. Len(text) |-> [x \in Seq(Texts) |->
                    Extend(x, text, [j \in DOMAIN text |-> j][i], separator)]]
  OBVIOUS
<1>3. Yields(Pieces(text, separator), Seq(Texts), <<>>, Len(text), step)
  BY <1>2, PiecesFold
<1>4. PICK h : /\ IsRun(h, Seq(Texts), <<>>, n, step)
               /\ Pieces(text, separator) = h[n]
  BY <1>1, <1>3 DEF Yields
<1>5. h \in [0 .. n -> Seq(Texts)] /\ h[0] = <<>>
  BY <1>4 DEF IsRun
<1>6. ASSUME NEW i \in 1 .. n
      PROVE  h[i] = Extend(h[i - 1], text, i, separator)
  <2>1. h[i] = step[i][h[i - 1]] /\ h[i - 1] \in Seq(Texts)
    BY <1>4, <1>5 DEF IsRun
  <2>2. step[i][h[i - 1]] =
          Extend(h[i - 1], text, [j \in DOMAIN text |-> j][i], separator)
    BY <1>1, <1>2, <2>1
  <2>3. [j \in DOMAIN text |-> j][i] = i
    BY <1>1
  <2> QED
    BY <2>1, <2>2, <2>3
<1> QED
  BY <1>1, <1>4, <1>5, <1>6 DEF IsCut

LEMMA ExtendCases ==
  ASSUME NEW pieces, NEW text, NEW i, NEW separator
  PROVE  /\ text[i] = separator => Extend(pieces, text, i, separator) = pieces
         /\ text[i] # separator /\ (i = 1 \/ text[i - 1] = separator) =>
              Extend(pieces, text, i, separator) = Append(pieces, <<text[i]>>)
         /\ text[i] # separator /\ i # 1 /\ text[i - 1] # separator =>
              Extend(pieces, text, i, separator) =
                [pieces EXCEPT ![Len(pieces)] = Append(@, text[i])]
  BY DEF Extend

LEMMA OneToken ==
  ASSUME NEW text \in Texts, Len(text) >= 1
  PROVE  SubSeq(text, 1, 1) = <<text[1]>>
<1>1. 1 \in 1 .. Len(text)
  BY DEF Texts
<1>2. SubSeq(text, 1, 1) = <<text[1]>> \o SubSeq(text, 2, 1)
  BY <1>1, SubSeqRecursiveFirst DEF Texts
<1>3. SubSeq(text, 2, 1) = <<>>
  BY SubSeqEmpty
<1>4. <<text[1]>> \in Texts
  BY <1>1 DEF Texts
<1> QED
  BY <1>2, <1>3, <1>4, ConcatEmptySeq DEF Texts

LEMMA AppendFacts ==
  ASSUME NEW S, NEW seq \in Seq(S), NEW x \in S, NEW n \in Nat, n = Len(seq)
  PROVE  /\ Append(seq, x) \in Seq(S) /\ Append(seq, x) \in [1 .. n + 1 -> S]
         /\ Len(Append(seq, x)) = n + 1 /\ Append(seq, x)[n + 1] = x
         /\ \A i \in 1 .. n : Append(seq, x)[i] = seq[i]
<1>1. PICK more \in Seq(S) : more = Append(seq, x)
  BY AppendProperties
<1>2. /\ Len(more) = n + 1 /\ more[n + 1] = x
      /\ \A i \in 1 .. n : more[i] = seq[i]
  BY <1>1, AppendProperties
<1>3. more \in [1 .. n + 1 -> S]
  BY <1>2, LenProperties
<1> QED
  BY <1>1, <1>2, <1>3

LEMMA LastReplaced ==
  ASSUME NEW S, NEW seq \in Seq(S), NEW x \in S, NEW y \in S
  PROVE  [Append(seq, x) EXCEPT ![Len(Append(seq, x))] = y] = Append(seq, y)
<1>1. PICK n \in Nat : n = Len(seq)
  OBVIOUS
<1>2. PICK old : old = Append(seq, x)
  OBVIOUS
<1>3. /\ old \in [1 .. n + 1 -> S] /\ Len(old) = n + 1
      /\ \A i \in 1 .. n : old[i] = seq[i]
  BY <1>1, <1>2, AppendFacts
<1>4. PICK more : more = Append(seq, y)
  OBVIOUS
<1>5. /\ more \in [1 .. n + 1 -> S] /\ more[n + 1] = y
      /\ \A i \in 1 .. n : more[i] = seq[i]
  BY <1>1, <1>4, AppendFacts
<1>6. PICK new : new = [old EXCEPT ![n + 1] = y]
  OBVIOUS
<1>7. new \in [1 .. n + 1 -> S]
  BY <1>3, <1>6
<1>8. ASSUME NEW i \in 1 .. n + 1
      PROVE  new[i] = more[i]
  <2>1. CASE i = n + 1
    BY <1>3, <1>5, <1>6, <2>1
  <2>2. CASE i # n + 1
    <3>1. i \in 1 .. n
      BY <2>2
    <3> QED
      BY <1>3, <1>5, <1>6, <2>2, <3>1
  <2> QED
    BY <2>1, <2>2
<1>9. new = more
  BY <1>5, <1>7, <1>8
<1> QED
  BY <1>2, <1>3, <1>4, <1>6, <1>9

(* A separator at the end makes no difference.                             *)
LEMMA SeparatorAtEnd ==
  ASSUME NEW text \in Texts, NEW separator \in Tokens
  PROVE  Pieces(text \o <<separator>>, separator) = Pieces(text, separator)
<1>1. PICK n \in Nat : n = Len(text)
  BY DEF Texts
<1>2. PICK whole \in Texts :
        /\ whole = text \o <<separator>>
        /\ Len(whole) = n + 1 /\ whole[n + 1] = separator
        /\ \A i \in 1 .. n : whole[i] = text[i]
  <2>1. text \o <<separator>> = Append(text, separator)
    BY AppendIsConcat DEF Texts
  <2>2. PICK more \in Texts : more = text \o <<separator>>
    BY <2>1, AppendProperties DEF Texts
  <2>3. /\ Len(more) = n + 1 /\ more[n + 1] = separator
        /\ \A i \in 1 .. n : more[i] = text[i]
    BY <1>1, <2>1, <2>2, AppendFacts DEF Texts
  <2> QED
    BY <2>2, <2>3
<1>3. PICK g : IsCut(g, text, separator)
  BY CutExists
<1>4. PICK h : IsCut(h, whole, separator)
  BY CutExists
<1> DEFINE Same == {k \in 0 .. n : h[k] = g[k]}
<1>5. 0 \in Same
  BY <1>3, <1>4 DEF IsCut
<1>6. ASSUME NEW i \in 1 .. n, i - 1 \in Same
      PROVE  i \in Same
  <2>1. /\ h[i] = Extend(h[i - 1], whole, i, separator)
        /\ g[i] = Extend(g[i - 1], text, i, separator)
    BY <1>1, <1>2, <1>3, <1>4 DEF IsCut
  <2>2. whole[i] = text[i] /\ (i # 1 => whole[i - 1] = text[i - 1])
    BY <1>2
  <2>3. Extend(g[i - 1], whole, i, separator)
          = Extend(g[i - 1], text, i, separator)
    BY <2>2 DEF Extend
  <2> QED
    BY <1>6, <2>1, <2>3
<1>7. h[n] = g[n]
  <2>1. \A k \in 0 .. n : k \in Same
    <3> HIDE DEF Same
    <3> QED
      BY <1>5, <1>6, Induction
  <2> QED
    BY <2>1
<1>8. h[n + 1] = Extend(h[n], whole, n + 1, separator)
  BY <1>2, <1>4 DEF IsCut
<1>9. h[n + 1] = h[n]
  BY <1>2, <1>8 DEF Extend
<1> QED
  BY <1>1, <1>2, <1>3, <1>4, <1>7, <1>9 DEF IsCut

(* What follows a separator, or nothing, is a piece.                       *)
LEMMA PieceAtEnd ==
  ASSUME NEW text \in Texts, NEW separator \in Tokens,
         NEW part \in Without(separator), part # <<>>,
         text = <<>> \/ text[Len(text)] = separator
  PROVE  Pieces(text \o part, separator) = Append(Pieces(text, separator), part)
<1>1. PICK n \in Nat : n = Len(text)
  BY DEF Texts
<1>2. PICK m \in Nat \ {0} : m = Len(part)
  BY EmptySeq, WithoutFacts DEF Texts
<1>3. part \in Texts /\ \A i \in 1 .. m : part[i] # separator /\ part[i] \in Tokens
  BY <1>2, WithoutFacts DEF Texts
<1>4. PICK whole \in Texts :
        /\ whole = text \o part
        /\ Len(whole) = n + m
        /\ \A i \in 1 .. n : whole[i] = text[i]
        /\ \A i \in 1 .. m : whole[n + i] = part[i]
  <2>1. /\ text \o part \in Texts /\ Len(text \o part) = n + m
        /\ \A i \in 1 .. n + m : (text \o part)[i] =
             IF i <= n THEN text[i] ELSE part[i - n]
    BY <1>3, <1>1, <1>2, ConcatProperties DEF Texts
  <2>2. \A i \in 1 .. n : i \in 1 .. n + m /\ i <= n
    BY <1>2
  <2>3. \A i \in 1 .. m : n + i \in 1 .. n + m /\ ~ (n + i <= n) /\ (n + i) - n = i
    BY <1>1, <1>2
  <2>4. \A i \in 1 .. n : (text \o part)[i] = text[i]
    BY <2>1, <2>2
  <2>5. \A i \in 1 .. m : (text \o part)[n + i] = part[i]
    BY <2>1, <2>3
  <2> QED
    BY <2>1, <2>4, <2>5
<1>5. PICK g : IsCut(g, text, separator)
  BY CutExists
<1>6. PICK h : IsCut(h, whole, separator)
  BY CutExists
<1>7. PICK pieces \in Seq(Texts) : pieces = g[n]
  BY <1>1, <1>5 DEF IsCut
<1> DEFINE Same == {k \in 0 .. n : h[k] = g[k]}
<1>8. 0 \in Same
  BY <1>5, <1>6 DEF IsCut
<1>9. ASSUME NEW i \in 1 .. n, i - 1 \in Same
      PROVE  i \in Same
  <2>1. /\ h[i] = Extend(h[i - 1], whole, i, separator)
        /\ g[i] = Extend(g[i - 1], text, i, separator)
    BY <1>1, <1>4, <1>5, <1>6 DEF IsCut
  <2>2. whole[i] = text[i] /\ (i # 1 => whole[i - 1] = text[i - 1])
    <3>1. i # 1 => i - 1 \in 1 .. n
      OBVIOUS
    <3> QED
      BY <1>4, <3>1
  <2>3. Extend(g[i - 1], whole, i, separator)
          = Extend(g[i - 1], text, i, separator)
    BY <2>2 DEF Extend
  <2> QED
    BY <1>9, <2>1, <2>3
<1>10. h[n] = pieces
  <2>1. \A k \in 0 .. n : k \in Same
    <3> HIDE DEF Same
    <3> QED
      BY <1>8, <1>9, Induction
  <2> QED
    BY <1>7, <2>1
<1> DEFINE Reached == {k \in 0 .. m :
             k # 0 => h[n + k] = Append(pieces, SubSeq(part, 1, k))}
<1>11. ASSUME NEW i \in 1 .. m, i - 1 \in Reached
       PROVE  i \in Reached
  <2>1. h[n + i] = Extend(h[n + i - 1], whole, n + i, separator)
    BY <1>4, <1>6 DEF IsCut
  <2>2. whole[n + i] = part[i] /\ part[i] # separator /\ part[i] \in Tokens
    BY <1>3, <1>4
  <2>3. CASE i = 1
    <3>1. n + i = 1 \/ whole[n + i - 1] = separator
      BY <1>1, <1>4, <2>3
    <3>2. h[n + i] = Append(pieces, <<part[i]>>)
      <4>1. h[n + i - 1] = pieces
        BY <1>10, <2>3
      <4> QED
        BY <2>1, <2>2, <3>1, <4>1, ExtendCases
    <3>3. SubSeq(part, 1, i) = <<part[i]>>
      BY <1>3, <1>2, <2>3, OneToken
    <3> QED
      BY <2>3, <3>2, <3>3
  <2>4. CASE i # 1
    <3>1. i - 1 \in 1 .. m /\ n + (i - 1) = n + i - 1
      BY <2>4
    <3>2. whole[n + i - 1] = part[i - 1] /\ part[i - 1] # separator
      BY <1>3, <1>4, <3>1
    <3>3. PICK before \in Texts : before = SubSeq(part, 1, i - 1)
      <4>1. i - 1 \in Int /\ i - 1 <= Len(part)
        BY <1>2, <3>1
      <4>2. 1 \in Nat \ {0}
        OBVIOUS
      <4>3. SubSeq(part, 1, i - 1) \in Seq(Tokens)
        BY <1>3, <4>1, <4>2, SubSeqType DEF Texts
      <4> QED
        BY <4>3 DEF Texts
    <3>4. Append(before, part[i]) \in Texts
      BY <2>2, AppendProperties DEF Texts
    <3>5. PICK old \in Seq(Texts) : old = Append(pieces, before)
      BY AppendProperties
    <3>6. h[n + i - 1] = old
      BY <1>11, <3>1, <3>3, <3>5
    <3>7. h[n + i] = [old EXCEPT ![Len(old)] = Append(@, part[i])]
      <4>1. n + i # 1
        BY <1>1, <2>4
      <4>2. PICK at : at = n + i
        OBVIOUS
      <4>3. at # 1 /\ whole[at] # separator /\ whole[at - 1] # separator
        BY <2>2, <3>2, <4>1, <4>2
      <4>4. Extend(old, whole, at, separator)
              = [old EXCEPT ![Len(old)] = Append(@, whole[at])]
        BY <4>3, ExtendCases
      <4> QED
        BY <2>1, <2>2, <3>6, <4>2, <4>4
    <3>8. PICK after \in Texts : after = Append(before, part[i])
      BY <3>4
    <3>9. PICK last \in Nat : last = Len(old) /\ old[last] = before
      <4>1. Len(old) = Len(pieces) + 1 /\ old[Len(pieces) + 1] = before
        BY <3>5, AppendProperties
      <4> QED
        BY <4>1
    <3>10. [old EXCEPT ![last] = Append(@, part[i])] = [old EXCEPT ![last] = after]
      BY <3>8, <3>9
    <3>11. [old EXCEPT ![Len(old)] = Append(@, part[i])]
            = Append(pieces, Append(before, part[i]))
      <4>1. [Append(pieces, before) EXCEPT ![Len(Append(pieces, before))] = after]
              = Append(pieces, after)
        BY LastReplaced
      <4> QED
        BY <3>5, <3>8, <3>9, <3>10, <4>1
    <3>12. Append(before, part[i]) = SubSeq(part, 1, i)
      <4>1. 1 \in 1 .. Len(part) /\ i \in 1 .. Len(part)
        BY <1>2
      <4>2. SubSeq(part, 1, i) = before \o <<part[i]>>
        BY <1>3, <3>3, <4>1, SubSeqRecursiveSecond DEF Texts
      <4> QED
        BY <2>2, <4>2, AppendIsConcat DEF Texts
    <3>13. h[n + i] = Append(pieces, SubSeq(part, 1, i)) /\ i \in 0 .. m
      BY <3>7, <3>11, <3>12
    <3> QED
      BY <3>13
  <2> QED
    BY <2>3, <2>4
<1>12. h[n + m] = Append(pieces, part)
  <2>1. 0 \in Reached
    OBVIOUS
  <2>2. \A k \in 0 .. m : k \in Reached
    <3> HIDE DEF Reached
    <3> QED
      BY <1>11, <2>1, Induction
  <2>3. SubSeq(part, 1, m) = part
    BY <1>3, <1>2, SubSeqFull DEF Texts
  <2>4. m \in Reached
    <3> HIDE DEF Reached
    <3> QED
      BY <1>2, <2>2
  <2>5. m # 0 => h[n + m] = Append(pieces, SubSeq(part, 1, m))
    BY <2>4
  <2> QED
    BY <1>2, <2>3, <2>5
<1> QED
  BY <1>1, <1>4, <1>5, <1>6, <1>7, <1>12 DEF IsCut

(* A function over the first numbers, from each value to the next.         *)
LEMMA RunExists ==
  ASSUME NEW S, NEW base \in S, NEW n \in Nat,
         NEW step \in [1 .. n -> [S -> S]]
  PROVE  \E h : IsRun(h, S, base, n, step)
<1>1. PICK g : IsFold(g, S, base, n, step)
  BY FoldExists
<1>2. Follows(g, S, n, step)
  <2> SUFFICES ASSUME NEW i \in 1 .. n
               PROVE  g[1 .. i] = step[i][g[(1 .. i) \ {i}]]
    BY DEF Follows
  <2>1. 1 .. i # {} /\ Max(1 .. i) = i /\ 1 .. i \in SUBSET (1 .. n)
    BY MaxOfFirst
  <2> QED
    BY <1>1, <2>1 DEF IsFold
<1>3. g[{}] = base
  BY <1>1 DEF IsFold
<1> QED
  BY <1>2, <1>3, FoldYields DEF Yields

IsJoin(h, texts, before) ==
  /\ h \in [0 .. Len(texts) -> Texts]
  /\ h[0] = <<>>
  /\ \A i \in 1 .. Len(texts) : h[i] = h[i - 1] \o (before \o texts[i])
  /\ Joined(texts, before) = h[Len(texts)]

LEMMA JoinExists ==
  ASSUME NEW texts \in Seq(Texts), NEW before \in Texts
  PROVE  \E h : IsJoin(h, texts, before)
<1>1. PICK n \in Nat : n = Len(texts) /\ DOMAIN texts = 1 .. n
  OBVIOUS
<1>2. PICK parts : parts = [i \in 1 .. n |-> before \o texts[i]]
  OBVIOUS
<1>3. parts \in Seq(Texts) /\ Len(parts) = n
  <2>1. \A i \in 1 .. n : before \o texts[i] \in Texts
    BY <1>1, ConcatProperties DEF Texts
  <2> QED
    BY <1>2, <2>1
<1>4. PICK step : step = [i \in 1 .. n |-> [x \in Texts |-> x \o parts[i]]]
  OBVIOUS
<1>5. step \in [1 .. n -> [Texts -> Texts]] /\ <<>> \in Texts
  <2>1. \A i \in 1 .. n : parts[i] \in Texts
    BY <1>3
  <2>2. \A i \in 1 .. n : \A x \in Texts : x \o parts[i] \in Texts
    BY <2>1, ConcatProperties DEF Texts
  <2> QED
    BY <1>4, <2>2, EmptySeq DEF Texts
<1>6. PICK h : IsRun(h, Texts, <<>>, n, step)
  BY <1>5, RunExists
<1>7. /\ h \in [0 .. n -> Texts] /\ h[0] = <<>>
      /\ \A i \in 1 .. n : h[i] = h[i - 1] \o parts[i]
  <2>1. h \in [0 .. n -> Texts] /\ h[0] = <<>>
    BY <1>6 DEF IsRun
  <2>2. ASSUME NEW i \in 1 .. n
        PROVE  h[i] = h[i - 1] \o parts[i]
    <3>1. h[i] = step[i][h[i - 1]]
      BY <1>6 DEF IsRun
    <3>2. PICK x \in Texts : x = h[i - 1]
      BY <2>1
    <3>3. step[i][x] = x \o parts[i]
      BY <1>4
    <3> QED
      BY <3>1, <3>2, <3>3
  <2> QED
    BY <2>1, <2>2
<1>8. Joined(texts, before) = h[n]
  <2>1. Joined(texts, before) = FlattenSeq(parts)
    BY <1>1, <1>2 DEF Joined
  <2>2. CASE n = 0
    <3>1. FlattenSeq(parts) = parts /\ parts = <<>>
      BY <1>3, <2>2, EmptySeq DEF FlattenSeq
    <3> QED
      BY <1>7, <2>1, <2>2, <3>1
  <2>3. CASE n # 0
    <3>1. PICK flat : flat = CHOOSE f :
            f = [i \in 1 .. Len(parts) |->
                   IF i = 1 THEN parts[i] ELSE f[i - 1] \o parts[i]]
      OBVIOUS
    <3>2. FlattenSeq(parts) = flat[n]
      BY <1>3, <2>3, <3>1 DEF FlattenSeq
    <3>3. PICK run : run = [i \in 1 .. n |-> h[i]]
      OBVIOUS
    <3>4. ASSUME NEW i \in 1 .. n
          PROVE  run[i] = IF i = 1 THEN parts[i] ELSE run[i - 1] \o parts[i]
      <4>1. CASE i = 1
        <5>1. run[i] = <<>> \o parts[i] /\ parts[i] \in Texts
          <6>1. h[i] = h[i - 1] \o parts[i] /\ run[i] = h[i]
            BY <1>7, <3>3
          <6>2. i - 1 = 0
            BY <4>1
          <6>3. h[i - 1] = <<>>
            BY <1>7, <6>2
          <6> QED
            BY <1>3, <6>1, <6>3
        <5> QED
          BY <4>1, <5>1, ConcatEmptySeq DEF Texts
      <4>2. CASE i # 1
        <5>1. i - 1 \in 1 .. n
          BY <4>2
        <5> QED
          BY <1>7, <3>3, <4>2, <5>1
      <4> QED
        BY <4>1, <4>2
    <3>5. run = [i \in 1 .. Len(parts) |->
                   IF i = 1 THEN parts[i] ELSE run[i - 1] \o parts[i]]
      BY <1>3, <3>3, <3>4
    <3>6. flat = [i \in 1 .. Len(parts) |->
                    IF i = 1 THEN parts[i] ELSE flat[i - 1] \o parts[i]]
      BY <3>1, <3>5
    <3> DEFINE Same == {k \in 0 .. n : k # 0 => flat[k] = run[k]}
    <3>7. ASSUME NEW i \in 1 .. n, i - 1 \in Same
          PROVE  i \in Same
      <4>1. flat[i] = IF i = 1 THEN parts[i] ELSE flat[i - 1] \o parts[i]
        BY <1>3, <3>6
      <4>2. flat[i] = run[i]
        BY <3>4, <3>7, <4>1
      <4> QED
        BY <4>2
    <3>8. 0 \in Same
      OBVIOUS
    <3>9. \A k \in 0 .. n : k \in Same
      <4> HIDE DEF Same
      <4> QED
        BY <3>7, <3>8, Induction
    <3>10. flat[n] = run[n] /\ run[n] = h[n]
      BY <2>3, <3>3, <3>9
    <3> QED
      BY <2>1, <3>2, <3>10
  <2> QED
    BY <2>2, <2>3
<1>9. \A i \in 1 .. n : h[i] = h[i - 1] \o (before \o texts[i])
  BY <1>2, <1>7
<1> QED
  BY <1>1, <1>7, <1>8, <1>9 DEF IsJoin

LEMMA JoinedType ==
  ASSUME NEW S \in SUBSET Tokens, NEW texts \in Seq(Seq(S)), NEW before \in Seq(S)
  PROVE  Joined(texts, before) \in Seq(S)
<1>1. PICK n \in Nat : n = Len(texts)
  OBVIOUS
<1>2. texts \in Seq(Texts) /\ before \in Texts
  BY SeqMonotonic DEF Texts
<1>3. PICK h : IsJoin(h, texts, before)
  BY <1>2, JoinExists
<1> DEFINE Typed == {k \in 0 .. n : h[k] \in Seq(S)}
<1>4. 0 \in Typed
  <2>1. h[0] = <<>>
    BY <1>3 DEF IsJoin
  <2>2. <<>> \in Seq(S) /\ 0 \in 0 .. n
    BY EmptySeq
  <2>3. h[0] \in Seq(S)
    BY <2>1, <2>2
  <2> QED
    BY <2>2, <2>3
<1>5. ASSUME NEW i \in 1 .. n, i - 1 \in Typed
      PROVE  i \in Typed
  <2>1. texts[i] \in Seq(S) /\ h[i - 1] \in Seq(S)
    BY <1>1, <1>5
  <2>2. h[i] = h[i - 1] \o (before \o texts[i])
    BY <1>1, <1>3 DEF IsJoin
  <2>3. before \o texts[i] \in Seq(S)
    BY <2>1, ConcatProperties
  <2>4. h[i] \in Seq(S)
    BY <2>1, <2>2, <2>3, ConcatProperties
  <2> QED
    BY <2>4
<1>6. \A k \in 0 .. n : k \in Typed
  <2> HIDE DEF Typed
  <2> QED
    BY <1>4, <1>5, Induction
<1> QED
  BY <1>1, <1>3, <1>6 DEF IsJoin

LEMMA TailOfToken ==
  ASSUME NEW token \in Tokens, NEW text \in Texts
  PROVE  /\ <<token>> \o text \in Texts /\ <<token>> \o text # <<>>
         /\ Len(<<token>> \o text) = Len(text) + 1
         /\ Tail(<<token>> \o text) = text
<1>1. <<token>> \in Seq(Tokens) /\ Len(<<token>>) = 1 /\ Len(text) \in Nat
  BY DEF Texts
<1>2. PICK whole \in Seq(Tokens) : whole = <<token>> \o text
  BY <1>1, ConcatProperties DEF Texts
<1>3. /\ Len(whole) = Len(text) + 1
      /\ \A i \in 1 .. Len(text) + 1 :
           whole[i] = IF i <= 1 THEN <<token>>[i] ELSE text[i - 1]
  BY <1>1, <1>2, ConcatProperties DEF Texts
<1>4. whole # <<>>
  BY <1>1, <1>3
<1>5. PICK tail \in Seq(Tokens) : tail = Tail(whole)
  BY <1>4, HeadTailProperties
<1>6. Len(tail) = Len(text) /\ \A i \in 1 .. Len(text) : tail[i] = whole[i + 1]
  BY <1>1, <1>3, <1>4, <1>5, HeadTailProperties
<1>7. \A i \in 1 .. Len(text) : tail[i] = text[i]
  <2>1. \A i \in 1 .. Len(text) :
          i + 1 \in 1 .. Len(text) + 1 /\ ~ (i + 1 <= 1) /\ (i + 1) - 1 = i
    BY <1>1
  <2> QED
    BY <1>3, <1>6, <2>1
<1>8. tail = text
  BY <1>6, <1>7, SeqEqual DEF Texts
<1> QED
  BY <1>2, <1>3, <1>4, <1>5, <1>8 DEF Texts

LEMMA NoPieces ==
  ASSUME NEW separator
  PROVE  Pieces(<<>>, separator) = <<>>
<1>1. PICK text \in Texts : text = <<>> /\ Len(text) = 0
  BY EmptySeq DEF Texts
<1>2. PICK h : IsCut(h, text, separator)
  BY CutExists
<1> QED
  BY <1>1, <1>2 DEF IsCut

(* The text joined so far, without the first separator, is cut into the    *)
(* texts so far.                                                           *)
IsCutInto(text, pieces, separator) ==
  \E rest \in Texts :
    text = <<separator>> \o rest /\ Pieces(rest, separator) = pieces

LEMMA JoinedPieces ==
  ASSUME NEW separator \in Tokens, NEW texts \in Seq(Without(separator) \ {<<>>}),
         texts # <<>>
  PROVE  IsCutInto(Joined(texts, <<separator>>), texts, separator)
<1>1. PICK n \in Nat : n = Len(texts)
  OBVIOUS
<1>2. /\ n # 0
      /\ \A i \in 1 .. n : texts[i] \in Without(separator) /\ texts[i] # <<>>
      /\ \A i \in 1 .. n : texts[i] \in Texts
  BY <1>1, WithoutFacts, EmptySeq
<1>3. texts \in Seq(Texts) /\ <<separator>> \in Texts
  <2>1. Without(separator) \ {<<>>} \subseteq Texts
    BY WithoutFacts
  <2> QED
    BY <2>1, SeqMonotonic DEF Texts
<1>4. PICK h : IsJoin(h, texts, <<separator>>)
  BY <1>3, JoinExists
<1>5. /\ h[0] = <<>> /\ h[n] = Joined(texts, <<separator>>)
      /\ \A i \in 1 .. n : h[i] = h[i - 1] \o (<<separator>> \o texts[i])
  BY <1>1, <1>4 DEF IsJoin
<1> DEFINE Cut == {k \in 0 .. n :
             k # 0 => IsCutInto(h[k], SubSeq(texts, 1, k), separator)}
<1>6. ASSUME NEW i \in 1 .. n, i - 1 \in Cut
      PROVE  i \in Cut
  <2>1. PICK part \in Without(separator) : part = texts[i] /\ part # <<>>
    BY <1>2
  <2>2. part \in Texts
    BY WithoutFacts
  <2>3. h[i] = h[i - 1] \o (<<separator>> \o part)
    BY <1>5, <2>1
  <2>4. CASE i = 1
    <3>1. h[i] = <<separator>> \o part
      <4>1. i - 1 = 0
        BY <2>4
      <4>2. h[i] = <<>> \o (<<separator>> \o part)
        BY <1>5, <2>3, <4>1
      <4>3. <<separator>> \o part \in Texts
        BY <2>2, TailOfToken
      <4> QED
        BY <4>2, <4>3, ConcatEmptySeq DEF Texts
    <3>2. Pieces(part, separator) = <<part>>
      <4>1. PICK none \in Texts : none = <<>>
        BY EmptySeq DEF Texts
      <4>2. Pieces(none \o part, separator) = Append(Pieces(none, separator), part)
        BY <2>1, <4>1, PieceAtEnd
      <4>3. none \o part = part
        BY <2>2, <4>1, ConcatEmptySeq DEF Texts
      <4>4. Append(<<>>, part) = <<part>>
        OBVIOUS
      <4> QED
        BY <4>1, <4>2, <4>3, <4>4, NoPieces
    <3>3. SubSeq(texts, 1, i) = <<part>>
      <4>1. 1 \in 1 .. Len(texts) /\ <<part>> \in Seq(Texts)
        BY <1>1, <1>2, <2>2
      <4>2. SubSeq(texts, 1, 1) = <<texts[1]>> \o SubSeq(texts, 2, 1)
        BY <1>3, <4>1, SubSeqRecursiveFirst
      <4>3. SubSeq(texts, 2, 1) = <<>>
        BY SubSeqEmpty
      <4> QED
        BY <2>1, <2>4, <4>1, <4>2, <4>3, ConcatEmptySeq
    <3> QED
      <4>1. IsCutInto(h[i], SubSeq(texts, 1, i), separator)
        BY <2>2, <3>1, <3>2, <3>3 DEF IsCutInto
      <4> QED
        BY <4>1
  <2>5. CASE i # 1
    <3>1. i - 1 # 0 /\ i - 1 \in 1 .. n
      BY <2>5
    <3>2. IsCutInto(h[i - 1], SubSeq(texts, 1, i - 1), separator)
      BY <1>6, <3>1
    <3>3. PICK rest \in Texts :
            /\ h[i - 1] = <<separator>> \o rest
            /\ Pieces(rest, separator) = SubSeq(texts, 1, i - 1)
      BY <3>2 DEF IsCutInto
    <3>4. PICK ended \in Texts :
            /\ ended = rest \o <<separator>>
            /\ ended[Len(ended)] = separator
      <4>1. PICK more \in Texts : more = Append(rest, separator)
        BY AppendProperties DEF Texts
      <4>2. Len(more) = Len(rest) + 1 /\ more[Len(rest) + 1] = separator
        BY <4>1, AppendProperties DEF Texts
      <4>3. more = rest \o <<separator>>
        BY <4>1, AppendIsConcat DEF Texts
      <4> QED
        BY <4>2, <4>3
    <3>5. Pieces(ended, separator) = SubSeq(texts, 1, i - 1)
      BY <3>3, <3>4, SeparatorAtEnd
    <3>6. Pieces(ended \o part, separator)
            = Append(SubSeq(texts, 1, i - 1), part)
      BY <2>1, <3>4, <3>5, PieceAtEnd
    <3>7. Append(SubSeq(texts, 1, i - 1), part) = SubSeq(texts, 1, i)
      <4>1. 1 \in 1 .. Len(texts) /\ i \in 1 .. Len(texts)
        BY <1>1, <1>2
      <4>2. SubSeq(texts, 1, i) = SubSeq(texts, 1, i - 1) \o <<part>>
        BY <1>3, <2>1, <4>1, SubSeqRecursiveSecond
      <4>3. SubSeq(texts, 1, i - 1) \in Seq(Texts)
        BY <3>3, PiecesType
      <4> QED
        BY <2>2, <4>2, <4>3, AppendIsConcat
    <3>8. h[i] = <<separator>> \o (ended \o part)
      <4>1. h[i] = (<<separator>> \o rest) \o (<<separator>> \o part)
        BY <2>3, <3>3
      <4>2. <<separator>> \o part \in Texts
        BY <2>2, TailOfToken
      <4>3. Associate(<<separator>>, rest, <<separator>> \o part)
        BY <1>3, <4>2, TextsAssociate
      <4>4. Associate(rest, <<separator>>, part)
        BY <1>3, <2>2, TextsAssociate
      <4> QED
        BY <3>4, <4>1, <4>3, <4>4 DEF Associate
    <3>9. ended \o part \in Texts
      BY <2>2, ConcatProperties DEF Texts
    <3> QED
      <4>1. IsCutInto(h[i], SubSeq(texts, 1, i), separator)
        BY <3>6, <3>7, <3>8, <3>9 DEF IsCutInto
      <4> QED
        BY <4>1
  <2> QED
    BY <2>4, <2>5
<1>7. \A k \in 0 .. n : k \in Cut
  <2>1. 0 \in Cut
    OBVIOUS
  <2> HIDE DEF Cut
  <2> QED
    BY <1>6, <2>1, Induction
<1>8. SubSeq(texts, 1, n) = texts
  BY <1>1, SubSeqFull
<1>9. IsCutInto(h[n], SubSeq(texts, 1, n), separator)
  <2>1. n \in 0 .. n
    OBVIOUS
  <2> QED
    BY <1>2, <1>7, <2>1
<1> QED
  BY <1>5, <1>8, <1>9

(* A path, or a query, is taken apart into what it was put together from.  *)
LEMMA PiecesOfJoined ==
  ASSUME NEW separator \in Tokens, NEW texts \in Seq(Without(separator) \ {<<>>}),
         texts # <<>>
  PROVE  /\ Tail(Joined(texts, <<separator>>)) \in Texts
         /\ Joined(texts, <<separator>>)
              = <<separator>> \o Tail(Joined(texts, <<separator>>))
         /\ Pieces(Tail(Joined(texts, <<separator>>)), separator) = texts
<1>1. PICK rest \in Texts :
        /\ Joined(texts, <<separator>>) = <<separator>> \o rest
        /\ Pieces(rest, separator) = texts
  BY JoinedPieces DEF IsCutInto
<1> QED
  BY <1>1, TailOfToken

-----------------------------------------------------------------------------
(* The parameters of a query, each once.                                   *)

LEMMA SetToSeqFacts ==
  ASSUME NEW S, IsFiniteSet(S)
  PROVE  SetToSeq(S) \in Seq(S) /\ ToSet(SetToSeq(S)) = S
<1>1. PICK n \in Nat : n = Cardinality(S) /\ ExistsBijection(1 .. n, S)
  BY FS_CardinalityType
<1>2. PICK f : f = SetToSeq(S)
  OBVIOUS
<1>3. f = CHOOSE g \in [1 .. n -> S] : IsInjective(g)
  BY <1>1, <1>2 DEF SetToSeq
<1>4. \E g \in [1 .. n -> S] : IsInjective(g)
  BY <1>1 DEF ExistsBijection, Bijection, Injection
<1>5. f \in [1 .. n -> S] /\ f \in Injection(1 .. n, S)
  BY <1>3, <1>4 DEF Injection
<1>6. Cardinality(1 .. n) = n /\ IsFiniteSet(1 .. n)
  BY FS_Interval
<1>7. f \in Surjection(1 .. n, S)
  BY <1>1, <1>5, <1>6, FS_Injection
<1>8. {f[i] : i \in 1 .. n} = S
  BY <1>5, <1>7 DEF Surjection
<1>9. DOMAIN f = 1 .. n /\ f \in Seq(S)
  BY <1>5
<1> QED
  BY <1>2, <1>8, <1>9 DEF ToSet

ParameterTexts(query) ==
  {entry[1] \o <<"=">> \o entry[2] : entry \in Entries(query)}

LEMMA ParametersFacts ==
  ASSUME NEW b \in Builders
  PROVE  /\ Parameters(b) \in Seq(ParameterTexts(b.query))
         /\ ToSet(Parameters(b)) = ParameterTexts(b.query)
         /\ Named(b) # {} => Parameters(b) # <<>>
<1>1. PICK query \in Queries : query = b.query
  BY DEF Builders
<1>2. PICK all : all = ParameterTexts(query)
  OBVIOUS
<1>3. \A n \in Names : \A v \in query[n] : n \o <<"=">> \o v \in all
  <2> TAKE n \in Names
  <2> TAKE v \in query[n]
  <2>1. PICK entry \in Entries(query) : entry[1] = n /\ entry[2] = v
    <3>1. v \in Texts
      BY DEF Queries
    <3>2. <<n, v>> \in Entries(query)
      BY <3>1 DEF Entries
    <3> QED
      BY <3>2
  <2>2. entry[1] \o <<"=">> \o entry[2] \in all
    BY <1>2 DEF ParameterTexts
  <2> QED
    BY <2>1, <2>2
<1>4. \A text \in all : \E n \in Names : \E v \in query[n] :
        text = n \o <<"=">> \o v
  <2> TAKE text \in all
  <2>1. PICK entry \in Entries(query) : text = entry[1] \o <<"=">> \o entry[2]
    BY <1>2 DEF ParameterTexts
  <2>2. entry[1] \in Names /\ entry[2] \in query[entry[1]]
    BY DEF Entries
  <2> QED
    BY <2>1, <2>2
<1>5. UNION {{n \o <<"=">> \o v : v \in b.query[n]} : n \in Names} = all
  <2>1. \A n \in Names : \A v \in b.query[n] : n \o <<"=">> \o v \in all
    BY <1>1, <1>3
  <2>2. \A text \in all : \E n \in Names : \E v \in b.query[n] :
          text = n \o <<"=">> \o v
    BY <1>1, <1>4
  <2>3. UNION {{n \o <<"=">> \o v : v \in b.query[n]} : n \in Names} \subseteq all
    <3> SUFFICES ASSUME NEW text \in
                   UNION {{n \o <<"=">> \o v : v \in b.query[n]} : n \in Names}
                 PROVE  text \in all
      OBVIOUS
    <3>1. PICK n \in Names : text \in {n \o <<"=">> \o v : v \in b.query[n]}
      OBVIOUS
    <3>2. PICK v \in b.query[n] : text = n \o <<"=">> \o v
      BY <3>1
    <3> QED
      BY <2>1, <3>2
  <2>4. all \subseteq UNION {{n \o <<"=">> \o v : v \in b.query[n]} : n \in Names}
    <3>1. PICK F : F = [n \in Names |-> {n \o <<"=">> \o v : v \in b.query[n]}]
      OBVIOUS
    <3>2. ASSUME NEW text \in all
          PROVE  \E n \in Names : text \in F[n]
      <4>1. PICK n \in Names : \E v \in b.query[n] : text = n \o <<"=">> \o v
        BY <2>2
      <4>2. text \in F[n]
        BY <3>1, <4>1
      <4> QED
        BY <4>2
    <3>3. all \subseteq UNION {F[n] : n \in Names}
      BY <3>2
    <3> QED
      BY <3>1, <3>3
  <2> QED
    BY <2>3, <2>4
<1>6. IsFiniteSet(all)
  <2>1. PICK f : f = [entry \in Entries(query) |-> entry[1] \o <<"=">> \o entry[2]]
    OBVIOUS
  <2>2. f \in Surjection(Entries(query), all)
    BY <1>2, <2>1 DEF ParameterTexts, Surjection
  <2>3. IsFiniteSet(Entries(query))
    BY DEF Queries
  <2> QED
    BY <2>2, <2>3, FS_Surjection
<1>7. Parameters(b) = SetToSeq(all)
  BY <1>5 DEF Parameters
<1>8. Parameters(b) \in Seq(all) /\ ToSet(Parameters(b)) = all
  BY <1>6, <1>7, SetToSeqFacts
<1>9. ASSUME Named(b) # {}
      PROVE  Parameters(b) # <<>>
  <2>1. PICK n \in Names : query[n] # {}
    BY <1>1, <1>9 DEF Named
  <2>2. all # {}
    BY <1>3, <2>1
  <2>3. ToSet(<<>>) = {}
    BY DEF ToSet
  <2> QED
    BY <1>8, <2>2, <2>3
<1> QED
  BY <1>1, <1>2, <1>8, <1>9

LEMMA ToSetFacts ==
  ASSUME NEW S, NEW seq \in Seq(S), NEW D, ToSet(seq) \cap D = {}
  PROVE  seq \in Seq(S \ D)
<1>1. PICK n \in Nat : n = Len(seq) /\ DOMAIN seq = 1 .. n /\ seq \in [1 .. n -> S]
  BY LenProperties
<1>2. \A i \in 1 .. n : seq[i] \in ToSet(seq)
  BY <1>1 DEF ToSet
<1>3. \A i \in 1 .. n : seq[i] \in S \ D
  BY <1>1, <1>2
<1>4. seq \in [1 .. n -> S \ D]
  BY <1>1, <1>3
<1> QED
  BY <1>1, <1>4

-----------------------------------------------------------------------------
(* The parts of the text of a Builder that can be taken apart again.       *)

Plain == Tokens \ {":", "/", "?", "#"}

Start(b) == b.scheme \o <<":", "/", "/">>

MeantPort(b) == IF b.port = -1 THEN DefaultPort(b.scheme) ELSE b.port

HostPort(b) == (b.host \o <<":">>) \o Digits(MeantPort(b))

PathText(b) == Joined(b.segments, <<"/">>)

QueryPart(b) == IF Named(b) = {} THEN <<>> ELSE <<"?">> \o QueryText(b)

FragmentPart(b) == IF b.fragment = <<>> THEN <<>> ELSE <<"#">> \o b.fragment

LEMMA StartType ==
  ASSUME NEW b \in Builders, Readable(b)
  PROVE  /\ b.scheme \in {<<"http">>, <<"https">>}
         /\ Start(b) \in Seq(Tokens \ {"?", "#"}) /\ Len(Start(b)) = 4
<1>1. PICK scheme \in {<<"http">>, <<"https">>} : scheme = b.scheme
  BY DEF Builders, Readable
<1>2. scheme \in Seq(Tokens \ {"?", "#"}) /\ Len(scheme) = 1
  <2>1. {"http", "https"} \subseteq Tokens \ {"?", "#"}
    BY DEF Tokens
  <2>2. CASE scheme = <<"http">>
    BY <2>1, <2>2
  <2>3. CASE scheme = <<"https">>
    BY <2>1, <2>3
  <2> QED
    BY <2>2, <2>3
<1>3. PICK marks \in Seq(Tokens \ {"?", "#"}) :
        marks = <<":", "/", "/">> /\ Len(marks) = 3
  <2>1. ":" \in Tokens \ {"?", "#"} /\ "/" \in Tokens \ {"?", "#"}
    BY DEF Tokens
  <2>2. /\ <<":", "/", "/">> \in Seq(Tokens \ {"?", "#"})
        /\ Len(<<":", "/", "/">>) = 3
    BY <2>1
  <2> QED
    BY <2>2
<1> QED
  BY <1>1, <1>2, <1>3, ConcatProperties DEF Start

LEMMA MeantPortType ==
  ASSUME NEW b \in Builders, Readable(b)
  PROVE  MeantPort(b) \in Ports \cup {0}
<1>1. PICK port \in PortNumbers : port = b.port
  BY DEF Builders
<1>2. DefaultPort(b.scheme) \in {80, 443}
  <2>1. b.scheme \in {<<"http">>, <<"https">>}
    BY StartType
  <2> QED
    BY <2>1 DEF DefaultPort
<1>3. {80, 443} \subseteq Ports
  BY UrlAssumption
<1> QED
  BY <1>1, <1>2, <1>3 DEF MeantPort, PortNumbers

LEMMA DigitsType ==
  ASSUME NEW n \in Ports \cup {0}
  PROVE  Digits(n) \in Seq(Plain) /\ Len(Digits(n)) = 1
<1>1. PICK token \in Plain : token = ToString(n)
  BY DigitsAssumption DEF Plain, Tokens
<1>2. Digits(n) = <<token>>
  BY <1>1 DEF Digits
<1> QED
  BY <1>2

LEMMA HostPortType ==
  ASSUME NEW b \in Builders, Readable(b)
  PROVE  /\ b.host \in Seq(Plain) /\ b.host # <<>>
         /\ HostPort(b) \in Seq(Tokens \ {"/", "?", "#"})
         /\ Len(HostPort(b)) = Len(b.host) + 2
<1>1. PICK host \in Texts : host = b.host /\ host # <<>>
  BY DEF Builders, Readable
<1>2. ToSet(host) \cap {":", "/", "?", "#"} = {}
  BY <1>1 DEF Readable
<1>3. host \in Seq(Plain)
  BY <1>2, ToSetFacts DEF Texts, Plain
<1>4. PICK digits \in Seq(Plain) :
        digits = Digits(MeantPort(b)) /\ Len(digits) = 1
  BY MeantPortType, DigitsType
<1> DEFINE S == Tokens \ {"/", "?", "#"}
<1>5. /\ host \in Seq(S) /\ digits \in Seq(S)
      /\ <<":">> \in Seq(S) /\ Len(<<":">>) = 1
  <2>1. Plain \subseteq S
    BY DEF Plain
  <2>2. ":" \in S
    BY DEF Tokens
  <2> HIDE DEF S
  <2> QED
    BY <1>3, <1>4, <2>1, <2>2, SeqMonotonic
<1>6. host \o <<":">> \in Seq(S) /\ Len(host \o <<":">>) = Len(host) + 1
  BY <1>5, ConcatProperties
<1>7. /\ (host \o <<":">>) \o digits \in Seq(S)
      /\ Len((host \o <<":">>) \o digits) = Len(host) + 1 + 1
  <2>1. PICK front \in Seq(S) :
          front = host \o <<":">> /\ Len(front) = Len(host) + 1
    BY <1>6
  <2>2. PICK all \in Seq(S) :
          all = front \o digits /\ Len(all) = Len(front) + Len(digits)
    <3>1. /\ front \o digits \in Seq(S)
          /\ Len(front \o digits) = Len(front) + Len(digits)
      BY <1>5, ConcatProperties
    <3> QED
      BY <3>1
  <2>3. Len(all) = Len(host) + 1 + 1
    BY <1>4, <2>1, <2>2
  <2> QED
    BY <2>1, <2>2, <2>3
<1>8. Len(host) \in Nat
  BY <1>3
<1> QED
  BY <1>1, <1>3, <1>4, <1>7, <1>8 DEF HostPort

LEMMA PathTextType ==
  ASSUME NEW b \in Builders, Readable(b)
  PROVE  /\ b.segments \in Seq(Seq(Plain) \ {<<>>}) /\ b.segments # <<>>
         /\ PathText(b) \in Seq(Tokens \ {":", "?", "#"})
         /\ Tail(PathText(b)) \in Texts
         /\ PathText(b) = <<"/">> \o Tail(PathText(b))
         /\ Pieces(Tail(PathText(b)), "/") = b.segments
<1>1. PICK segments \in Seq(Normal) : segments = b.segments /\ segments # <<>>
  BY DEF Builders, Readable
<1>2. PICK n \in Nat : /\ n = Len(segments) /\ DOMAIN segments = 1 .. n
                       /\ segments \in [1 .. n -> Normal]
  BY LenProperties
<1>3. ASSUME NEW i \in 1 .. n
      PROVE  segments[i] \in Seq(Plain) \ {<<>>}
  <2>1. PICK segment \in Normal : segment = segments[i]
    BY <1>2
  <2>2. segment \in Texts /\ segment # <<>>
    BY DEF Normal
  <2>3. ToSet(segment) \cap {":", "/", "?", "#"} = {}
    <3>1. segment \in ToSet(b.segments)
      BY <1>1, <1>2, <2>1 DEF ToSet
    <3> QED
      BY <3>1 DEF Readable
  <2>4. segment \in Seq(Plain)
    BY <2>2, <2>3, ToSetFacts DEF Texts, Plain
  <2> QED
    BY <2>1, <2>2, <2>4
<1>4. segments \in Seq(Seq(Plain) \ {<<>>})
  <2>1. segments \in [1 .. n -> Seq(Plain) \ {<<>>}]
    BY <1>2, <1>3
  <2> QED
    BY <2>1
<1> DEFINE S == Tokens \ {":", "?", "#"}
<1>5. segments \in Seq(Seq(S)) /\ <<"/">> \in Seq(S) /\ S \in SUBSET Tokens
  <2>1. Plain \subseteq S
    BY DEF Plain
  <2>2. Seq(Plain) \ {<<>>} \subseteq Seq(S)
    BY <2>1, SeqMonotonic
  <2>3. "/" \in S
    BY DEF Tokens
  <2> QED
    BY <1>4, <2>2, <2>3, SeqMonotonic
<1>6. PathText(b) \in Seq(S)
  <2> HIDE DEF S
  <2> QED
    BY <1>1, <1>5, JoinedType DEF PathText
<1>7. segments \in Seq(Without("/") \ {<<>>}) /\ "/" \in Tokens
  <2>1. Plain \subseteq Tokens \ {"/"}
    BY DEF Plain
  <2>2. Seq(Plain) \ {<<>>} \subseteq Without("/") \ {<<>>}
    BY <2>1, SeqMonotonic DEF Without
  <2>3. "/" \in Tokens
    BY DEF Tokens
  <2> QED
    BY <1>4, <2>2, <2>3, SeqMonotonic
<1> QED
  BY <1>1, <1>4, <1>6, <1>7, PiecesOfJoined DEF PathText

LEMMA EntryFacts ==
  ASSUME NEW b \in Builders, Readable(b), NEW entry \in Entries(b.query)
  PROVE  /\ entry[1] \in Names /\ entry[2] \in b.query[entry[1]]
         /\ entry[1] \in Seq(Tokens \ {"=", "&", "#"}) /\ entry[1] # <<>>
         /\ entry[2] \in Seq(Tokens \ {"&", "#"})
         /\ entry[1] \o <<"=">> \o entry[2]
              \in Seq(Tokens \ {"&", "#"}) \ {<<>>}
<1>1. PICK query \in Queries : query = b.query
  BY DEF Builders
<1>2. PICK name \in Names, value \in Texts :
        name = entry[1] /\ value = entry[2] /\ value \in query[name]
  BY <1>1 DEF Entries
<1>3. name \in Texts /\ name # <<>>
  BY <1>1, <1>2, CallTexts DEF Queries
<1>4. name \in Named(b)
  BY <1>1, <1>2 DEF Named
<1>5. /\ ToSet(name) \cap {"=", "&", "#"} = {}
      /\ ToSet(value) \cap {"&", "#"} = {}
  BY <1>1, <1>2, <1>4 DEF Readable
<1>6. /\ name \in Seq(Tokens \ {"=", "&", "#"})
      /\ value \in Seq(Tokens \ {"&", "#"})
  BY <1>3, <1>5, ToSetFacts DEF Texts
<1> DEFINE S == Tokens \ {"&", "#"}
<1>7. name \in Seq(S) /\ value \in Seq(S) /\ <<"=">> \in Seq(S)
  <2>1. Tokens \ {"=", "&", "#"} \subseteq S /\ "=" \in S
    BY DEF Tokens
  <2> QED
    BY <1>6, <2>1, SeqMonotonic
<1>8. /\ name \o <<"=">> \in Seq(S) /\ name \o <<"=">> # <<>>
      /\ (name \o <<"=">>) \o value \in Seq(S)
      /\ (name \o <<"=">>) \o value # <<>>
  <2> HIDE DEF S
  <2>1. Len(<<"=">>) = 1 /\ Len(<<>>) = 0
    OBVIOUS
  <2>2. /\ name \o <<"=">> \in Seq(S)
        /\ Len(name \o <<"=">>) = Len(name) + 1
    BY <1>7, <2>1, ConcatProperties
  <2>3. /\ (name \o <<"=">>) \o value \in Seq(S)
        /\ Len((name \o <<"=">>) \o value) = Len(name) + 1 + Len(value)
    BY <1>7, <2>2, ConcatProperties
  <2>4. Len(name) \in Nat /\ Len(value) \in Nat
    BY <1>7
  <2> QED
    BY <2>1, <2>2, <2>3, <2>4
<1> QED
  BY <1>1, <1>2, <1>3, <1>6, <1>8

LEMMA QueryTextType ==
  ASSUME NEW b \in Builders, Readable(b), Named(b) # {}
  PROVE  /\ QueryText(b) \in Seq(Tokens \ {"#"})
         /\ Pieces(QueryText(b), "&") = Parameters(b)
<1>1. PICK parameters : parameters = Parameters(b) /\ parameters # <<>>
  BY ParametersFacts
<1>2. parameters \in Seq(ParameterTexts(b.query))
  BY <1>1, ParametersFacts
<1>3. ParameterTexts(b.query) \subseteq Seq(Tokens \ {"&", "#"}) \ {<<>>}
  BY EntryFacts DEF ParameterTexts
<1>4. parameters \in Seq(Without("&") \ {<<>>}) /\ "&" \in Tokens
  <2>1. Tokens \ {"&", "#"} \subseteq Tokens \ {"&"}
    OBVIOUS
  <2>2. ParameterTexts(b.query) \subseteq Without("&") \ {<<>>}
    BY <1>3, <2>1, SeqMonotonic DEF Without
  <2>3. "&" \in Tokens
    BY DEF Tokens
  <2> QED
    BY <1>2, <2>2, <2>3, SeqMonotonic
<1> DEFINE S == Tokens \ {"#"}
<1>5. parameters \in Seq(Seq(S)) /\ <<"&">> \in Seq(S) /\ S \in SUBSET Tokens
  <2>1. Tokens \ {"&", "#"} \subseteq S
    OBVIOUS
  <2>2. ParameterTexts(b.query) \subseteq Seq(S)
    BY <1>3, <2>1, SeqMonotonic
  <2>3. "&" \in S
    BY DEF Tokens
  <2> QED
    BY <1>2, <2>2, <2>3, SeqMonotonic
<1>6. Joined(parameters, <<"&">>) \in Seq(S)
  <2> HIDE DEF S
  <2> QED
    BY <1>5, JoinedType
<1>7. /\ Tail(Joined(parameters, <<"&">>)) \in Texts
      /\ Joined(parameters, <<"&">>)
           = <<"&">> \o Tail(Joined(parameters, <<"&">>))
      /\ Pieces(Tail(Joined(parameters, <<"&">>)), "&") = parameters
  BY <1>1, <1>4, PiecesOfJoined
<1>8. Joined(parameters, <<"&">>) # <<>>
  BY <1>4, <1>7, TailOfToken
<1>9. Tail(Joined(parameters, <<"&">>)) \in Seq(S)
  BY <1>6, <1>8, HeadTailProperties
<1> QED
  BY <1>1, <1>7, <1>9 DEF QueryText

LEMMA QueryPartType ==
  ASSUME NEW b \in Builders, Readable(b)
  PROVE  QueryPart(b) \in Seq(Tokens \ {"#"})
<1> DEFINE S == Tokens \ {"#"}
<1>1. <<"?">> \in Seq(S) /\ <<>> \in Seq(S)
  <2>1. "?" \in S
    BY DEF Tokens
  <2> QED
    BY <2>1
<1>2. ASSUME Named(b) # {}
      PROVE  <<"?">> \o QueryText(b) \in Seq(S)
  BY <1>1, <1>2, QueryTextType, ConcatProperties
<1> QED
  BY <1>1, <1>2 DEF QueryPart

LEMMA FragmentPartType ==
  ASSUME NEW b \in Builders, Readable(b)
  PROVE  /\ FragmentPart(b) \in Texts /\ b.fragment \in Texts
         /\ b.fragment = <<>> => FragmentPart(b) = <<>>
         /\ b.fragment # <<>> => FragmentPart(b) = <<"#">> \o b.fragment
         /\ Named(b) = {} => FragmentPart(b) \in Without("?")
<1>1. PICK fragment \in Texts : fragment = b.fragment
  BY DEF Builders
<1>2. <<>> \in Texts /\ <<>> \in Without("?")
  BY EmptySeq DEF Texts, Without
<1>3. "#" \in Tokens /\ "#" \in Tokens \ {"?"}
  BY DEF Tokens
<1>4. <<"#">> \o fragment \in Texts
  BY <1>3, TailOfToken
<1>5. ASSUME Named(b) = {}
      PROVE  <<"#">> \o fragment \in Without("?")
  <2>1. ToSet(fragment) \cap {"?"} = {}
    BY <1>1, <1>5 DEF Readable, Contains, ToSet
  <2>2. fragment \in Seq(Tokens \ {"?"})
    BY <2>1, ToSetFacts DEF Texts
  <2>3. <<"#">> \in Seq(Tokens \ {"?"})
    BY <1>3
  <2> QED
    BY <2>2, <2>3, ConcatProperties DEF Without
<1> QED
  BY <1>1, <1>2, <1>4, <1>5 DEF FragmentPart

-----------------------------------------------------------------------------
(* Where the parts of the text of a Builder are found.                     *)

ToPath(b) == (Start(b) \o HostPort(b)) \o PathText(b)

ToQuery(b) == ToPath(b) \o QueryPart(b)

LEMMA TextOfParts ==
  ASSUME NEW b \in Builders, Readable(b)
  PROVE  ToText(b) = ToQuery(b) \o FragmentPart(b)
<1>1. PICK start \in Texts : start = Start(b)
  BY StartType, SeqMonotonic DEF Texts
<1>2. PICK host \in Texts, colon \in Texts :
        host = b.host /\ colon = <<":">>
  <2>1. <<":">> \in Texts
    <3>1. ":" \in Tokens
      BY DEF Tokens
    <3> QED
      BY <3>1 DEF Texts
  <2>2. b.host \in Texts
    BY DEF Builders
  <2> QED
    BY <2>1, <2>2
<1>3. PICK digits \in Texts : digits = Digits(MeantPort(b))
  <2>1. Plain \subseteq Tokens
    BY DEF Plain
  <2>2. Digits(MeantPort(b)) \in Seq(Plain)
    BY MeantPortType, DigitsType
  <2> QED
    BY <2>1, <2>2, SeqMonotonic DEF Texts
<1>4. ((start \o host) \o colon) \o digits = start \o ((host \o colon) \o digits)
  <2>1. PICK name \in Texts : name = host \o colon
    <3>1. host \o colon \in Texts
      BY TextsConcat
    <3> QED
      BY <3>1
  <2>2. Associate(start, host, colon)
    BY TextsAssociate
  <2>3. Associate(start, name, digits)
    BY TextsAssociate
  <2> QED
    BY <2>1, <2>2, <2>3 DEF Associate
<1>5. ~ Contains(b.host, ":")
  <2>1. Plain \subseteq Tokens \ {":"}
    BY DEF Plain
  <2> QED
    BY <2>1, HostPortType, SeqMonotonic, FirstOfNone DEF Without
<1> QED
  BY <1>1, <1>2, <1>3, <1>4, <1>5
     DEF ToText, ToQuery, ToPath, Start, HostPort, PathText, QueryPart,
         FragmentPart, MeantPort

LEMMA ToPathType ==
  ASSUME NEW b \in Builders, Readable(b)
  PROVE  /\ Start(b) \in Texts /\ HostPort(b) \in Texts /\ PathText(b) \in Texts
         /\ ToPath(b) \in Texts /\ QueryPart(b) \in Texts
         /\ FragmentPart(b) \in Texts
         /\ ToPath(b) \in Without("?") /\ ToQuery(b) \in Without("#")
<1> DEFINE S == Tokens \ {"?", "#"}
<1>1. Start(b) \in Seq(S) /\ HostPort(b) \in Seq(S) /\ PathText(b) \in Seq(S)
  <2>1. /\ Tokens \ {"/", "?", "#"} \subseteq S
        /\ Tokens \ {":", "?", "#"} \subseteq S
    OBVIOUS
  <2> QED
    BY <2>1, StartType, HostPortType, PathTextType, SeqMonotonic
<1>2. ToPath(b) \in Seq(S)
  <2> HIDE DEF S
  <2> QED
    BY <1>1, ConcatProperties DEF ToPath
<1>3. /\ S \subseteq Tokens /\ S \subseteq Tokens \ {"?"}
      /\ S \subseteq Tokens \ {"#"} /\ Tokens \ {"#"} \subseteq Tokens
  OBVIOUS
<1>4. ToPath(b) \in Seq(Tokens \ {"#"}) /\ QueryPart(b) \in Seq(Tokens \ {"#"})
  BY <1>2, <1>3, QueryPartType, SeqMonotonic
<1>5. ToQuery(b) \in Seq(Tokens \ {"#"})
  BY <1>4, ConcatProperties DEF ToQuery
<1> QED
  BY <1>1, <1>2, <1>3, <1>4, <1>5, FragmentPartType, SeqMonotonic
     DEF Texts, Without

LEMMA TextType ==
  ASSUME NEW b \in Builders, Readable(b)
  PROVE  ToText(b) \in Texts
<1>1. ToQuery(b) \in Texts /\ FragmentPart(b) \in Texts
  BY ToPathType, WithoutFacts
<1> QED
  BY <1>1, TextOfParts, TextsConcat

LEMMA QueryFound ==
  ASSUME NEW b \in Builders, Readable(b)
  PROVE  /\ Named(b) = {} => /\ First(ToText(b), "?") = 0
                             /\ ~ Contains(ToText(b), "?")
         /\ Named(b) # {} => /\ First(ToText(b), "?") = Len(ToPath(b)) + 1
                             /\ Contains(ToText(b), "?")
<1>1. PICK front \in Without("?"), rest \in Texts :
        front = ToPath(b) /\ rest = FragmentPart(b) /\ front \in Texts
  BY ToPathType
<1>2. ToText(b) = (front \o QueryPart(b)) \o rest
  BY <1>1, TextOfParts DEF ToQuery
<1>3. CASE Named(b) = {}
  <2>1. QueryPart(b) = <<>> /\ rest \in Without("?")
    BY <1>1, <1>3, FragmentPartType DEF QueryPart
  <2>2. front \o <<>> = front
    BY <1>1, ConcatEmptySeq DEF Texts
  <2>3. ToText(b) \in Without("?")
    BY <1>1, <1>2, <2>1, <2>2, ConcatProperties DEF Without
  <2> QED
    BY <1>3, <2>3, FirstOfNone
<1>4. CASE Named(b) # {}
  <2>1. PICK query \in Texts : query = QueryText(b)
    BY <1>4, QueryTextType, SeqMonotonic DEF Texts
  <2>2. QueryPart(b) = <<"?">> \o query /\ "?" \in Tokens
    BY <1>4, <2>1 DEF QueryPart, Tokens
  <2>3. PICK mark \in Texts : mark = <<"?">>
    <3>1. <<"?">> \in Texts
      BY <2>2 DEF Texts
    <3> QED
      BY <3>1
  <2>4. query \o rest \in Texts
    BY TextsConcat
  <2>5. ToText(b) = front \o (<<"?">> \o (query \o rest))
    <3>1. PICK part \in Texts : part = mark \o query
      BY TextsConcat
    <3>2. Associate(front, part, rest)
      BY <1>1, TextsAssociate
    <3>3. Associate(mark, query, rest)
      BY TextsAssociate
    <3> QED
      BY <1>2, <2>2, <2>3, <3>1, <3>2, <3>3 DEF Associate
  <2> QED
    BY <1>1, <1>4, <2>2, <2>4, <2>5, FirstOf
<1> QED
  BY <1>3, <1>4

LEMMA FragmentFound ==
  ASSUME NEW b \in Builders, Readable(b)
  PROVE  /\ b.fragment = <<>> => /\ First(ToText(b), "#") = 0
                                 /\ ~ Contains(ToText(b), "#")
                                 /\ ToText(b) = ToQuery(b)
         /\ b.fragment # <<>> => /\ First(ToText(b), "#") = Len(ToQuery(b)) + 1
                                 /\ Contains(ToText(b), "#")
<1>1. PICK front \in Without("#") : front = ToQuery(b) /\ front \in Texts
  BY ToPathType, WithoutFacts
<1>2. ToText(b) = front \o FragmentPart(b)
  BY <1>1, TextOfParts
<1>3. CASE b.fragment = <<>>
  <2>1. front \o <<>> = front
    BY <1>1, ConcatEmptySeq DEF Texts
  <2>2. ToText(b) = front
    BY <1>2, <1>3, <2>1, FragmentPartType
  <2> QED
    BY <1>1, <1>3, <2>2, FirstOfNone
<1>4. CASE b.fragment # <<>>
  <2>1. "#" \in Tokens /\ b.fragment \in Texts
    BY FragmentPartType DEF Tokens
  <2>2. ToText(b) = front \o (<<"#">> \o b.fragment)
    BY <1>2, <1>4, FragmentPartType
  <2> QED
    BY <1>1, <1>4, <2>1, <2>2, FirstOf
<1> QED
  BY <1>3, <1>4

LEMMA EndsFound ==
  ASSUME NEW b \in Builders, Readable(b)
  PROVE  /\ HostPathEnd(ToText(b)) = Len(ToPath(b)) + 1
         /\ QueryEnd(ToText(b)) = Len(ToQuery(b)) + 1
<1>1. Len(ToPath(b)) \in Nat /\ Len(ToQuery(b)) \in Nat
  BY ToPathType, WithoutFacts DEF Texts
<1>2. QueryEnd(ToText(b)) = Len(ToQuery(b)) + 1
  BY FragmentFound DEF QueryEnd
<1>3. CASE Named(b) # {}
  <2>1. /\ First(ToText(b), "?") = Len(ToPath(b)) + 1
        /\ First(ToText(b), "?") # 0
    BY <1>1, <1>3, QueryFound
  <2> QED
    BY <1>2, <2>1 DEF HostPathEnd
<1>4. CASE Named(b) = {}
  <2>1. ToQuery(b) = ToPath(b)
    <3>1. QueryPart(b) = <<>>
      BY <1>4 DEF QueryPart
    <3> QED
      BY <3>1, ToPathType, ConcatEmptySeq DEF ToQuery, Texts
  <2>2. First(ToText(b), "?") = 0
    BY <1>4, QueryFound
  <2>3. CASE b.fragment = <<>>
    <3>1. First(ToText(b), "#") = 0 /\ ToText(b) = ToPath(b)
      BY <2>1, <2>3, FragmentFound
    <3> QED
      BY <1>2, <2>2, <3>1 DEF HostPathEnd
  <2>4. CASE b.fragment # <<>>
    <3>1. /\ First(ToText(b), "#") = Len(ToPath(b)) + 1
          /\ First(ToText(b), "#") # 0
      BY <1>1, <2>1, <2>4, FragmentFound
    <3> QED
      BY <1>2, <2>2, <3>1 DEF HostPathEnd
  <2> QED
    BY <2>3, <2>4
<1> QED
  BY <1>2, <1>3, <1>4

LEMMA PathEncoded ==
  ASSUME NEW b \in Builders, Readable(b)
  PROVE  EncodedPath(Build(b)) = PathText(b)
<1>1. PICK start \in Texts, middle \in Without("/"), path \in Texts :
        /\ start = Start(b) /\ middle = HostPort(b) /\ path = PathText(b)
        /\ middle \in Texts
  <2>1. Tokens \ {"/", "?", "#"} \subseteq Tokens \ {"/"}
    OBVIOUS
  <2> QED
    BY <2>1, ToPathType, HostPortType, SeqMonotonic DEF Without
<1>2. PICK rest \in Texts : rest = QueryPart(b) \o FragmentPart(b)
  BY ToPathType, ConcatProperties DEF Texts
<1>3. ToText(b) = ((start \o middle) \o path) \o rest
  <2>1. PICK most \in Texts, query \in Texts, fragment \in Texts :
          most = ToPath(b) /\ query = QueryPart(b) /\ fragment = FragmentPart(b)
    BY ToPathType
  <2>2. ToText(b) = (most \o query) \o fragment
    BY <2>1, TextOfParts DEF ToQuery
  <2>3. Associate(most, query, fragment)
    BY TextsAssociate
  <2> QED
    BY <1>1, <1>2, <2>1, <2>2, <2>3 DEF ToPath, Associate
<1>4. PICK front \in Texts : front = start \o middle
  BY <1>1, ConcatProperties DEF Texts
<1>5. PICK tail \in Texts : tail = Tail(path) /\ path = <<"/">> \o tail
  BY <1>1, PathTextType
<1>6. "/" \in Tokens /\ <<"/">> \in Texts /\ tail \o rest \in Texts
  <2>1. "/" \in Tokens
    BY DEF Tokens
  <2> QED
    BY <2>1, ConcatProperties DEF Texts
<1>7. ToText(b) = front \o (<<"/">> \o (tail \o rest))
  <2>1. Associate(front, path, rest)
    BY TextsAssociate
  <2>2. Associate(<<"/">>, tail, rest)
    BY <1>6, TextsAssociate
  <2> QED
    BY <1>3, <1>4, <1>5, <2>1, <2>2 DEF Associate
<1>8. /\ Len(start) = 4 /\ Len(middle) \in Nat /\ Len(path) \in Nat
      /\ Len(front) = Len(start) + Len(middle)
      /\ Len(ToPath(b)) = Len(front) + Len(path)
      /\ Len(path) >= 1 /\ Len(b.scheme) = 1
  <2>1. Len(path) = Len(tail) + 1 /\ Len(tail) \in Nat
    BY <1>5, <1>6, TailOfToken DEF Texts
  <2>2. Len(b.scheme) = 1
    <3>1. b.scheme \in {<<"http">>, <<"https">>}
      BY StartType
    <3> QED
      BY <3>1
  <2>3. Len(start) = 4
    BY <1>1, StartType
  <2>4. Len(front) = Len(start) + Len(middle)
    BY <1>1, <1>4, ConcatProperties DEF Texts
  <2>5. Len(ToPath(b)) = Len(front) + Len(path)
    BY <1>1, <1>4, ConcatProperties DEF Texts, ToPath
  <2> QED
    BY <1>1, <2>1, <2>2, <2>3, <2>4, <2>5 DEF Texts
<1>9. FirstFrom(ToText(b), "/", Len(start) + 1) = Len(start) + Len(middle) + 1
  <2>1. PICK text : text = ToText(b)
    OBVIOUS
  <2>2. PICK slash \in Tokens : slash = "/"
    BY <1>6
  <2>3. PICK end \in Texts : end = tail \o rest
    BY <1>6
  <2>4. middle \in Without(slash)
    BY <1>1, <2>2
  <2>5. text = (start \o middle) \o (<<slash>> \o end)
    BY <1>4, <1>7, <2>1, <2>2, <2>3
  <2>6. FollowedBy(text, start, middle, slash)
    BY <2>5 DEF FollowedBy
  <2>7. FirstFrom(text, slash, Len(start) + 1) = Len(start) + Len(middle) + 1
    BY <2>4, <2>6, FirstBehind
  <2> QED
    BY <2>1, <2>2, <2>7
<1>10. Len(start) + 1 = Len(b.scheme) + 4
  BY <1>8
<1>11. PathStart(Build(b)) = Len(front) + 1
  BY <1>8, <1>9, <1>10 DEF PathStart, Build
<1>12. SubSeq(ToText(b), Len(front) + 1, Len(front) + Len(path)) = path
  BY <1>3, <1>4, Between
<1>13. HostPathEnd(ToText(b)) = Len(front) + Len(path) + 1
  BY <1>8, EndsFound
<1>14. Substr(ToText(b), Len(front) + 1, Len(front) + Len(path) + 1) = path
  <2>1. PICK m \in Nat, n \in Nat : m = Len(front) /\ n = Len(path) /\ n >= 1
    BY <1>8 DEF Texts
  <2>2. ~ (m + n + 1 < m + 1) /\ (m + n + 1) - 1 = m + n
    BY <2>1
  <2> QED
    BY <1>12, <2>1, <2>2 DEF Substr
<1> QED
  BY <1>1, <1>11, <1>13, <1>14 DEF EncodedPath, Build

LEMMA QueryRead ==
  ASSUME NEW b \in Builders, Readable(b), Named(b) # {}
  PROVE  Substr(ToText(b), First(ToText(b), "?") + 1, QueryEnd(ToText(b)))
           = QueryText(b)
<1>1. PICK front \in Texts, query \in Texts, rest \in Texts, mark \in Texts :
        /\ front = ToPath(b) /\ query = QueryText(b) /\ rest = FragmentPart(b)
        /\ mark = <<"?">>
  <2>1. "?" \in Tokens /\ Tokens \ {"#"} \subseteq Tokens
    BY DEF Tokens
  <2>2. <<"?">> \in Texts
    BY <2>1 DEF Texts
  <2> QED
    BY <2>1, <2>2, ToPathType, QueryTextType, SeqMonotonic DEF Texts
<1>2. ToText(b) = (front \o (mark \o query)) \o rest
  BY <1>1, TextOfParts DEF ToQuery, QueryPart
<1>3. PICK begin \in Texts : begin = front \o mark
  BY ConcatProperties DEF Texts
<1>4. ToText(b) = (begin \o query) \o rest
  <2>1. Associate(front, mark, query)
    BY TextsAssociate
  <2> QED
    BY <1>2, <1>3, <2>1 DEF Associate
<1>5. PICK m \in Nat, n \in Nat : m = Len(begin) /\ n = Len(query)
  BY DEF Texts
<1>6. SubSeq(ToText(b), m + 1, m + n) = query
  <2>1. SubSeq((begin \o query) \o rest, Len(begin) + 1, Len(begin) + Len(query))
          = query
    BY Between
  <2> QED
    BY <1>4, <1>5, <2>1
<1>7. Len(ToPath(b)) + 1 = m /\ Len(ToQuery(b)) = m + n
  <2>1. Len(mark) = 1
    BY <1>1
  <2>2. m = Len(front) + Len(mark)
    BY <1>3, <1>5, ConcatProperties DEF Texts
  <2>3. ToQuery(b) = begin \o query
    <3>1. Associate(front, mark, query)
      BY TextsAssociate
    <3> QED
      BY <1>1, <1>3, <3>1 DEF ToQuery, QueryPart, Associate
  <2>4. Len(begin \o query) = m + n /\ Len(front) \in Nat
    BY <1>5, TextsConcat
  <2> QED
    BY <1>1, <2>1, <2>2, <2>3, <2>4
<1>8. First(ToText(b), "?") + 1 = m + 1 /\ QueryEnd(ToText(b)) = m + n + 1
  BY <1>7, QueryFound, EndsFound
<1>9. ~ (m + n + 1 < m + 1) /\ (m + n + 1) - 1 = m + n
  OBVIOUS
<1> QED
  BY <1>1, <1>6, <1>8, <1>9 DEF Substr

-----------------------------------------------------------------------------
(* What a fold arrives at, given what it can have reached after i          *)
(* elements.                                                               *)

Advances(T, S, n, step) ==
  \A i \in 1 .. n : \A x \in S : x \in T[i - 1] => step[i][x] \in T[i]

LEMMA YieldReaches ==
  ASSUME NEW S, NEW base, NEW n \in Nat, NEW step, NEW value,
         Yields(value, S, base, n, step),
         NEW T, base \in T[0], Advances(T, S, n, step)
  PROVE  value \in T[n]
<1>1. PICK h : IsRun(h, S, base, n, step) /\ value = h[n]
  BY DEF Yields
<1> DEFINE Reached == {k \in 0 .. n : h[k] \in T[k]}
<1>2. 0 \in Reached
  BY <1>1 DEF IsRun
<1>3. ASSUME NEW i \in 1 .. n, i - 1 \in Reached
      PROVE  i \in Reached
  <2>1. h[i - 1] \in S /\ h[i - 1] \in T[i - 1] /\ h[i] = step[i][h[i - 1]]
    BY <1>1, <1>3 DEF IsRun
  <2>2. h[i] \in T[i]
    BY <2>1 DEF Advances
  <2> QED
    BY <2>2
<1>4. \A k \in 0 .. n : k \in Reached
  <2> HIDE DEF Reached
  <2> QED
    BY <1>2, <1>3, Induction
<1>5. n \in Reached
  BY <1>4
<1> QED
  BY <1>1, <1>5

-----------------------------------------------------------------------------
(* A text that is neither trimmed nor too short.                           *)

LEMMA TrimLeftKeeps ==
  ASSUME NEW text \in Texts, text # <<>>, NEW blank, text[1] # blank
  PROVE  TrimLeft(text, blank) = text
<1> DEFINE I == {i \in 1 .. Len(text) : text[i] # blank}
<1>1. PICK n \in Nat : n = Len(text) /\ n >= 1
  BY EmptySeq DEF Texts
<1>2. I \in SUBSET Nat /\ 1 \in I
  BY <1>1
<1>3. Min(I) \in I /\ Min(I) <= 1
  BY <1>2, MinFacts
<1>4. Min(I) = 1
  BY <1>1, <1>3
<1>5. TrimLeft(text, blank) = SubSeq(text, 1, Len(text))
  <2>1. I # {}
    BY <1>2
  <2>2. PICK kept : kept = IF I # {} THEN Min(I) ELSE 0
    OBVIOUS
  <2>3. TrimLeft(text, blank) =
          IF kept = 0 THEN <<>> ELSE SubSeq(text, kept, Len(text))
    BY <2>2 DEF TrimLeft, SelectInSeq
  <2>4. kept = 1
    BY <1>4, <2>1, <2>2
  <2> QED
    BY <2>3, <2>4
<1> QED
  BY <1>5, SubSeqFull DEF Texts

LEMMA TrimRightKeeps ==
  ASSUME NEW text \in Texts, text # <<>>, NEW blank, Last(text) # blank
  PROVE  TrimRight(text, blank) = text
<1>1. PICK n \in Nat : n = Len(text) /\ n >= 1
  BY EmptySeq DEF Texts
<1>2. PICK back \in Texts : back = Reverse(text)
  BY ReverseType
<1>3. back = [i \in 1 .. n |-> text[(n - i) + 1]] /\ Len(back) = n
  BY <1>1, <1>2 DEF Reverse
<1>4. back # <<>> /\ back[1] # blank
  <2>1. (n - 1) + 1 = n /\ 1 \in 1 .. n
    BY <1>1
  <2>2. back[1] = text[n]
    BY <1>3, <2>1
  <2>3. Len(<<>>) = 0
    OBVIOUS
  <2> QED
    BY <1>1, <1>3, <2>2, <2>3 DEF Last
<1>5. TrimLeft(back, blank) = back
  BY <1>4, TrimLeftKeeps
<1>6. Reverse(back) = text
  <2>1. Reverse(back) = [i \in 1 .. n |-> back[(n - i) + 1]]
    BY <1>3 DEF Reverse
  <2>2. ASSUME NEW i \in 1 .. n
        PROVE  back[(n - i) + 1] = text[i]
    <3>1. (n - i) + 1 \in 1 .. n /\ (n - ((n - i) + 1)) + 1 = i
      OBVIOUS
    <3> QED
      BY <1>3, <3>1
  <2>3. text = [i \in 1 .. n |-> text[i]]
    BY <1>1 DEF Texts
  <2> QED
    BY <2>1, <2>2, <2>3
<1> QED
  BY <1>2, <1>5, <1>6 DEF TrimRight

LEMMA TrimmedKeeps ==
  ASSUME NEW text \in Texts, text # <<>>,
         text[1] \notin ToSet(Blanks), Last(text) \notin ToSet(Blanks)
  PROVE  Trimmed(text) = text
<1>1. PICK n \in Nat : n = Len(Blanks) /\ DOMAIN Blanks = 1 .. n
  BY UrlAssumption
<1>2. \A i \in 1 .. n : Blanks[i] # text[1] /\ Blanks[i] # Last(text)
  BY <1>1 DEF ToSet
<1>3. PICK T : T = [i \in 0 .. n |-> {text}]
  OBVIOUS
<1>4. text \in T[0] /\ \A x : x \in T[n] => x = text
  BY <1>3
<1>5. FoldLeft(TrimLeft, text, Blanks) = text
  <2>1. PICK step : step = [i \in 1 .. n |-> [x \in Texts |-> TrimLeft(x, Blanks[i])]]
    OBVIOUS
  <2>2. PICK value : value = FoldLeft(TrimLeft, text, Blanks)
    OBVIOUS
  <2>3. Yields(value, Texts, text, n, step)
    BY <1>1, <2>1, <2>2, TrimLeftFold
  <2>4. Advances(T, Texts, n, step)
    BY <1>2, <1>3, <2>1, TrimLeftKeeps DEF Advances
  <2>5. value \in T[n]
    BY <1>4, <2>3, <2>4, YieldReaches
  <2> QED
    BY <1>4, <2>2, <2>5
<1>6. FoldLeft(TrimRight, text, Blanks) = text
  <2>1. PICK step : step = [i \in 1 .. n |-> [x \in Texts |-> TrimRight(x, Blanks[i])]]
    OBVIOUS
  <2>2. PICK value : value = FoldLeft(TrimRight, text, Blanks)
    OBVIOUS
  <2>3. Yields(value, Texts, text, n, step)
    BY <1>1, <2>1, <2>2, TrimRightFold
  <2>4. Advances(T, Texts, n, step)
    BY <1>2, <1>3, <2>1, TrimRightKeeps DEF Advances
  <2>5. value \in T[n]
    BY <1>4, <2>3, <2>4, YieldReaches
  <2> QED
    BY <1>4, <2>2, <2>5
<1> QED
  BY <1>5, <1>6 DEF Trimmed

LEMMA WidthType ==
  ASSUME NEW token
  PROVE  Width(token) \in Nat /\ Width(token) >= 1
  BY DEF Width

LEMMA WidthFold ==
  ASSUME NEW text \in Texts,
         NEW step, step = [i \in 1 .. Len(text) |->
                            [x \in Nat |-> x + Width(text[i])]]
  PROVE  Yields(FoldLeft(LAMBDA n, c : n + Width(c), 0, text), Nat, 0,
                Len(text), step)
<1>1. PICK last \in Nat : last = Len(text) /\ DOMAIN text = 1 .. last
  BY DEF Texts
<1>2. PICK f :
        f = CHOOSE g : g = [s \in SUBSET DOMAIN text |->
              IF s = {} THEN 0
              ELSE g[s \ {Max(s)}] + Width(text[Max(s)])]
  OBVIOUS
<1>3. FoldLeft(LAMBDA n, c : n + Width(c), 0, text) = f[1 .. last]
  BY <1>1, <1>2 DEF FoldLeft, MapThenFoldSet
<1>4. step \in [1 .. last -> [Nat -> Nat]] /\ 0 \in Nat
  BY <1>1, WidthType
<1>5. PICK g : IsFold(g, Nat, 0, last, step)
  BY <1>4, FoldExists
<1>6. ASSUME NEW s \in SUBSET (1 .. last), s # {}
      PROVE  g[s] = g[s \ {Max(s)}] + Width(text[Max(s)])
  <2>1. Max(s) \in 1 .. last /\ g[s \ {Max(s)}] \in Nat
    BY <1>5, <1>6, MaxFacts DEF IsFold
  <2> QED
    BY <1>1, <1>5, <1>6, <2>1 DEF IsFold
<1>7. g = [s \in SUBSET DOMAIN text |->
             IF s = {} THEN 0
             ELSE g[s \ {Max(s)}] + Width(text[Max(s)])]
  BY <1>1, <1>5, <1>6 DEF IsFold
<1>8. f = [s \in SUBSET DOMAIN text |->
             IF s = {} THEN 0
             ELSE f[s \ {Max(s)}] + Width(text[Max(s)])]
  BY <1>2, <1>7
<1>9. Follows(f, Nat, last, step)
  <2> SUFFICES ASSUME NEW i \in 1 .. last, f[(1 .. i) \ {i}] \in Nat
               PROVE  f[1 .. i] = step[i][f[(1 .. i) \ {i}]]
    BY DEF Follows
  <2>1. 1 .. i # {} /\ Max(1 .. i) = i /\ 1 .. i \in SUBSET (1 .. last)
    BY MaxOfFirst
  <2>2. f[1 .. i] = f[(1 .. i) \ {i}] + Width(text[i])
    BY <1>1, <1>8, <2>1
  <2> QED
    BY <1>1, <2>2
<1>10. f[{}] = 0
  BY <1>8
<1>11. Yields(f[1 .. last], Nat, 0, last, step)
  BY <1>4, <1>9, <1>10, FoldYields
<1> QED
  BY <1>1, <1>3, <1>11

LEMMA LongEnough ==
  ASSUME NEW text \in Texts, text[1] \in {"http", "https"}, Len(text) >= 5
  PROVE  ~ TooShort(text)
<1>1. PICK last \in Nat : last = Len(text) /\ last >= 5
  BY DEF Texts
<1>2. PICK step : step = [i \in 1 .. last |-> [x \in Nat |-> x + Width(text[i])]]
  OBVIOUS
<1>3. PICK value : value = FoldLeft(LAMBDA n, c : n + Width(c), 0, text)
  OBVIOUS
<1>4. Yields(value, Nat, 0, last, step)
  BY <1>1, <1>2, <1>3, WidthFold
<1>5. PICK T : T = [i \in 0 .. last |-> {x \in Nat : i = 0 \/ x >= i + 3}]
  OBVIOUS
<1>6. 0 \in T[0]
  BY <1>5
<1>7. Advances(T, Nat, last, step)
  <2> SUFFICES ASSUME NEW i \in 1 .. last, NEW x \in Nat, x \in T[i - 1]
               PROVE  step[i][x] \in T[i]
    BY DEF Advances
  <2>1. PICK w \in Nat : w = Width(text[i]) /\ w >= 1 /\ (i = 1 => w >= 4)
    <3>1. ASSUME i = 1
          PROVE  Width(text[i]) >= 4
      BY <3>1 DEF Width, Lower
    <3> QED
      BY <3>1, WidthType
  <2>2. step[i][x] = x + w
    BY <1>2, <2>1
  <2>3. i - 1 = 0 \/ x >= (i - 1) + 3
    BY <1>5
  <2>4. x + w >= i + 3
    BY <2>1, <2>3
  <2> QED
    BY <1>5, <2>2, <2>4
<1>8. value \in T[last]
  BY <1>4, <1>6, <1>7, YieldReaches
<1>9. value \in Nat /\ value >= 8
  BY <1>1, <1>5, <1>8
<1> QED
  BY <1>3, <1>9 DEF TooShort, FoldLeft, MapThenFoldSet

-----------------------------------------------------------------------------
(* The parts of the text, read back.                                       *)

IsSplit(text, part, token, rest) == text = part \o (<<token>> \o rest)

LEMMA UpToAndAfter ==
  ASSUME NEW token \in Tokens, NEW part \in Without(token), NEW rest \in Texts,
         NEW text, IsSplit(text, part, token, rest)
  PROVE  /\ UpTo(text, token) = part /\ After(text, token) = rest
         /\ First(text, token) = Len(part) + 1 /\ Contains(text, token)
<1>1. part \in Texts /\ <<token>> \in Texts
  BY WithoutFacts DEF Texts
<1>2. PICK tail \in Texts : tail = <<token>> \o rest
  BY <1>1, TextsConcat
<1>3. text = part \o tail
  BY <1>2 DEF IsSplit
<1>4. First(text, token) = Len(part) + 1 /\ Contains(text, token)
  BY FirstOf DEF IsSplit
<1>5. PICK m \in Nat, n \in Nat :
        m = Len(part) /\ n = Len(rest) /\ Len(text) = m + 1 + n
  <2>1. Len(<<token>>) = 1 /\ Len(tail) = Len(<<token>>) + Len(rest)
    BY <1>1, <1>2, TextsConcat
  <2>2. Len(text) = Len(part) + Len(tail)
    BY <1>1, <1>3, TextsConcat
  <2> QED
    BY <1>1, <2>1, <2>2 DEF Texts
<1>6. UpTo(text, token) = part
  <2>1. SubSeq(part \o tail, 1, Len(part)) = part
    BY <1>1 DEF Texts
  <2>2. Substr(text, 1, m + 1) = SubSeq(text, 1, m)
    BY <1>5 DEF Substr
  <2>3. First(text, token) = m + 1 /\ First(text, token) # 0
    BY <1>4, <1>5
  <2>4. UpTo(text, token) = SubSeq(text, 1, m)
    BY <2>2, <2>3 DEF UpTo
  <2> QED
    BY <1>3, <1>5, <2>1, <2>4
<1>7. After(text, token) = rest
  <2>1. PICK front \in Texts : front = part \o <<token>> /\ Len(front) = m + 1
    <3>1. part \o <<token>> \in Texts /\ Len(part \o <<token>>) = m + 1
      BY <1>1, <1>5, TextsConcat
    <3> QED
      BY <3>1
  <2>2. text = front \o rest
    <3>1. Associate(part, <<token>>, rest)
      BY <1>1, TextsAssociate
    <3> QED
      BY <2>1, <3>1 DEF IsSplit, Associate
  <2>3. SubSeq(front \o rest, Len(front) + 1, Len(front) + Len(rest)) = rest
    BY DEF Texts
  <2> QED
    BY <1>4, <1>5, <2>1, <2>2, <2>3 DEF After
<1> QED
  BY <1>4, <1>6, <1>7

(* A path in its normal form is pushed as it is.                           *)
LEMMA PushedAll ==
  ASSUME NEW segments \in Seq(Normal)
  PROVE  FoldLeft(Push, <<>>, segments) = segments
<1>1. PICK n \in Nat : n = Len(segments) /\ DOMAIN segments = 1 .. n
  OBVIOUS
<1>2. /\ segments \in Seq(Texts) /\ <<>> \in Seq(Normal)
      /\ \A i \in 1 .. n : segments[i] \in Normal
  <2>1. Normal \subseteq Texts
    BY DEF Normal
  <2> QED
    BY <1>1, <2>1, SeqMonotonic
<1>3. PICK empty \in Seq(Normal) : empty = <<>>
  BY <1>2
<1>4. PICK step :
        step = [i \in 1 .. n |-> [x \in Seq(Normal) |-> Push(x, segments[i])]]
  OBVIOUS
<1>5. PICK value : value = FoldLeft(Push, empty, segments)
  OBVIOUS
<1>6. Yields(value, Seq(Normal), empty, n, step)
  BY <1>1, <1>2, <1>4, <1>5, PushFold
<1>7. PICK T : T = [i \in 0 .. n |-> {SubSeq(segments, 1, i)}]
  OBVIOUS
<1>8. empty \in T[0]
  BY <1>3, <1>7, SubSeqEmpty
<1>9. Advances(T, Seq(Normal), n, step)
  <2> SUFFICES ASSUME NEW i \in 1 .. n, NEW x \in Seq(Normal), x \in T[i - 1]
               PROVE  step[i][x] \in T[i]
    BY DEF Advances
  <2>1. x = SubSeq(segments, 1, i - 1)
    BY <1>7
  <2>2. step[i][x] = Append(x, segments[i])
    BY <1>2, <1>4 DEF Push, Normal
  <2>3. SubSeq(segments, 1, i) = Append(SubSeq(segments, 1, i - 1), segments[i])
    BY <1>1
  <2>4. step[i][x] = SubSeq(segments, 1, i)
    BY <2>1, <2>2, <2>3
  <2>5. T[i] = {SubSeq(segments, 1, i)}
    BY <1>7
  <2> QED
    BY <2>4, <2>5
<1>10. value \in T[n]
  BY <1>6, <1>8, <1>9, YieldReaches
<1>11. value = SubSeq(segments, 1, n)
  BY <1>7, <1>10
<1> QED
  BY <1>1, <1>3, <1>5, <1>11, SubSeqFull

(* An entry of a query that can be taken apart is read back from its text. *)
ReadAs(text, name, value) ==
  /\ UpTo(text, "=") = name /\ After(text, "=") = value
  /\ \A x : WithParameter(x, text) = [x EXCEPT !.query[name] = @ \cup {value}]

LEMMA EntryRead ==
  ASSUME NEW b \in Builders, Readable(b), NEW entry \in Entries(b.query),
         NEW text, text = entry[1] \o <<"=">> \o entry[2]
  PROVE  ReadAs(text, entry[1], entry[2])
<1>1. PICK name, value :
        /\ name = entry[1] /\ value = entry[2] /\ name # <<>>
        /\ name \in Seq(Tokens \ {"=", "&", "#"})
        /\ value \in Seq(Tokens \ {"&", "#"})
  BY EntryFacts
<1>2. name \in Without("=") /\ name \in Texts /\ value \in Texts
  <2>1. /\ Tokens \ {"=", "&", "#"} \subseteq Tokens \ {"="}
        /\ Tokens \ {"&", "#"} \subseteq Tokens
    OBVIOUS
  <2> QED
    BY <1>1, <2>1, SeqMonotonic, WithoutFacts DEF Without, Texts
<1>3. PICK token \in Tokens : token = "=" /\ <<token>> \in Texts
  <2>1. "=" \in Tokens
    BY DEF Tokens
  <2> QED
    BY <2>1 DEF Texts
<1>4. IsSplit(text, name, token, value)
  <2>1. Associate(name, <<token>>, value)
    BY <1>2, <1>3, TextsAssociate
  <2> QED
    BY <1>1, <1>3, <2>1 DEF IsSplit, Associate
<1>5. /\ UpTo(text, "=") = name /\ After(text, "=") = value
      /\ Contains(text, "=")
  BY <1>2, <1>3, <1>4, UpToAndAfter
<1>6. \A x : WithParameter(x, text) = [x EXCEPT !.query[name] = @ \cup {value}]
  BY <1>1, <1>5 DEF WithParameter, AddEncodedQueryParameter
<1>7. ReadAs(text, name, value)
  BY <1>5, <1>6 DEF ReadAs
<1> QED
  BY <1>1, <1>7

LEMMA ParameterRead ==
  ASSUME NEW b \in Builders, Readable(b), NEW text \in ParameterTexts(b.query)
  PROVE  \E name \in Names : \E value \in b.query[name] :
           ReadAs(text, name, value)
<1>1. PICK query : query = b.query
  OBVIOUS
<1>2. PICK entry \in Entries(query) : text = entry[1] \o <<"=">> \o entry[2]
  BY <1>1 DEF ParameterTexts
<1>3. entry \in Entries(b.query)
  BY <1>1
<1>4. entry[1] \in Names /\ entry[2] \in b.query[entry[1]]
  BY <1>3, EntryFacts
<1>5. ReadAs(text, entry[1], entry[2])
  BY <1>2, <1>3, EntryRead
<1> QED
  BY <1>4, <1>5

(* Adding the parameters of a query to a Builder without one gives it the  *)
(* query.  What it has after i of them are their values, by name.          *)
LEMMA QueryRebuilt ==
  ASSUME NEW b \in Builders, Readable(b),
         NEW base \in Builders, base.query = [name \in Names |-> {}]
  PROVE  FoldLeft(WithParameter, base, Parameters(b))
           = [base EXCEPT !.query = b.query]
<1>1. PICK query \in [Names -> SUBSET Texts] : query = b.query
  BY DEF Builders, Queries
<1>2. PICK texts : texts = ParameterTexts(b.query)
  OBVIOUS
<1>3. PICK pieces : pieces = Parameters(b)
  OBVIOUS
<1>4. pieces \in Seq(texts) /\ ToSet(pieces) = texts
  BY <1>2, <1>3, ParametersFacts
<1>5. PICK n \in Nat : /\ n = Len(pieces) /\ DOMAIN pieces = 1 .. n
                       /\ \A i \in 1 .. n : pieces[i] \in texts
  BY <1>4
<1>6. pieces \in Seq(Texts)
  <2>1. Tokens \ {"&", "#"} \subseteq Tokens
    OBVIOUS
  <2>2. texts \subseteq Texts
    <3> SUFFICES ASSUME NEW text \in texts
                 PROVE  text \in Texts
      OBVIOUS
    <3>1. PICK entry \in Entries(query) :
            text = entry[1] \o <<"=">> \o entry[2]
      BY <1>1, <1>2 DEF ParameterTexts
    <3>2. entry \in Entries(b.query)
      BY <1>1
    <3>3. text \in Seq(Tokens \ {"&", "#"})
      BY <3>1, <3>2, EntryFacts
    <3> QED
      BY <2>1, <3>3, SeqMonotonic DEF Texts
  <2> QED
    BY <1>4, <2>2, SeqMonotonic
<1>7. PICK name : name = [i \in 1 .. n |-> UpTo(pieces[i], "=")]
  OBVIOUS
<1>8. PICK value : value = [i \in 1 .. n |-> After(pieces[i], "=")]
  OBVIOUS
<1>9. ASSUME NEW i \in 1 .. n
      PROVE  /\ name[i] \in Names /\ value[i] \in query[name[i]]
             /\ \A x : WithParameter(x, pieces[i]) =
                         [x EXCEPT !.query[name[i]] = @ \cup {value[i]}]
  <2>1. PICK text : text = pieces[i] /\ text \in ParameterTexts(b.query)
    BY <1>2, <1>5
  <2>2. PICK m \in Names : \E v \in b.query[m] : ReadAs(text, m, v)
    BY <2>1, ParameterRead
  <2>3. PICK v \in b.query[m] : ReadAs(text, m, v)
    BY <2>2
  <2>4. name[i] = m /\ value[i] = v
    BY <1>7, <1>8, <2>1, <2>3 DEF ReadAs
  <2>5. \A x : WithParameter(x, pieces[i]) = [x EXCEPT !.query[m] = @ \cup {v}]
    BY <2>1, <2>3 DEF ReadAs
  <2> QED
    BY <1>1, <2>4, <2>5
<1>10. PICK Q :
         Q = [i \in 0 .. n |->
               [m \in Names |-> {value[j] : j \in {k \in 1 .. i : name[k] = m}}]]
  OBVIOUS
<1>11. Q[0] = base.query
  <2>1. \A m \in Names : {value[j] : j \in {k \in 1 .. 0 : name[k] = m}} = {}
    OBVIOUS
  <2> QED
    BY <1>10, <2>1
<1>12. Q[n] = query
  <2>1. ASSUME NEW m \in Names
        PROVE  {value[j] : j \in {k \in 1 .. n : name[k] = m}} = query[m]
    <3>1. ASSUME NEW v \in query[m]
          PROVE  \E j \in 1 .. n : name[j] = m /\ value[j] = v
      <4>1. PICK entry \in Entries(query) : entry[1] = m /\ entry[2] = v
        <5>1. v \in Texts
          BY <1>1
        <5>2. <<m, v>> \in Entries(query)
          BY <5>1 DEF Entries
        <5> QED
          BY <5>2
      <4>2. PICK text : text = entry[1] \o <<"=">> \o entry[2] /\ text \in texts
        <5>1. entry[1] \o <<"=">> \o entry[2] \in texts
          BY <1>1, <1>2 DEF ParameterTexts
        <5> QED
          BY <5>1
      <4>3. PICK j \in 1 .. n : pieces[j] = text
        BY <1>4, <1>5, <4>2 DEF ToSet
      <4>4. ReadAs(text, entry[1], entry[2])
        <5>1. entry \in Entries(b.query)
          BY <1>1, <4>1
        <5> QED
          BY <4>2, <5>1, EntryRead
      <4>5. name[j] = entry[1] /\ value[j] = entry[2]
        BY <1>7, <1>8, <4>3, <4>4 DEF ReadAs
      <4> QED
        BY <4>1, <4>5
    <3>2. ASSUME NEW j \in 1 .. n, name[j] = m
          PROVE  value[j] \in query[m]
      BY <1>9, <3>2
    <3> QED
      BY <3>1, <3>2
  <2>2. n \in 0 .. n
    OBVIOUS
  <2> QED
    BY <1>1, <1>10, <2>1, <2>2
<1>13. \A i \in 1 .. n :
         Q[i] = [Q[i - 1] EXCEPT ![name[i]] = @ \cup {value[i]}]
  <2> TAKE i \in 1 .. n
  <2>1. i \in 0 .. n /\ i - 1 \in 0 .. n /\ 1 .. i = (1 .. i - 1) \cup {i}
    OBVIOUS
  <2>2. \A m \in Names :
          {value[j] : j \in {k \in 1 .. i : name[k] = m}} =
            IF m = name[i]
            THEN {value[j] : j \in {k \in 1 .. i - 1 : name[k] = m}} \cup {value[i]}
            ELSE {value[j] : j \in {k \in 1 .. i - 1 : name[k] = m}}
    BY <2>1
  <2>3. name[i] \in Names
    BY <1>9
  <2>4. /\ Q[i] = [m \in Names |-> {value[j] : j \in {k \in 1 .. i : name[k] = m}}]
        /\ Q[i - 1] =
             [m \in Names |-> {value[j] : j \in {k \in 1 .. i - 1 : name[k] = m}}]
    BY <1>10, <2>1
  <2>5. DOMAIN Q[i] = Names /\ DOMAIN Q[i - 1] = Names
    BY <2>4
  <2>6. \A m \in Names :
          Q[i][m] = IF m = name[i] THEN Q[i - 1][m] \cup {value[i]} ELSE Q[i - 1][m]
    BY <2>2, <2>4
  <2>7. Q[i] = [m \in Names |-> Q[i][m]]
    BY <2>4
  <2> QED
    BY <2>3, <2>5, <2>6, <2>7
<1>14. PICK step :
         step = [i \in 1 .. n |-> [x \in Builders |-> WithParameter(x, pieces[i])]]
  OBVIOUS
<1>15. PICK whole : whole = FoldLeft(WithParameter, base, pieces)
  OBVIOUS
<1>16. Yields(whole, Builders, base, n, step)
  BY <1>5, <1>6, <1>14, <1>15, ParameterFold
<1>17. PICK T : T = [i \in 0 .. n |-> {[base EXCEPT !.query = Q[i]]}]
  OBVIOUS
<1>18. base \in T[0]
  <2>1. T[0] = {[base EXCEPT !.query = Q[0]]}
    BY <1>17
  <2>2. [base EXCEPT !.query = base.query] = base
    BY DEF Builders
  <2> QED
    BY <1>11, <2>1, <2>2
<1>19. Advances(T, Builders, n, step)
  <2> SUFFICES ASSUME NEW i \in 1 .. n, NEW x \in Builders, x \in T[i - 1]
               PROVE  step[i][x] \in T[i]
    BY DEF Advances
  <2>1. x = [base EXCEPT !.query = Q[i - 1]] /\ x.query = Q[i - 1]
    BY <1>17 DEF Builders
  <2>2. step[i][x] = [x EXCEPT !.query[name[i]] = @ \cup {value[i]}]
    BY <1>9, <1>14
  <2>3. [x EXCEPT !.query[name[i]] = @ \cup {value[i]}] =
          [x EXCEPT !.query = [x.query EXCEPT ![name[i]] = @ \cup {value[i]}]]
    BY DEF Builders
  <2>4. step[i][x] = [base EXCEPT !.query = Q[i]]
    BY <1>13, <2>1, <2>2, <2>3 DEF Builders
  <2>5. T[i] = {[base EXCEPT !.query = Q[i]]}
    BY <1>17
  <2> QED
    BY <2>4, <2>5
<1>20. whole \in T[n]
  BY <1>16, <1>18, <1>19, YieldReaches
<1>21. whole = [base EXCEPT !.query = Q[n]]
  BY <1>17, <1>20
<1> QED
  BY <1>1, <1>3, <1>12, <1>15, <1>21

LEMMA NumberRead ==
  ASSUME NEW n \in Ports \cup {0}
  PROVE  Number(Digits(n)) = n /\ Digits(n) # <<>>
<1>1. PICK text : text = Digits(n)
  OBVIOUS
<1>2. text[1] = ToString(n) /\ text # <<>>
  <2>1. Len(text) = 1 /\ Len(<<>>) = 0 /\ text[1] = ToString(n)
    BY <1>1 DEF Digits
  <2> QED
    BY <2>1
<1>3. \A m \in Ports : <<text[1]>> = Digits(m) <=> m = n
  <2> TAKE m \in Ports
  <2>1. <<text[1]>> = Digits(m) <=> text[1] = ToString(m)
    BY DEF Digits
  <2>2. ToString(m) = ToString(n) => m = n
    BY DigitsAssumption
  <2> QED
    BY <1>2, <2>1, <2>2
<1>4. PICK value :
        value = IF \E m \in Ports : <<text[1]>> = Digits(m)
                THEN CHOOSE m \in Ports : <<text[1]>> = Digits(m) ELSE 0
  OBVIOUS
<1>5. Number(text) = value
  BY <1>4 DEF Number
<1>6. value = n
  BY <1>3, <1>4
<1> QED
  BY <1>1, <1>2, <1>5, <1>6

LEMMA HostPathRead ==
  ASSUME NEW b \in Builders, Readable(b)
  PROVE  /\ Substr(ToText(b), 5, HostPathEnd(ToText(b)))
              = HostPort(b) \o PathText(b)
         /\ HostPort(b) \o PathText(b) # <<>>
<1>1. PICK start \in Texts, middle \in Texts, path \in Texts :
        /\ start = Start(b) /\ middle = HostPort(b) /\ path = PathText(b)
        /\ Len(start) = 4
  BY ToPathType, StartType
<1>2. PICK hostPath \in Texts : hostPath = middle \o path
  BY TextsConcat
<1>3. PICK rest \in Texts : rest = QueryPart(b) \o FragmentPart(b)
  BY ToPathType, TextsConcat
<1>4. ToText(b) = (start \o hostPath) \o rest
  <2>1. PICK most \in Texts, query \in Texts, fragment \in Texts :
          most = ToPath(b) /\ query = QueryPart(b) /\ fragment = FragmentPart(b)
    BY ToPathType
  <2>2. ToText(b) = (most \o query) \o fragment
    BY <2>1, TextOfParts DEF ToQuery
  <2>3. Associate(most, query, fragment)
    BY TextsAssociate
  <2>4. Associate(start, middle, path)
    BY TextsAssociate
  <2> QED
    BY <1>1, <1>2, <1>3, <2>1, <2>2, <2>3, <2>4 DEF ToPath, Associate
<1>5. PICK n \in Nat : /\ n = Len(hostPath) /\ n >= 2
                       /\ Len(ToPath(b)) = 4 + n
  <2>1. /\ Len(start \o hostPath) = Len(start) + Len(hostPath)
        /\ Len(hostPath) \in Nat
    BY TextsConcat
  <2>2. /\ Len(hostPath) = Len(middle) + Len(path)
        /\ Len(path) \in Nat /\ Len(middle) \in Nat
    BY <1>2, TextsConcat
  <2>3. Len(middle) = Len(b.host) + 2 /\ Len(b.host) \in Nat
    BY <1>1, HostPortType
  <2>4. ToPath(b) = start \o hostPath
    <3>1. Associate(start, middle, path)
      BY TextsAssociate
    <3> QED
      BY <1>1, <1>2, <3>1 DEF ToPath, Associate
  <2> QED
    BY <1>1, <2>1, <2>2, <2>3, <2>4
<1>6. SubSeq(ToText(b), 5, 4 + n) = hostPath
  <2>1. SubSeq((start \o hostPath) \o rest, Len(start) + 1,
               Len(start) + Len(hostPath)) = hostPath
    BY Between
  <2>2. Len(start) + 1 = 5 /\ Len(start) + Len(hostPath) = 4 + n
    BY <1>1, <1>5
  <2> QED
    BY <1>4, <2>1, <2>2
<1>7. HostPathEnd(ToText(b)) = 5 + n
  BY <1>5, EndsFound
<1>8. Substr(ToText(b), 5, 5 + n) = SubSeq(ToText(b), 5, 4 + n)
  <2>1. ~ (5 + n < 5) /\ (5 + n) - 1 = 4 + n
    OBVIOUS
  <2> QED
    BY <2>1 DEF Substr
<1>9. hostPath # <<>>
  BY <1>5
<1> QED
  BY <1>1, <1>2, <1>6, <1>7, <1>8, <1>9

LEMMA HostRebuilt ==
  ASSUME NEW b \in Builders, Readable(b),
         NEW with, with = [Fresh EXCEPT !.scheme = b.scheme]
  PROVE  WithHost(with, HostPort(b) \o PathText(b)) =
           [with EXCEPT !.host = b.host, !.port = MeantPort(b),
                        !.segments = b.segments]
<1>1. PICK host \in Seq(Plain) : host = b.host
  BY HostPortType
<1>2. PICK port \in Ports \cup {0} : port = MeantPort(b)
  BY MeantPortType
<1>3. PICK digits \in Seq(Plain) : digits = Digits(port) /\ Len(digits) = 1
  BY DigitsType
<1>4. PICK path \in Texts, tail \in Texts :
        /\ path = PathText(b) /\ tail = Tail(path) /\ path = <<"/">> \o tail
        /\ Pieces(tail, "/") = b.segments
  BY PathTextType, ToPathType
<1>5. PICK colon \in Tokens, slash \in Tokens :
        /\ colon = ":" /\ slash = "/"
        /\ <<colon>> \in Texts /\ <<slash>> \in Texts
  <2>1. ":" \in Tokens /\ "/" \in Tokens
    BY DEF Tokens
  <2> QED
    BY <2>1 DEF Texts
<1>6. /\ host \in Texts /\ digits \in Texts
      /\ host \in Without(colon)
      /\ (host \o <<colon>>) \o digits \in Without(slash)
  <2>1. /\ Plain \subseteq Tokens /\ Plain \subseteq Tokens \ {":"}
        /\ Tokens \ {"/", "?", "#"} \subseteq Tokens \ {"/"}
    BY DEF Plain
  <2>2. HostPort(b) = (host \o <<colon>>) \o digits
    BY <1>1, <1>2, <1>3, <1>5 DEF HostPort
  <2>3. HostPort(b) \in Seq(Tokens \ {"/"})
    BY <2>1, HostPortType, SeqMonotonic
  <2> QED
    BY <1>5, <2>1, <2>2, <2>3, SeqMonotonic DEF Texts, Without
<1>7. PICK front \in Texts, hostPath \in Texts :
        front = (host \o <<colon>>) \o digits /\ hostPath = front \o path
  <2>1. host \o <<colon>> \in Texts
    BY <1>5, <1>6, TextsConcat
  <2>2. (host \o <<colon>>) \o digits \in Texts
    BY <1>6, <2>1, TextsConcat
  <2>3. ((host \o <<colon>>) \o digits) \o path \in Texts
    BY <2>2, TextsConcat
  <2> QED
    BY <2>2, <2>3
<1>8. hostPath = HostPort(b) \o PathText(b)
  BY <1>1, <1>2, <1>3, <1>4, <1>5, <1>7 DEF HostPort
<1>9. PICK last \in Texts : last = digits \o path
  BY <1>6, TextsConcat
<1>10. IsSplit(hostPath, host, colon, last)
  <2>1. PICK mark \in Texts : mark = <<colon>>
    BY <1>5
  <2>2. PICK begin \in Texts : begin = host \o mark
    BY <1>6, TextsConcat
  <2>3. Associate(begin, digits, path)
    BY <1>6, TextsAssociate
  <2>4. Associate(host, mark, last)
    BY <1>6, TextsAssociate
  <2> QED
    BY <1>7, <1>9, <2>1, <2>2, <2>3, <2>4 DEF IsSplit, Associate
<1>11. IsSplit(hostPath, front, slash, tail)
  BY <1>4, <1>5, <1>7 DEF IsSplit
<1>12. /\ UpTo(hostPath, ":") = host
       /\ First(hostPath, ":") = Len(host) + 1
  BY <1>5, <1>6, <1>10, UpToAndAfter
<1>13. /\ After(hostPath, "/") = tail
       /\ First(hostPath, "/") = Len(front) + 1
  <2>1. front \in Without(slash)
    BY <1>6, <1>7
  <2> QED
    BY <1>5, <1>11, <2>1, UpToAndAfter
<1>14. PICK m \in Nat : m = Len(host) /\ Len(front) = m + 2
  <2>1. PICK begin \in Texts :
          begin = host \o <<colon>> /\ Len(begin) = Len(host) + 1
    <3>1. Len(host \o <<colon>>) = Len(host) + 1 /\ host \o <<colon>> \in Texts
      BY <1>5, <1>6, TextsConcat
    <3> QED
      BY <3>1
  <2>2. front = begin \o digits /\ Len(front) = Len(begin) + 1
    <3>1. Len(begin \o digits) = Len(begin) + Len(digits)
      BY <1>6, TextsConcat
    <3> QED
      BY <1>3, <1>7, <2>1, <3>1
  <2>3. Len(host) \in Nat
    BY <1>6, TextsConcat
  <2>4. Len(front) = Len(host) + 2
    BY <2>1, <2>2, <2>3
  <2> QED
    BY <2>3, <2>4
<1>15. Substr(hostPath, m + 2, m + 3) = digits
  <2>1. PICK begin \in Texts : begin = host \o <<colon>> /\ Len(begin) = m + 1
    <3>1. host \o <<colon>> \in Texts /\ Len(host \o <<colon>>) = m + 1
      BY <1>5, <1>6, <1>14, TextsConcat
    <3> QED
      BY <3>1
  <2>2. SubSeq((begin \o digits) \o path, Len(begin) + 1, Len(begin) + Len(digits))
          = digits
    BY <1>6, Between
  <2>3. Len(begin) + 1 = m + 2 /\ Len(begin) + Len(digits) = m + 2
    BY <1>3, <2>1
  <2>4. SubSeq(hostPath, m + 2, m + 2) = digits
    BY <1>7, <2>1, <2>2, <2>3
  <2>5. ~ (m + 3 < m + 2) /\ (m + 3) - 1 = m + 2
    OBVIOUS
  <2> QED
    BY <2>4, <2>5 DEF Substr
<1>16. PICK at, to, number, name :
         /\ at = First(hostPath, ":") /\ to = First(hostPath, "/")
         /\ number = Substr(hostPath, at + 1,
                            IF to = 0 THEN Len(hostPath) + 1 ELSE to)
         /\ name = IF at = 0 THEN UpTo(hostPath, "/") ELSE UpTo(hostPath, ":")
  OBVIOUS
<1>17. /\ at = m + 1 /\ at # 0 /\ to = m + 3 /\ to # 0
       /\ name = host /\ number = digits
  <2>1. at = m + 1 /\ at # 0 /\ to = m + 3 /\ to # 0 /\ at + 1 = m + 2
    BY <1>12, <1>13, <1>14, <1>16
  <2> QED
    BY <1>12, <1>15, <1>16, <2>1
<1>18. PICK chosen :
         chosen = IF at = 0 \/ number = <<>> THEN DefaultPort(with.scheme)
                  ELSE Number(number)
  OBVIOUS
<1>19. chosen = port
  BY <1>3, <1>17, <1>18, NumberRead
<1>20. PICK hosted : hosted = [with EXCEPT !.host = name, !.port = chosen]
  OBVIOUS
<1>21. WithHost(with, hostPath) = AddEncodedPathSegments(hosted, tail)
  BY <1>13, <1>16, <1>18, <1>20 DEF WithHost
<1>22. hosted.segments = <<>>
  BY <1>20 DEF Fresh
<1>23. FoldLeft(Push, <<>>, b.segments) = b.segments
  BY PushedAll DEF Builders
<1>24. AddEncodedPathSegments(hosted, tail) = [hosted EXCEPT !.segments = b.segments]
  BY <1>4, <1>22, <1>23 DEF AddEncodedPathSegments
<1> QED
  BY <1>1, <1>2, <1>8, <1>17, <1>19, <1>20, <1>21, <1>24 DEF Fresh

LEMMA QueryReadBack ==
  ASSUME NEW b \in Builders, Readable(b),
         NEW base \in Builders, base.query = [name \in Names |-> {}]
  PROVE  WithQuery(base, ToText(b)) = [base EXCEPT !.query = b.query]
<1>1. CASE Named(b) = {}
  <2>1. WithQuery(base, ToText(b)) = base
    BY <1>1, QueryFound DEF WithQuery
  <2>2. PICK query \in [Names -> SUBSET Texts] : query = b.query
    BY DEF Builders, Queries
  <2>3. \A name \in Names : query[name] = {}
    BY <1>1, <2>2 DEF Named
  <2>4. query = base.query
    BY <2>2, <2>3
  <2>5. [base EXCEPT !.query = base.query] = base
    BY DEF Builders
  <2> QED
    BY <2>1, <2>2, <2>4, <2>5
<1>2. CASE Named(b) # {}
  <2>1. PICK query : query = Substr(ToText(b), First(ToText(b), "?") + 1,
                                    QueryEnd(ToText(b)))
    OBVIOUS
  <2>2. Pieces(query, "&") = Parameters(b)
    BY <1>2, <2>1, QueryRead, QueryTextType
  <2>3. WithQuery(base, ToText(b)) = FoldLeft(WithParameter, base, Pieces(query, "&"))
    BY <1>2, <2>1, QueryFound DEF WithQuery
  <2> QED
    BY <2>2, <2>3, QueryRebuilt
<1> QED
  BY <1>1, <1>2

LEMMA FragmentReadBack ==
  ASSUME NEW b \in Builders, Readable(b),
         NEW base \in Builders, base.fragment = <<>>
  PROVE  WithFragment(base, ToText(b)) = [base EXCEPT !.fragment = b.fragment]
<1>1. CASE b.fragment = <<>>
  <2>1. WithFragment(base, ToText(b)) = base
    BY <1>1, FragmentFound DEF WithFragment
  <2>2. [base EXCEPT !.fragment = base.fragment] = base
    BY DEF Builders
  <2> QED
    BY <1>1, <2>1, <2>2
<1>2. CASE b.fragment # <<>>
  <2>1. PICK front \in Without("#") : front = ToQuery(b)
    BY ToPathType
  <2>2. PICK token \in Tokens : token = "#"
    BY DEF Tokens
  <2>3. PICK fragment \in Texts : fragment = b.fragment
    BY FragmentPartType
  <2>4. IsSplit(ToText(b), front, token, fragment)
    BY <1>2, <2>1, <2>2, <2>3, TextOfParts, FragmentPartType DEF IsSplit
  <2>5. After(ToText(b), "#") = fragment /\ Contains(ToText(b), "#")
    BY <2>1, <2>2, <2>4, UpToAndAfter
  <2> QED
    BY <1>2, <2>3, <2>5 DEF WithFragment, AddEncodedFragment
<1> QED
  BY <1>1, <1>2

LEMMA TextStart ==
  ASSUME NEW b \in Builders, Readable(b)
  PROVE  \E scheme \in {"http", "https"}, rest \in Texts :
           /\ b.scheme = <<scheme>> /\ Len(ToText(b)) >= 5
           /\ ToText(b) = <<scheme>> \o (<<":">> \o rest)
<1>1. PICK scheme \in {"http", "https"} : b.scheme = <<scheme>>
  BY StartType
<1>2. PICK first \in Texts, colon \in Texts, slashes \in Texts :
        /\ first = <<scheme>> /\ colon = <<":">> /\ slashes = <<"/", "/">>
        /\ <<":", "/", "/">> = colon \o slashes
  <2>1. {"http", "https", ":", "/"} \subseteq Tokens
    BY DEF Tokens
  <2>2. /\ <<scheme>> \in Texts /\ <<":">> \in Texts /\ <<"/", "/">> \in Texts
        /\ <<":", "/", "/">> = <<":">> \o <<"/", "/">>
    BY <2>1 DEF Texts
  <2> QED
    BY <2>2
<1>3. PICK start \in Texts, hostPath \in Texts, rest \in Texts :
        /\ start = Start(b) /\ ToText(b) = (start \o hostPath) \o rest
        /\ Len(start) = 4 /\ hostPath # <<>>
  <2>1. PICK middle \in Texts, path \in Texts, query \in Texts, fragment \in Texts :
          /\ middle = HostPort(b) /\ path = PathText(b)
          /\ query = QueryPart(b) /\ fragment = FragmentPart(b)
    BY ToPathType
  <2>2. PICK start \in Texts : start = Start(b) /\ Len(start) = 4
    BY ToPathType, StartType
  <2>3. PICK hostPath \in Texts : hostPath = middle \o path /\ hostPath # <<>>
    BY <2>1, TextsConcat, HostPathRead
  <2>4. PICK rest \in Texts : rest = query \o fragment
    BY TextsConcat
  <2>5. (start \o middle) \o path = start \o hostPath
    <3>1. Associate(start, middle, path)
      BY TextsAssociate
    <3> QED
      BY <2>3, <3>1 DEF Associate
  <2>6. PICK front \in Texts : front = start \o hostPath
    BY TextsConcat
  <2>7. Associate(front, query, fragment)
    BY TextsAssociate
  <2>8. ToText(b) = (start \o hostPath) \o rest
    BY <2>1, <2>2, <2>4, <2>5, <2>6, <2>7, TextOfParts
       DEF ToQuery, ToPath, Associate
  <2> QED
    BY <2>2, <2>3, <2>8
<1>4. PICK end \in Texts : end = hostPath \o rest /\ Len(end) >= 1
  <2>1. hostPath \o rest \in Texts /\ Len(hostPath \o rest) = Len(hostPath) + Len(rest)
    BY TextsConcat
  <2>2. Len(hostPath) \in Nat /\ Len(hostPath) # 0 /\ Len(rest) \in Nat
    BY <1>3, EmptySeq DEF Texts
  <2>3. Len(hostPath \o rest) >= 1
    BY <2>1, <2>2
  <2> QED
    BY <2>1, <2>3
<1>5. ToText(b) = start \o end
  <2>1. Associate(start, hostPath, rest)
    BY TextsAssociate
  <2> QED
    BY <1>3, <1>4, <2>1 DEF Associate
<1>6. Len(ToText(b)) >= 5
  <2>1. Len(start \o end) = Len(start) + Len(end) /\ Len(end) \in Nat
    BY TextsConcat
  <2> QED
    BY <1>3, <1>4, <1>5, <2>1
<1>7. PICK marks \in Texts : marks = colon \o slashes
  BY TextsConcat
<1>8. PICK last \in Texts : last = slashes \o end
  BY TextsConcat
<1>9. start = first \o marks
  BY <1>1, <1>2, <1>3, <1>7 DEF Start
<1>10. Associate(first, marks, end)
  BY TextsAssociate
<1>11. Associate(colon, slashes, end)
  BY TextsAssociate
<1>12. ToText(b) = <<scheme>> \o (<<":">> \o last)
  BY <1>2, <1>5, <1>7, <1>8, <1>9, <1>10, <1>11 DEF Associate
<1> QED
  BY <1>1, <1>6, <1>12

(* What Parse is given first is neither too short nor without a scheme.    *)
LEMMA SchemeRead ==
  ASSUME NEW b \in Builders, Readable(b),
         Last(ToText(b)) \notin ToSet(Blanks)
  PROVE  /\ ~ TooShort(ToText(b)) /\ Trimmed(ToText(b)) = ToText(b)
         /\ ToText(b) # <<>> /\ Len(ToText(b)) >= 4
         /\ UpTo([ToText(b) EXCEPT ![1] = Lower(@)], ":") = b.scheme
<1>1. PICK scheme \in {"http", "https"}, rest \in Texts :
        /\ b.scheme = <<scheme>> /\ Len(ToText(b)) >= 5
        /\ ToText(b) = <<scheme>> \o (<<":">> \o rest)
  BY TextStart
<1>2. scheme \in Tokens \ {":"} /\ ":" \in Tokens
  BY DEF Tokens
<1>3. PICK text \in Texts :
        /\ text = ToText(b) /\ text[1] = scheme /\ Len(text) >= 5 /\ text # <<>>
  <2>1. PICK first \in Texts, colon \in Texts :
          first = <<scheme>> /\ colon = <<":">>
    <3>1. <<scheme>> \in Texts /\ <<":">> \in Texts
      BY <1>2 DEF Texts
    <3> QED
      BY <3>1
  <2>2. PICK tail \in Texts : tail = colon \o rest
    BY TextsConcat
  <2>3. first \o tail \in Texts /\ (first \o tail)[1] = scheme
    BY <2>1 DEF Texts
  <2>4. ToText(b) = first \o tail
    BY <1>1, <2>1, <2>2
  <2>5. PICK text \in Texts : text = ToText(b)
    BY TextType
  <2>6. text[1] = scheme /\ Len(text) >= 5
    BY <1>1, <2>3, <2>4, <2>5
  <2>7. text # <<>>
    BY <1>1, <1>2, <2>1, <2>2, <2>5, TailOfToken
  <2> QED
    BY <2>5, <2>6, <2>7
<1>4. ~ TooShort(text)
  BY <1>3, LongEnough
<1>5. Trimmed(text) = text
  <2>1. text[1] \notin ToSet(Blanks)
    <3>1. \A i \in DOMAIN Blanks : Blanks[i] \notin {"http", "https"}
      BY UrlAssumption
    <3> QED
      BY <1>3, <3>1 DEF ToSet
  <2> QED
    BY <1>3, <2>1, TrimmedKeeps
<1>6. [text EXCEPT ![1] = Lower(@)] = text
  <2>1. Lower(scheme) = scheme
    BY DEF Lower
  <2>2. [text EXCEPT ![1] = Lower(@)] = [text EXCEPT ![1] = Lower(scheme)]
    BY <1>3
  <2> QED
    BY <1>3, <2>1, <2>2 DEF Texts
<1>7. UpTo(text, ":") = <<scheme>>
  <2>1. PICK colon \in Tokens : colon = ":"
    BY <1>2
  <2>2. PICK part \in Without(colon) : part = <<scheme>>
    <3>1. <<scheme>> \in Without(colon)
      BY <1>2, <2>1 DEF Without
    <3> QED
      BY <3>1
  <2>3. IsSplit(text, part, colon, rest)
    BY <1>1, <1>3, <2>1, <2>2 DEF IsSplit
  <2>4. UpTo(text, colon) = part
    BY <2>3, UpToAndAfter
  <2> QED
    BY <2>1, <2>2, <2>4
<1>8. UpTo([text EXCEPT ![1] = Lower(@)], ":") = b.scheme
  BY <1>1, <1>6, <1>7
<1> QED
  BY <1>3, <1>4, <1>5, <1>8

LEMMA ParsedBack ==
  ASSUME NEW b \in Builders, Readable(b),
         Last(ToText(b)) \notin ToSet(Blanks)
  PROVE  Parse(Fresh, ToText(b)) = Outcome("true", WithPort(b))
<1>1. PICK text : text = ToText(b)
  OBVIOUS
<1>2. Trimmed(text) = text /\ text # <<>> /\ ~ TooShort(text) /\ ~ (Len(text) < 4)
  <2>1. Trimmed(text) = text /\ text # <<>> /\ ~ TooShort(text)
    BY <1>1, SchemeRead
  <2>2. Len(text) \in Nat
    BY <1>1, TextType DEF Texts
  <2>3. Len(text) >= 4
    BY <1>1, SchemeRead
  <2> QED
    BY <2>1, <2>2, <2>3
<1>3. PICK scheme : scheme = UpTo([text EXCEPT ![1] = Lower(@)], ":")
  OBVIOUS
<1>4. scheme = b.scheme /\ scheme \in {<<"http">>, <<"https">>}
  BY <1>1, <1>3, SchemeRead, StartType
<1>5. PICK with : with = [Fresh EXCEPT !.scheme = scheme]
  OBVIOUS
<1>6. PICK hostPath : hostPath = Substr(text, 5, HostPathEnd(text))
  OBVIOUS
<1>7. hostPath = HostPort(b) \o PathText(b) /\ hostPath # <<>>
  BY <1>1, <1>6, HostPathRead
<1>8. PICK hosted : hosted = WithHost(with, hostPath)
  OBVIOUS
<1>9. PICK queried : queried = WithQuery(hosted, text)
  OBVIOUS
<1>10. PICK whole : whole = WithFragment(queried, text)
  OBVIOUS
<1>11. Parse(Fresh, text) = Outcome("true", whole)
  BY <1>2, <1>3, <1>4, <1>5, <1>6, <1>7, <1>8, <1>9, <1>10 DEF Parse
<1>12. PICK port \in PortNumbers : port = MeantPort(b)
  BY MeantPortType DEF PortNumbers
<1>13. hosted = [scheme |-> b.scheme, host |-> b.host, port |-> port,
                 segments |-> b.segments, query |-> [n \in Names |-> {}],
                 fragment |-> <<>>]
  <2>1. hosted = [with EXCEPT !.host = b.host, !.port = MeantPort(b),
                              !.segments = b.segments]
    BY <1>4, <1>5, <1>7, <1>8, HostRebuilt
  <2> QED
    BY <1>4, <1>5, <1>12, <2>1 DEF Fresh
<1>14. hosted \in Builders
  <2>1. <<>> \in Texts /\ [n \in Names |-> {}] \in Queries
    BY FreshType DEF Fresh, Builders
  <2> QED
    BY <1>13, <2>1 DEF Builders
<1>15. queried = [hosted EXCEPT !.query = b.query]
  BY <1>1, <1>9, <1>13, <1>14, QueryReadBack
<1>16. queried \in Builders /\ queried.fragment = <<>>
  BY <1>13, <1>14, <1>15 DEF Builders
<1>17. whole = [queried EXCEPT !.fragment = b.fragment]
  BY <1>1, <1>10, <1>16, FragmentReadBack
<1>18. whole = [b EXCEPT !.port = port]
  <2>1. whole = [scheme |-> b.scheme, host |-> b.host, port |-> port,
                 segments |-> b.segments, query |-> b.query,
                 fragment |-> b.fragment]
    BY <1>13, <1>15, <1>17
  <2> QED
    BY <2>1 DEF Builders
<1>19. WithPort(b) = [b EXCEPT !.port = port]
  BY <1>12 DEF WithPort, MeantPort
<1> QED
  BY <1>1, <1>11, <1>18, <1>19

-----------------------------------------------------------------------------
(* The specification.                                                      *)

UrlInv == builder \in Builders

LEMMA UrlStep ==
  ASSUME UrlInv, [UrlNext]_builder
  PROVE  UrlInv'
<1>1. PICK b \in Builders : b = builder
  BY DEF UrlInv
<1>2. ASSUME NEW scheme \in Schemes, builder' = Scheme(b, scheme)
      PROVE  UrlInv'
  BY <1>2 DEF UrlInv, Scheme, Builders
<1>3. ASSUME NEW host \in Hosts, builder' = Host(b, host)
      PROVE  UrlInv'
  <2>1. <<>> \in Texts
    BY DEF Texts
  <2> QED
    BY <1>3, <2>1, FieldTypes DEF UrlInv, Host
<1>4. ASSUME NEW port \in Ports, builder' = Port(b, port)
      PROVE  UrlInv'
  <2>1. PICK n \in Int : n = port
    BY UrlAssumption
  <2>2. n \in PortNumbers /\ -1 \in PortNumbers
    BY <2>1 DEF PortNumbers
  <2>3. CASE n \in 1 .. MaxPort
    <3>1. builder' = [b EXCEPT !.port = n]
      BY <1>4, <2>1, <2>3 DEF Port
    <3> QED
      BY <2>2, <3>1, FieldTypes DEF UrlInv
  <2>4. CASE n \notin 1 .. MaxPort
    <3>1. builder' = [b EXCEPT !.port = -1]
      BY <1>4, <2>1, <2>4 DEF Port
    <3> QED
      BY <2>2, <3>1, FieldTypes DEF UrlInv
  <2> QED
    BY <2>3, <2>4
<1>5. ASSUME Appends(b)
      PROVE  UrlInv'
  BY <1>5, PushSegmentType, AddSegmentsType, CallTexts DEF UrlInv, Appends
<1>6. ASSUME NEW index \in 0 .. MaxSegments + 1,
             \/ builder' = RemovePathSegment(b, index)
             \/ \E segment \in Segments :
                  builder' = SetEncodedPathSegment(b, index, segment)
      PROVE  UrlInv'
  <2>1. index \in Nat
    BY UrlAssumption
  <2> QED
    BY <1>6, <2>1, RemoveSegmentType, SetSegmentType, CallTexts DEF UrlInv
<1>7. ASSUME NEW name \in Names,
             \/ builder' = RemoveName(b, name)
             \/ \E value \in Values :
                  \/ builder' = AddEncodedQueryParameter(b, name, value)
                  \/ builder' = RemoveValue(b, name, value)
      PROVE  UrlInv'
  <2>1. name \in Texts /\ <<>> \in Texts
    BY CallTexts DEF Texts
  <2>2. RemoveName(b, name) \in Builders
    BY <2>1, QueryType
  <2>3. \A value \in Values :
          /\ AddEncodedQueryParameter(b, name, value) \in Builders
          /\ RemoveValue(b, name, value) \in Builders
    BY <2>1, QueryType, CallTexts
  <2> QED
    BY <1>7, <2>2, <2>3 DEF UrlInv
<1>8. ASSUME NEW fragment \in Fragments,
             builder' = AddEncodedFragment(b, fragment)
      PROVE  UrlInv'
  BY <1>8, FragmentType, CallTexts DEF UrlInv
<1>9. ASSUME NEW text \in Urls, builder' = Parse(b, text).b
      PROVE  UrlInv'
  BY <1>9, ParseType, CallTexts DEF UrlInv
<1>10. CASE UNCHANGED builder
  BY <1>10 DEF UrlInv
<1> QED
  BY <1>1, <1>2, <1>3, <1>4, <1>5, <1>6, <1>7, <1>8, <1>9, <1>10 DEF UrlNext

(* Whatever is called and parsed, a Builder is one: what lies behind       *)
(* UrlTypeCorrect and PathsNormal.                                         *)
THEOREM UrlInvariance == UrlSpec => []UrlInv
<1>1. UrlInit => UrlInv
  BY FreshType DEF UrlInit, UrlInv
<1>2. UrlInv /\ [UrlNext]_builder => UrlInv'
  BY UrlStep
<1> QED
  BY <1>1, <1>2, PTL DEF UrlSpec

(* The fields of a Builder keep their types.                               *)
THEOREM UrlTypeCorrect == UrlSpec => []UrlTypeOK
<1>1. UrlInv => UrlTypeOK
  BY DEF UrlInv, UrlTypeOK, Builders, Queries, PortNumbers
<1> QED
  BY <1>1, UrlInvariance, PTL

(* However segments are added, replaced, removed or parsed, from whatever  *)
(* text, none is empty, "." or "..".                                       *)
THEOREM PathsNormal == UrlSpec => []SegmentsNormal
<1>1. UrlInv => SegmentsNormal
  <2> SUFFICES ASSUME UrlInv
               PROVE  SegmentsNormal
    OBVIOUS
  <2>1. PICK segments \in Seq(Normal) : segments = builder.segments
    BY DEF UrlInv, Builders
  <2>2. \A i \in DOMAIN segments : segments[i] \in Normal
    OBVIOUS
  <2> QED
    BY <2>1, <2>2 DEF SegmentsNormal, Normal
<1> QED
  BY <1>1, UrlInvariance, PTL

(* The getters of an HttpUrl: the path and the query that are found in the *)
(* text of any Builder that can be taken apart are those it was built      *)
(* from.                                                                   *)
THEOREM GettersAnswer == UrlSpec => []GettersAgree
<1>1. UrlInv => GettersAgree
  <2> SUFFICES ASSUME UrlInv, Readable(builder)
               PROVE  GettersAgree
    BY DEF GettersAgree
  <2>1. PICK b \in Builders : b = builder /\ Readable(b)
    BY DEF UrlInv
  <2>2. EncodedPath(Build(b)) = Joined(b.segments, <<"/">>)
    BY <2>1, PathEncoded DEF PathText
  <2>3. CASE Named(b) = {}
    <3>1. EncodedQuery(Build(b)) = <<>>
      BY <2>1, <2>3, QueryFound DEF EncodedQuery, Build
    <3> QED
      BY <2>1, <2>2, <2>3, <3>1, NoPieces DEF GettersAgree
  <2>4. CASE Named(b) # {}
    <3>1. EncodedQuery(Build(b)) = QueryText(b)
      BY <2>1, <2>4, QueryFound, QueryRead DEF EncodedQuery, Build
    <3>2. Pieces(QueryText(b), "&") = Parameters(b)
      BY <2>1, <2>4, QueryTextType
    <3> QED
      BY <2>1, <2>2, <2>4, <3>1, <3>2 DEF GettersAgree
  <2> QED
    BY <2>3, <2>4
<1> QED
  BY <1>1, UrlInvariance, PTL

(* ToString and Parse are inverse to each other: whatever a Builder that   *)
(* can be taken apart holds, it is what its URL is parsed to.              *)
THEOREM RoundTrips == UrlSpec => []RoundTrip
<1>1. UrlInv => RoundTrip
  <2> SUFFICES ASSUME UrlInv, Readable(builder),
                      Last(ToText(builder)) \notin ToSet(Blanks)
               PROVE  RoundTrip
    BY DEF RoundTrip
  <2>1. PICK b \in Builders : b = builder
    BY DEF UrlInv
  <2>2. Parse(Fresh, ToText(b)) = Outcome("true", WithPort(b))
    BY <2>1, ParsedBack
  <2> QED
    BY <2>1, <2>2 DEF RoundTrip
<1> QED
  BY <1>1, UrlInvariance, PTL

=============================================================================
