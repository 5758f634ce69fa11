---------------------------- MODULE GccPhat_proofs ----------------------------
(***************************************************************************)
(* Proofs about FftPlans and GccPhat, for any sample counts, levels and    *)
(* margins.                                                                *)
(***************************************************************************)
EXTENDS GccPhat, WellFoundedInduction, TLAPS

-----------------------------------------------------------------------------
(* Sets of numbers.                                                        *)

LEMMA LeastNat ==
  ASSUME NEW T \in SUBSET Nat, T # {}
  PROVE  \E x \in T : \A y \in T : x <= y
<1>1. PICK R : R = {pair \in Nat \X Nat : pair[1] < pair[2]}
  OBVIOUS
<1>2. IsWellFoundedOn(R, Nat)
  BY <1>1, NatLessThanWellFounded DEF OpToRel
<1>3. PICK x \in T : \A y \in T : ~ (<<y, x>> \in R)
  BY <1>2, WFMin
<1>4. ASSUME NEW y \in T
      PROVE  x <= y
  <2>1. x \in Nat /\ y \in Nat /\ <<y, x>> \in Nat \X Nat
    OBVIOUS
  <2>2. ~ (<<y, x>> \in R)
    BY <1>3
  <2>3. ~ (y < x)
    BY <1>1, <2>1, <2>2
  <2> QED
    BY <2>1, <2>3
<1> QED
  BY <1>4

(* A function has a first largest value on every interval of integers.     *)
LEMMA FirstLargestExists ==
  ASSUME NEW f, NEW from \in Int, NEW to \in Int, from <= to,
         \A i \in from .. to : f[i] \in Int
  PROVE  \E i \in from .. to :
           /\ \A j \in from .. to : f[j] <= f[i]
           /\ \A j \in from .. i - 1 : f[j] < f[i]
<1> DEFINE IsFirst(i, last) ==
             /\ \A j \in from .. last : f[j] <= f[i]
             /\ \A j \in from .. i - 1 : f[j] < f[i]
           Lacking == {k \in Nat : /\ from + k <= to
                                   /\ ~ \E i \in from .. from + k :
                                          IsFirst(i, from + k)}
<1>1. CASE Lacking = {}
  <2>1. PICK k \in Nat : from + k = to
    <3>1. to - from \in Nat /\ from + (to - from) = to
      OBVIOUS
    <3> QED
      BY <3>1
  <2>2. k \notin Lacking
    BY <1>1
  <2>3. \E i \in from .. from + k : IsFirst(i, from + k)
    BY <2>1, <2>2
  <2> QED
    BY <2>1, <2>3
<1>2. CASE Lacking # {}
  <2>1. PICK k \in Lacking : \A l \in Lacking : k <= l
    BY <1>2, LeastNat
  <2>2. /\ k \in Nat /\ from + k <= to /\ from + k \in Int
        /\ ~ \E i \in from .. from + k : IsFirst(i, from + k)
    BY <2>1
  <2>3. CASE k = 0
    <3>1. IsFirst(from, from + k)
      BY <2>2, <2>3
    <3> QED
      BY <2>2, <2>3, <3>1
  <2>4. CASE k # 0
    <3>1. /\ k - 1 \in Nat /\ from + (k - 1) <= to
          /\ from + (k - 1) = (from + k) - 1
          /\ k - 1 \notin Lacking
      <4>1. k - 1 \in Nat /\ ~ (k <= k - 1)
        BY <2>2, <2>4
      <4>2. k - 1 \notin Lacking
        BY <2>1, <4>1
      <4>3. from + (k - 1) <= to /\ from + (k - 1) = (from + k) - 1
        BY <2>2
      <4> QED
        BY <4>1, <4>2, <4>3
    <3>2. PICK i \in from .. from + (k - 1) : IsFirst(i, from + (k - 1))
      BY <3>1
    <3>3. PICK last \in Int : last = from + k
      BY <2>2
    <3>4. /\ f[i] \in Int /\ f[last] \in Int /\ i \in Int
          /\ from <= i /\ i <= last - 1 /\ last <= to
      BY <2>2, <3>1, <3>2, <3>3
    <3>5. /\ \A j \in from .. last - 1 : f[j] <= f[i] /\ f[j] \in Int
          /\ \A j \in from .. i - 1 : f[j] < f[i]
      BY <2>2, <3>1, <3>2, <3>3
    <3>6. CASE f[i] < f[last]
      <4>1. \A j \in from .. last - 1 : f[j] < f[last]
        BY <3>4, <3>5, <3>6
      <4>2. IsFirst(last, last)
        BY <3>4, <4>1
      <4> QED
        BY <2>2, <3>3, <3>4, <4>2
    <3>7. CASE ~ (f[i] < f[last])
      <4>1. IsFirst(i, last)
        BY <3>4, <3>5, <3>7
      <4> QED
        BY <2>2, <3>3, <3>4, <4>1
    <3> QED
      BY <3>6, <3>7
  <2> QED
    BY <2>3, <2>4
<1> QED
  BY <1>1, <1>2

LEMMA FirstLargestFacts ==
  ASSUME NEW f, NEW from \in Int, NEW to \in Int, from <= to,
         \A i \in from .. to : f[i] \in Int
  PROVE  /\ FirstLargest(f, from, to) \in from .. to
         /\ \A j \in from .. to : f[j] <= f[FirstLargest(f, from, to)]
  BY FirstLargestExists DEF FirstLargest

(* The remainder of what lies within one circle of 0 .. n - 1.             *)
LEMMA ModFacts ==
  ASSUME NEW n \in Nat \ {0}, NEW x \in Int
  PROVE  /\ - n <= x /\ x < 0 => x % n = x + n
         /\ 0 <= x /\ x < n => x % n = x
         /\ n <= x /\ x < n + n => x % n = x - n
  OBVIOUS

-----------------------------------------------------------------------------
(* The window.                                                             *)

LEMMA HalfFacts ==
  ASSUME NEW n \in Nat
  PROVE  /\ Half(n) \in Nat
         /\ n <= 2 * Half(n) /\ 2 * Half(n) <= n + 1
  BY DEF Half

(* What Execute makes of a margin: the margin, as far as it is short of    *)
(* the middle of the correlation.                                          *)
Short(n, m) == IF m < n - Half(n) THEN m ELSE n - Half(n) - 1

LEMMA NewMarginFacts ==
  ASSUME NEW n \in Nat \ {0, 1}, NEW m \in Nat
  PROVE  /\ NewMargin(n, m) = Short(n, m)
         /\ NewMargin(n, m) \in Nat
         /\ Half(n) \in Nat
         /\ NewMargin(n, m) <= Half(n)
         /\ Half(n) + NewMargin(n, m) < n
<1>1. PICK half \in Nat : half = Half(n) /\ n <= 2 * half /\ 2 * half <= n + 1
  BY HalfFacts
<1> QED
  BY <1>1 DEF NewMargin, Short

LEMMA WindowFacts ==
  ASSUME NEW n \in Nat \ {0, 1}, NEW m \in Nat
  PROVE  /\ Start(n, m) \in Nat /\ End(n, m) \in Nat
         /\ Start(n, m) = Half(n) - Short(n, m)
         /\ End(n, m) = Half(n) + Short(n, m)
         /\ Start(n, m) <= End(n, m) /\ End(n, m) < n
  BY NewMarginFacts DEF Start, End

(* With one sample, or a negative margin, the window has a negative length.*)
LEMMA NoWindow ==
  ASSUME NEW n \in Nat \ {0}, NEW m \in Int, n = 1 \/ m < 0
  PROVE  ~ (Start(n, m) <= End(n, m))
<1>1. PICK half \in Nat : half = Half(n) /\ n <= 2 * half /\ 2 * half <= n + 1
  BY HalfFacts
<1>2. PICK new : new = NewMargin(n, m)
  OBVIOUS
<1>3. new \in Int /\ new < 0
  <2>1. CASE m < 0
    <3>1. ~ (half - m < 0) /\ ~ (half + m >= n)
      BY <1>1, <2>1
    <3>2. new = m
      BY <1>1, <1>2, <3>1 DEF NewMargin
    <3> QED
      BY <2>1, <3>2
  <2>2. CASE n = 1 /\ m >= 0
    <3>1. half = 1
      BY <1>1, <2>2
    <3>2. new = n - 1 - half
      BY <1>1, <1>2, <2>2, <3>1 DEF NewMargin
    <3> QED
      BY <2>2, <3>1, <3>2
  <2> QED
    BY <2>1, <2>2
<1> QED
  BY <1>1, <1>2, <1>3 DEF Start, End

LEMMA InBoundsFacts ==
  ASSUME NEW n \in Nat \ {0}, NEW m \in Int
  PROVE  InBounds(n, m) <=> n >= 2 /\ m >= 0
<1>1. CASE n >= 2 /\ m >= 0
  <2>1. n \in Nat \ {0, 1} /\ m \in Nat
    BY <1>1
  <2> QED
    BY <1>1, <2>1, WindowFacts DEF InBounds
<1>2. CASE ~ (n >= 2 /\ m >= 0)
  BY <1>2, NoWindow DEF InBounds
<1> QED
  BY <1>1, <1>2

(* The lag to which the element of the window belongs that Execute counts  *)
(* as lag.                                                                 *)
True(n, lag) == lag + 2 * Half(n) - n

LEMMA TrueFacts ==
  ASSUME NEW n \in Nat, NEW lag \in Int
  PROVE  /\ n % 2 = 0 => True(n, lag) = lag
         /\ n % 2 = 1 => True(n, lag) = lag + 1
<1>1. PICK half : half = Half(n)
  OBVIOUS
<1>2. half \in Nat /\ n % 2 = 0 => 2 * half = n
  BY <1>1 DEF Half
<1>3. half \in Nat /\ n % 2 = 1 => 2 * half = n + 1
  BY <1>1 DEF Half
<1>4. half \in Nat
  BY <1>1, HalfFacts
<1> QED
  BY <1>1, <1>2, <1>3, <1>4 DEF True

(* The lag that is returned lies within the margin, and the correlation at *)
(* no other lag within it is larger.                                       *)
LEMMA ArgMaxFacts ==
  ASSUME NEW n \in Nat \ {0, 1}, NEW m \in Nat, NEW c \in [0 .. n - 1 -> Int]
  PROVE  /\ ArgMax(n, c, m) \in - Short(n, m) .. Short(n, m)
         /\ \A lag \in - Short(n, m) .. Short(n, m) :
              c[True(n, lag) % n] <= c[True(n, ArgMax(n, c, m)) % n]
<1>1. PICK half \in Nat : half = Half(n) /\ n <= 2 * half /\ 2 * half <= n + 1
  BY HalfFacts
<1>2. PICK short \in Nat :
        /\ short = Short(n, m) /\ short = NewMargin(n, m)
        /\ short <= half /\ half + short < n
  BY <1>1, NewMarginFacts
<1>3. PICK from \in Nat : from = Start(n, m) /\ from = half - short
  <2>1. Start(n, m) \in Nat /\ Start(n, m) = Half(n) - Short(n, m)
    BY WindowFacts
  <2> QED
    BY <1>1, <1>2, <2>1
<1>4. PICK to \in Nat : to = End(n, m) /\ to = half + short
  <2>1. End(n, m) \in Nat /\ End(n, m) = Half(n) + Short(n, m)
    BY WindowFacts
  <2> QED
    BY <1>1, <1>2, <2>1
<1>5. PICK f : f = Shifted(n, c)
  OBVIOUS
(* Element half + lag of what is searched belongs to that lag.             *)
<1>6. ASSUME NEW lag \in - short .. short
      PROVE  /\ half + lag \in from .. to
             /\ f[half + lag] = c[True(n, lag) % n]
             /\ f[half + lag] \in Int
  <2>1. half + lag \in from .. to /\ half + lag \in 0 .. n - 1 /\ lag \in Int
    <3>1. lag \in Int /\ - short <= lag /\ lag <= short
      OBVIOUS
    <3>2. from = half - short /\ to = half + short
      BY <1>3, <1>4
    <3>3. short \in Nat /\ short <= half /\ half + short < n
      BY <1>2
    <3> QED
      BY <3>1, <3>2, <3>3
  <2>2. f[half + lag] = c[(half + lag + half) % n]
    BY <1>1, <1>5, <2>1 DEF Shifted
  <2>3. PICK x \in Int : x = lag + 2 * half
    BY <2>1
  <2>4. half + lag + half = x /\ True(n, lag) = x - n
    <3>1. True(n, lag) = lag + 2 * half - n
      BY <1>1 DEF True
    <3> QED
      BY <2>1, <2>3, <3>1
  <2>5. 0 <= x /\ x < n + n
    <3>1. lag \in Int /\ - half <= lag /\ lag + half < n
      BY <1>2
    <3>2. half <= n
      BY <1>1
    <3> QED
      BY <2>3, <3>1, <3>2
  <2>6. x % n = (x - n) % n /\ x % n \in 0 .. n - 1
    <3>1. CASE x < n
      <4>1. x - n \in Int /\ - n <= x - n /\ x - n < 0 /\ (x - n) + n = x
        BY <2>3, <2>5, <3>1
      <4>2. (x - n) % n = x
        BY <4>1, ModFacts
      <4>3. x % n = x
        BY <2>5, <3>1, ModFacts
      <4> QED
        BY <2>5, <3>1, <4>2, <4>3
    <3>2. CASE n <= x
      <4>1. x - n \in Int /\ 0 <= x - n /\ x - n < n
        BY <2>3, <2>5, <3>2
      <4>2. (x - n) % n = x - n
        BY <4>1, ModFacts
      <4>3. x % n = x - n
        BY <2>5, <3>2, ModFacts
      <4> QED
        BY <4>1, <4>2, <4>3
    <3> QED
      BY <3>1, <3>2
  <2> QED
    BY <2>1, <2>2, <2>4, <2>6
<1>7. \A i \in from .. to : i - half \in - short .. short
                              /\ half + (i - half) = i
  BY <1>3, <1>4
<1>8. \A i \in from .. to : f[i] \in Int
  BY <1>6, <1>7
<1>9. PICK i : i = FirstLargest(f, from, to)
  OBVIOUS
<1>10. i \in from .. to /\ \A j \in from .. to : f[j] <= f[i]
  BY <1>3, <1>4, <1>8, <1>9, FirstLargestFacts
<1>11. ArgMax(n, c, m) = i - half
  <2>1. ArgMax(n, c, m) = i - from - short
    BY <1>2, <1>3, <1>4, <1>5, <1>9 DEF ArgMax
  <2> QED
    BY <1>3, <1>4, <1>10, <2>1
<1>12. PICK best : best = i - half
  OBVIOUS
<1>13. best \in - short .. short /\ half + best = i
  BY <1>7, <1>10, <1>12
<1>14. ASSUME NEW lag \in - short .. short
       PROVE  c[True(n, lag) % n] <= c[True(n, best) % n]
  <2>1. f[half + lag] <= f[half + best]
    BY <1>6, <1>10, <1>13
  <2> QED
    BY <1>6, <1>13, <2>1
<1> QED
  BY <1>2, <1>11, <1>12, <1>13, <1>14

-----------------------------------------------------------------------------
(* The objects and their plans.                                            *)

Objects == [alive : BOOLEAN, count : Counts \cup {0}, plan : Nat,
            arrays : BOOLEAN]

(* The plans that an object should have.                                   *)
Current == DOMAIN live \ overwritten

(* An object that was not initialised has no plan, one that was terminated *)
(* has the name of a plan that is gone and will not be given again.        *)
PlansInv ==
  /\ object \in [Kinds -> Objects]
  /\ use \in [Kinds -> Uses]
  /\ made \in Nat
  /\ DOMAIN live \subseteq 1 .. made
  /\ overwritten \subseteq DOMAIN live
  /\ \A k \in Kinds : object[k].plan <= made
  /\ \A k \in Kinds : use[k] = "none" => object[k].plan = Null
  /\ \A k \in Kinds : use[k] = "terminated" => object[k].plan \notin DOMAIN live
  /\ \A k \in Kinds : use[k] # "none" => object[k].alive
  /\ PlansOwned

(* What belongs to a plan that exists, and what does not exist, of the     *)
(* object that is about to change.                                         *)
LEMMA PlanFacts ==
  ASSUME PlansInv, NEW k \in Kinds
  PROVE  /\ object[k].plan \notin overwritten
         /\ use[k] # "ready" => object[k].plan \notin DOMAIN live
         /\ use[k] = "ready" => /\ object[k].plan \in DOMAIN live
                               /\ object[k].arrays
         /\ use[k] # "terminated" => ~Dead(object[k].plan)
         /\ object[k].plan \in Nat
<1>1. use[k] \in Uses
  BY DEF PlansInv
<1>2. CASE use[k] = "none"
  BY <1>2 DEF PlansInv, Null, Dead, Objects
<1>3. CASE use[k] = "ready"
  BY <1>3 DEF PlansInv, PlansOwned, Dead, Objects
<1>4. CASE use[k] = "terminated"
  BY <1>4 DEF PlansInv, Objects
<1> QED
  BY <1>1, <1>2, <1>3, <1>4 DEF Uses

LEMMA OthersPlan ==
  ASSUME PlansInv, NEW k \in Kinds, NEW j \in Kinds \ {k}, use[j] = "ready"
  PROVE  object[j].plan \in Current \ {object[k].plan}
<1>1. object[j].plan \in Current
  BY DEF PlansInv, PlansOwned, Current
<1>2. CASE use[k] = "ready" /\ object[k].plan = object[j].plan
  <2>1. object[j].plan \in DOMAIN live
    BY <1>1 DEF Current
  <2>2. ~ (Owns("fft", object[j].plan) /\ Owns("ifft", object[j].plan))
    BY <2>1 DEF PlansInv, PlansOwned
  <2> QED
    BY <1>2, <2>2 DEF Owns, Kinds
<1>3. CASE use[k] # "ready"
  BY <1>1, <1>3, PlanFacts DEF Current
<1> QED
  BY <1>1, <1>2, <1>3

(* Object k gives up its plan and does not get another one.                *)
Loses(k, o, u) ==
  /\ Become(k, o, u)
  /\ made' = made
  /\ DOMAIN live' \subseteq DOMAIN live
  /\ \A p \in DOMAIN live' : live'[p] = live[p]
  /\ overwritten' \subseteq DOMAIN live'
  /\ Current' = Current \ {object[k].plan}

LEMMA LosesStep ==
  ASSUME PlansInv, NEW k \in Kinds, NEW o \in Objects, NEW u, Loses(k, o, u),
         \/ u = "none" /\ o.plan = Null
         \/ /\ u = "terminated" /\ o.plan = object[k].plan /\ o.alive
            /\ o.plan \notin DOMAIN live'
  PROVE  PlansInv'
<1>1. /\ object' \in [Kinds -> Objects] /\ use' \in [Kinds -> Uses]
      /\ object'[k] = o /\ use'[k] = u /\ u # "ready"
      /\ \A j \in Kinds \ {k} : object'[j] = object[j] /\ use'[j] = use[j]
  BY DEF PlansInv, Loses, Become, Uses
<1>2. \A p : \A j \in Kinds \ {k} : Owns(j, p)' <=> Owns(j, p)
  BY <1>1 DEF Owns
<1>3. \A p : ~ Owns(k, p)'
  BY <1>1 DEF Owns
<1>4. ASSUME NEW j \in Kinds, use'[j] = "ready"
      PROVE  /\ object'[j].alive
             /\ object'[j].arrays
             /\ object'[j].plan \in DOMAIN live' \ overwritten'
             /\ live'[object'[j].plan] = object'[j].count
  <2>1. j # k /\ use[j] = "ready" /\ object'[j] = object[j]
    BY <1>1, <1>4
  <2>2. object[j].plan \in Current'
    BY <2>1, OthersPlan DEF Loses
  <2> QED
    BY <2>1, <2>2 DEF Loses, PlansInv, PlansOwned, Current
<1>5. ASSUME NEW p \in DOMAIN live' \ overwritten'
      PROVE  \E j \in Kinds : Owns(j, p)'
  <2>1. p \in Current /\ p # object[k].plan
    BY <1>5 DEF Loses, Current
  <2>2. PICK j \in Kinds : Owns(j, p)
    BY <2>1 DEF PlansInv, PlansOwned, Current
  <2>3. j # k
    BY <2>1, <2>2 DEF Owns
  <2> QED
    BY <1>2, <2>2, <2>3
<1>6. \A p \in DOMAIN live' : ~ (Owns("fft", p)' /\ Owns("ifft", p)')
  BY <1>3 DEF Kinds
<1>7. PlansOwned'
  BY <1>4, <1>5, <1>6 DEF PlansOwned
<1>8. \A j \in Kinds : object'[j].plan <= made'
  BY <1>1, PlanFacts DEF PlansInv, Loses, Null
<1>9. \A j \in Kinds : use'[j] = "none" => object'[j].plan = Null
  BY <1>1 DEF PlansInv
<1>10. \A j \in Kinds :
         use'[j] = "terminated" => object'[j].plan \notin DOMAIN live'
  BY <1>1 DEF PlansInv, Loses
<1>11. \A j \in Kinds : use'[j] # "none" => object'[j].alive
  BY <1>1 DEF PlansInv
<1>12. /\ made' \in Nat /\ DOMAIN live' \subseteq 1 .. made'
       /\ overwritten' \subseteq DOMAIN live'
  BY DEF PlansInv, Loses
<1> QED
  BY <1>1, <1>7, <1>8, <1>9, <1>10, <1>11, <1>12 DEF PlansInv

(* Object k gives up its plan for a new one.                               *)
Gains(k, count) ==
  /\ made' = made + 1
  /\ Become(k, [alive |-> TRUE, count |-> count, plan |-> made',
                arrays |-> TRUE], "ready")
  /\ DOMAIN live' \subseteq DOMAIN live \cup {made'}
  /\ made' \in DOMAIN live' /\ live'[made'] = count
  /\ \A p \in DOMAIN live' \ {made'} : live'[p] = live[p]
  /\ overwritten' \subseteq DOMAIN live' \ {made'}
  /\ Current' = (Current \ {object[k].plan}) \cup {made'}

LEMMA GainsStep ==
  ASSUME PlansInv, NEW k \in Kinds, NEW count \in Counts, Gains(k, count)
  PROVE  PlansInv'
<1>1. PICK new : new = made'
  OBVIOUS
<1>2. PICK o : o = [alive |-> TRUE, count |-> count, plan |-> new,
                    arrays |-> TRUE]
  OBVIOUS
<1>3. /\ made \in Nat /\ new = made + 1 /\ new \in Nat
      /\ new \notin DOMAIN live /\ DOMAIN live \subseteq 1 .. new
      /\ new \in 1 .. new
  BY <1>1 DEF Gains, PlansInv
<1>4. /\ o \in Objects /\ o.alive /\ o.count = count /\ o.plan = new
      /\ o.arrays
  BY <1>2, <1>3 DEF Objects
<1>5. /\ object' = [object EXCEPT ![k] = o]
      /\ use' = [use EXCEPT ![k] = "ready"]
  BY <1>1, <1>2 DEF Gains, Become
<1>6. /\ object' \in [Kinds -> Objects] /\ use' \in [Kinds -> Uses]
      /\ object'[k] = o /\ use'[k] = "ready"
      /\ \A j \in Kinds \ {k} : object'[j] = object[j] /\ use'[j] = use[j]
  BY <1>4, <1>5 DEF PlansInv, Uses
<1>7. \A p : \A j \in Kinds \ {k} : Owns(j, p)' <=> Owns(j, p)
  BY <1>6 DEF Owns
<1>8. \A p : Owns(k, p)' <=> p = new
  BY <1>4, <1>6 DEF Owns
<1>9. ASSUME NEW j \in Kinds, use'[j] = "ready"
      PROVE  /\ object'[j].alive
             /\ object'[j].arrays
             /\ object'[j].plan \in DOMAIN live' \ overwritten'
             /\ live'[object'[j].plan] = object'[j].count
  <2>1. CASE j = k
    BY <1>1, <1>4, <1>6, <2>1 DEF Gains
  <2>2. CASE j # k
    <3>1. use[j] = "ready" /\ object'[j] = object[j]
      BY <1>6, <1>9, <2>2
    <3>2. object[j].plan \in Current' /\ object[j].plan \in DOMAIN live
      BY <2>2, <3>1, OthersPlan DEF Gains, Current
    <3>3. object[j].plan # new
      BY <1>3, <3>2
    <3> QED
      BY <1>1, <3>1, <3>2, <3>3 DEF Gains, PlansInv, PlansOwned, Current
  <2> QED
    BY <2>1, <2>2
<1>10. ASSUME NEW p \in DOMAIN live' \ overwritten'
       PROVE  \E j \in Kinds : Owns(j, p)'
  <2>1. CASE p = new
    BY <1>8, <2>1
  <2>2. CASE p # new
    <3>1. p \in Current /\ p # object[k].plan
      BY <1>1, <1>10, <2>2 DEF Gains, Current
    <3>2. PICK j \in Kinds : Owns(j, p)
      BY <3>1 DEF PlansInv, PlansOwned, Current
    <3>3. j # k
      BY <3>1, <3>2 DEF Owns
    <3> QED
      BY <1>7, <3>2, <3>3
  <2> QED
    BY <2>1, <2>2
<1>11. \A p \in DOMAIN live' : ~ (Owns("fft", p)' /\ Owns("ifft", p)')
  <2>1. ASSUME NEW j \in Kinds \ {k}
        PROVE  ~ Owns(j, new)
    <3>1. Owns(j, new) => object[j].plan \in DOMAIN live /\ object[j].plan = new
      BY PlanFacts DEF Owns
    <3> QED
      BY <1>3, <3>1
  <2> QED
    BY <1>7, <1>8, <2>1 DEF Kinds
<1>12. PlansOwned'
  BY <1>9, <1>10, <1>11 DEF PlansOwned
<1>13. \A j \in Kinds : object'[j].plan <= made'
  BY <1>1, <1>3, <1>4, <1>6, PlanFacts DEF PlansInv
<1>14. \A j \in Kinds : use'[j] = "none" => object'[j].plan = Null
  BY <1>6 DEF PlansInv
<1>15. \A j \in Kinds :
         use'[j] = "terminated" => object'[j].plan \notin DOMAIN live'
  <2>1. ASSUME NEW j \in Kinds, use'[j] = "terminated"
        PROVE  object'[j].plan \notin DOMAIN live'
    <3>1. /\ use[j] = "terminated" /\ object'[j] = object[j]
          /\ object[j].plan \in Nat /\ object[j].plan <= made
          /\ object[j].plan \notin DOMAIN live
      BY <1>6, <2>1, PlanFacts DEF PlansInv
    <3>2. object[j].plan # new
      BY <1>3, <3>1
    <3> QED
      BY <1>1, <3>1, <3>2 DEF Gains
  <2> QED
    BY <2>1
<1>16. \A j \in Kinds : use'[j] # "none" => object'[j].alive
  BY <1>4, <1>6 DEF PlansInv
<1>17. DOMAIN live' \subseteq 1 .. made'
  BY <1>1, <1>3 DEF Gains
<1>18. made' \in Nat /\ overwritten' \subseteq DOMAIN live'
  BY <1>1, <1>3 DEF Gains
<1> QED
  BY <1>6, <1>12, <1>13, <1>14, <1>15, <1>16, <1>17, <1>18 DEF PlansInv

LEMMA WithoutFacts ==
  ASSUME PlansInv, NEW k \in Kinds, live' = Without(live, object[k].plan),
         UNCHANGED overwritten
  PROVE  /\ DOMAIN live' = DOMAIN live \ {object[k].plan}
         /\ \A p \in DOMAIN live' : live'[p] = live[p]
         /\ overwritten' \subseteq DOMAIN live'
         /\ Current' = Current \ {object[k].plan}
<1>1. /\ DOMAIN live' = DOMAIN live \ {object[k].plan}
      /\ \A p \in DOMAIN live' : live'[p] = live[p]
  BY DEF Without
<1>2. object[k].plan \notin overwritten
  BY PlanFacts
<1> QED
  BY <1>1, <1>2 DEF PlansInv, Current

LEMMA AbsentFacts ==
  /\ Absent \in Objects /\ Absent.plan = Null /\ ~Absent.alive
  /\ [Absent EXCEPT !.alive = TRUE] \in Objects
  /\ [Absent EXCEPT !.alive = TRUE].plan = Null
  /\ [Absent EXCEPT !.alive = TRUE].count = 0
  /\ [Absent EXCEPT !.alive = TRUE, !.arrays = TRUE] \in Objects
  /\ [Absent EXCEPT !.alive = TRUE, !.arrays = TRUE].plan = Null
  BY DEF Absent, Objects, Null

LEMMA CreateStep ==
  ASSUME PlansInv, NEW k \in Kinds, Create(k)
  PROVE  PlansInv'
<1>1. use[k] = "none" /\ object[k].plan = Null
  BY DEF Create, PlansInv
<1>2. object[k].plan \notin DOMAIN live
  BY <1>1, PlanFacts
<1>3. PICK o : o = [Absent EXCEPT !.alive = TRUE]
  OBVIOUS
<1>4. Loses(k, o, "none")
  BY <1>2, <1>3 DEF Create, Loses, PlansInv, Current
<1> QED
  BY <1>3, <1>4, AbsentFacts, LosesStep

LEMMA DestroyStep ==
  ASSUME PlansInv, NEW k \in Kinds, Destroy(k)
  PROVE  PlansInv'
<1>1. Loses(k, Absent, "none")
  BY WithoutFacts DEF Destroy, Loses
<1> QED
  BY <1>1, AbsentFacts, LosesStep

LEMMA TerminateStep ==
  ASSUME PlansInv, NEW k \in Kinds, Terminate(k)
  PROVE  PlansInv'
<1>1. PICK o : o = [object[k] EXCEPT !.arrays = FALSE]
  OBVIOUS
<1>2. PICK u : u = IF use[k] = "none" THEN "none" ELSE "terminated"
  OBVIOUS
<1>3. /\ object[k] \in Objects /\ object[k].alive
      /\ live' = Without(live, object[k].plan)
      /\ Become(k, o, u) /\ UNCHANGED <<made, overwritten>>
  BY <1>1, <1>2 DEF Terminate, PlansInv
<1>4. o \in Objects /\ o.plan = object[k].plan /\ o.alive
  BY <1>1, <1>3 DEF Objects
<1>5. Loses(k, o, u)
  BY <1>3, WithoutFacts DEF Loses
<1>6. o.plan \notin DOMAIN live'
  BY <1>3, <1>4, WithoutFacts
<1>7. u = "none" => o.plan = Null
  BY <1>2, <1>4 DEF PlansInv
<1> QED
  BY <1>2, <1>4, <1>5, <1>6, <1>7, LosesStep

(* What Init ends with, after the plan was destroyed or has been forgotten.*)
LEMMA MakePlanStep ==
  ASSUME PlansInv, NEW k \in Kinds, NEW count \in Counts,
         NEW plans, MakePlan(k, count, plans),
         DOMAIN plans \subseteq DOMAIN live,
         \A p \in DOMAIN plans : plans[p] = live[p],
         overwritten' \subseteq DOMAIN plans,
         DOMAIN plans \ overwritten' = Current \ {object[k].plan}
  PROVE  PlansInv'
<1>1. CASE count = 0
  <2>1. PICK o : o = [Absent EXCEPT !.alive = TRUE, !.arrays = TRUE]
    OBVIOUS
  <2>2. live' = plans /\ Become(k, o, "none") /\ made' = made
    BY <1>1, <2>1 DEF MakePlan
  <2>3. Loses(k, o, "none")
    BY <2>2 DEF Loses, Current
  <2> QED
    BY <2>1, <2>3, AbsentFacts, LosesStep
<1>2. CASE count # 0
  <2>1. /\ made' = made + 1 /\ live' = With(plans, made', count)
        /\ Become(k, [alive |-> TRUE, count |-> count, plan |-> made',
                      arrays |-> TRUE], "ready")
    BY <1>2 DEF MakePlan
  <2>2. made' \notin DOMAIN live
    BY <2>1 DEF PlansInv
  <2>3. /\ DOMAIN live' = DOMAIN plans \cup {made'}
        /\ live'[made'] = count
        /\ \A p \in DOMAIN live' \ {made'} : live'[p] = plans[p]
    BY <2>1 DEF With
  <2>4. made' \notin overwritten'
    BY <2>2
  <2>5. Current' = (Current \ {object[k].plan}) \cup {made'}
    BY <2>3, <2>4 DEF Current
  <2>6. /\ DOMAIN live' \subseteq DOMAIN live \cup {made'}
        /\ made' \in DOMAIN live'
        /\ \A p \in DOMAIN live' \ {made'} : live'[p] = live[p]
        /\ overwritten' \subseteq DOMAIN live' \ {made'}
    BY <2>3, <2>4
  <2> QED
    BY <2>1, <2>3, <2>5, <2>6, GainsStep DEF Gains
<1> QED
  BY <1>1, <1>2

LEMMA InitFFTStep ==
  ASSUME PlansInv, NEW count \in Counts, InitFFT(count)
  PROVE  PlansInv'
<1>1. /\ "fft" \in Kinds /\ MakePlan("fft", count, live)
      /\ overwritten' = overwritten \cup ({object["fft"].plan} \cap DOMAIN live)
  BY DEF InitFFT, Kinds
<1>2. /\ overwritten' \subseteq DOMAIN live
      /\ DOMAIN live \ overwritten' = Current \ {object["fft"].plan}
  BY <1>1 DEF PlansInv, Current
<1> QED
  BY <1>1, <1>2, MakePlanStep

LEMMA InitIFFTStep ==
  ASSUME PlansInv, NEW count \in Counts, InitIFFT(count)
  PROVE  PlansInv'
<1>1. CASE UNCHANGED plansVars
  BY <1>1 DEF plansVars, PlansInv, PlansOwned, Owns
<1>2. CASE ~ UNCHANGED plansVars
  <2>1. "ifft" \in Kinds
    BY DEF Kinds
  <2>2. PICK plans : plans = Without(live, object["ifft"].plan)
    OBVIOUS
  <2>3. MakePlan("ifft", count, plans) /\ UNCHANGED overwritten
    BY <1>2, <2>2 DEF InitIFFT
  <2>4. /\ DOMAIN plans = DOMAIN live \ {object["ifft"].plan}
        /\ \A p \in DOMAIN plans : plans[p] = live[p]
    BY <2>2 DEF Without
  <2>5. object["ifft"].plan \notin overwritten
    BY <2>1, PlanFacts
  <2>6. /\ overwritten' \subseteq DOMAIN plans
        /\ DOMAIN plans \ overwritten' = Current \ {object["ifft"].plan}
    BY <2>3, <2>4, <2>5 DEF PlansInv, Current
  <2> QED
    BY <2>1, <2>3, <2>4, <2>6, MakePlanStep
<1> QED
  BY <1>1, <1>2

LEMMA SamePlans ==
  ASSUME PlansInv, UNCHANGED <<object, use, live, made, overwritten>>
  PROVE  PlansInv'
  BY DEF PlansInv, PlansOwned, Owns

LEMMA PlansStep ==
  ASSUME PlansInv, [PlansNext]_plansVars
  PROVE  PlansInv'
<1>1. ASSUME NEW k \in Kinds, Execute(k)
      PROVE  PlansInv'
  BY <1>1, SamePlans DEF Execute
<1>2. CASE UNCHANGED plansVars
  BY <1>2, SamePlans DEF plansVars
<1> QED
  BY <1>1, <1>2, CreateStep, DestroyStep, TerminateStep, InitFFTStep,
     InitIFFTStep DEF PlansNext

(* However an FFT and an IFFT are created, initialised, executed,          *)
(* terminated and destroyed, the invariant holds.                          *)
THEOREM PlansInvariance == PlansSpec => []PlansInv
<1>1. PlansInit => PlansInv
  BY DEF PlansInit, PlansInv, PlansOwned, Absent, Objects, Kinds, Uses, Null,
     Owns
<1>2. PlansInv /\ [PlansNext]_plansVars => PlansInv'
  BY PlansStep
<1> QED
  BY <1>1, <1>2, PTL DEF PlansSpec

(* Every plan of the FFTW library is owned by exactly one object that is   *)
(* ready, with the size it believes; none leaks over an Init with another  *)
(* size, a Terminate or a destructor, but for the plans an FFT forgets     *)
(* that is initialised again.                                              *)
THEOREM PlansAreOwned == PlansSpec => []PlansOwned
<1>1. PlansInv => PlansOwned
  BY DEF PlansInv
<1> QED
  BY <1>1, PlansInvariance, PTL

(* An object that is ready hands the library no plan that is gone,         *)
(* whatever was called before and is called now: misuse begins with        *)
(* Terminate, or with an object that was never initialised.                *)
THEOREM ReadyNeverMisuses == PlansSpec => ReadyIsUsable
<1>1. PlansInv /\ [PlansNext]_plansVars
        => [\A k \in misuse' \ misuse : use[k] # "ready"]_plansVars
  <2> SUFFICES ASSUME PlansInv, PlansNext,
                      NEW j \in misuse' \ misuse, use[j] = "ready"
               PROVE  FALSE
    OBVIOUS
  <2>1. ASSUME NEW k \in Kinds, NEW wrong, Note(k, wrong),
               use[k] = "ready" => ~wrong
        PROVE  FALSE
    BY <2>1 DEF Note
  <2>2. ASSUME NEW k \in Kinds, use[k] = "ready"
        PROVE  ~Dead(object[k].plan) /\ ~Unusable(k)
    BY <2>2, PlanFacts DEF Unusable
  <2>3. ASSUME NEW k \in Kinds, Execute(k) \/ Terminate(k) \/ Destroy(k)
        PROVE  FALSE
    BY <2>1, <2>2, <2>3 DEF Execute, Terminate, Destroy
  <2>4. ASSUME NEW k \in Kinds, Create(k)
        PROVE  FALSE
    BY <2>4 DEF Create
  <2>5. ASSUME NEW count \in Counts, InitFFT(count)
        PROVE  FALSE
    BY <2>5 DEF InitFFT
  <2>6. ASSUME NEW count \in Counts, InitIFFT(count)
        PROVE  FALSE
    <3>1. CASE UNCHANGED plansVars
      BY <3>1 DEF plansVars
    <3>2. CASE Note("ifft", Dead(object["ifft"].plan))
      BY <2>1, <2>2, <3>2 DEF Kinds
    <3> QED
      BY <2>6, <3>1, <3>2 DEF InitIFFT
  <2> QED
    BY <2>3, <2>4, <2>5, <2>6 DEF PlansNext
<1> QED
  BY <1>1, PlansInvariance, PTL DEF PlansSpec, ReadyIsUsable

-----------------------------------------------------------------------------
(* A GCCPhat and its calls.                                                *)

Gone(k) == ~object[k].alive

Blank(k) == object[k].alive /\ use[k] = "none" /\ object[k].count = 0

Initialised(k) ==
  /\ object[k].alive
  /\ samples = 0 => use[k] = "none"
  /\ samples # 0 => use[k] = "ready" /\ object[k].count = samples

(* How far the constructor or the destructor is tells the state of both    *)
(* transforms.                                                             *)
StageInv ==
  /\ stage \in Stages
  /\ samples \in Counts \cup {0}
  /\ stage # "absent" => samples \in Counts
  /\ stage = "absent" => Gone("fft")
  /\ stage = "fftMade" => Blank("fft")
  /\ stage \notin {"absent", "fftMade"} => Initialised("fft")
  /\ stage = "ifftMade" => Blank("ifft")
  /\ stage = "built" => Initialised("ifft")
  /\ stage \notin {"ifftMade", "built"} => Gone("ifft")
  /\ overwritten = {}
  /\ samples # 0 => misuse = {}

CallInv ==
  outcome = "returned" =>
    /\ stage = "built"
    /\ samples \in Nat \ {0, 1}
    /\ margin \in Nat
    /\ corr \in [0 .. samples - 1 -> Int]
    /\ argMax = ArgMax(samples, corr, margin)

MathInv == PlansInv /\ StageInv /\ CallInv

Others(k) ==
  \A j \in Kinds \ {k} : object'[j] = object[j] /\ use'[j] = use[j]

LEMMA BecomeFacts ==
  ASSUME PlansInv, NEW k \in Kinds, NEW o, NEW u, Become(k, o, u)
  PROVE  object'[k] = o /\ use'[k] = u /\ Others(k)
  BY DEF PlansInv, Become, Others

LEMMA CreateBlank ==
  ASSUME PlansInv, NEW k \in Kinds, Create(k)
  PROVE  Blank(k)' /\ Others(k) /\ UNCHANGED <<overwritten, misuse>>
<1>1. PICK o : o = [Absent EXCEPT !.alive = TRUE]
  OBVIOUS
<1>2. Become(k, o, "none") /\ UNCHANGED <<overwritten, misuse>>
  BY <1>1 DEF Create
<1>3. object'[k] = o /\ use'[k] = "none" /\ Others(k)
  BY <1>2, BecomeFacts
<1> QED
  BY <1>1, <1>2, <1>3 DEF Blank, Absent

LEMMA MakePlanInitialises ==
  ASSUME PlansInv, NEW k \in Kinds, NEW plans, MakePlan(k, samples, plans),
         UNCHANGED samples
  PROVE  Initialised(k)' /\ Others(k)
<1>1. PICK none : none = [Absent EXCEPT !.alive = TRUE, !.arrays = TRUE]
  OBVIOUS
<1>2. PICK full : full = [alive |-> TRUE, count |-> samples, plan |-> made',
                          arrays |-> TRUE]
  OBVIOUS
<1>3. CASE samples = 0
  <2>1. Become(k, none, "none")
    BY <1>1, <1>3 DEF MakePlan
  <2>2. object'[k] = none /\ use'[k] = "none" /\ Others(k)
    BY <2>1, BecomeFacts
  <2> QED
    BY <1>1, <1>3, <2>2 DEF Initialised, Absent
<1>4. CASE samples # 0
  <2>1. Become(k, full, "ready")
    BY <1>2, <1>4 DEF MakePlan
  <2>2. object'[k] = full /\ use'[k] = "ready" /\ Others(k)
    BY <2>1, BecomeFacts
  <2> QED
    BY <1>2, <1>4, <2>2 DEF Initialised
<1> QED
  BY <1>3, <1>4

LEMMA InitFFTInitialises ==
  ASSUME PlansInv, Blank("fft"), overwritten = {}, InitFFT(samples),
         UNCHANGED samples
  PROVE  /\ Initialised("fft")' /\ Others("fft")
         /\ overwritten' = {} /\ misuse' = misuse
<1>1. "fft" \in Kinds /\ MakePlan("fft", samples, live) /\ misuse' = misuse
  BY DEF InitFFT, Kinds
<1>2. object["fft"].plan \notin DOMAIN live
  BY <1>1, PlanFacts DEF Blank
<1>3. overwritten' = {}
  BY <1>2 DEF InitFFT
<1> QED
  BY <1>1, <1>3, MakePlanInitialises

LEMMA InitIFFTInitialises ==
  ASSUME PlansInv, Blank("ifft"), InitIFFT(samples), UNCHANGED samples,
         misuse = {}
  PROVE  /\ Initialised("ifft")' /\ Others("ifft")
         /\ overwritten' = overwritten /\ misuse' = {}
<1>1. "ifft" \in Kinds
  BY DEF Kinds
<1>2. CASE samples = 0
  <2>1. UNCHANGED plansVars
    BY <1>2 DEF InitIFFT, Blank
  <2> QED
    BY <1>2, <2>1 DEF Initialised, Blank, Others, plansVars
<1>3. CASE samples # 0
  <2>1. /\ Note("ifft", Dead(object["ifft"].plan))
        /\ MakePlan("ifft", samples, Without(live, object["ifft"].plan))
        /\ UNCHANGED overwritten
    BY <1>3 DEF InitIFFT, Blank
  <2>2. misuse' = {}
    BY <1>1, <2>1, PlanFacts DEF Note, Blank
  <2> QED
    BY <1>1, <2>1, <2>2, MakePlanInitialises
<1> QED
  BY <1>2, <1>3

LEMMA DestroyGone ==
  ASSUME PlansInv, NEW k \in Kinds, Initialised(k), misuse = {}, Destroy(k)
  PROVE  Gone(k)' /\ Others(k) /\ overwritten' = overwritten /\ misuse' = {}
<1>1. use[k] # "terminated"
  BY DEF Initialised
<1>2. misuse' = {}
  BY <1>1, PlanFacts DEF Destroy, Note
<1>3. object'[k] = Absent /\ Others(k)
  BY BecomeFacts DEF Destroy
<1> QED
  BY <1>2, <1>3, AbsentFacts DEF Gone, Destroy

LEMMA ConstructStep ==
  ASSUME MathInv, misuse = {}, Construct
  PROVE  MathInv'
<1> USE DEF MathInv
<1>1. CallInv'
  <2>1. stage # "built" /\ outcome' = outcome
    BY DEF Construct, Go, callVars
  <2> QED
    BY <2>1 DEF CallInv
<1>2. CASE Go("absent", "fftMade") /\ samples' \in Counts /\ Create("fft")
  <2>1. Blank("fft")' /\ Others("fft") /\ UNCHANGED <<overwritten, misuse>>
    BY <1>2, CreateBlank DEF Kinds
  <2>2. PlansInv'
    BY <1>2, CreateStep DEF Kinds
  <2>3. StageInv'
    BY <1>2, <2>1 DEF StageInv, Go, Stages, Others, Gone, Kinds
  <2> QED
    BY <1>1, <2>2, <2>3
<1>3. CASE Go("fftMade", "fftReady") /\ InitFFT(samples) /\ UNCHANGED samples
  <2>1. samples \in Counts /\ Blank("fft") /\ Gone("ifft") /\ overwritten = {}
    BY <1>3 DEF StageInv, Go
  <2>2. PlansInv'
    BY <1>3, <2>1, InitFFTStep
  <2>3. /\ Initialised("fft")' /\ Others("fft")
        /\ overwritten' = {} /\ misuse' = misuse
    BY <1>3, <2>1, InitFFTInitialises
  <2>4. StageInv'
    BY <1>3, <2>1, <2>3 DEF StageInv, Go, Stages, Others, Gone, Kinds
  <2> QED
    BY <1>1, <2>2, <2>4
<1>4. CASE Go("fftReady", "ifftMade") /\ Create("ifft") /\ UNCHANGED samples
  <2>1. Blank("ifft")' /\ Others("ifft") /\ UNCHANGED <<overwritten, misuse>>
    BY <1>4, CreateBlank DEF Kinds
  <2>2. PlansInv'
    BY <1>4, CreateStep DEF Kinds
  <2>3. Initialised("fft")'
    BY <1>4, <2>1 DEF StageInv, Go, Initialised, Others, Kinds
  <2>4. StageInv'
    BY <1>4, <2>1, <2>3 DEF StageInv, Go, Stages
  <2> QED
    BY <1>1, <2>2, <2>4
<1>5. CASE Go("ifftMade", "built") /\ InitIFFT(samples) /\ UNCHANGED samples
  <2>1. samples \in Counts /\ Blank("ifft") /\ Initialised("fft")
    BY <1>5 DEF StageInv, Go
  <2>2. PlansInv'
    BY <1>5, <2>1, InitIFFTStep
  <2>3. /\ Initialised("ifft")' /\ Others("ifft")
        /\ overwritten' = overwritten /\ misuse' = {}
    BY <1>5, <2>1, InitIFFTInitialises
  <2>4. Initialised("fft")'
    BY <1>5, <2>1, <2>3 DEF Initialised, Others, Kinds
  <2>5. StageInv'
    BY <1>5, <2>1, <2>3, <2>4 DEF StageInv, Go, Stages
  <2> QED
    BY <1>1, <2>2, <2>5
<1> QED
  BY <1>2, <1>3, <1>4, <1>5 DEF Construct

LEMMA DestructStep ==
  ASSUME MathInv, misuse = {}, Destruct
  PROVE  MathInv'
<1> USE DEF MathInv
<1>1. CallInv' /\ samples' = samples
  BY DEF Destruct, CallInv
<1>2. CASE Go("built", "ifftGone") /\ Destroy("ifft")
  <2>1. Initialised("ifft") /\ Initialised("fft")
    BY <1>2 DEF StageInv, Go
  <2>2. /\ Gone("ifft")' /\ Others("ifft")
        /\ overwritten' = overwritten /\ misuse' = {}
    BY <1>2, <2>1, DestroyGone DEF Kinds
  <2>3. PlansInv'
    BY <1>2, DestroyStep DEF Kinds
  <2>4. Initialised("fft")'
    BY <1>1, <2>1, <2>2 DEF Initialised, Others, Kinds
  <2>5. StageInv'
    BY <1>1, <1>2, <2>2, <2>4 DEF StageInv, Go, Stages
  <2> QED
    BY <1>1, <2>3, <2>5
<1>3. CASE Go("ifftGone", "absent") /\ Destroy("fft")
  <2>1. Initialised("fft") /\ Gone("ifft")
    BY <1>3 DEF StageInv, Go
  <2>2. /\ Gone("fft")' /\ Others("fft")
        /\ overwritten' = overwritten /\ misuse' = {}
    BY <1>3, <2>1, DestroyGone DEF Kinds
  <2>3. PlansInv'
    BY <1>3, DestroyStep DEF Kinds
  <2>4. Gone("ifft")'
    BY <2>1, <2>2 DEF Gone, Others, Kinds
  <2>5. StageInv'
    BY <1>1, <1>3, <2>2, <2>4 DEF StageInv, Go, Stages
  <2> QED
    BY <1>1, <2>3, <2>5
<1> QED
  BY <1>2, <1>3 DEF Destruct

LEMMA SameStage ==
  ASSUME StageInv, UNCHANGED <<object, use, overwritten, samples, stage>>,
         samples # 0 => misuse' = {}
  PROVE  StageInv'
  BY DEF StageInv, Gone, Blank, Initialised

LEMMA ExecuteGccStep ==
  ASSUME MathInv, NEW m \in Margins, NEW c \in [0 .. samples - 1 -> Levels],
         ExecuteGcc(c, m)
  PROVE  MathInv'
<1> USE DEF MathInv
<1>1. /\ stage = "built" /\ stage' = "built" /\ samples' = samples
      /\ UNCHANGED <<object, use, live, made, overwritten>>
  BY DEF ExecuteGcc
<1>2. \A k \in Kinds : Initialised(k)
  BY <1>1 DEF StageInv, Kinds
<1>3. samples = 0 => misuse' # {}
  <2>1. samples = 0 => Unusable("fft") /\ "fft" \in Kinds
    BY <1>2, PlanFacts DEF Initialised, Unusable, Kinds
  <2> QED
    BY <2>1 DEF ExecuteGcc
<1>4. samples # 0 => misuse' = {}
  <2>1. samples # 0 => \A k \in Kinds : ~Unusable(k)
    BY <1>2, PlanFacts DEF Initialised, Unusable
  <2> QED
    BY <2>1 DEF ExecuteGcc
<1>5. PlansInv' /\ StageInv'
  BY <1>1, <1>4, SamePlans, SameStage
<1>6. CASE misuse' = {} /\ InBounds(samples, m)
  <2>1. samples \in Nat \ {0} /\ m \in Int
    BY <1>3, <1>6, PlansAssumption, GccAssumption DEF StageInv
  <2>2. samples >= 2 /\ m >= 0
    BY <1>6, <2>1, InBoundsFacts
  <2>3. /\ corr' = c /\ margin' = m /\ c \in [0 .. samples - 1 -> Int]
        /\ argMax' = ArgMax(samples, c, m)
    BY <1>6, GccAssumption DEF ExecuteGcc, Returns
  <2>4. CallInv'
    BY <1>1, <2>1, <2>2, <2>3 DEF CallInv
  <2> QED
    BY <1>5, <2>4
<1>7. CASE ~ (misuse' = {} /\ InBounds(samples, m))
  <2>1. outcome' = "undefined"
    BY <1>7 DEF ExecuteGcc
  <2> QED
    BY <1>5, <2>1 DEF CallInv
<1> QED
  BY <1>6, <1>7

LEMMA MathStep ==
  ASSUME MathInv, [MathNext]_mathVars
  PROVE  MathInv'
<1>1. CASE UNCHANGED mathVars
  <2>1. /\ UNCHANGED <<object, use, live, made, overwritten, misuse>>
        /\ UNCHANGED <<samples, stage, corr, margin, argMax, outcome>>
    BY <1>1 DEF mathVars, plansVars, callVars
  <2> QED
    BY <2>1, SamePlans, SameStage DEF MathInv, CallInv, StageInv
<1>2. ASSUME ExecuteNull \/ \E count \in Counts : ExecuteOther(count)
      PROVE  MathInv'
  <2>1. /\ UNCHANGED <<object, use, live, made, overwritten, misuse>>
        /\ UNCHANGED <<samples, stage>> /\ outcome' # "returned"
    BY <1>2 DEF ExecuteNull, ExecuteOther, Returns, plansVars
  <2> QED
    BY <2>1, SamePlans, SameStage DEF MathInv, CallInv, StageInv
<1> QED
  BY <1>1, <1>2, ConstructStep, DestructStep, ExecuteGccStep DEF MathNext

(* However GCCPhats are made, called and deleted, the invariant holds.     *)
THEOREM MathInvariance == MathSpec => []MathInv
<1>1. MathInit => MathInv
  <2> SUFFICES ASSUME MathInit
               PROVE  MathInv
    OBVIOUS
  <2>1. PlansInv
    BY DEF MathInit, PlansInit, PlansInv, PlansOwned, Absent, Objects, Kinds,
       Uses, Null, Owns
  <2>2. StageInv
    BY DEF MathInit, PlansInit, StageInv, Stages, Gone, Absent, Kinds
  <2>3. CallInv
    BY DEF MathInit, NoCall, CallInv
  <2> QED
    BY <2>1, <2>2, <2>3 DEF MathInv
<1>2. MathInv /\ [MathNext]_mathVars => MathInv'
  BY MathStep
<1> QED
  BY <1>1, <1>2, PTL DEF MathSpec

(* A GCCPhat of a sample count for which there is a plan initialises each  *)
(* of its transforms once, calls only those that are ready, hands the      *)
(* library no plan that is gone, and leaves no plan when it is deleted.    *)
THEOREM GccKeepsItsPlans == MathSpec => []GccKeepsPlans
<1>1. MathInv => GccKeepsPlans
  <2> SUFFICES ASSUME MathInv
               PROVE  GccKeepsPlans
    OBVIOUS
  <2>1. stage = "built" /\ samples # 0 =>
          \A k \in Kinds : use[k] = "ready" /\ object[k].count = samples
    BY DEF MathInv, StageInv, Initialised, Kinds
  <2>2. ASSUME stage = "absent"
        PROVE  DOMAIN live = {}
    <3>1. \A k \in Kinds : ~object[k].alive
      BY <2>2 DEF MathInv, StageInv, Gone, Kinds
    <3>2. \A k \in Kinds : use[k] # "ready"
      BY <3>1 DEF MathInv, PlansInv
    <3>3. overwritten = {}
      BY DEF MathInv, StageInv
    <3> QED
      BY <3>2, <3>3 DEF MathInv, PlansInv, PlansOwned, Owns
  <2> QED
    BY <2>1, <2>2 DEF MathInv, StageInv, GccKeepsPlans
<1> QED
  BY <1>1, MathInvariance, PTL

(* What max_element looks at is a range inside the correlation, and not an *)
(* empty one, exactly if there are two samples and the margin is not       *)
(* negative; no margin is too large.                                       *)
THEOREM WindowIsInside == MathSpec => []WindowInBounds
<1>1. MathInv => WindowInBounds
  <2> SUFFICES ASSUME MathInv, samples # 0, NEW m \in Margins
               PROVE  InBounds(samples, m) <=> samples >= 2 /\ m >= 0
    BY DEF WindowInBounds
  <2>1. samples \in Nat \ {0} /\ m \in Int
    BY PlansAssumption, GccAssumption DEF MathInv, StageInv
  <2> QED
    BY <2>1, InBoundsFacts
<1> QED
  BY <1>1, MathInvariance, PTL

(* Of an even number of samples, Execute returns a lag that has no better  *)
(* one in the window, which covers every lag within the margin and short   *)
(* of half the samples; of an odd number it returns one less than the best *)
(* of a window whose middle is the lag 1.                                  *)
THEOREM ReturnedLagIsBest == MathSpec => []LagIsBest
<1>1. MathInv => LagIsBest
  <2> SUFFICES ASSUME CallInv, outcome = "returned"
               PROVE  /\ argMax \in - Reach .. Reach
                      /\ samples % 2 = 0 =>
                           \A lag \in - Reach .. Reach : At(lag) <= At(argMax)
                      /\ samples % 2 = 1 =>
                           \A lag \in 1 - Reach .. 1 + Reach :
                             At(lag) <= At(argMax + 1)
    BY DEF MathInv, LagIsBest
  <2>1. /\ samples \in Nat \ {0, 1} /\ margin \in Nat
        /\ corr \in [0 .. samples - 1 -> Int]
        /\ argMax = ArgMax(samples, corr, margin)
    BY DEF CallInv
  <2>2. Reach = Short(samples, margin)
    BY DEF Reach, Short
  <2>3. PICK reach \in Nat : reach = Reach
    BY <2>1, <2>2, NewMarginFacts
  <2>4. /\ argMax \in - reach .. reach
        /\ \A lag \in - reach .. reach :
             At(True(samples, lag)) <= At(True(samples, argMax))
    BY <2>1, <2>2, <2>3, ArgMaxFacts DEF At
  <2>5. argMax \in Int /\ samples \in Nat
    BY <2>1, <2>4
  <2>6. ASSUME samples % 2 = 0, NEW lag \in - reach .. reach
        PROVE  At(lag) <= At(argMax)
    <3>1. lag \in Int
      OBVIOUS
    <3>2. True(samples, lag) = lag /\ True(samples, argMax) = argMax
      BY <2>5, <2>6, <3>1, TrueFacts
    <3>3. At(True(samples, lag)) <= At(True(samples, argMax))
      BY <2>4
    <3> QED
      BY <3>2, <3>3
  <2>7. ASSUME samples % 2 = 1, NEW lag \in 1 - reach .. 1 + reach
        PROVE  At(lag) <= At(argMax + 1)
    <3>1. PICK less \in - reach .. reach : less + 1 = lag
      <4>1. lag - 1 \in - reach .. reach /\ (lag - 1) + 1 = lag
        BY <2>3
      <4> QED
        BY <4>1
    <3>2. less \in Int
      BY <3>1
    <3>3. /\ True(samples, less) = lag
          /\ True(samples, argMax) = argMax + 1
      BY <2>5, <2>7, <3>1, <3>2, TrueFacts
    <3>4. At(True(samples, less)) <= At(True(samples, argMax))
      BY <2>4, <3>1
    <3> QED
      BY <3>3, <3>4
  <2> QED
    BY <2>3, <2>4, <2>6, <2>7
<1> QED
  BY <1>1, MathInvariance, PTL

=============================================================================
