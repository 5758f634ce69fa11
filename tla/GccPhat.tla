------------------------------ MODULE GccPhat ------------------------------
(***************************************************************************)
(* nbsdk::math::GCCPhat (math/gcc_phat.cc), the user of an FFT and an      *)
(* IFFT, and how its Execute, behind the transforms, searches the cross-   *)
(* correlation of two signals for the lag within a margin at which it is   *)
(* largest.  The cross-correlation is circular: of n samples, element k    *)
(* belongs to the lag k, and also to the lag k - n.                        *)
(***************************************************************************)
EXTENDS FftPlans, Integers

CONSTANTS
  Levels,   \* the values of the correlation
  Margins   \* the margins asked for: any int

ASSUME GccAssumption ==
  /\ Levels \subseteq Int
  /\ Margins \subseteq Int

VARIABLES
  samples,  \* sample_count_
  stage,    \* how far the constructor or the destructor is
  corr,     \* crossCorrelation of its last call of Execute
  margin,   \* the margin it was given
  argMax,   \* what it returned
  outcome   \* how it ended

callVars == <<corr, margin, argMax, outcome>>

mathVars == <<plansVars, samples, stage, callVars>>

Stages == {"absent", "fftMade", "fftReady", "ifftMade", "built", "ifftGone"}

Outcomes == {"none", "returned", "null", "exited", "undefined"}

-----------------------------------------------------------------------------
(* round(count / 2.0): halves are rounded up.                              *)
Half(count) == (count + 1) \div 2

(* The second half of the correlation, then the first.                     *)
Shifted(count, c) ==
  [i \in 0 .. count - 1 |-> c[(i + Half(count)) % count]]

(* Mutant: the margin is not kept from the end of the correlation.         *)
NewMarginLow(count, m) == IF Half(count) - m < 0 THEN Half(count) ELSE m

NewMargin(count, m) ==
  LET low == IF Half(count) - m < 0 THEN Half(count) ELSE m IN
  IF Half(count) + low >= count THEN count - 1 - Half(count) ELSE low

Start(count, m) == Half(count) - NewMargin(count, m)

End(count, m) == Start(count, m) + 2 * NewMargin(count, m)

(* max_element is given a range of the correlation, and not an empty one.  *)
InBounds(count, m) ==
  /\ 0 <= Start(count, m)
  /\ Start(count, m) <= End(count, m)
  /\ End(count, m) < count

(* max_element: the first of the largest.                                  *)
FirstLargest(f, from, to) ==
  CHOOSE i \in from .. to :
    /\ \A j \in from .. to : f[j] <= f[i]
    /\ \A j \in from .. i - 1 : f[j] < f[i]

(* Mutant: the index is counted from the margin that was asked for.        *)
ArgMaxAsked(count, c, m) ==
  FirstLargest(Shifted(count, c), Start(count, m), End(count, m))
    - Start(count, m) - m

ArgMax(count, c, m) ==
  FirstLargest(Shifted(count, c), Start(count, m), End(count, m))
    - Start(count, m) - NewMargin(count, m)

-----------------------------------------------------------------------------
Go(from, to) == stage = from /\ stage' = to

Construct ==
  /\ \/ /\ Go("absent", "fftMade")
        /\ samples' \in Counts
        /\ Create("fft")
     \/ /\ Go("fftMade", "fftReady")
        /\ InitFFT(samples)
        /\ UNCHANGED samples
     \/ /\ Go("fftReady", "ifftMade")
        /\ Create("ifft")
        /\ UNCHANGED samples
     \/ /\ Go("ifftMade", "built")
        /\ InitIFFT(samples)
        /\ UNCHANGED samples
  /\ UNCHANGED callVars

(* The members go in the reverse order.                                    *)
Destruct ==
  /\ \/ Go("built", "ifftGone") /\ Destroy("ifft")
     \/ Go("ifftGone", "absent") /\ Destroy("fft")
  /\ corr' = <<>> /\ margin' = 0 /\ argMax' = 0 /\ outcome' = "none"
  /\ UNCHANGED samples

Returns(lag, how) == argMax' = lag /\ outcome' = how

(* A signal that is a null pointer is answered by -1, which is also a lag. *)
ExecuteNull ==
  /\ stage = "built"
  /\ Returns(-1, "null")
  /\ UNCHANGED <<plansVars, samples, stage, corr, margin>>

(* A failed CHECK ends the program; where it only logs, Execute goes on    *)
(* with vectors that are not as long as those of the transforms.           *)
ExecuteOther(count) ==
  /\ stage = "built"
  /\ count # samples
  /\ outcome' \in {"exited", "undefined"}
  /\ UNCHANGED <<plansVars, samples, stage, corr, margin, argMax>>

(* Both transforms are executed, then the correlation c is searched.       *)
ExecuteGcc(c, m) ==
  /\ stage = "built"
  /\ corr' = c
  /\ margin' = m
  /\ misuse' = {k \in Kinds : Unusable(k)}
  /\ IF misuse' = {} /\ InBounds(samples, m)
     THEN Returns(ArgMax(samples, c, m), "returned")
     ELSE outcome' = "undefined" /\ UNCHANGED argMax
  /\ UNCHANGED <<object, use, live, made, overwritten, samples, stage>>

NoCall == corr = <<>> /\ margin = 0 /\ argMax = 0 /\ outcome = "none"

MathInit ==
  /\ PlansInit
  /\ samples = 0
  /\ stage = "absent"
  /\ NoCall

MathNext ==
  /\ misuse = {}
  /\ outcome \notin {"exited", "undefined"}
  /\ \/ Construct
     \/ Destruct
     \/ ExecuteNull
     \/ \E count \in Counts : ExecuteOther(count)
     \/ \E m \in Margins : \E c \in [0 .. samples - 1 -> Levels] :
          ExecuteGcc(c, m)

MathSpec == MathInit /\ [][MathNext]_mathVars

-----------------------------------------------------------------------------
(* Properties.                                                             *)

(* A GCCPhat keeps what its transforms rely on, over any number of         *)
(* objects and calls: none is initialised twice, each has a plan of its    *)
(* own while it can be called, none is handed a plan that is gone, and     *)
(* when the object is gone so are its plans.  Only a sample count for      *)
(* which there is no plan goes wrong, at the first call.  (Transforms that *)
(* somebody else uses are no concern of it: there is no stage then.)       *)
GccKeepsPlans ==
  stage \in Stages =>
    /\ samples # 0 => misuse = {}
    /\ overwritten = {}
    /\ stage = "built" /\ samples # 0 =>
         \A k \in Kinds : use[k] = "ready" /\ object[k].count = samples
    /\ stage = "absent" => DOMAIN live = {}

(* What max_element looks at lies inside the correlation and is not empty  *)
(* if there are two samples and the margin is not negative, however large  *)
(* it is; and only then.                                                   *)
WindowInBounds ==
  samples # 0 =>
    \A m \in Margins : InBounds(samples, m) <=> samples >= 2 /\ m >= 0

(* The lags that the window covers on either side of its middle.           *)
Reach == IF margin < samples - Half(samples) THEN margin
         ELSE samples - Half(samples) - 1

At(lag) == corr[lag % samples]

(* For an even number of samples the correlation at the lag that is        *)
(* returned is the largest of all lags the window covers: those within the *)
(* margin and short of half the samples.  For an odd number the middle of  *)
(* the window is the lag 1, and the lag returned is one less than the one  *)
(* with the largest correlation: two equal signals have the lag -1.        *)
LagIsBest ==
  outcome = "returned" =>
    /\ argMax \in - Reach .. Reach
    /\ samples % 2 = 0 => \A lag \in - Reach .. Reach : At(lag) <= At(argMax)
    /\ samples % 2 = 1 =>
         \A lag \in 1 - Reach .. 1 + Reach : At(lag) <= At(argMax + 1)

=============================================================================
