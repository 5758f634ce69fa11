------------------------------ MODULE FftPlans ------------------------------
(***************************************************************************)
(* nbsdk::math::FFTW and IFFTW (math/fftw.cc, math/ifftw.cc) behind the    *)
(* interfaces FFT and IFFT: who owns which plan of the FFTW library, and   *)
(* with which arrays.  One thread uses them and calls Init, Execute and    *)
(* Terminate in any order, as the interfaces let it.                       *)
(***************************************************************************)
EXTENDS Naturals

CONSTANTS
  Counts,    \* the sample counts; 0 stands for all the library refuses
  MaxPlans   \* bounds the plans that are made

ASSUME PlansAssumption ==
  /\ Counts \subseteq Nat
  /\ MaxPlans \in Nat

VARIABLES
  object,       \* the two objects
  use,          \* what can be expected of each: see Uses (history)
  live,         \* the plans that exist, each with its sample count
  made,         \* how many have been made: the next one's name
  overwritten,  \* those an Init of the FFT has forgotten (history)
  misuse        \* objects that handed the library a plan that is not one

plansVars == <<object, use, live, made, overwritten, misuse>>

Kinds == {"fft", "ifft"}

(* There has been no Init that made a plan, there has, and Terminate has   *)
(* been called after it.                                                   *)
Uses == {"none", "ready", "terminated"}

Null == 0

-----------------------------------------------------------------------------
(* The library.  To destroy no plan is allowed, to execute none is not.    *)

Absent == [alive |-> FALSE, count |-> 0, plan |-> Null, arrays |-> FALSE]

Without(plans, plan) == [p \in DOMAIN plans \ {plan} |-> plans[p]]

With(plans, plan, count) ==
  [p \in DOMAIN plans \cup {plan} |-> IF p = plan THEN count ELSE plans[p]]

Dead(plan) == plan # Null /\ plan \notin DOMAIN live

Note(k, wrong) == misuse' = IF wrong THEN {k} ELSE misuse

Become(k, o, u) ==
  /\ object' = [object EXCEPT ![k] = o]
  /\ use' = [use EXCEPT ![k] = u]

(* What both Inits end with: plan_ and the arrays are set, to no plan if   *)
(* the library makes none.                                                 *)
MakePlan(k, count, plans) ==
  \/ /\ count = 0
     /\ live' = plans
     /\ Become(k, [Absent EXCEPT !.alive = TRUE, !.arrays = TRUE], "none")
     /\ UNCHANGED made
  \/ /\ count # 0
     /\ made < MaxPlans
     /\ made' = made + 1
     /\ live' = With(plans, made', count)
     /\ Become(k, [alive |-> TRUE, count |-> count, plan |-> made',
                   arrays |-> TRUE], "ready")

-----------------------------------------------------------------------------
(* Mutant: plan_ is left as the memory was.                                *)
CreateUncleared(k) ==
  /\ ~object[k].alive
  /\ Become(k, [Absent EXCEPT !.alive = TRUE, !.plan = MaxPlans + 1], "none")
  /\ UNCHANGED <<live, made, overwritten, misuse>>

(* make_shared: plan_ is zeroed with the rest of the object.               *)
Create(k) ==
  /\ ~object[k].alive
  /\ Become(k, [Absent EXCEPT !.alive = TRUE], "none")
  /\ UNCHANGED <<live, made, overwritten, misuse>>

(* FFTW looks at nothing an earlier Init has left: plan and arrays of that *)
(* one are forgotten.                                                      *)
InitFFT(count) ==
  /\ object["fft"].alive
  /\ overwritten' = overwritten \cup ({object["fft"].plan} \cap DOMAIN live)
  /\ MakePlan("fft", count, live)
  /\ UNCHANGED misuse

(* Mutants: the old plan is kept; it is destroyed before the sizes are     *)
(* compared.                                                               *)
InitIFFTKeeping(count) ==
  /\ object["ifft"].alive
  /\ \/ object["ifft"].count = count /\ UNCHANGED plansVars
     \/ /\ object["ifft"].count # count
        /\ MakePlan("ifft", count, live)
        /\ UNCHANGED <<overwritten, misuse>>

InitIFFTLate(count) ==
  /\ object["ifft"].alive
  /\ Note("ifft", Dead(object["ifft"].plan))
  /\ \/ /\ object["ifft"].count = count
        /\ live' = Without(live, object["ifft"].plan)
        /\ UNCHANGED <<object, use, made>>
     \/ /\ object["ifft"].count # count
        /\ MakePlan("ifft", count, Without(live, object["ifft"].plan))
  /\ UNCHANGED overwritten

(* IFFTW does nothing if the size is the same, and terminates first if it  *)
(* is another.                                                             *)
InitIFFT(count) ==
  /\ object["ifft"].alive
  /\ \/ object["ifft"].count = count /\ UNCHANGED plansVars
     \/ /\ object["ifft"].count # count
        /\ Note("ifft", Dead(object["ifft"].plan))
        /\ MakePlan("ifft", count, Without(live, object["ifft"].plan))
        /\ UNCHANGED overwritten

(* Execute copies in, executes the plan and copies out.  (Given a null     *)
(* pointer it returns at once.)                                            *)
Unusable(k) == object[k].plan \notin DOMAIN live \/ ~object[k].arrays

Execute(k) ==
  /\ object[k].alive
  /\ Note(k, Unusable(k))
  /\ UNCHANGED <<object, use, live, made, overwritten>>

(* The plan is destroyed whatever there has been, and the arrays freed;    *)
(* neither plan_ nor the size is cleared.                                  *)
Terminate(k) ==
  /\ object[k].alive
  /\ Note(k, Dead(object[k].plan))
  /\ live' = Without(live, object[k].plan)
  /\ Become(k, [object[k] EXCEPT !.arrays = FALSE],
            IF use[k] = "none" THEN "none" ELSE "terminated")
  /\ UNCHANGED <<made, overwritten>>

(* Mutant: the destructor leaves the plan.                                 *)
DestroyKeeping(k) ==
  /\ object[k].alive
  /\ Become(k, Absent, "none")
  /\ UNCHANGED <<live, made, overwritten, misuse>>

(* The destructor terminates, and the object is gone.                      *)
Destroy(k) ==
  /\ object[k].alive
  /\ Note(k, Dead(object[k].plan))
  /\ live' = Without(live, object[k].plan)
  /\ Become(k, Absent, "none")
  /\ UNCHANGED <<made, overwritten>>

-----------------------------------------------------------------------------
PlansInit ==
  /\ object = [k \in Kinds |-> Absent]
  /\ use = [k \in Kinds |-> "none"]
  /\ live = [p \in {} |-> 0]
  /\ made = 0
  /\ overwritten = {}
  /\ misuse = {}

(* After a misuse nothing is defined.                                      *)
PlansNext ==
  /\ misuse = {}
  /\ \/ \E k \in Kinds :
          Create(k) \/ Execute(k) \/ Terminate(k) \/ Destroy(k)
     \/ \E count \in Counts : InitFFT(count) \/ InitIFFT(count)

PlansSpec == PlansInit /\ [][PlansNext]_plansVars

-----------------------------------------------------------------------------
(* Properties.                                                             *)

(* Every plan is owned by exactly one object that has been initialised,    *)
(* and which has a plan of the size it believes and the arrays of it.      *)
(* Nothing leaks over an Init with another size, a Terminate or the end of *)
(* an object; what leaks are the plans of an FFT that is initialised again *)
(* without a Terminate in between.                                         *)
Owns(k, p) == use[k] = "ready" /\ object[k].plan = p

PlansOwned ==
  /\ \A k \in Kinds : use[k] = "ready" =>
       /\ object[k].alive
       /\ object[k].arrays
       /\ object[k].plan \in DOMAIN live \ overwritten
       /\ live[object[k].plan] = object[k].count
  /\ \A p \in DOMAIN live \ overwritten : \E k \in Kinds : Owns(k, p)
  /\ \A p \in DOMAIN live : ~(Owns("fft", p) /\ Owns("ifft", p))

(* The library is handed no plan that is gone, by Execute, by Init or by a *)
(* destructor, and none to execute that never was, except by an object     *)
(* that has not been initialised or has been terminated since: whoever     *)
(* does without Terminate is safe, in any order of the other calls.        *)
ReadyIsUsable ==
  [][\A k \in misuse' \ misuse : use[k] # "ready"]_plansVars

=============================================================================
