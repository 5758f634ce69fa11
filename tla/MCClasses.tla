------------------------------ MODULE MCClasses ------------------------------
(* The classes that stand alone: FifoBuffer, HttpUrl, GCCPhat, and an FFT  *)
(* and an IFFT with any other client.  No step of one touches what another *)
(* has, so each behaviour uses one of them, which `part` names.            *)
EXTENDS MCFifoBuffer, MCHttpUrl, MCGccPhat

VARIABLE part

ClassesInit ==
  /\ part \in {"ring", "url", "gcc", "transforms"}
  /\ FifoInit
  /\ part # "ring" => buffer_length = 0
  /\ UrlInit
  /\ PlansInit
  /\ samples = 0
  /\ stage = IF part = "transforms" THEN "unused" ELSE "absent"
  /\ NoCall

ClassesNext ==
  /\ UNCHANGED part
  /\ \/ /\ part = "ring"
        /\ FifoNext
        /\ UNCHANGED <<builder, mathVars>>
     \/ /\ part = "url"
        /\ UrlNext
        /\ UNCHANGED <<fifoVars, mathVars>>
     \/ /\ part = "gcc"
        /\ MathNext
        /\ UNCHANGED <<fifoVars, builder>>
     \/ /\ part = "transforms"
        /\ PlansNext
        /\ UNCHANGED <<fifoVars, builder, samples, stage, callVars>>

ClassesSpec ==
  ClassesInit /\ [][ClassesNext]_<<part, fifoVars, builder, mathVars>>

=============================================================================
