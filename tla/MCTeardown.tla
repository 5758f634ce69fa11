----------------------------- MODULE MCTeardown -----------------------------
(* Small instances of Teardown.                                            *)
EXTENDS Teardown

CONSTANTS MaxOpens, MaxCloses, MaxSends, MaxFaults

MCThreads == AppThreads \cup IoThreads

MCBudget ==
  [connect |-> MaxOpens, disconnect |-> MaxCloses, send |-> MaxSends,
   fault |-> MaxFaults]

=============================================================================
