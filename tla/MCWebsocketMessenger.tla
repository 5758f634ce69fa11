----------------------- MODULE MCWebsocketMessenger -----------------------
(* Small instances of WebsocketMessenger.                                  *)
EXTENDS WebsocketMessenger

CONSTANTS MaxOpens, MaxCloses, MaxSends, MaxFaults

MCThreads == AppThreads \cup IoThreads

MCBudget ==
  [connect |-> MaxOpens, disconnect |-> MaxCloses, send |-> MaxSends,
   fault |-> MaxFaults]

=============================================================================
