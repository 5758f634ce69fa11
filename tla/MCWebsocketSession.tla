------------------------ MODULE MCWebsocketSession ------------------------
(* Small instances of WebsocketSession.                                    *)
EXTENDS WebsocketSession

CONSTANTS MaxConnects, MaxDisconnects, MaxSends, MaxFaults

MCBudget ==
  [connect |-> MaxConnects, disconnect |-> MaxDisconnects, send |-> MaxSends,
   fault |-> MaxFaults]

=============================================================================
