------------------------------- MODULE Outbox -------------------------------
(***************************************************************************)
(* What a session promises about the messages it accepts: they leave in    *)
(* the order in which they were accepted, each at most once, and none of   *)
(* them disappears.  Nothing is said of when, or whether, one leaves.      *)
(***************************************************************************)
EXTENDS Sequences

CONSTANT Msgs

VARIABLES pending,   \* accepted and not yet transmitted, oldest first
          sent       \* transmitted, oldest first

outboxVars == <<pending, sent>>

OutboxInit ==
  /\ pending = <<>>
  /\ sent = <<>>

Accept(m) ==
  /\ pending' = Append(pending, m)
  /\ UNCHANGED sent

Transmit ==
  /\ pending # <<>>
  /\ sent' = Append(sent, Head(pending))
  /\ pending' = Tail(pending)

OutboxNext ==
  \/ \E m \in Msgs : Accept(m)
  \/ Transmit

OutboxSpec == OutboxInit /\ [][OutboxNext]_outboxVars

=============================================================================
