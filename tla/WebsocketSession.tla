-------------------------- MODULE WebsocketSession --------------------------
(***************************************************************************)
(* nbsdk::net::WebsocketSession (net/messenger/websocket_session.{h,cc}).  *)
(*                                                                         *)
(* Connect, Disconnect and SendData run on whatever thread calls them; the *)
(* On... handlers and SendDataInner run one at a time on the strand.  What *)
(* they share is the atomic state_, the send queue, and the Beast stream   *)
(* with the asynchronous operations outstanding on it.                     *)
(***************************************************************************)
EXTENDS Naturals, Sequences

CONSTANTS
  Msgs,      \* the messages a client can send
  Threads,   \* the threads that call Connect
  Budget     \* how often each thing in Bounded may happen

(* What has to be bounded for the state space to be finite: the calls of   *)
(* the clients and the failures of the network.                            *)
Bounded == {"connect", "disconnect", "send", "fault"}

ASSUME BudgetAssumption == Budget \in [Bounded -> Nat]

States == {"kDisconnected", "kConnecting", "kConnected", "kError"}

Errors == {"kConnectError", "kSendError", "kReceiveError", "kCloseError",
           "kDisconnectError"}

(* What a handler tells the owner of the session before it returns.        *)
Callbacks == Errors \cup {"none", "connect", "close", "message"}

(* What a thread is about to do: make the second comparison of Connect or  *)
(* of SendData, or store kConnecting.                                      *)
Stages == {"idle", "connect", "send", "start"}

Ops == {"resolve", "connect", "handshake", "read", "write", "close"}

VARIABLES
  state,     \* state_
  queue,     \* send_msg_queue_
  posted,    \* SendDataInner handlers waiting on the strand, in post order
  leftover,  \* buffer_ holds bytes of a message that never completed
  stream,    \* the Beast stream: "open" from handshake to close or failure
  live,      \* how many of each operation are outstanding on this socket
  dead,      \* ... and how many can only complete with operation_aborted
  caller,    \* how far each thread is in Connect or SendData
  wire,      \* messages whose async_write succeeded (history)
  budget     \* what is left of Budget

sessionVars == <<state, queue, posted, leftover, stream, live, dead, caller,
                 wire, budget>>

-----------------------------------------------------------------------------
(* Operations outstanding at the stream, as Asio and Beast account for     *)
(* them: every operation started completes exactly once; one started on a  *)
(* stream that is not open, or cut off by the end of the connection it was *)
(* started on, completes with an error.                                    *)

Plus(ops, op) == [ops EXCEPT ![op] = @ + 1]

Less(ops, op) == [ops EXCEPT ![op] = @ - 1]

(* Only a resolve survives the end of the connection: it needs no socket.  *)
Survivors(ops) == [op \in Ops |-> IF op = "resolve" THEN ops[op] ELSE 0]

CutOff(ops) ==
  [op \in Ops |-> IF op = "resolve" THEN dead[op] ELSE dead[op] + ops[op]]

(* The connection ends with the operations ops outstanding on it.  A read  *)
(* it interrupts may have stored part of a message in buffer_.             *)
Sever(ops) ==
  /\ stream' = "closed"
  /\ live' = Survivors(ops)
  /\ dead' = CutOff(ops)
  /\ leftover' \in IF live["read"] > 0 THEN {leftover, TRUE} ELSE {leftover}

(* An operation is started on the stream: it has a chance only if open.    *)
Start(op) ==
  \/ stream = "open" /\ live' = Plus(live, op) /\ UNCHANGED dead
  \/ stream # "open" /\ dead' = Plus(dead, op) /\ UNCHANGED live

Outstanding(op) == live[op] + dead[op]

(* Connection attempts whose outcome is not known yet.                     *)
Attempts ==
  Outstanding("resolve") + Outstanding("connect") + Outstanding("handshake")

Spend(what) ==
  /\ budget[what] > 0
  /\ budget' = [budget EXCEPT ![what] = @ - 1]

-----------------------------------------------------------------------------
(* The public calls.  The budget they are taken from is left to those who  *)
(* make them.                                                              *)

(* Connect reads state_ and compares it with kDisconnected; if it differs, *)
(* reads it again and compares it with kError; if either agrees, stores    *)
(* kConnecting and starts the resolve: three steps, since nothing keeps    *)
(* other threads out between them.                                         *)
Connect(t) ==
  /\ caller[t] = "idle"
  /\ caller' = [caller EXCEPT ![t] =
                  IF state = "kDisconnected" THEN "start" ELSE "connect"]
  /\ UNCHANGED <<state, queue, posted, leftover, stream, live, dead, wire>>

ReloadInConnect(t) ==
  /\ caller[t] = "connect"
  /\ caller' = [caller EXCEPT ![t] =
                  IF state = "kError" THEN "start" ELSE "idle"]
  /\ UNCHANGED <<state, queue, posted, leftover, stream, live, dead, wire,
                 budget>>

StartResolve(t) ==
  /\ caller[t] = "start"
  /\ caller' = [caller EXCEPT ![t] = "idle"]
  /\ state' = "kConnecting"
  /\ live' = Plus(live, "resolve")
  /\ UNCHANGED <<queue, posted, leftover, stream, dead, wire, budget>>

(* Mutant: a disconnected session is closed once more.                     *)
DisconnectAlways ==
  /\ Start("close")
  /\ UNCHANGED <<state, queue, posted, leftover, stream, caller, wire>>

(* async_close is started in every state but kDisconnected, and state_ is  *)
(* left for OnClosed to change.                                            *)
Disconnect ==
  /\ state # "kDisconnected"
  /\ Start("close")
  /\ UNCHANGED <<state, queue, posted, leftover, stream, caller, wire>>

(* SendData makes the same comparisons.  A message that is given while     *)
(* state_ is kDisconnected or kError is dropped without a word.            *)
SendData(t) ==
  /\ caller[t] = "idle"
  /\ state # "kDisconnected"
  /\ caller' = [caller EXCEPT ![t] = "send"]
  /\ UNCHANGED <<state, queue, posted, leftover, stream, live, dead, wire>>

ReloadInSendData(t, m) ==
  /\ caller[t] = "send"
  /\ caller' = [caller EXCEPT ![t] = "idle"]
  /\ posted' = IF state = "kError" THEN posted ELSE Append(posted, m)
  /\ UNCHANGED <<state, queue, leftover, stream, live, dead, wire, budget>>

-----------------------------------------------------------------------------
(* The handlers on the strand.  cb is the callback a handler ends with.    *)

(* Mutant: every message is written at once, the queue's length ignored.   *)
SendDataInnerAtOnce ==
  /\ posted # <<>>
  /\ posted' = Tail(posted)
  /\ queue' = Append(queue, Head(posted))
  /\ Start("write")
  /\ UNCHANGED <<state, leftover, stream, caller, wire, budget>>

SendDataInner ==
  /\ posted # <<>>
  /\ posted' = Tail(posted)
  /\ queue' = Append(queue, Head(posted))
  /\ IF Len(queue') > 1 THEN UNCHANGED <<live, dead>> ELSE Start("write")
  /\ UNCHANGED <<state, leftover, stream, caller, wire, budget>>

(* An operation that was cut off completes with operation_aborted.         *)
Aborted(op) ==
  /\ dead[op] > 0
  /\ dead' = Less(dead, op)
  /\ UNCHANGED <<live, stream, leftover, budget>>

(* The network fails an operation before there is a connection ...         *)
AttemptFails(op) ==
  /\ live[op] > 0
  /\ Spend("fault")
  /\ live' = Less(live, op)
  /\ UNCHANGED <<dead, stream, leftover>>

(* ... or the connection with it.                                          *)
ConnectionFails(op) ==
  /\ live[op] > 0
  /\ Spend("fault")
  /\ Sever(Less(live, op))

(* async_connect closes the socket before it opens it for the new address. *)
OnResolve(cb) ==
  /\ \/ /\ AttemptFails("resolve")
        /\ state' = "kError"
        /\ cb = "kConnectError"
     \/ /\ live["resolve"] > 0
        /\ stream' = "closed"
        /\ live' = Plus(Survivors(Less(live, "resolve")), "connect")
        /\ dead' = CutOff(live)
        /\ leftover' \in IF live["read"] > 0 THEN {leftover, TRUE} ELSE {leftover}
        /\ cb = "none"
        /\ UNCHANGED <<state, budget>>
  /\ UNCHANGED <<queue, posted, caller, wire>>

(* Mutant: a refused connection is reported and not recorded.              *)
OnConnectUnrecorded(cb) ==
  /\ \/ /\ Aborted("connect") \/ AttemptFails("connect")
        /\ cb = "kConnectError"
        /\ UNCHANGED state
     \/ /\ live["connect"] > 0
        /\ live' = Plus(Less(live, "connect"), "handshake")
        /\ cb = "none"
        /\ UNCHANGED <<state, stream, dead, leftover, budget>>
  /\ UNCHANGED <<queue, posted, caller, wire>>

OnConnect(cb) ==
  /\ \/ /\ Aborted("connect") \/ AttemptFails("connect")
        /\ state' = "kError"
        /\ cb = "kConnectError"
     \/ /\ live["connect"] > 0
        /\ live' = Plus(Less(live, "connect"), "handshake")
        /\ cb = "none"
        /\ UNCHANGED <<state, stream, dead, leftover, budget>>
  /\ UNCHANGED <<queue, posted, caller, wire>>

(* Mutant: the connection goes on without a read.                          *)
DoNoRead(ops) == ops

(* Once connected, exactly one read is kept outstanding.                   *)
DoRead(ops) == Plus(ops, "read")

OnHandshake(cb) ==
  /\ \/ /\ Aborted("handshake") \/ AttemptFails("handshake")
        /\ state' = "kError"
        /\ cb = "kConnectError"
     \/ /\ live["handshake"] > 0
        /\ stream' = "open"
        /\ state' = "kConnected"
        /\ live' = DoRead(Less(live, "handshake"))
        /\ cb = "connect"
        /\ UNCHANGED <<dead, leftover, budget>>
  /\ UNCHANGED <<queue, posted, caller, wire>>

OnClosed(cb) ==
  /\ \/ /\ Aborted("close") \/ ConnectionFails("close")
        /\ state' = "kError"
        /\ cb = "kCloseError"
     \/ /\ live["close"] > 0
        /\ Sever(Less(live, "close"))
        /\ state' = "kDisconnected"
        /\ cb = "close"
        /\ UNCHANGED budget
  /\ UNCHANGED <<queue, posted, caller, wire>>

(* Mutants: the next message in the queue is not written; OnWrite drops    *)
(* the message whose write has failed.                                     *)
OnWriteOnce(cb) ==
  /\ \/ /\ Aborted("write") \/ ConnectionFails("write")
        /\ state' = "kError"
        /\ cb = "kSendError"
        /\ UNCHANGED <<queue, wire>>
     \/ /\ live["write"] > 0
        /\ wire' = Append(wire, Head(queue))
        /\ queue' = Tail(queue)
        /\ live' = Less(live, "write")
        /\ cb = "none"
        /\ UNCHANGED <<state, stream, dead, leftover, budget>>
  /\ UNCHANGED <<posted, caller>>

OnWriteDropping(cb) ==
  /\ \/ /\ Aborted("write") \/ ConnectionFails("write")
        /\ state' = "kError"
        /\ cb = "kSendError"
        /\ queue' = Tail(queue)
        /\ UNCHANGED wire
     \/ /\ live["write"] > 0
        /\ wire' = Append(wire, Head(queue))
        /\ queue' = Tail(queue)
        /\ live' = IF queue' = <<>> THEN Less(live, "write") ELSE live
        /\ cb = "none"
        /\ UNCHANGED <<state, stream, dead, leftover, budget>>
  /\ UNCHANGED <<posted, caller>>

(* A write that fails leaves its message at the front of the queue.        *)
OnWrite(cb) ==
  /\ \/ /\ Aborted("write") \/ ConnectionFails("write")
        /\ state' = "kError"
        /\ cb = "kSendError"
        /\ UNCHANGED <<queue, wire>>
     \/ /\ live["write"] > 0
        /\ wire' = Append(wire, Head(queue))
        /\ queue' = Tail(queue)
        /\ live' = IF queue' = <<>> THEN Less(live, "write") ELSE live
        /\ cb = "none"
        /\ UNCHANGED <<state, stream, dead, leftover, budget>>
  /\ UNCHANGED <<posted, caller>>

(* The read meets a close frame: the peer's own, or its answer to ours.    *)
CloseFrame ==
  \/ ConnectionFails("read")
  \/ /\ live["read"] > 0
     /\ live["close"] > 0
     /\ Sever(Less(live, "read"))
     /\ UNCHANGED budget

(* Mutants: the loss of the connection is not recorded, or recorded as the *)
(* enumerator no state of the session is meant to have.                    *)
OnDisconnectedUnknown(cb) ==
  /\ state' = "kUnknown"
  /\ cb = "kDisconnectError"

OnDisconnectedUnrecorded(cb) ==
  /\ UNCHANGED state
  /\ cb = "kDisconnectError"

OnDisconnected(cb) ==
  /\ state' = "kError"
  /\ cb = "kDisconnectError"

(* A read that was cut off is ignored; one that succeeds hands over all of *)
(* buffer_, empties it and reads on.                                       *)
OnRead(cb) ==
  /\ \/ /\ Aborted("read")
        /\ cb = "none"
        /\ UNCHANGED state
     \/ CloseFrame /\ OnDisconnected(cb)
     \/ /\ ConnectionFails("read")
        /\ state' = "kError"
        /\ cb = "kReceiveError"
     \/ /\ live["read"] > 0
        /\ leftover' = FALSE
        /\ live' = DoRead(Less(live, "read"))
        /\ cb = "message"
        /\ UNCHANGED <<state, stream, dead, budget>>
  /\ UNCHANGED <<queue, posted, caller, wire>>

-----------------------------------------------------------------------------
SessionInit ==
  /\ state = "kDisconnected"
  /\ queue = <<>>
  /\ posted = <<>>
  /\ leftover = FALSE
  /\ stream = "closed"
  /\ live = [op \in Ops |-> 0]
  /\ dead = [op \in Ops |-> 0]
  /\ caller = [t \in Threads |-> "idle"]
  /\ wire = <<>>
  /\ budget = Budget

(* A thread goes on with its Connect or SendData.                          *)
Resume(t) ==
  \/ ReloadInConnect(t)
  \/ StartResolve(t)
  \/ \E m \in Msgs : ReloadInSendData(t, m)

Handler(op, cb) ==
  \/ op = "resolve" /\ OnResolve(cb)
  \/ op = "connect" /\ OnConnect(cb)
  \/ op = "handshake" /\ OnHandshake(cb)
  \/ op = "close" /\ OnClosed(cb)
  \/ op = "write" /\ OnWrite(cb)
  \/ op = "read" /\ OnRead(cb)

SessionNext ==
  \/ \E t \in Threads : Connect(t) /\ Spend("connect")
  \/ \E t \in Threads : SendData(t) /\ Spend("send")
  \/ \E t \in Threads : Resume(t)
  \/ Disconnect /\ Spend("disconnect")
  \/ SendDataInner
  \/ \E op \in Ops, cb \in Callbacks : Handler(op, cb)

SessionSpec == SessionInit /\ [][SessionNext]_sessionVars

(* A running io_context runs every handler posted to it and completes what *)
(* has been cut off; the system answers a resolve and a connect, if only   *)
(* by its own timeout; a thread inside a call finishes.  Nobody is obliged *)
(* to call anything.  The outcome of a handshake, a close, a write or a    *)
(* read on a live connection is up to the peer, and no timeout is set on   *)
(* the stream: those may stay outstanding for ever.                        *)
Peerless == {"resolve", "connect"}

SessionFairness ==
  /\ \A t \in Threads : WF_sessionVars(Resume(t))
  /\ WF_sessionVars(SendDataInner)
  /\ \A op \in Peerless :
       WF_sessionVars(\E cb \in Callbacks : Handler(op, cb))
  /\ \A op \in Ops \ Peerless :
       WF_sessionVars(Aborted(op) /\ \E cb \in Callbacks : Handler(op, cb))

FairSessionSpec == SessionSpec /\ SessionFairness

-----------------------------------------------------------------------------
(* Properties.                                                             *)

(* Every variable of the session keeps its type.                           *)
SessionTypeOK ==
  /\ state \in States
  /\ queue \in Seq(Msgs)
  /\ posted \in Seq(Msgs)
  /\ leftover \in BOOLEAN
  /\ stream \in {"open", "closed"}
  /\ live \in [Ops -> Nat]
  /\ dead \in [Ops -> Nat]
  /\ caller \in [Threads -> Stages]
  /\ wire \in Seq(Msgs)
  /\ budget \in [Bounded -> Nat]

(* Beast allows one async_write at a time, and the buffer handed to it has  *)
(* to outlive it: never more than one write is outstanding, whatever the    *)
(* threads, reconnections and failures do, and as long as one is, the       *)
(* message it writes is still in send_msg_queue_.                           *)
OneWriteOfQueued ==
  /\ Outstanding("write") <= 1
  /\ Outstanding("write") = 1 => queue # <<>>

(* An open connection always has exactly one read outstanding, so its loss *)
(* is noticed and its messages arrive; no read is ever started twice on it *)
(* although every completed one starts the next.                           *)
OpenIsRead ==
  live["read"] = IF stream = "open" THEN 1 ELSE 0

(* What state_ says is true of the connection or about to be overwritten:  *)
(* kConnecting means that an attempt is under way, kConnected that the     *)
(* connection is open or that another attempt is replacing it,             *)
(* kDisconnected that no connection is open.                               *)
StateIsTruthful ==
  /\ state = "kConnecting" => Attempts > 0
  /\ state = "kConnected" => stream = "open" \/ Attempts > 0
  /\ state = "kDisconnected" => stream = "closed"

(* The messages accepted by SendData, in post order on the strand and then *)
(* in send_msg_queue_, behave as an Outbox: none is lost, duplicated or    *)
(* overtaken on the way to the wire, across any number of connections.     *)
Sending == INSTANCE Outbox WITH pending <- queue \o posted, sent <- wire

IsOutbox == Sending!OutboxSpec

(* What a peer that does not fall silent adds: it lets an operation of     *)
(* this kind complete, or fail, sooner or later.                           *)
PeerAnswers(op) == WF_sessionVars(\E cb \in Callbacks : Handler(op, cb))

(* An attempt hangs on nothing but the answer of the peer: if handshakes   *)
(* are answered, the session does not stay in kConnecting, whatever else   *)
(* fails or is cut off by another attempt on the way.                      *)
AttemptsEnd ==
  PeerAnswers("handshake") =>
    (state = "kConnecting" ~> state # "kConnecting")

(* Once a write is under way on a connection that stays and whose peer     *)
(* reads, each completed write starts the next one until send_msg_queue_   *)
(* is empty.                                                               *)
QueueDrains ==
  PeerAnswers("write") =>
    (live["write"] > 0 ~> queue = <<>> \/ stream = "closed")

-----------------------------------------------------------------------------
(* What a comment in the code says of it, and the code does not do.        *)

(* SendData sends the data on the io_context thread (websocket_session.h:  *)
(* 57): a message queued on an open connection in kConnected is written.   *)
QueuedIsWritten ==
  state = "kConnected" /\ stream = "open" /\ queue # <<>>
    => Outstanding("write") = 1

=============================================================================
