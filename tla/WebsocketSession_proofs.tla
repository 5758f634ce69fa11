----------------------- MODULE WebsocketSession_proofs -----------------------
(***************************************************************************)
(* Proofs about WebsocketSession, for any messages, threads and budget.    *)
(***************************************************************************)
EXTENDS WebsocketSession, TLAPS

(* The strengthening that makes the invariants of the session inductive:   *)
(* of all the attempts under way, at most one has a socket that can still  *)
(* become a connection, and none has while a connection is open; nothing   *)
(* is being written to or closed gracefully on a stream that is not open.  *)
OneSocket ==
  /\ live["connect"] + live["handshake"] <= 1
  /\ stream = "open" => live["connect"] = 0 /\ live["handshake"] = 0

ClosedIsQuiet ==
  stream = "closed" => live["write"] = 0 /\ live["close"] = 0

SessionInv ==
  /\ SessionTypeOK
  /\ OneWriteOfQueued
  /\ OpenIsRead
  /\ StateIsTruthful
  /\ OneSocket
  /\ ClosedIsQuiet

-----------------------------------------------------------------------------
(* What the operators on the outstanding operations return.                *)

LEMMA OpsFacts ==
  /\ "resolve" \in Ops /\ "connect" \in Ops /\ "handshake" \in Ops
  /\ "read" \in Ops /\ "write" \in Ops /\ "close" \in Ops
  BY DEF Ops

LEMMA PlusFacts ==
  ASSUME NEW ops \in [Ops -> Nat], NEW op \in Ops
  PROVE  /\ Plus(ops, op) \in [Ops -> Nat]
         /\ Plus(ops, op)[op] = ops[op] + 1
         /\ \A o \in Ops \ {op} : Plus(ops, op)[o] = ops[o]
  BY DEF Plus

LEMMA LessFacts ==
  ASSUME NEW ops \in [Ops -> Nat], NEW op \in Ops, ops[op] > 0
  PROVE  /\ Less(ops, op) \in [Ops -> Nat]
         /\ Less(ops, op)[op] = ops[op] - 1
         /\ \A o \in Ops \ {op} : Less(ops, op)[o] = ops[o]
  BY DEF Less

LEMMA SurvivorsFacts ==
  ASSUME NEW ops \in [Ops -> Nat]
  PROVE  /\ Survivors(ops) \in [Ops -> Nat]
         /\ \A o \in Ops \ {"resolve"} : Survivors(ops)[o] = 0
  BY DEF Survivors

LEMMA CutOffFacts ==
  ASSUME dead \in [Ops -> Nat], NEW ops \in [Ops -> Nat]
  PROVE  /\ CutOff(ops) \in [Ops -> Nat]
         /\ CutOff(ops)["resolve"] = dead["resolve"]
         /\ \A o \in Ops \ {"resolve"} : CutOff(ops)[o] = dead[o] + ops[o]
  BY OpsFacts DEF CutOff

-----------------------------------------------------------------------------
(* The clients' calls and the strand's send handler preserve SessionInv.   *)

LEMMA InitInv == SessionInit => SessionInv
<1> SUFFICES ASSUME SessionInit PROVE SessionInv
  OBVIOUS
<1>1. SessionTypeOK
  <2>1. queue \in Seq(Msgs) /\ posted \in Seq(Msgs) /\ wire \in Seq(Msgs)
    BY DEF SessionInit
  <2>2. live \in [Ops -> Nat] /\ dead \in [Ops -> Nat]
    BY DEF SessionInit
  <2>3. caller \in [Threads -> Stages]
    BY DEF SessionInit, Stages
  <2> QED
    BY <2>1, <2>2, <2>3, BudgetAssumption DEF SessionInit, SessionTypeOK, States
<1>2. \A op \in Ops : live[op] = 0 /\ dead[op] = 0
  BY DEF SessionInit
<1> QED
  BY <1>1, <1>2, OpsFacts
  DEF SessionInit, SessionInv, OneWriteOfQueued, OpenIsRead, StateIsTruthful,
      OneSocket, ClosedIsQuiet, Outstanding, Attempts

LEMMA StutterInv == SessionInv /\ UNCHANGED sessionVars => SessionInv'
  BY DEF sessionVars, SessionInv, SessionTypeOK, OneWriteOfQueued, OpenIsRead,
      StateIsTruthful, OneSocket, ClosedIsQuiet, Outstanding, Attempts

(* A step in which a thread goes from one stage of a call to another.      *)
LEMMA StageInv ==
  ASSUME SessionInv, NEW t \in Threads, NEW stage \in Stages,
         caller' = [caller EXCEPT ![t] = stage],
         UNCHANGED <<state, queue, leftover, stream, live, dead, wire>>,
         posted' \in Seq(Msgs), budget' \in [Bounded -> Nat]
  PROVE  SessionInv'
  BY DEF SessionInv, SessionTypeOK, OneWriteOfQueued, OpenIsRead,
      StateIsTruthful, OneSocket, ClosedIsQuiet, Outstanding, Attempts

LEMMA ConnectInv ==
  ASSUME SessionInv, NEW t \in Threads, Connect(t), budget' \in [Bounded -> Nat]
  PROVE  SessionInv'
<1>1. posted' \in Seq(Msgs)
  BY DEF Connect, SessionInv, SessionTypeOK
<1>2. PICK stage \in Stages : caller' = [caller EXCEPT ![t] = stage]
  BY DEF Connect, Stages
<1> QED
  BY <1>1, <1>2, StageInv DEF Connect

LEMMA ReloadInConnectInv ==
  ASSUME SessionInv, NEW t \in Threads, ReloadInConnect(t)
  PROVE  SessionInv'
<1>1. posted' \in Seq(Msgs) /\ budget' \in [Bounded -> Nat]
  BY DEF ReloadInConnect, SessionInv, SessionTypeOK
<1>2. PICK stage \in Stages : caller' = [caller EXCEPT ![t] = stage]
  BY DEF ReloadInConnect, Stages
<1> QED
  BY <1>1, <1>2, StageInv DEF ReloadInConnect

LEMMA StartResolveInv ==
  ASSUME SessionInv, NEW t \in Threads, StartResolve(t)
  PROVE  SessionInv'
<1>1. SessionTypeOK'
  BY PlusFacts, OpsFacts
  DEF StartResolve, SessionInv, SessionTypeOK, States, Stages
<1>2. /\ live'["resolve"] = live["resolve"] + 1
      /\ \A op \in Ops \ {"resolve"} : live'[op] = live[op]
  BY PlusFacts, OpsFacts DEF StartResolve, SessionInv, SessionTypeOK
<1>3. Attempts' > 0
  <2>1. \A op \in Ops : live'[op] \in Nat /\ dead'[op] \in Nat
    BY <1>1 DEF SessionTypeOK
  <2>2. live'["resolve"] > 0
    <3>1. live["resolve"] \in Nat
      BY OpsFacts DEF SessionInv, SessionTypeOK
    <3> QED
      BY <1>2, <3>1
  <2> QED
    BY <2>1, <2>2, OpsFacts DEF Attempts, Outstanding
<1>4. OneWriteOfQueued'
  BY <1>2, OpsFacts
  DEF StartResolve, SessionInv, SessionTypeOK, OneWriteOfQueued, Outstanding
<1>5. OpenIsRead'
  BY <1>2, OpsFacts
  DEF StartResolve, SessionInv, SessionTypeOK, OpenIsRead
<1>6. StateIsTruthful'
  BY <1>3 DEF StartResolve, StateIsTruthful
<1>7. OneSocket' /\ ClosedIsQuiet'
  BY <1>2, OpsFacts
  DEF StartResolve, SessionInv, SessionTypeOK, OneSocket, ClosedIsQuiet
<1> QED
  BY <1>1, <1>4, <1>5, <1>6, <1>7 DEF SessionInv

LEMMA DisconnectInv ==
  ASSUME SessionInv, Disconnect, budget' \in [Bounded -> Nat]
  PROVE  SessionInv'
<1>1. /\ live' \in [Ops -> Nat] /\ dead' \in [Ops -> Nat]
      /\ \A op \in Ops \ {"close"} : live'[op] = live[op] /\ dead'[op] = dead[op]
      /\ stream = "closed" => live' = live
  <2>0. live \in [Ops -> Nat] /\ dead \in [Ops -> Nat]
    BY DEF SessionInv, SessionTypeOK
  <2>1. CASE stream = "open" /\ live' = Plus(live, "close") /\ UNCHANGED dead
    BY <2>0, <2>1, PlusFacts, OpsFacts
  <2>2. CASE stream # "open" /\ dead' = Plus(dead, "close") /\ UNCHANGED live
    BY <2>0, <2>2, PlusFacts, OpsFacts
  <2> QED
    BY <2>1, <2>2 DEF Disconnect, Start
<1> QED
  BY <1>1, OpsFacts
  DEF Disconnect, SessionInv, SessionTypeOK, OneWriteOfQueued, OpenIsRead,
      StateIsTruthful, OneSocket, ClosedIsQuiet, Outstanding, Attempts

LEMMA SendDataInv ==
  ASSUME SessionInv, NEW t \in Threads, SendData(t), budget' \in [Bounded -> Nat]
  PROVE  SessionInv'
<1>1. posted' \in Seq(Msgs)
  BY DEF SendData, SessionInv, SessionTypeOK
<1> QED
  BY <1>1, StageInv DEF SendData, Stages

LEMMA ReloadInSendDataInv ==
  ASSUME SessionInv, NEW t \in Threads, NEW m \in Msgs, ReloadInSendData(t, m)
  PROVE  SessionInv'
<1>1. posted' \in Seq(Msgs) /\ budget' \in [Bounded -> Nat]
  BY DEF ReloadInSendData, SessionInv, SessionTypeOK
<1> QED
  BY <1>1, StageInv DEF ReloadInSendData, Stages

LEMMA ResumeInv ==
  ASSUME SessionInv, NEW t \in Threads, Resume(t)
  PROVE  SessionInv'
  BY ReloadInConnectInv, StartResolveInv, ReloadInSendDataInv DEF Resume

LEMMA SendDataInnerInv ==
  ASSUME SessionInv, SendDataInner
  PROVE  SessionInv'
<1>1. CASE Len(queue') > 1
  <2>1. queue # <<>> /\ queue' # <<>>
    BY <1>1 DEF SendDataInner, SessionInv, SessionTypeOK
  <2>2. SessionTypeOK'
    BY <1>1 DEF SendDataInner, SessionInv, SessionTypeOK
  <2> QED
    BY <1>1, <2>1, <2>2
    DEF SendDataInner, SessionInv, OneWriteOfQueued, OpenIsRead,
        StateIsTruthful, OneSocket, ClosedIsQuiet, Outstanding, Attempts
<1>2. CASE ~(Len(queue') > 1)
  <2>1. queue = <<>> /\ queue' # <<>>
    BY <1>2 DEF SendDataInner, SessionInv, SessionTypeOK
  <2>2. live["write"] = 0 /\ dead["write"] = 0
    <3>1. live["write"] \in Nat /\ dead["write"] \in Nat
      BY OpsFacts DEF SessionInv, SessionTypeOK
    <3>2. live["write"] + dead["write"] = 0
      BY <2>1, <3>1 DEF SessionInv, OneWriteOfQueued, Outstanding
    <3> QED
      BY <3>1, <3>2
  <2>3. Start("write")
    BY <1>2 DEF SendDataInner
  <2>4. /\ live' \in [Ops -> Nat] /\ dead' \in [Ops -> Nat]
        /\ \A op \in Ops \ {"write"} : live'[op] = live[op] /\ dead'[op] = dead[op]
        /\ stream = "closed" => live' = live
        /\ live'["write"] + dead'["write"] = 1
    <3>0. live \in [Ops -> Nat] /\ dead \in [Ops -> Nat]
      BY DEF SessionInv, SessionTypeOK
    <3>1. CASE stream = "open" /\ live' = Plus(live, "write") /\ UNCHANGED dead
      BY <2>2, <3>0, <3>1, PlusFacts, OpsFacts
    <3>2. CASE stream # "open" /\ dead' = Plus(dead, "write") /\ UNCHANGED live
      BY <2>2, <3>0, <3>2, PlusFacts, OpsFacts
    <3> QED
      BY <2>3, <3>1, <3>2 DEF Start
  <2>5. SessionTypeOK'
    BY <2>4 DEF SendDataInner, SessionInv, SessionTypeOK
  <2>6. OneWriteOfQueued'
    BY <2>1, <2>4, OpsFacts DEF OneWriteOfQueued, Outstanding
  <2>7. OpenIsRead' /\ OneSocket' /\ ClosedIsQuiet'
    BY <2>4, OpsFacts
    DEF SendDataInner, SessionInv, OpenIsRead, OneSocket, ClosedIsQuiet
  <2>8. StateIsTruthful'
    BY <2>4, OpsFacts
    DEF SendDataInner, SessionInv, StateIsTruthful, Attempts, Outstanding
  <2> QED
    BY <2>5, <2>6, <2>7, <2>8 DEF SessionInv
<1> QED
  BY <1>1, <1>2

-----------------------------------------------------------------------------
(* The ways in which operations end.  Kept says what all of them preserve: *)
(* nothing but the completed operation's own count grows, and the stream's *)
(* part of the invariant holds.                                            *)

Kept ==
  /\ live' \in [Ops -> Nat] /\ dead' \in [Ops -> Nat]
  /\ stream' \in {"open", "closed"}
  /\ leftover' \in BOOLEAN
  /\ Outstanding("write")' <= Outstanding("write")
  /\ OpenIsRead' /\ OneSocket' /\ ClosedIsQuiet'

LEMMA Counts ==
  ASSUME SessionInv
  PROVE  /\ live \in [Ops -> Nat] /\ dead \in [Ops -> Nat]
         /\ \A op \in Ops : live[op] \in Nat /\ dead[op] \in Nat
  BY DEF SessionInv, SessionTypeOK

LEMMA SpendType ==
  ASSUME SessionInv, NEW what \in Bounded, Spend(what)
  PROVE  budget' \in [Bounded -> Nat]
  BY DEF SessionInv, SessionTypeOK, Spend

LEMMA AbortedKeeps ==
  ASSUME SessionInv, NEW op \in Ops, Aborted(op)
  PROVE  /\ Kept
         /\ live' = live
         /\ \A o \in Ops \ {op} : dead'[o] = dead[o]
<1>1. /\ dead' \in [Ops -> Nat]
      /\ dead'[op] = dead[op] - 1
      /\ \A o \in Ops \ {op} : dead'[o] = dead[o]
  BY Counts, LessFacts DEF Aborted
<1>2. UNCHANGED <<live, stream, leftover>>
  BY DEF Aborted
<1>3. Outstanding("write")' <= Outstanding("write")
  BY <1>1, <1>2, Counts, OpsFacts DEF Outstanding
<1>4. OpenIsRead' /\ OneSocket' /\ ClosedIsQuiet'
  BY <1>2 DEF SessionInv, OpenIsRead, OneSocket, ClosedIsQuiet
<1> QED
  BY <1>1, <1>2, <1>3, <1>4, Counts DEF Kept, SessionInv, SessionTypeOK

LEMMA AttemptFailsKeeps ==
  ASSUME SessionInv, NEW op \in {"resolve", "connect", "handshake"},
         AttemptFails(op)
  PROVE  Kept
<1>0. op \in Ops
  BY OpsFacts
<1>1. /\ live' \in [Ops -> Nat]
      /\ live'[op] = live[op] - 1
      /\ \A o \in Ops \ {op} : live'[o] = live[o]
  BY <1>0, Counts, LessFacts DEF AttemptFails
<1>2. UNCHANGED <<dead, stream, leftover>>
  BY DEF AttemptFails
<1>3. \A o \in {"read", "write", "close"} : live'[o] = live[o]
  BY <1>1, OpsFacts
<1>4. \A o \in Ops : live'[o] \in Nat /\ live'[o] <= live[o]
  BY <1>1, <1>0, Counts
<1>5. Outstanding("write")' <= Outstanding("write")
  BY <1>2, <1>3, Counts, OpsFacts DEF Outstanding
<1>6. OpenIsRead' /\ ClosedIsQuiet'
  BY <1>2, <1>3 DEF SessionInv, OpenIsRead, ClosedIsQuiet
<1>7. OneSocket'
  BY <1>2, <1>4, Counts, OpsFacts DEF SessionInv, OneSocket
<1> QED
  BY <1>1, <1>2, <1>5, <1>6, <1>7, Counts DEF Kept, SessionInv, SessionTypeOK

LEMMA SeverKeeps ==
  ASSUME SessionInv, NEW op \in Ops, live[op] > 0, Sever(Less(live, op))
  PROVE  Kept /\ stream' = "closed"
<1>1. /\ Less(live, op) \in [Ops -> Nat]
      /\ \A o \in Ops : Less(live, op)[o] <= live[o]
  <2>1. /\ Less(live, op) \in [Ops -> Nat]
        /\ Less(live, op)[op] = live[op] - 1
        /\ \A o \in Ops \ {op} : Less(live, op)[o] = live[o]
    BY Counts, LessFacts
  <2> QED
    BY <2>1, Counts
<1>2. /\ live' \in [Ops -> Nat]
      /\ \A o \in Ops \ {"resolve"} : live'[o] = 0
  BY <1>1, SurvivorsFacts DEF Sever
<1>3. /\ dead' \in [Ops -> Nat]
      /\ \A o \in Ops \ {"resolve"} : dead'[o] = dead[o] + Less(live, op)[o]
  BY <1>1, Counts, CutOffFacts DEF Sever
<1>4. stream' = "closed"
  BY DEF Sever
<1>5. leftover' \in BOOLEAN
  BY DEF Sever, SessionInv, SessionTypeOK
<1>6. Outstanding("write")' <= Outstanding("write")
  BY <1>1, <1>2, <1>3, Counts, OpsFacts DEF Outstanding
<1>7. OpenIsRead' /\ OneSocket' /\ ClosedIsQuiet'
  BY <1>2, <1>4, OpsFacts DEF OpenIsRead, OneSocket, ClosedIsQuiet
<1> QED
  BY <1>2, <1>3, <1>4, <1>5, <1>6, <1>7 DEF Kept

(* A handler that leaves the queue alone and ends in kError, or in         *)
(* kDisconnected with the stream closed, preserves SessionInv.             *)
LEMMA EndedInv ==
  ASSUME SessionInv, Kept, budget' \in [Bounded -> Nat],
         UNCHANGED <<queue, posted, caller, wire>>,
         \/ state' = "kError"
         \/ state' = "kDisconnected" /\ stream' = "closed"
  PROVE  SessionInv'
<1>1. SessionTypeOK'
  BY DEF Kept, SessionInv, SessionTypeOK, States
<1>2. OneWriteOfQueued'
  <2>1. \A op \in Ops : live'[op] \in Nat /\ dead'[op] \in Nat
    BY DEF Kept
  <2>2. Outstanding("write")' \in Nat /\ Outstanding("write") \in Nat
    BY <2>1, Counts, OpsFacts DEF Outstanding
  <2>3. Outstanding("write")' <= Outstanding("write")
    BY DEF Kept
  <2>4. OneWriteOfQueued
    BY DEF SessionInv
  <2> QED
    BY <2>2, <2>3, <2>4 DEF OneWriteOfQueued
<1>3. StateIsTruthful'
  BY DEF StateIsTruthful
<1> QED
  BY <1>1, <1>2, <1>3 DEF Kept, SessionInv

-----------------------------------------------------------------------------
(* Each handler preserves SessionInv.                                      *)

LEMMA OnResolveInv ==
  ASSUME SessionInv, NEW cb, OnResolve(cb)
  PROVE  SessionInv'
<1>1. UNCHANGED <<queue, posted, caller, wire>>
  BY DEF OnResolve
<1>2. CASE AttemptFails("resolve") /\ state' = "kError"
  <2>1. Spend("fault")
    BY <1>2 DEF AttemptFails
  <2> QED
    BY <1>1, <1>2, <2>1, AttemptFailsKeeps, SpendType, EndedInv DEF Bounded
<1>3. CASE /\ live["resolve"] > 0
           /\ stream' = "closed"
           /\ live' = Plus(Survivors(Less(live, "resolve")), "connect")
           /\ dead' = CutOff(live)
           /\ leftover' \in {leftover, TRUE}
           /\ UNCHANGED <<state, budget>>
  <2>2. /\ Survivors(Less(live, "resolve")) \in [Ops -> Nat]
        /\ \A o \in Ops \ {"resolve"} : Survivors(Less(live, "resolve"))[o] = 0
    BY <1>3, Counts, OpsFacts, LessFacts, SurvivorsFacts
  <2>3. /\ live' \in [Ops -> Nat]
        /\ live'["connect"] = 1
        /\ \A o \in {"handshake", "read", "write", "close"} : live'[o] = 0
    BY <1>3, <2>2, OpsFacts, PlusFacts
  <2>4. /\ dead' \in [Ops -> Nat]
        /\ dead'["write"] = dead["write"] + live["write"]
    BY <1>3, Counts, CutOffFacts, OpsFacts
  <2>5. SessionTypeOK'
    BY <1>1, <1>3, <2>3, <2>4 DEF SessionInv, SessionTypeOK
  <2>6. OneWriteOfQueued'
    <3>1. Outstanding("write")' = Outstanding("write")
      BY <2>3, <2>4, Counts, OpsFacts DEF Outstanding
    <3> QED
      BY <1>1, <3>1 DEF SessionInv, OneWriteOfQueued
  <2>7. OpenIsRead' /\ OneSocket' /\ ClosedIsQuiet'
    BY <1>3, <2>3 DEF OpenIsRead, OneSocket, ClosedIsQuiet
  <2>8. Attempts' > 0
    <3>1. \A o \in Ops : live'[o] \in Nat /\ dead'[o] \in Nat
      BY <2>3, <2>4
    <3> QED
      BY <3>1, <2>3, OpsFacts DEF Attempts, Outstanding
  <2>9. StateIsTruthful'
    BY <1>3, <2>8 DEF SessionInv, StateIsTruthful
  <2> QED
    BY <2>5, <2>6, <2>7, <2>9 DEF SessionInv
<1> QED
  BY <1>2, <1>3 DEF OnResolve

LEMMA OnConnectInv ==
  ASSUME SessionInv, NEW cb, OnConnect(cb)
  PROVE  SessionInv'
<1>1. UNCHANGED <<queue, posted, caller, wire>>
  BY DEF OnConnect
<1>2. CASE Aborted("connect") /\ state' = "kError"
  <2>1. budget' \in [Bounded -> Nat]
    BY <1>2 DEF Aborted, SessionInv, SessionTypeOK
  <2> QED
    BY <1>1, <1>2, <2>1, AbortedKeeps, EndedInv, OpsFacts
<1>3. CASE AttemptFails("connect") /\ state' = "kError"
  <2>1. Spend("fault")
    BY <1>3 DEF AttemptFails
  <2> QED
    BY <1>1, <1>3, <2>1, AttemptFailsKeeps, SpendType, EndedInv DEF Bounded
<1>4. CASE /\ live["connect"] > 0
           /\ live' = Plus(Less(live, "connect"), "handshake")
           /\ UNCHANGED <<state, stream, dead, leftover, budget>>
  <2>1. /\ Less(live, "connect") \in [Ops -> Nat]
        /\ Less(live, "connect")["connect"] = live["connect"] - 1
        /\ \A o \in Ops \ {"connect"} : Less(live, "connect")[o] = live[o]
    BY <1>4, Counts, OpsFacts, LessFacts
  <2>2. /\ live' \in [Ops -> Nat]
        /\ live'["connect"] = live["connect"] - 1
        /\ live'["handshake"] = live["handshake"] + 1
        /\ \A o \in {"resolve", "read", "write", "close"} : live'[o] = live[o]
    BY <1>4, <2>1, OpsFacts, PlusFacts
  <2>3. SessionTypeOK'
    BY <1>1, <1>4, <2>2 DEF SessionInv, SessionTypeOK
  <2>4. OneWriteOfQueued' /\ OpenIsRead' /\ ClosedIsQuiet'
    BY <1>1, <1>4, <2>2
    DEF SessionInv, OneWriteOfQueued, Outstanding, OpenIsRead, ClosedIsQuiet
  <2>5. OneSocket'
    BY <1>4, <2>2, Counts, OpsFacts DEF SessionInv, OneSocket
  <2>6. Attempts' = Attempts
    BY <1>4, <2>2, Counts, OpsFacts DEF Attempts, Outstanding
  <2>7. StateIsTruthful'
    BY <1>4, <2>6 DEF SessionInv, StateIsTruthful
  <2> QED
    BY <2>3, <2>4, <2>5, <2>7 DEF SessionInv
<1> QED
  BY <1>2, <1>3, <1>4 DEF OnConnect

LEMMA OnHandshakeInv ==
  ASSUME SessionInv, NEW cb, OnHandshake(cb)
  PROVE  SessionInv'
<1>1. UNCHANGED <<queue, posted, caller, wire>>
  BY DEF OnHandshake
<1>2. CASE Aborted("handshake") /\ state' = "kError"
  <2>1. budget' \in [Bounded -> Nat]
    BY <1>2 DEF Aborted, SessionInv, SessionTypeOK
  <2> QED
    BY <1>1, <1>2, <2>1, AbortedKeeps, EndedInv, OpsFacts
<1>3. CASE AttemptFails("handshake") /\ state' = "kError"
  <2>1. Spend("fault")
    BY <1>3 DEF AttemptFails
  <2> QED
    BY <1>1, <1>3, <2>1, AttemptFailsKeeps, SpendType, EndedInv DEF Bounded
<1>4. CASE /\ live["handshake"] > 0
           /\ stream' = "open"
           /\ state' = "kConnected"
           /\ live' = DoRead(Less(live, "handshake"))
           /\ UNCHANGED <<dead, leftover, budget>>
  <2>1. /\ Less(live, "handshake") \in [Ops -> Nat]
        /\ Less(live, "handshake")["handshake"] = live["handshake"] - 1
        /\ \A o \in Ops \ {"handshake"} : Less(live, "handshake")[o] = live[o]
    BY <1>4, Counts, OpsFacts, LessFacts
  <2>2. /\ live' \in [Ops -> Nat]
        /\ live'["handshake"] = live["handshake"] - 1
        /\ live'["read"] = live["read"] + 1
        /\ \A o \in {"resolve", "connect", "write", "close"} : live'[o] = live[o]
    BY <1>4, <2>1, OpsFacts, PlusFacts DEF DoRead
  <2>3. stream = "closed" /\ live["read"] = 0
    BY <1>4 DEF SessionInv, SessionTypeOK, OneSocket, OpenIsRead
  <2>4. SessionTypeOK'
    BY <1>1, <1>4, <2>2 DEF SessionInv, SessionTypeOK, States
  <2>5. OneWriteOfQueued'
    BY <1>1, <1>4, <2>2 DEF SessionInv, OneWriteOfQueued, Outstanding
  <2>6. OpenIsRead' /\ ClosedIsQuiet'
    BY <1>4, <2>2, <2>3 DEF OpenIsRead, ClosedIsQuiet
  <2>7. OneSocket'
    BY <1>4, <2>2, Counts, OpsFacts DEF SessionInv, OneSocket
  <2>8. StateIsTruthful'
    BY <1>4 DEF StateIsTruthful
  <2> QED
    BY <2>4, <2>5, <2>6, <2>7, <2>8 DEF SessionInv
<1> QED
  BY <1>2, <1>3, <1>4 DEF OnHandshake

LEMMA ConnectionFailsKeeps ==
  ASSUME SessionInv, NEW op \in Ops, ConnectionFails(op)
  PROVE  Kept /\ budget' \in [Bounded -> Nat]
  BY SeverKeeps, SpendType DEF ConnectionFails, Bounded

LEMMA OnClosedInv ==
  ASSUME SessionInv, NEW cb, OnClosed(cb)
  PROVE  SessionInv'
<1>1. UNCHANGED <<queue, posted, caller, wire>>
  BY DEF OnClosed
<1>2. CASE Aborted("close") /\ state' = "kError"
  <2>1. budget' \in [Bounded -> Nat]
    BY <1>2 DEF Aborted, SessionInv, SessionTypeOK
  <2> QED
    BY <1>1, <1>2, <2>1, AbortedKeeps, EndedInv, OpsFacts
<1>3. CASE ConnectionFails("close") /\ state' = "kError"
  BY <1>1, <1>3, ConnectionFailsKeeps, EndedInv, OpsFacts
<1>4. CASE /\ live["close"] > 0
           /\ Sever(Less(live, "close"))
           /\ state' = "kDisconnected"
           /\ UNCHANGED budget
  <2>1. Kept /\ stream' = "closed"
    BY <1>4, SeverKeeps, OpsFacts
  <2>2. budget' \in [Bounded -> Nat]
    BY <1>4 DEF SessionInv, SessionTypeOK
  <2> QED
    BY <1>1, <1>4, <2>1, <2>2, EndedInv
<1> QED
  BY <1>2, <1>3, <1>4 DEF OnClosed

LEMMA OnWriteInv ==
  ASSUME SessionInv, NEW cb, OnWrite(cb)
  PROVE  SessionInv'
<1>1. UNCHANGED <<posted, caller>>
  BY DEF OnWrite
<1>2. CASE Aborted("write") /\ state' = "kError" /\ UNCHANGED <<queue, wire>>
  <2>1. budget' \in [Bounded -> Nat]
    BY <1>2 DEF Aborted, SessionInv, SessionTypeOK
  <2> QED
    BY <1>1, <1>2, <2>1, AbortedKeeps, EndedInv, OpsFacts
<1>3. CASE ConnectionFails("write") /\ state' = "kError" /\ UNCHANGED <<queue, wire>>
  BY <1>1, <1>3, ConnectionFailsKeeps, EndedInv, OpsFacts
<1>4. CASE /\ live["write"] > 0
           /\ wire' = Append(wire, Head(queue))
           /\ queue' = Tail(queue)
           /\ live' = IF queue' = <<>> THEN Less(live, "write") ELSE live
           /\ UNCHANGED <<state, stream, dead, leftover, budget>>
  <2>1. /\ live["write"] = 1 /\ dead["write"] = 0
        /\ queue # <<>>
    BY <1>4, Counts, OpsFacts DEF SessionInv, OneWriteOfQueued, Outstanding
  <2>2. queue' \in Seq(Msgs) /\ wire' \in Seq(Msgs)
    BY <1>4, <2>1 DEF SessionInv, SessionTypeOK
  <2>3. /\ live' \in [Ops -> Nat]
        /\ \A o \in Ops \ {"write"} : live'[o] = live[o]
        /\ live'["write"] = IF queue' = <<>> THEN 0 ELSE 1
    <3>1. CASE queue' = <<>>
      <4>1. live' = Less(live, "write")
        BY <1>4, <3>1
      <4>2. /\ Less(live, "write") \in [Ops -> Nat]
            /\ Less(live, "write")["write"] = live["write"] - 1
            /\ \A o \in Ops \ {"write"} : Less(live, "write")[o] = live[o]
        <5>1. live["write"] > 0
          BY <1>4
        <5> QED
          BY <5>1, Counts, LessFacts, OpsFacts
      <4> QED
        BY <2>1, <3>1, <4>1, <4>2
    <3>2. CASE queue' # <<>>
      BY <1>4, <2>1, <3>2, Counts
    <3> QED
      BY <3>1, <3>2
  <2>4. SessionTypeOK'
    BY <1>1, <1>4, <2>2, <2>3 DEF SessionInv, SessionTypeOK
  <2>5. OneWriteOfQueued'
    BY <1>4, <2>1, <2>3 DEF OneWriteOfQueued, Outstanding
  <2>6. OpenIsRead' /\ OneSocket'
    BY <1>4, <2>3, OpsFacts DEF SessionInv, OpenIsRead, OneSocket
  <2>7. ClosedIsQuiet'
    BY <1>4, <2>1, OpsFacts DEF SessionInv, ClosedIsQuiet
  <2>8. StateIsTruthful'
    BY <1>4, <2>3, OpsFacts
    DEF SessionInv, StateIsTruthful, Attempts, Outstanding
  <2> QED
    BY <2>4, <2>5, <2>6, <2>7, <2>8 DEF SessionInv
<1> QED
  BY <1>2, <1>3, <1>4 DEF OnWrite

LEMMA OnReadInv ==
  ASSUME SessionInv, NEW cb, OnRead(cb)
  PROVE  SessionInv'
<1>1. UNCHANGED <<queue, posted, caller, wire>>
  BY DEF OnRead
<1>2. CASE Aborted("read") /\ UNCHANGED state
  <2>1. /\ Kept
        /\ live' = live
        /\ \A o \in Ops \ {"read"} : dead'[o] = dead[o]
    BY <1>2, AbortedKeeps, OpsFacts
  <2>2. UNCHANGED <<stream, leftover, budget>>
    BY <1>2 DEF Aborted
  <2>3. SessionTypeOK'
    BY <1>1, <1>2, <2>1, <2>2 DEF Kept, SessionInv, SessionTypeOK
  <2>4. OneWriteOfQueued'
    BY <1>1, <2>1, OpsFacts DEF SessionInv, OneWriteOfQueued, Outstanding
  <2>5. StateIsTruthful'
    BY <1>2, <2>1, <2>2, OpsFacts
    DEF SessionInv, StateIsTruthful, Attempts, Outstanding
  <2> QED
    BY <2>1, <2>3, <2>4, <2>5 DEF Kept, SessionInv
<1>3. CASE CloseFrame /\ OnDisconnected(cb)
  <2>1. state' = "kError"
    BY <1>3 DEF OnDisconnected
  <2>2. Kept /\ budget' \in [Bounded -> Nat]
    <3>1. CASE ConnectionFails("read")
      BY <3>1, ConnectionFailsKeeps, OpsFacts
    <3>2. CASE live["read"] > 0 /\ Sever(Less(live, "read")) /\ UNCHANGED budget
      BY <3>2, SeverKeeps, OpsFacts DEF SessionInv, SessionTypeOK
    <3> QED
      BY <1>3, <3>1, <3>2 DEF CloseFrame
  <2> QED
    BY <1>1, <2>1, <2>2, EndedInv
<1>4. CASE ConnectionFails("read") /\ state' = "kError"
  BY <1>1, <1>4, ConnectionFailsKeeps, EndedInv, OpsFacts
<1>5. CASE /\ live["read"] > 0
           /\ leftover' = FALSE
           /\ live' = DoRead(Less(live, "read"))
           /\ UNCHANGED <<state, stream, dead, budget>>
  <2>1. /\ Less(live, "read") \in [Ops -> Nat]
        /\ Less(live, "read")["read"] = live["read"] - 1
        /\ \A o \in Ops \ {"read"} : Less(live, "read")[o] = live[o]
    BY <1>5, Counts, OpsFacts, LessFacts
  <2>2. /\ live' \in [Ops -> Nat]
        /\ \A o \in Ops : live'[o] = live[o]
    <3>1. live' = Plus(Less(live, "read"), "read")
      BY <1>5 DEF DoRead
    <3>2. /\ Plus(Less(live, "read"), "read") \in [Ops -> Nat]
          /\ Plus(Less(live, "read"), "read")["read"] = live["read"] - 1 + 1
          /\ \A o \in Ops \ {"read"} :
               Plus(Less(live, "read"), "read")[o] = Less(live, "read")[o]
      BY <2>1, PlusFacts, OpsFacts
    <3>3. live'["read"] = live["read"]
      BY <3>1, <3>2, Counts, OpsFacts
    <3> QED
      BY <2>1, <3>1, <3>2, <3>3
  <2>3. SessionTypeOK'
    BY <1>1, <1>5, <2>2 DEF SessionInv, SessionTypeOK
  <2>4. OneWriteOfQueued'
    BY <1>1, <1>5, <2>2, OpsFacts DEF SessionInv, OneWriteOfQueued, Outstanding
  <2>5. OpenIsRead' /\ OneSocket' /\ ClosedIsQuiet'
    BY <1>5, <2>2, OpsFacts DEF SessionInv, OpenIsRead, OneSocket, ClosedIsQuiet
  <2>6. StateIsTruthful'
    BY <1>5, <2>2, OpsFacts
    DEF SessionInv, StateIsTruthful, Attempts, Outstanding
  <2> QED
    BY <2>3, <2>4, <2>5, <2>6 DEF SessionInv
<1> QED
  BY <1>2, <1>3, <1>4, <1>5 DEF OnRead

-----------------------------------------------------------------------------
(* Every step of the session preserves SessionInv.                         *)
LEMMA NextInv == SessionInv /\ [SessionNext]_sessionVars => SessionInv'
<1> SUFFICES ASSUME SessionInv, [SessionNext]_sessionVars
             PROVE  SessionInv'
  OBVIOUS
<1>1. ASSUME NEW t \in Threads, Connect(t), Spend("connect")
      PROVE  SessionInv'
  BY <1>1, ConnectInv, SpendType DEF Bounded
<1>2. ASSUME NEW t \in Threads, Resume(t)
      PROVE  SessionInv'
  BY <1>2, ResumeInv
<1>3. CASE Disconnect /\ Spend("disconnect")
  BY <1>3, DisconnectInv, SpendType DEF Bounded
<1>4. ASSUME NEW t \in Threads, SendData(t), Spend("send")
      PROVE  SessionInv'
  BY <1>4, SendDataInv, SpendType DEF Bounded
<1>5. CASE SendDataInner
  BY <1>5, SendDataInnerInv
<1>6. ASSUME NEW op \in Ops, NEW cb \in Callbacks, Handler(op, cb)
      PROVE  SessionInv'
  BY <1>6, OnResolveInv, OnConnectInv, OnHandshakeInv, OnClosedInv, OnWriteInv,
     OnReadInv DEF Handler
<1>7. CASE UNCHANGED sessionVars
  BY <1>7, StutterInv
<1> QED
  BY <1>1, <1>2, <1>3, <1>4, <1>5, <1>6, <1>7 DEF SessionNext

(* SessionInv holds in every reachable state, whatever the messages, the   *)
(* threads and the numbers of calls and of network failures.               *)
THEOREM SessionInvariance == SessionSpec => []SessionInv
<1>1. SessionInit => SessionInv
  BY InitInv
<1>2. SessionInv /\ [SessionNext]_sessionVars => SessionInv'
  BY NextInv
<1> QED
  BY <1>1, <1>2, PTL DEF SessionSpec

(* The variables keep their types.                                         *)
THEOREM TypeCorrect == SessionSpec => []SessionTypeOK
<1>1. SessionInv => SessionTypeOK
  BY DEF SessionInv
<1> QED
  BY <1>1, SessionInvariance, PTL

(* SendDataInner and OnWrite never have two async_writes outstanding, and  *)
(* the one outstanding writes a message that is still in the queue.        *)
THEOREM WritesOneAtATime == SessionSpec => []OneWriteOfQueued
<1>1. SessionInv => OneWriteOfQueued
  BY DEF SessionInv
<1> QED
  BY <1>1, SessionInvariance, PTL

(* An open connection has exactly one async_read outstanding.              *)
THEOREM ReadsWhileOpen == SessionSpec => []OpenIsRead
<1>1. SessionInv => OpenIsRead
  BY DEF SessionInv
<1> QED
  BY <1>1, SessionInvariance, PTL

(* CurrentState does not say kConnecting with no attempt under way, nor    *)
(* kDisconnected of an open connection, nor kConnected of neither.         *)
THEOREM StateTruthful == SessionSpec => []StateIsTruthful
<1>1. SessionInv => StateIsTruthful
  BY DEF SessionInv
<1> QED
  BY <1>1, SessionInvariance, PTL

-----------------------------------------------------------------------------
(* The session implements the Outbox.                                      *)

LEMMA AppendConcat ==
  ASSUME NEW q \in Seq(Msgs), NEW p \in Seq(Msgs), NEW m \in Msgs
  PROVE  q \o Append(p, m) = Append(q \o p, m)
  OBVIOUS

LEMMA MoveConcat ==
  ASSUME NEW q \in Seq(Msgs), NEW p \in Seq(Msgs), p # <<>>
  PROVE  Append(q, Head(p)) \o Tail(p) = q \o p
  OBVIOUS

LEMMA TailConcat ==
  ASSUME NEW q \in Seq(Msgs), NEW p \in Seq(Msgs), q # <<>>
  PROVE  /\ q \o p # <<>>
         /\ Head(q \o p) = Head(q)
         /\ Tail(q \o p) = Tail(q) \o p
  OBVIOUS

(* A step of the session, whoever takes it and whether or not the call is  *)
(* taken from the budget.                                                  *)
SessionStep ==
  \/ \E t \in Threads : Connect(t) \/ SendData(t) \/ Resume(t)
  \/ Disconnect
  \/ SendDataInner
  \/ \E op \in Ops, cb \in Callbacks : Handler(op, cb)
  \/ UNCHANGED <<queue, posted, wire>>

LEMMA StepOutbox ==
  ASSUME SessionInv, SessionStep
  PROVE  [Sending!OutboxNext]_(Sending!outboxVars)
<1> SUFFICES \/ Sending!OutboxNext
             \/ UNCHANGED <<queue \o posted, wire>>
  BY DEF Sending!outboxVars
<1>0. queue \in Seq(Msgs) /\ posted \in Seq(Msgs)
  BY DEF SessionInv, SessionTypeOK
<1>1. ASSUME NEW t \in Threads,
             Connect(t) \/ SendData(t) \/ ReloadInConnect(t) \/ StartResolve(t)
      PROVE  UNCHANGED <<queue, posted, wire>>
  BY <1>1 DEF Connect, SendData, ReloadInConnect, StartResolve
<1>2. ASSUME Disconnect PROVE UNCHANGED <<queue, posted, wire>>
  BY <1>2 DEF Disconnect
<1>3. ASSUME NEW t \in Threads, NEW m \in Msgs, ReloadInSendData(t, m)
      PROVE  Sending!Accept(m) \/ UNCHANGED <<queue, posted, wire>>
  <2>1. CASE state = "kError"
    BY <1>3, <2>1 DEF ReloadInSendData
  <2>2. CASE state # "kError"
    BY <1>0, <1>3, <2>2, AppendConcat DEF ReloadInSendData, Sending!Accept
  <2> QED
    BY <2>1, <2>2
<1>4. ASSUME SendDataInner
      PROVE  UNCHANGED <<queue \o posted, wire>>
  BY <1>0, <1>4, MoveConcat DEF SendDataInner
<1>5. ASSUME NEW cb, OnWrite(cb)
      PROVE  Sending!Transmit \/ UNCHANGED <<queue, posted, wire>>
  <2>1. CASE UNCHANGED <<queue, wire>>
    BY <1>5, <2>1 DEF OnWrite
  <2>2. CASE live["write"] > 0 /\ wire' = Append(wire, Head(queue)) /\ queue' = Tail(queue)
    <3>1. queue # <<>>
      BY <2>2, Counts, OpsFacts DEF SessionInv, OneWriteOfQueued, Outstanding
    <3>2. posted' = posted
      BY <1>5 DEF OnWrite
    <3> QED
      BY <1>0, <2>2, <3>1, <3>2, TailConcat DEF Sending!Transmit
  <2> QED
    BY <1>5, <2>1, <2>2 DEF OnWrite
<1>6. ASSUME NEW op \in Ops, NEW cb \in Callbacks, Handler(op, cb)
      PROVE  Sending!Transmit \/ UNCHANGED <<queue, posted, wire>>
  <2>1. CASE op = "write" /\ OnWrite(cb)
    BY <1>5, <2>1
  <2>2. CASE OnResolve(cb) \/ OnConnect(cb) \/ OnHandshake(cb)
    BY <2>2 DEF OnResolve, OnConnect, OnHandshake
  <2>3. CASE OnClosed(cb) \/ OnRead(cb)
    BY <2>3 DEF OnClosed, OnRead
  <2> QED
    BY <1>6, <2>1, <2>2, <2>3 DEF Handler
<1> QED
  BY <1>1, <1>2, <1>3, <1>4, <1>6
  DEF SessionStep, Resume, Sending!OutboxNext

LEMMA NextOutbox ==
  SessionInv /\ [SessionNext]_sessionVars
    => [Sending!OutboxNext]_(Sending!outboxVars)
<1>1. [SessionNext]_sessionVars => SessionStep
  BY DEF SessionNext, SessionStep, sessionVars
<1> QED
  BY <1>1, StepOutbox

(* Connections come and go, writes fail and threads race; the messages     *)
(* SendData has accepted still leave in order, once, and none is lost.     *)
THEOREM ImplementsOutbox == SessionSpec => IsOutbox
<1>1. SessionInit => Sending!OutboxInit
  BY DEF SessionInit, Sending!OutboxInit
<1>2. SessionInv /\ [SessionNext]_sessionVars
        => [Sending!OutboxNext]_(Sending!outboxVars)
  BY NextOutbox
<1> QED
  BY <1>1, <1>2, SessionInvariance, PTL
  DEF SessionSpec, IsOutbox, Sending!OutboxSpec

=============================================================================
