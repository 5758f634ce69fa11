---------------------- MODULE WebsocketMessenger_proofs ----------------------
(***************************************************************************)
(* Proofs about WebsocketMessenger, for any threads, messages and budget.  *)
(* The session keeps its invariant when the messenger drives it, the       *)
(* recovery timer's calls of Connect included.                             *)
(***************************************************************************)
EXTENDS WebsocketMessenger, WebsocketSession_proofs

MessengerInv ==
  /\ SessionInv
  /\ MessengerTypeOK
  /\ MessengerAgrees

LEMMA TypeFromParts ==
  ASSUME SessionInv', mstate' \in MessengerStates, tryRecovery' \in BOOLEAN,
         armed' \in BOOLEAN, ready' \in Nat, at' \in [Threads -> Places]
  PROVE  MessengerTypeOK'
  BY DEF MessengerTypeOK, SessionInv

LEMMA GoType ==
  ASSUME MessengerInv, NEW t \in Threads, NEW place \in Places, Go(t, place)
  PROVE  at' \in [Threads -> Places]
  BY DEF Go, MessengerInv, MessengerTypeOK

LEMMA EndWaitType ==
  ASSUME MessengerInv, EndWait
  PROVE  ready' \in Nat
  BY DEF EndWait, MessengerInv, MessengerTypeOK

(* What a handler tells the messenger is what it has stored in state_.     *)
LEMMA HandlerReports ==
  ASSUME NEW op \in Ops, NEW cb \in Callbacks, Handler(op, cb)
  PROVE  \/ cb \in Errors /\ state' = "kError"
         \/ cb = "close" /\ state' = "kDisconnected"
         \/ cb = "connect" /\ state' = "kConnected"
         \/ cb \in {"none", "message"} /\ state' = state
<1>1. CASE OnResolve(cb)
  BY <1>1 DEF OnResolve, Errors
<1>2. CASE OnConnect(cb)
  BY <1>2 DEF OnConnect, Errors
<1>3. CASE OnHandshake(cb)
  BY <1>3 DEF OnHandshake, Errors
<1>4. CASE OnClosed(cb)
  BY <1>4 DEF OnClosed, Errors
<1>5. CASE OnWrite(cb)
  BY <1>5 DEF OnWrite, Errors
<1>6. CASE OnRead(cb)
  BY <1>6 DEF OnRead, OnDisconnected, Errors
<1> QED
  BY <1>1, <1>2, <1>3, <1>4, <1>5, <1>6 DEF Handler

LEMMA HandlerInv ==
  ASSUME SessionInv, NEW op \in Ops, NEW cb \in Callbacks, Handler(op, cb)
  PROVE  SessionInv'
  BY OnResolveInv, OnConnectInv, OnHandshakeInv, OnClosedInv, OnWriteInv,
     OnReadInv DEF Handler

(* A handler of the session with the callback it ends with.               *)
LEMMA ReactInv ==
  ASSUME MessengerInv, NEW t \in Threads, NEW op \in Ops,
         NEW cb \in Callbacks, Handler(op, cb), React(cb, t),
         UNCHANGED <<tryRecovery, timerVars>>
  PROVE  MessengerInv'
<1>0. t \in Threads
  OBVIOUS
<1>1. Handler(op, cb) /\ React(cb, t)
  OBVIOUS
<1>2. SessionInv'
  BY <1>1, HandlerInv DEF MessengerInv
<1>3. UNCHANGED <<tryRecovery, armed, ready>>
  BY DEF timerVars
<1>4. /\ mstate' \in MessengerStates
      /\ at' \in [Threads -> Places]
  <2>1. at \in [Threads -> Places] /\ mstate \in MessengerStates
    BY DEF MessengerInv, MessengerTypeOK
  <2>2. CASE cb \in Errors /\ OnErrorCallback(cb, t)
    BY <1>0, <2>1, <2>2, GoType DEF OnErrorCallback, MessengerStates, Places
  <2>3. CASE OnConnectedCallback \/ OnClosedCallback \/ UNCHANGED <<mstate, at>>
    BY <2>1, <2>3 DEF OnConnectedCallback, OnClosedCallback, MessengerStates
  <2> QED
    BY <1>1, <2>2, <2>3 DEF React, OnReceiveMsgCallback
<1>5. MessengerAgrees'
  <2>1. MessengerAgrees
    BY DEF MessengerInv
  <2>2. CASE cb \in Errors /\ state' = "kError"
    <3>1. mstate' = "kMessengerError"
      BY <1>1, <2>2 DEF React, OnErrorCallback, Errors
    <3> QED
      BY <2>2, <3>1 DEF MessengerAgrees
  <2>3. CASE cb = "close" /\ state' = "kDisconnected"
    <3>1. mstate' = "kMessengerClosed"
      BY <1>1, <2>3 DEF React, OnClosedCallback, Errors
    <3> QED
      BY <2>3, <3>1 DEF MessengerAgrees
  <2>4. CASE cb = "connect" /\ state' = "kConnected"
    <3>1. mstate' = "kMessengerOpened"
      BY <1>1, <2>4 DEF React, OnConnectedCallback, Errors
    <3> QED
      BY <2>4, <3>1 DEF MessengerAgrees
  <2>5. CASE cb \in {"none", "message"} /\ state' = state
    <3>1. mstate' = mstate
      BY <1>1, <2>5 DEF React, OnReceiveMsgCallback, Errors
    <3> QED
      BY <2>1, <2>5, <3>1 DEF MessengerAgrees
  <2> QED
    BY <1>1, <2>2, <2>3, <2>4, <2>5, HandlerReports
<1>6. MessengerTypeOK'
  BY <1>2, <1>3, <1>4, TypeFromParts DEF MessengerInv, MessengerTypeOK
<1> QED
  BY <1>2, <1>5, <1>6 DEF MessengerInv

LEMMA OnStrandInv ==
  ASSUME MessengerInv, ThreadsAssumption, NEW t \in IoThreads, NEW op \in Ops,
         OnStrand(op, t)
  PROVE  MessengerInv'
<1>1. t \in Threads
  BY DEF ThreadsAssumption
<1>2. PICK cb \in Callbacks : Handler(op, cb) /\ React(cb, t)
  BY DEF OnStrand
<1>3. UNCHANGED <<tryRecovery, timerVars>>
  BY DEF OnStrand
<1> QED
  BY <1>1, <1>2, <1>3, ReactInv

(* Calls and the timer leave both states as they are, or make the state of *)
(* the session kConnecting, of which MessengerAgrees says nothing.         *)
LEMMA AgreesWhen ==
  ASSUME MessengerInv, mstate' = mstate,
         state' = state \/ state' = "kConnecting"
  PROVE  MessengerAgrees'
  BY DEF MessengerInv, MessengerAgrees

LEMMA ProceedInv ==
  ASSUME MessengerInv, NEW t \in Threads, Proceed(t)
  PROVE  MessengerInv'
<1>0. /\ SessionInv
      /\ mstate \in MessengerStates /\ tryRecovery \in BOOLEAN
      /\ armed \in BOOLEAN /\ ready \in Nat /\ at \in [Threads -> Places]
      /\ budget \in [Bounded -> Nat]
  BY DEF MessengerInv, MessengerTypeOK, SessionTypeOK
<1>1. CASE CallConnect(t)
  <2>1. SessionInv' /\ state' = state
    <3>1. Connect(t) /\ UNCHANGED budget
      BY <1>1 DEF CallConnect
    <3> QED
      BY <1>0, <3>1, ConnectInv DEF Connect
  <2>2. at' \in [Threads -> Places]
    BY <1>1, GoType DEF CallConnect, Places
  <2>3. UNCHANGED <<mstate, tryRecovery, armed, ready>>
    BY <1>1 DEF CallConnect, timerVars
  <2> QED
    BY <1>0, <2>1, <2>2, <2>3, AgreesWhen, TypeFromParts DEF MessengerInv
<1>2. CASE CancelTimer(t)
  <2>1. SessionInv' /\ state' = state
    BY <1>0, <1>2, StutterInv DEF CancelTimer, sessionVars
  <2>2. at' \in [Threads -> Places] /\ ready' \in Nat
    BY <1>2, GoType, EndWaitType DEF CancelTimer, Places
  <2>3. UNCHANGED <<mstate, tryRecovery>> /\ armed' = FALSE
    BY <1>2 DEF CancelTimer
  <2> QED
    BY <1>0, <2>1, <2>2, <2>3, AgreesWhen, TypeFromParts DEF MessengerInv
<1>3. CASE CallDisconnect(t)
  <2>1. SessionInv' /\ state' = state
    <3>1. CASE Disconnect /\ UNCHANGED budget
      BY <1>0, <3>1, DisconnectInv DEF Disconnect
    <3>2. CASE UNCHANGED sessionVars
      BY <1>0, <3>2, StutterInv DEF sessionVars
    <3> QED
      BY <1>3, <3>1, <3>2 DEF CallDisconnect
  <2>2. at' \in [Threads -> Places]
    BY <1>3, GoType DEF CallDisconnect, Places
  <2>3. UNCHANGED <<mstate, tryRecovery, armed, ready>>
    BY <1>3 DEF CallDisconnect, timerVars
  <2> QED
    BY <1>0, <2>1, <2>2, <2>3, AgreesWhen, TypeFromParts DEF MessengerInv
<1>4. CASE TestRecovery(t)
  <2>1. SessionInv' /\ state' = state
    BY <1>0, <1>4, StutterInv DEF TestRecovery, sessionVars
  <2>2. at' \in [Threads -> Places]
    BY <1>4, GoType DEF TestRecovery, Places
  <2>3. UNCHANGED <<mstate, tryRecovery, armed, ready>>
    BY <1>4 DEF TestRecovery, timerVars
  <2> QED
    BY <1>0, <2>1, <2>2, <2>3, AgreesWhen, TypeFromParts DEF MessengerInv
<1>5. CASE ArmRecovery(t)
  <2>1. SessionInv' /\ state' = state
    BY <1>0, <1>5, StutterInv DEF ArmRecovery, sessionVars
  <2>2. at' \in [Threads -> Places] /\ ready' \in Nat
    BY <1>5, GoType, EndWaitType DEF ArmRecovery, Places
  <2>3. UNCHANGED <<mstate, tryRecovery>> /\ armed' = TRUE
    BY <1>5 DEF ArmRecovery
  <2> QED
    BY <1>0, <2>1, <2>2, <2>3, AgreesWhen, TypeFromParts DEF MessengerInv
<1>6. CASE Resume(t) /\ UNCHANGED <<mstate, tryRecovery, timerVars, at>>
  <2>1. SessionInv' /\ (state' = state \/ state' = "kConnecting")
    BY <1>0, <1>6, ResumeInv
    DEF Resume, ReloadInConnect, StartResolve, ReloadInSendData
  <2> QED
    BY <1>0, <1>6, <2>1, AgreesWhen, TypeFromParts DEF MessengerInv, timerVars
<1> QED
  BY <1>1, <1>2, <1>3, <1>4, <1>5, <1>6 DEF Proceed

LEMMA CallInv ==
  ASSUME MessengerInv, NEW t \in Threads,
         Open(t) \/ Close(t) \/ SendMessage(t)
  PROVE  MessengerInv'
<1>0. /\ SessionInv
      /\ mstate \in MessengerStates /\ tryRecovery \in BOOLEAN
      /\ armed \in BOOLEAN /\ ready \in Nat /\ at \in [Threads -> Places]
  BY DEF MessengerInv, MessengerTypeOK
<1>1. budget' \in [Bounded -> Nat]
  BY <1>0, SpendType DEF Open, Close, SendMessage, Bounded
<1>2. CASE Open(t) \/ Close(t)
  <2>1. SessionInv' /\ state' = state
    <3>1. UNCHANGED <<state, queue, posted, leftover, stream, live, dead,
                      caller, wire>>
      BY <1>2 DEF Open, Close
    <3>2. SessionTypeOK'
      BY <1>0, <1>1, <3>1 DEF SessionInv, SessionTypeOK
    <3> QED
      BY <1>0, <3>1, <3>2
      DEF SessionInv, OneWriteOfQueued, OpenIsRead, StateIsTruthful,
          OneSocket, ClosedIsQuiet, Outstanding, Attempts
  <2>2. at' \in [Threads -> Places]
    BY <1>2, GoType DEF Open, Close, Places
  <2>3. UNCHANGED <<mstate, armed, ready>> /\ tryRecovery' \in BOOLEAN
    BY <1>2 DEF Open, Close, timerVars
  <2> QED
    BY <1>0, <2>1, <2>2, <2>3, AgreesWhen, TypeFromParts DEF MessengerInv
<1>3. CASE SendMessage(t)
  <2>1. SessionInv' /\ state' = state
    BY <1>0, <1>1, <1>3, SendDataInv DEF SendMessage, SendData
  <2>2. UNCHANGED <<mstate, tryRecovery, armed, ready, at>>
    BY <1>3 DEF SendMessage, timerVars
  <2> QED
    BY <1>0, <2>1, <2>2, AgreesWhen, TypeFromParts DEF MessengerInv
<1> QED
  BY <1>2, <1>3

LEMMA SendOnStrandInv ==
  ASSUME MessengerInv, NEW t \in IoThreads, SendOnStrand(t)
  PROVE  MessengerInv'
<1>1. SessionInv' /\ state' = state
  BY SendDataInnerInv DEF MessengerInv, SendOnStrand, SendDataInner
<1>2. UNCHANGED <<mstate, tryRecovery, armed, ready, at>>
  BY DEF SendOnStrand, timerVars
<1> QED
  BY <1>1, <1>2, AgreesWhen, TypeFromParts DEF MessengerInv, MessengerTypeOK

LEMMA TimerFiresInv ==
  ASSUME MessengerInv, TimerFires
  PROVE  MessengerInv'
<1>1. SessionInv' /\ state' = state
  BY StutterInv DEF MessengerInv, TimerFires, sessionVars
<1>2. ready' \in Nat
  BY EndWaitType DEF TimerFires
<1>3. UNCHANGED <<mstate, tryRecovery, at>> /\ armed' = FALSE
  BY DEF TimerFires
<1> QED
  BY <1>1, <1>2, <1>3, AgreesWhen, TypeFromParts DEF MessengerInv, MessengerTypeOK

LEMMA TimerHandlerInv ==
  ASSUME MessengerInv, NEW t \in Threads, TimerHandler(t)
  PROVE  MessengerInv'
<1>0. /\ mstate \in MessengerStates /\ tryRecovery \in BOOLEAN
      /\ armed \in BOOLEAN /\ ready \in Nat /\ at \in [Threads -> Places]
  BY DEF MessengerInv, MessengerTypeOK
<1>1. SessionInv' /\ state' = state
  BY StutterInv DEF MessengerInv, TimerHandler, sessionVars
<1>2. ready' \in Nat
  BY <1>0 DEF TimerHandler
<1>3. UNCHANGED <<mstate, tryRecovery, armed>>
  BY DEF TimerHandler
<1>4. at' \in [Threads -> Places]
  BY <1>0, GoType DEF TimerHandler, Places
<1> QED
  BY <1>0, <1>1, <1>2, <1>3, <1>4, AgreesWhen, TypeFromParts DEF MessengerInv

LEMMA MessengerStutterInv ==
  ASSUME MessengerInv, UNCHANGED messengerVars
  PROVE  MessengerInv'
<1>1. SessionInv' /\ state' = state
  BY StutterInv DEF MessengerInv, messengerVars, sessionVars
<1>2. UNCHANGED <<mstate, tryRecovery, armed, ready, at>>
  BY DEF messengerVars, timerVars
<1> QED
  BY <1>1, <1>2, AgreesWhen, TypeFromParts DEF MessengerInv, MessengerTypeOK

LEMMA MessengerInitInv == MessengerInit => MessengerInv
<1> SUFFICES ASSUME MessengerInit PROVE MessengerInv
  OBVIOUS
<1>1. SessionInv
  BY InitInv DEF MessengerInit
<1>2. at \in [Threads -> Places]
  BY DEF MessengerInit, Places
<1>3. MessengerTypeOK
  BY <1>1, <1>2
  DEF MessengerInit, MessengerTypeOK, SessionInv, MessengerStates
<1>4. MessengerAgrees
  BY DEF MessengerInit, SessionInit, MessengerAgrees
<1> QED
  BY <1>1, <1>3, <1>4 DEF MessengerInv

-----------------------------------------------------------------------------
LEMMA MessengerNextInv ==
  MessengerInv /\ [MessengerNext]_messengerVars => MessengerInv'
<1> SUFFICES ASSUME MessengerInv, [MessengerNext]_messengerVars
             PROVE  MessengerInv'
  OBVIOUS
<1>0. AppThreads \subseteq Threads /\ IoThreads \subseteq Threads
  BY ThreadsAssumption
<1>1. ASSUME NEW t \in AppThreads, Open(t) \/ Close(t) \/ SendMessage(t)
      PROVE  MessengerInv'
  BY <1>0, <1>1, CallInv
<1>2. ASSUME NEW t \in Threads, Proceed(t)
      PROVE  MessengerInv'
  BY <1>2, ProceedInv
<1>3. ASSUME NEW t \in IoThreads, NEW op \in Ops, OnStrand(op, t)
      PROVE  MessengerInv'
  BY <1>3, OnStrandInv, ThreadsAssumption
<1>4. ASSUME NEW t \in IoThreads, SendOnStrand(t) \/ TimerHandler(t)
      PROVE  MessengerInv'
  BY <1>0, <1>4, SendOnStrandInv, TimerHandlerInv
<1>5. CASE TimerFires
  BY <1>5, TimerFiresInv
<1>6. CASE UNCHANGED messengerVars
  BY <1>6, MessengerStutterInv
<1> QED
  BY <1>1, <1>2, <1>3, <1>4, <1>5, <1>6 DEF MessengerNext

(* MessengerInv holds in every reachable state.                            *)
THEOREM MessengerInvariance == MessengerSpec => []MessengerInv
  BY MessengerInitInv, MessengerNextInv, PTL DEF MessengerSpec

(* The variables of the messenger and its session keep their types.        *)
THEOREM MessengerTypeCorrect == MessengerSpec => []MessengerTypeOK
<1>1. MessengerInv => MessengerTypeOK
  BY DEF MessengerInv
<1> QED
  BY <1>1, MessengerInvariance, PTL

(* Outside an attempt, CurrentState of the messenger agrees with the state *)
(* of the session.                                                         *)
THEOREM MessengerInAgreement == MessengerSpec => []MessengerAgrees
<1>1. MessengerInv => MessengerAgrees
  BY DEF MessengerInv
<1> QED
  BY <1>1, MessengerInvariance, PTL

(* The session's state is truthful also when the messenger's timer calls   *)
(* Connect behind the application's back.                                  *)
THEOREM TruthfulUnderMessenger == MessengerSpec => []StateIsTruthful
<1>1. MessengerInv => StateIsTruthful
  BY DEF MessengerInv, SessionInv
<1> QED
  BY <1>1, MessengerInvariance, PTL

(* Also when the timer connects and Close cancels it, no two writes are    *)
(* outstanding, and an open connection has one read: what Beast requires   *)
(* of its user holds of the session inside the messenger.                  *)
THEOREM StreamUsedRightly == MessengerSpec => [](OneWriteOfQueued /\ OpenIsRead)
<1>1. MessengerInv => OneWriteOfQueued /\ OpenIsRead
  BY DEF MessengerInv, SessionInv
<1> QED
  BY <1>1, MessengerInvariance, PTL

-----------------------------------------------------------------------------
(* The session keeps its promise inside the messenger.                     *)

LEMMA ProceedIsStep ==
  ASSUME NEW t \in Threads, Proceed(t)
  PROVE  SessionStep
<1>1. CASE CallConnect(t)
  BY <1>1 DEF CallConnect, SessionStep
<1>2. CASE CancelTimer(t) \/ TestRecovery(t) \/ ArmRecovery(t)
  BY <1>2 DEF CancelTimer, TestRecovery, ArmRecovery, sessionVars, SessionStep
<1>3. CASE CallDisconnect(t)
  BY <1>3 DEF CallDisconnect, sessionVars, SessionStep
<1>4. CASE Resume(t)
  BY <1>4 DEF SessionStep
<1> QED
  BY <1>1, <1>2, <1>3, <1>4 DEF Proceed

LEMMA CallIsStep ==
  ASSUME NEW t \in Threads, Open(t) \/ Close(t) \/ SendMessage(t)
  PROVE  SessionStep
  BY DEF Open, Close, SendMessage, SessionStep

LEMMA TimerIsStep ==
  ASSUME NEW t, TimerFires \/ TimerHandler(t)
  PROVE  SessionStep
  BY DEF TimerFires, TimerHandler, sessionVars, SessionStep

LEMMA MessengerNextIsStep == [MessengerNext]_messengerVars => SessionStep
<1> SUFFICES ASSUME [MessengerNext]_messengerVars
             PROVE  SessionStep
  OBVIOUS
<1>1. ASSUME NEW t \in AppThreads, Open(t) \/ Close(t) \/ SendMessage(t)
      PROVE  SessionStep
  BY <1>1, CallIsStep, ThreadsAssumption
<1>2. ASSUME NEW t \in IoThreads, NEW op \in Ops, OnStrand(op, t)
      PROVE  SessionStep
  BY <1>2 DEF OnStrand, SessionStep
<1>3. ASSUME NEW t \in IoThreads, SendOnStrand(t)
      PROVE  SessionStep
  BY <1>3 DEF SendOnStrand, SessionStep
<1>4. CASE UNCHANGED messengerVars
  BY <1>4 DEF messengerVars, sessionVars, SessionStep
<1> QED
  BY <1>1, <1>2, <1>3, <1>4, ProceedIsStep, TimerIsStep DEF MessengerNext

(* Messages accepted by SendMessage leave in order, once, and none is      *)
(* lost, through every Close, recovery and reconnection.                   *)
THEOREM MessengerImplementsOutbox == MessengerSpec => IsOutbox
<1>1. MessengerInit => Sending!OutboxInit
  BY DEF MessengerInit, SessionInit, Sending!OutboxInit
<1>2. MessengerInv /\ [MessengerNext]_messengerVars
        => [Sending!OutboxNext]_(Sending!outboxVars)
  BY MessengerNextIsStep, StepOutbox DEF MessengerInv
<1> QED
  BY <1>1, <1>2, MessengerInvariance, PTL
  DEF MessengerSpec, IsOutbox, Sending!OutboxSpec

=============================================================================
