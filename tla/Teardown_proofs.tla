--------------------------- MODULE Teardown_proofs ---------------------------
(***************************************************************************)
(* Proofs about Teardown, for any threads, messages and budget: the        *)
(* destructor meets no handler, and a quiet messenger can be released.     *)
(***************************************************************************)
EXTENDS Teardown, WebsocketMessenger_proofs, FiniteSetTheorems

(* The life of the messenger and the references to it: one thread runs the *)
(* destructor, and nobody holds a reference from then on.                  *)
LifeTypeOK ==
  /\ owners \subseteq AppThreads
  /\ holding \subseteq IoThreads
  /\ life \in Lives
  /\ destroyer \subseteq Threads
  /\ clean \in BOOLEAN
  /\ ended \subseteq IoThreads
  /\ running \in BOOLEAN
  /\ stopped \in BOOLEAN
  /\ crashed \in BOOLEAN
  /\ threads \subseteq IoThreads
  /\ call \in [Threads -> Pool!Calls]

OneDestroyer ==
  IF life = "alive"
  THEN destroyer = {} /\ ~clean
  ELSE /\ \E t \in Threads : destroyer = {t}
       /\ owners = {} /\ holding = {}

OneListener == \A t, u \in holding : t = u

(* A thread that has left ioc_.run() is in no handler and comes into none. *)
EndedIsOut == \A t \in ended : Free(t) /\ t \notin holding /\ t \notin destroyer

(* What holds of the threads of the loop at each part of the destructor.   *)
ExitStages ==
  /\ \A t \in Threads : call[t] # "idle" => life = "exit" /\ t \in destroyer
  /\ life \in {"alive", "close"} => running /\ ~stopped /\ threads = IoThreads
  /\ life = "exit" =>
       \A d \in destroyer :
         \/ call[d] = "stop" /\ running /\ ~stopped /\ threads = IoThreads
         \/ call[d] = "join" /\ running /\ stopped
         \/ call[d] = "clear" /\ running /\ stopped /\ threads = {}
         \/ call[d] = "idle" /\ ~running /\ stopped /\ threads = {}
  /\ life \in {"members", "undefined"} => threads = {}
  /\ IoThreads \ threads \subseteq ended

(* A release that found nothing under way finds nothing later: all that    *)
(* the loop can still run is the handler of a read that was cut off.       *)
StaysQuiet ==
  clean =>
    /\ ~crashed
    /\ state = "kDisconnected"
    /\ \A op \in Ops \ {"read"} : Outstanding(op) = 0
    /\ posted = <<>>
    /\ ~armed /\ ready = 0
    /\ destroyer \subseteq AppThreads
    /\ \A t \in Threads :
         caller[t] = "idle" /\ at[t] \in {"idle", "cancel", "disconnect"}

TeardownInv ==
  /\ MessengerInv
  /\ LifeTypeOK
  /\ OneDestroyer
  /\ OneListener
  /\ EndedIsOut
  /\ ExitStages
  /\ StaysQuiet

-----------------------------------------------------------------------------
(* Steps of the messenger while it is alive, or while its destructor waits.*)

LEMMA ThreadKinds ==
  /\ AppThreads \subseteq Threads
  /\ IoThreads \subseteq Threads
  /\ AppThreads \cap IoThreads = {}
  BY ThreadsAssumption

OnlyMoves(t) ==
  \A u \in Threads \ {t} : at'[u] = at[u] /\ caller'[u] = caller[u]

LEMMA GoMoves ==
  ASSUME MessengerInv, NEW t \in Threads, NEW place, Go(t, place),
         UNCHANGED caller
  PROVE  OnlyMoves(t)
  BY DEF Go, OnlyMoves, MessengerInv, MessengerTypeOK

LEMMA ProceedMoves ==
  ASSUME MessengerInv, NEW t \in Threads, Proceed(t)
  PROVE  ~Free(t) /\ OnlyMoves(t)
<1>0. at \in [Threads -> Places] /\ caller \in [Threads -> Stages]
  BY DEF MessengerInv, MessengerTypeOK, SessionTypeOK
<1>1. CASE CallConnect(t)
  BY <1>0, <1>1 DEF CallConnect, Connect, Go, Free, OnlyMoves
<1>2. CASE CancelTimer(t) \/ TestRecovery(t) \/ ArmRecovery(t)
  BY <1>0, <1>2
  DEF CancelTimer, TestRecovery, ArmRecovery, Go, Free, OnlyMoves, sessionVars
<1>3. CASE CallDisconnect(t)
  BY <1>0, <1>3
  DEF CallDisconnect, Disconnect, Go, Free, OnlyMoves, sessionVars
<1>4. CASE Resume(t) /\ UNCHANGED at
  BY <1>0, <1>4
  DEF Resume, ReloadInConnect, StartResolve, ReloadInSendData, Free, OnlyMoves
<1> QED
  BY <1>1, <1>2, <1>3, <1>4 DEF Proceed

LEMMA CallMoves ==
  ASSUME MessengerInv, NEW t \in Threads, Open(t) \/ Close(t) \/ SendMessage(t)
  PROVE  OnlyMoves(t)
<1>0. at \in [Threads -> Places] /\ caller \in [Threads -> Stages]
  BY DEF MessengerInv, MessengerTypeOK, SessionTypeOK
<1> QED
  BY <1>0 DEF Open, Close, SendMessage, SendData, Go, OnlyMoves

LEMMA HandlerMoves ==
  ASSUME MessengerInv, NEW t \in Threads, NEW op \in Ops,
         NEW cb \in Callbacks, Handler(op, cb), React(cb, t)
  PROVE  OnlyMoves(t)
<1>1. at \in [Threads -> Places]
  BY DEF MessengerInv, MessengerTypeOK
<1>2. UNCHANGED caller
  BY DEF Handler, OnResolve, OnConnect, OnHandshake, OnClosed, OnWrite, OnRead
<1>3. UNCHANGED at \/ \E place \in Places : Go(t, place)
  BY DEF React, OnConnectedCallback, OnClosedCallback, OnErrorCallback,
         OnReceiveMsgCallback, Places
<1> QED
  BY <1>1, <1>2, <1>3, GoMoves DEF OnlyMoves

(* A step that leaves the life of the messenger and its loop as they are.  *)
LEMMA WorkKeeps ==
  ASSUME TeardownInv, MessengerInv',
         UNCHANGED <<owners, life, destroyer, clean, ended, running, stopped,
                     threads, call>>,
         \A u \in ended :
           at'[u] = at[u] /\ caller'[u] = caller[u] /\ u \notin holding',
         \/ holding' = holding
         \/ life = "alive" /\ \E t \in IoThreads : holding' = {t},
         crashed' \in BOOLEAN,
         StaysQuiet'
  PROVE  TeardownInv'
<1>1. LifeTypeOK'
  BY DEF TeardownInv, LifeTypeOK
<1>2. OneDestroyer' /\ OneListener'
  BY DEF TeardownInv, OneDestroyer, OneListener
<1>3. EndedIsOut'
  BY DEF TeardownInv, EndedIsOut, Free
<1>4. ExitStages'
  BY DEF TeardownInv, ExitStages
<1> QED
  BY <1>1, <1>2, <1>3, <1>4 DEF TeardownInv

(* What StaysQuiet says of a messenger that was released with nothing      *)
(* under way: the only operations left are reads that were cut off.        *)
LEMMA QuietFacts ==
  ASSUME TeardownInv, clean
  PROVE  /\ life # "alive" /\ owners = {} /\ holding = {}
         /\ \A op \in Ops \ {"read"} : live[op] = 0 /\ dead[op] = 0
         /\ live["read"] = 0
<1>1. /\ live \in [Ops -> Nat] /\ dead \in [Ops -> Nat]
      /\ "read" \in Ops /\ state = "kDisconnected"
      /\ \A op \in Ops \ {"read"} : live[op] + dead[op] = 0
  BY OpsFacts
  DEF TeardownInv, MessengerInv, MessengerTypeOK, SessionTypeOK, StaysQuiet,
      Outstanding
<1>2. live["read"] = 0
  BY <1>1
  DEF TeardownInv, MessengerInv, SessionInv, StateIsTruthful, OpenIsRead
<1>3. ASSUME NEW op \in Ops \ {"read"}
      PROVE  live[op] = 0 /\ dead[op] = 0
  <2>1. live[op] \in Nat /\ dead[op] \in Nat /\ live[op] + dead[op] = 0
    BY <1>1
  <2> QED
    BY <2>1
<1> QED
  BY <1>2, <1>3 DEF TeardownInv, OneDestroyer

LEMMA UseInv ==
  ASSUME TeardownInv, NEW t \in AppThreads, Use(t)
  PROVE  TeardownInv'
<1>1. t \in Threads /\ t \notin ended /\ t \in owners
  BY ThreadKinds DEF Use, TeardownInv, LifeTypeOK
<1>2. Open(t) \/ Close(t) \/ SendMessage(t)
  BY DEF Use
<1>3. MessengerInv' /\ OnlyMoves(t)
  BY <1>1, <1>2, CallInv, CallMoves DEF TeardownInv
<1>4. UNCHANGED <<owners, holding, life, destroyer, clean, ended, running,
                  stopped, threads, call, crashed>>
  BY DEF Use, lifeVars, poolVars
<1>5. \A u \in ended :
        at'[u] = at[u] /\ caller'[u] = caller[u] /\ u \notin holding'
  BY <1>1, <1>3, <1>4, ThreadKinds
  DEF OnlyMoves, TeardownInv, LifeTypeOK, EndedIsOut
<1>6. ~clean
  BY <1>1, QuietFacts
<1>7. StaysQuiet' /\ crashed' \in BOOLEAN
  BY <1>4, <1>6 DEF StaysQuiet, TeardownInv, LifeTypeOK
<1> QED
  BY <1>3, <1>4, <1>5, <1>7, WorkKeeps

LEMMA RunTimerInv ==
  ASSUME TeardownInv, NEW t \in IoThreads, RunTimer(t)
  PROVE  TeardownInv'
<1>1. t \in Threads /\ t \notin ended /\ TimerHandler(t)
  BY ThreadKinds DEF RunTimer, Takes
<1>2. UNCHANGED <<owners, holding, life, destroyer, clean, ended, running,
                  stopped, threads, call, crashed>>
  BY DEF RunTimer, lifeVars, poolVars
<1>3. MessengerInv'
  BY <1>1, TimerHandlerInv DEF TeardownInv
<1>4. OnlyMoves(t)
  <2>1. at \in [Threads -> Places] /\ UNCHANGED caller
    BY <1>1
    DEF TeardownInv, MessengerInv, MessengerTypeOK, TimerHandler, sessionVars
  <2> QED
    BY <1>1, <2>1 DEF TimerHandler, Go, OnlyMoves
<1>5. \A u \in ended :
        at'[u] = at[u] /\ caller'[u] = caller[u] /\ u \notin holding'
  BY <1>1, <1>2, <1>4, ThreadKinds
  DEF OnlyMoves, TeardownInv, LifeTypeOK, EndedIsOut
<1>6. ~clean
  BY <1>1 DEF TimerHandler, TeardownInv, StaysQuiet
<1>7. StaysQuiet' /\ crashed' \in BOOLEAN
  BY <1>2, <1>6 DEF StaysQuiet, TeardownInv, LifeTypeOK
<1> QED
  BY <1>2, <1>3, <1>5, <1>7, WorkKeeps

LEMMA ExpireInv ==
  ASSUME TeardownInv, Expire
  PROVE  TeardownInv'
<1>1. TimerFires
  BY DEF Expire
<1>2. UNCHANGED <<owners, holding, life, destroyer, clean, ended, running,
                  stopped, threads, call, crashed>>
  BY DEF Expire, lifeVars, poolVars
<1>3. MessengerInv'
  BY <1>1, TimerFiresInv DEF TeardownInv
<1>4. UNCHANGED <<at, caller>>
  BY <1>1 DEF TimerFires, sessionVars
<1>5. \A u \in ended :
        at'[u] = at[u] /\ caller'[u] = caller[u] /\ u \notin holding'
  BY <1>2, <1>4 DEF TeardownInv, EndedIsOut
<1>6. ~clean
  BY <1>1 DEF TimerFires, TeardownInv, StaysQuiet
<1>7. StaysQuiet' /\ crashed' \in BOOLEAN
  BY <1>2, <1>6 DEF StaysQuiet, TeardownInv, LifeTypeOK
<1> QED
  BY <1>2, <1>3, <1>5, <1>7, WorkKeeps

LEMMA GoOnInv ==
  ASSUME TeardownInv, NEW t \in Threads, GoOn(t)
  PROVE  TeardownInv'
<1>1. Proceed(t)
  BY DEF GoOn
<1>2. UNCHANGED <<owners, holding, life, destroyer, clean, ended, running,
                  stopped, threads, call, crashed>>
  BY DEF GoOn, lifeVars, poolVars
<1>3. MessengerInv' /\ ~Free(t) /\ OnlyMoves(t)
  BY <1>1, ProceedInv, ProceedMoves DEF TeardownInv
<1>4. \A u \in ended :
        at'[u] = at[u] /\ caller'[u] = caller[u] /\ u \notin holding'
  BY <1>2, <1>3, ThreadKinds
  DEF OnlyMoves, TeardownInv, LifeTypeOK, EndedIsOut
<1>5. StaysQuiet'
  <2> SUFFICES ASSUME clean
               PROVE  StaysQuiet'
    BY <1>2 DEF StaysQuiet
  <2>1. StaysQuiet /\ at \in [Threads -> Places]
    BY DEF TeardownInv, MessengerInv, MessengerTypeOK
  <2>2. /\ caller[t] = "idle" /\ at[t] \in {"cancel", "disconnect"}
        /\ state = "kDisconnected" /\ ~armed
    BY <1>3, <2>1 DEF StaysQuiet, Free
  <2>3. CancelTimer(t) \/ CallDisconnect(t)
    BY <1>1, <2>2
    DEF Proceed, CallConnect, TestRecovery, ArmRecovery, Resume,
        ReloadInConnect, StartResolve, ReloadInSendData
  <2>4. UNCHANGED sessionVars /\ UNCHANGED ready /\ armed' = FALSE
    BY <2>1, <2>2, <2>3
    DEF CancelTimer, CallDisconnect, Disconnect, EndWait, timerVars, StaysQuiet
  <2>5. at'[t] \in {"idle", "disconnect"}
    BY <2>1, <2>3 DEF CancelTimer, CallDisconnect, Go
  <2> QED
    BY <1>2, <1>3, <2>1, <2>4, <2>5
    DEF StaysQuiet, OnlyMoves, Outstanding, sessionVars
<1>6. crashed' \in BOOLEAN
  BY <1>2 DEF TeardownInv, LifeTypeOK
<1> QED
  BY <1>2, <1>3, <1>4, <1>5, <1>6, WorkKeeps

LEMMA RunOnStrandInv ==
  ASSUME TeardownInv, NEW t \in IoThreads, RunOnStrand(t)
  PROVE  TeardownInv'
<1>0. /\ t \in Threads /\ t \notin ended /\ Free(t) /\ holding = {}
      /\ ~StrandBusy
  BY ThreadKinds DEF RunOnStrand, Takes, InHandler, StrandFree
<1>1. UNCHANGED <<owners, life, destroyer, clean, ended, running, stopped,
                  threads, call>>
  BY DEF RunOnStrand
<1>2. CASE SendOnStrand(t) /\ UNCHANGED <<holding, crashed>>
  <2>1. MessengerInv'
    BY <1>2, SendOnStrandInv DEF TeardownInv
  <2>2. UNCHANGED <<at, caller>> /\ posted # <<>>
    BY <1>2 DEF SendOnStrand, SendDataInner
  <2>3. \A u \in ended :
          at'[u] = at[u] /\ caller'[u] = caller[u] /\ u \notin holding'
    BY <1>2, <2>2 DEF TeardownInv, EndedIsOut
  <2>4. ~clean
    BY <2>2 DEF TeardownInv, StaysQuiet
  <2>5. StaysQuiet' /\ crashed' \in BOOLEAN
    BY <1>1, <1>2, <2>4 DEF StaysQuiet, TeardownInv, LifeTypeOK
  <2> QED
    BY <1>1, <1>2, <2>1, <2>3, <2>5, WorkKeeps
<1>3. ASSUME NEW op \in Ops, NEW cb \in Callbacks, Handler(op, cb),
             React(cb, t), CallListener(cb, t),
             UNCHANGED <<tryRecovery, timerVars>>
      PROVE  TeardownInv'
  <2>1. MessengerInv' /\ OnlyMoves(t)
    BY <1>0, <1>3, ReactInv, HandlerMoves DEF TeardownInv
  <2>2. /\ \/ holding' = holding
           \/ life = "alive" /\ \E u \in IoThreads : holding' = {u}
        /\ holding' \subseteq {t}
        /\ crashed' \in BOOLEAN
    BY <1>0, <1>3 DEF CallListener, TeardownInv, LifeTypeOK
  <2>3. \A u \in ended :
          at'[u] = at[u] /\ caller'[u] = caller[u] /\ u \notin holding'
    BY <1>0, <2>1, <2>2, ThreadKinds
    DEF OnlyMoves, TeardownInv, LifeTypeOK, EndedIsOut
  <2>4. StaysQuiet'
    <3> SUFFICES ASSUME clean
                 PROVE  StaysQuiet'
      BY <1>1 DEF StaysQuiet
    <3>1. /\ StaysQuiet /\ at \in [Threads -> Places]
          /\ live \in [Ops -> Nat] /\ dead \in [Ops -> Nat]
      BY DEF TeardownInv, MessengerInv, MessengerTypeOK, SessionTypeOK
    <3>2. OnRead(cb)
      <4>1. \A o \in Ops \ {"read"} : ~(live[o] > 0) /\ ~(dead[o] > 0)
        BY QuietFacts
      <4>2. /\ ~OnResolve(cb) /\ ~OnConnect(cb) /\ ~OnHandshake(cb)
            /\ ~OnClosed(cb) /\ ~OnWrite(cb)
        BY <4>1, OpsFacts
        DEF OnResolve, OnConnect, OnHandshake, OnClosed, OnWrite, Aborted,
            AttemptFails, ConnectionFails
      <4> QED
        BY <1>3, <4>2 DEF Handler
    <3>3. Aborted("read") /\ cb = "none" /\ UNCHANGED state
      BY <3>2, QuietFacts DEF OnRead, CloseFrame, ConnectionFails
    <3>4. UNCHANGED <<queue, posted, caller, wire, at, armed, ready, crashed>>
      BY <1>3, <3>2, <3>3
      DEF OnRead, React, Errors, CallListener, Told, timerVars
    <3>5. live' = live /\ \A o \in Ops \ {"read"} : dead'[o] = dead[o]
      BY <3>1, <3>3 DEF Aborted, Less
    <3> QED
      BY <1>1, <3>1, <3>3, <3>4, <3>5 DEF StaysQuiet, Outstanding
  <2> QED
    BY <1>0, <1>1, <2>1, <2>2, <2>3, <2>4, WorkKeeps
<1> QED
  BY <1>2, <1>3 DEF RunOnStrand

-----------------------------------------------------------------------------
(* The last reference is given up.                                         *)

(* A step that takes no more than Close and tryRecovery's assignment.      *)
LEMMA TouchInv ==
  ASSUME MessengerInv, NEW t \in Threads,
         UNCHANGED <<sessionVars, mstate, timerVars>>,
         tryRecovery' \in BOOLEAN,
         UNCHANGED at \/ Go(t, "cancel")
  PROVE  MessengerInv' /\ OnlyMoves(t)
<1>1. SessionInv' /\ state' = state /\ UNCHANGED caller
  BY StutterInv DEF MessengerInv, sessionVars
<1>2. at' \in [Threads -> Places]
  BY GoType DEF MessengerInv, MessengerTypeOK, Places
<1>3. UNCHANGED <<mstate, armed, ready>>
  BY DEF timerVars
<1>4. MessengerInv'
  BY <1>1, <1>2, <1>3, AgreesWhen, TypeFromParts
  DEF MessengerInv, MessengerTypeOK
<1>5. OnlyMoves(t)
  BY <1>1, GoMoves DEF OnlyMoves
<1> QED
  BY <1>4, <1>5

(* The thread t, which is in no ended one, enters the destructor.          *)
LEMMA DestroyInv ==
  ASSUME TeardownInv, NEW t \in Threads, t \notin ended, life = "alive",
         Destroy(t), Go(t, "cancel"), owners' = {}, holding' = {},
         UNCHANGED <<sessionVars, mstate, timerVars, ended, poolVars>>,
         ~crashed
  PROVE  TeardownInv'
<1>0. UNCHANGED <<ended, running, stopped, threads, call, crashed>>
  BY DEF poolVars
<1>1. MessengerInv' /\ OnlyMoves(t)
  BY TouchInv DEF Destroy, TeardownInv
<1>2. LifeTypeOK'
  BY <1>0 DEF Destroy, TeardownInv, LifeTypeOK, Lives
<1>3. OneDestroyer' /\ OneListener'
  BY DEF Destroy, OneDestroyer, OneListener
<1>4. EndedIsOut'
  BY <1>0, <1>1, ThreadKinds
  DEF Destroy, TeardownInv, LifeTypeOK, EndedIsOut, OnlyMoves, Free
<1>5. ExitStages'
  BY <1>0 DEF Destroy, TeardownInv, OneDestroyer, ExitStages
<1>6. StaysQuiet'
  <2> SUFFICES ASSUME clean'
               PROVE  StaysQuiet'
    BY DEF StaysQuiet
  <2>1. Quiet /\ t \in AppThreads
    BY DEF Destroy
  <2>2. at \in [Threads -> Places] /\ UNCHANGED sessionVars /\ UNCHANGED timerVars
    BY DEF TeardownInv, MessengerInv, MessengerTypeOK
  <2>3. \A u \in Threads :
          caller'[u] = "idle" /\ at'[u] \in {"idle", "cancel", "disconnect"}
    BY <2>1, <2>2 DEF Quiet, Free, Go, sessionVars
  <2> QED
    BY <1>0, <2>1, <2>2, <2>3
    DEF StaysQuiet, Quiet, Outstanding, sessionVars, timerVars, Destroy
<1> QED
  BY <1>1, <1>2, <1>3, <1>4, <1>5, <1>6 DEF TeardownInv

(* A reference is given up that is not the last one.                       *)
LEMMA ShareInv ==
  ASSUME TeardownInv, NEW t \in Threads, life = "alive",
         owners' \subseteq owners, holding' \subseteq holding,
         LiveOn, UNCHANGED at,
         UNCHANGED <<sessionVars, mstate, timerVars, ended, poolVars>>
  PROVE  TeardownInv'
<1>0. UNCHANGED <<ended, running, stopped, threads, call, crashed, life,
                  destroyer, clean, tryRecovery>>
  BY DEF poolVars, LiveOn
<1>1. MessengerInv' /\ UNCHANGED caller
  BY <1>0, TouchInv DEF TeardownInv, MessengerInv, MessengerTypeOK, sessionVars
<1>2. LifeTypeOK'
  BY <1>0 DEF TeardownInv, LifeTypeOK
<1>3. OneDestroyer' /\ OneListener'
  BY <1>0 DEF TeardownInv, OneDestroyer, OneListener
<1>4. EndedIsOut'
  BY <1>0, <1>1 DEF TeardownInv, EndedIsOut, Free
<1>5. ExitStages'
  BY <1>0 DEF TeardownInv, ExitStages
<1>6. StaysQuiet'
  BY <1>0 DEF TeardownInv, OneDestroyer, StaysQuiet
<1> QED
  BY <1>1, <1>2, <1>3, <1>4, <1>5, <1>6 DEF TeardownInv

LEMMA ReleaseInv ==
  ASSUME TeardownInv, NEW t \in AppThreads, Release(t), ~crashed
  PROVE  TeardownInv'
<1>0. t \in Threads /\ t \in owners /\ t \notin ended /\ life = "alive"
  BY ThreadKinds DEF Release, TeardownInv, LifeTypeOK, OneDestroyer
<1>1. /\ UNCHANGED <<sessionVars, mstate, timerVars, holding, ended, poolVars>>
      /\ owners' = owners \ {t}
  BY DEF Release
<1>2. CASE owners' = {} /\ holding = {}
  <2>1. Destroy(t) /\ Go(t, "cancel")
    BY <1>2 DEF Release
  <2> QED
    BY <1>0, <1>1, <1>2, <2>1, DestroyInv
<1>3. CASE ~(owners' = {} /\ holding = {})
  <2>1. LiveOn /\ UNCHANGED at
    BY <1>3 DEF Release
  <2> QED
    BY <1>0, <1>1, <2>1, ShareInv
<1> QED
  BY <1>2, <1>3

LEMMA ListenerReturnsInv ==
  ASSUME TeardownInv, NEW t \in Threads, ListenerReturns(t), ~crashed
  PROVE  TeardownInv'
<1>0. t \in holding /\ t \notin ended /\ life = "alive"
  BY DEF ListenerReturns, TeardownInv, EndedIsOut, OneDestroyer
<1>1. /\ UNCHANGED <<sessionVars, mstate, timerVars, owners, ended, poolVars>>
      /\ holding' = holding \ {t}
  BY DEF ListenerReturns
<1>2. holding' = {}
  BY <1>0, <1>1 DEF TeardownInv, OneListener
<1>3. CASE owners = {}
  <2>1. Destroy(t) /\ Go(t, "cancel")
    BY <1>3 DEF ListenerReturns
  <2> QED
    BY <1>0, <1>1, <1>2, <1>3, <2>1, DestroyInv
<1>4. CASE owners # {}
  <2>1. LiveOn /\ UNCHANGED at
    BY <1>4 DEF ListenerReturns
  <2> QED
    BY <1>0, <1>1, <2>1, ShareInv
<1> QED
  BY <1>3, <1>4

-----------------------------------------------------------------------------
(* The destructor, after its Close.  The messenger itself stands still.    *)

LEMMA LifeStepInv ==
  ASSUME TeardownInv, UNCHANGED messengerVars,
         UNCHANGED <<owners, holding, destroyer, clean>>,
         life # "alive", life' \in Lives \ {"alive"},
         ended' = ended \/ \E t \in IoThreads :
           ended' = ended \cup {t} /\ ~InHandler(t),
         LifeTypeOK', ExitStages', clean => ~crashed'
  PROVE  TeardownInv'
<1>1. MessengerInv'
  BY MessengerStutterInv DEF TeardownInv
<1>2. OneDestroyer' /\ OneListener'
  BY DEF TeardownInv, OneDestroyer, OneListener
<1>3. UNCHANGED <<at, caller, state, posted, live, dead, armed, ready>>
  BY DEF messengerVars, sessionVars, timerVars
<1>4. EndedIsOut'
  BY <1>3 DEF TeardownInv, EndedIsOut, Free, InHandler
<1>5. StaysQuiet'
  BY <1>3 DEF TeardownInv, StaysQuiet, Outstanding
<1> QED
  BY <1>1, <1>2, <1>4, <1>5 DEF TeardownInv

LEMMA TheDestroyer ==
  ASSUME TeardownInv, NEW t \in destroyer
  PROVE  t \in Threads /\ destroyer = {t} /\ life # "alive"
  BY DEF TeardownInv, OneDestroyer

LEMMA CallExitInv ==
  ASSUME TeardownInv, NEW t \in Threads, CallExit(t)
  PROVE  TeardownInv'
<1>1. t \in destroyer /\ life = "close" /\ life' = "exit"
  BY DEF CallExit
<1>2. /\ UNCHANGED <<messengerVars, owners, holding, destroyer, clean, ended>>
      /\ UNCHANGED <<running, stopped, threads, crashed>>
      /\ call' = [call EXCEPT ![t] = "stop"]
  BY DEF CallExit, Pool!Exit, Pool!Step
<1>3. LifeTypeOK'
  BY <1>1, <1>2 DEF TeardownInv, LifeTypeOK, Lives, Pool!Calls
<1>4. ExitStages'
  BY <1>1, <1>2, TheDestroyer DEF TeardownInv, LifeTypeOK, ExitStages
<1>5. clean => ~crashed'
  BY <1>2 DEF TeardownInv, StaysQuiet
<1> QED
  BY <1>1, <1>2, <1>3, <1>4, <1>5, LifeStepInv DEF Lives

LEMMA InExitInv ==
  ASSUME TeardownInv, NEW t \in Threads, InExit(t)
  PROVE  TeardownInv'
<1>0. /\ UNCHANGED messengerVars
      /\ UNCHANGED <<owners, holding, life, destroyer, clean, ended>>
      /\ call \in [Threads -> Pool!Calls]
  BY DEF InExit, lifeVars, TeardownInv, LifeTypeOK
<1>1. call[t] # "idle"
  BY DEF InExit, Pool!Stop, Pool!Joined, Pool!Clear, Pool!Join, Pool!Step
<1>2. t \in destroyer /\ destroyer = {t} /\ life = "exit"
  BY <1>1, TheDestroyer DEF TeardownInv, ExitStages
<1>3. CASE Pool!Stop(t)
  <2>1. /\ call[t] = "stop" /\ call' = [call EXCEPT ![t] = "join"]
        /\ stopped' = TRUE /\ UNCHANGED <<running, threads, crashed>>
    BY <1>3 DEF Pool!Stop, Pool!Step
  <2>2. LifeTypeOK'
    BY <1>0, <2>1 DEF TeardownInv, LifeTypeOK, Pool!Calls
  <2>3. ExitStages'
    BY <1>0, <1>2, <2>1 DEF TeardownInv, ExitStages
  <2>4. clean => ~crashed'
    BY <2>1 DEF TeardownInv, StaysQuiet
  <2> QED
    BY <1>0, <1>2, <2>2, <2>3, <2>4, LifeStepInv DEF Lives
<1>4. CASE Pool!Joined(t)
  <2>1. /\ call[t] = "join" /\ call' = [call EXCEPT ![t] = "clear"]
        /\ threads = {} /\ UNCHANGED <<running, stopped, threads, crashed>>
    BY <1>4 DEF Pool!Joined, Pool!Step
  <2>2. LifeTypeOK'
    BY <1>0, <2>1 DEF TeardownInv, LifeTypeOK, Pool!Calls
  <2>3. ExitStages'
    BY <1>0, <1>2, <2>1 DEF TeardownInv, ExitStages
  <2>4. clean => ~crashed'
    BY <2>1 DEF TeardownInv, StaysQuiet
  <2> QED
    BY <1>0, <1>2, <2>2, <2>3, <2>4, LifeStepInv DEF Lives
<1>5. CASE Pool!Clear(t)
  <2>1. /\ call[t] = "clear" /\ call' = [call EXCEPT ![t] = "idle"]
        /\ running' = FALSE /\ UNCHANGED <<stopped, threads, crashed>>
    BY <1>5 DEF Pool!Clear, Pool!Step
  <2>2. LifeTypeOK'
    BY <1>0, <2>1 DEF TeardownInv, LifeTypeOK, Pool!Calls
  <2>3. ExitStages'
    BY <1>0, <1>2, <2>1 DEF TeardownInv, ExitStages
  <2>4. clean => ~crashed'
    BY <2>1 DEF TeardownInv, StaysQuiet
  <2> QED
    BY <1>0, <1>2, <2>2, <2>3, <2>4, LifeStepInv DEF Lives
<1>6. ASSUME NEW w \in IoThreads, Pool!Join(t, w)
      PROVE  TeardownInv'
  <2>0. /\ call[t] = "join" /\ w \in threads
        /\ UNCHANGED <<running, stopped, call>>
    BY <1>6 DEF Pool!Join
  <2>1. CASE w = t /\ crashed' = TRUE /\ UNCHANGED threads
    <3>1. LifeTypeOK'
      BY <1>0, <2>0, <2>1 DEF TeardownInv, LifeTypeOK
    <3>2. ExitStages'
      BY <1>0, <1>2, <2>0, <2>1 DEF TeardownInv, ExitStages
    <3>3. ~clean
      BY <1>2, <1>6, <2>1, ThreadKinds DEF TeardownInv, StaysQuiet
    <3> QED
      BY <1>0, <1>2, <3>1, <3>2, <3>3, LifeStepInv DEF Lives
  <2>2. CASE w \in ended /\ threads' = threads \ {w} /\ UNCHANGED crashed
    <3>1. LifeTypeOK'
      BY <1>0, <2>0, <2>2 DEF TeardownInv, LifeTypeOK
    <3>2. ExitStages'
      BY <1>0, <1>2, <2>0, <2>2 DEF TeardownInv, ExitStages
    <3>3. clean => ~crashed'
      BY <2>2 DEF TeardownInv, StaysQuiet
    <3> QED
      BY <1>0, <1>2, <3>1, <3>2, <3>3, LifeStepInv DEF Lives
  <2>3. \/ w = t /\ crashed' = TRUE /\ UNCHANGED threads
        \/ /\ w \in AppThreads \cup ended
           /\ threads' = threads \ {w} /\ UNCHANGED crashed
    BY <1>6, ThreadKinds DEF Pool!Join
  <2> QED
    BY <2>1, <2>2, <2>3, ThreadKinds
<1> QED
  BY <1>3, <1>4, <1>5, <1>6 DEF InExit

LEMMA LeavesInv ==
  ASSUME TeardownInv, NEW t \in Threads, Leaves(t)
  PROVE  TeardownInv'
<1>1. /\ t \in IoThreads /\ ended' = ended \cup {t}
      /\ UNCHANGED <<messengerVars, owners, holding, life, destroyer, clean>>
      /\ UNCHANGED <<running, stopped, threads, call, crashed>> /\ stopped
  BY DEF Leaves, lifeVars, Pool!Leave
<1>2. ~InHandler(t)
  BY <1>1, ThreadKinds DEF Leaves, Pool!Leave
<1>3. LifeTypeOK'
  BY <1>1 DEF TeardownInv, LifeTypeOK
<1>4. ExitStages' /\ life # "alive"
  BY <1>1 DEF TeardownInv, ExitStages
<1>5. life \in Lives /\ (clean => ~crashed')
  BY <1>1 DEF TeardownInv, LifeTypeOK, StaysQuiet
<1> QED
  BY <1>1, <1>2, <1>3, <1>4, <1>5, LifeStepInv

LEMMA ExitReturnedInv ==
  ASSUME TeardownInv, NEW t \in Threads, ExitReturned(t)
  PROVE  TeardownInv'
<1>1. /\ t \in destroyer /\ life = "exit" /\ life' = "members"
      /\ call[t] = "idle"
      /\ UNCHANGED <<messengerVars, owners, holding, destroyer, clean, ended>>
      /\ UNCHANGED <<running, stopped, threads, call, crashed>>
  BY DEF ExitReturned, poolVars
<1>2. LifeTypeOK'
  BY <1>1 DEF TeardownInv, LifeTypeOK, Lives
<1>3. ExitStages'
  BY <1>1, TheDestroyer DEF TeardownInv, ExitStages
<1>4. clean => ~crashed'
  BY <1>1 DEF TeardownInv, StaysQuiet
<1> QED
  BY <1>1, <1>2, <1>3, <1>4, LifeStepInv DEF Lives

LEMMA DestroyMembersInv ==
  ASSUME TeardownInv, NEW t \in Threads, DestroyMembers(t)
  PROVE  TeardownInv'
<1>1. /\ life = "members" /\ life' \in {"members", "undefined"}
      /\ UNCHANGED <<messengerVars, owners, holding, destroyer, clean, ended>>
      /\ UNCHANGED <<running, stopped, threads, call>>
      /\ crashed' \in BOOLEAN
  BY DEF DestroyMembers, TeardownInv, LifeTypeOK
<1>2. LifeTypeOK'
  BY <1>1 DEF TeardownInv, LifeTypeOK, Lives
<1>3. ExitStages'
  BY <1>1 DEF TeardownInv, ExitStages
<1>4. clean => ~crashed'
  BY DEF DestroyMembers, TeardownInv, StaysQuiet
<1> QED
  BY <1>1, <1>2, <1>3, <1>4, LifeStepInv DEF Lives

-----------------------------------------------------------------------------
LEMMA TeardownInitInv == TeardownInit => TeardownInv
<1> SUFFICES ASSUME TeardownInit PROVE TeardownInv
  OBVIOUS
<1>1. MessengerInv
  BY MessengerInitInv DEF TeardownInit
<1>2. LifeTypeOK
  BY DEF TeardownInit, LifeTypeOK, Lives, Pool!Calls
<1>3. OneDestroyer /\ OneListener /\ EndedIsOut /\ StaysQuiet
  BY DEF TeardownInit, OneDestroyer, OneListener, EndedIsOut, StaysQuiet
<1>4. ExitStages
  BY DEF TeardownInit, ExitStages
<1> QED
  BY <1>1, <1>2, <1>3, <1>4 DEF TeardownInv

LEMMA TeardownStutterInv ==
  ASSUME TeardownInv, UNCHANGED teardownVars
  PROVE  TeardownInv'
<1>1. /\ UNCHANGED messengerVars /\ UNCHANGED <<at, caller, state, posted,
                live, dead, armed, ready>>
      /\ UNCHANGED <<owners, holding, life, destroyer, clean, ended, running,
                     stopped, threads, call, crashed>>
  BY DEF teardownVars, messengerVars, sessionVars, timerVars, lifeVars, poolVars
<1>2. MessengerInv'
  BY <1>1, MessengerStutterInv DEF TeardownInv
<1>3. LifeTypeOK' /\ OneDestroyer' /\ OneListener' /\ EndedIsOut'
  BY <1>1
  DEF TeardownInv, LifeTypeOK, OneDestroyer, OneListener, EndedIsOut, Free
<1>4. ExitStages' /\ StaysQuiet'
  BY <1>1 DEF TeardownInv, ExitStages, StaysQuiet, Outstanding
<1> QED
  BY <1>2, <1>3, <1>4 DEF TeardownInv

LEMMA TeardownNextInv ==
  TeardownInv /\ [TeardownNext]_teardownVars => TeardownInv'
<1> SUFFICES ASSUME TeardownInv, [TeardownNext]_teardownVars
             PROVE  TeardownInv'
  OBVIOUS
<1>1. CASE UNCHANGED teardownVars
  BY <1>1, TeardownStutterInv
<1>2. CASE TeardownNext
  <2>0. ~crashed
    BY <1>2 DEF TeardownNext
  <2>1. ASSUME NEW t \in AppThreads, Use(t) \/ Release(t)
        PROVE  TeardownInv'
    BY <2>0, <2>1, UseInv, ReleaseInv
  <2>2. ASSUME NEW t \in IoThreads, Works(t)
        PROVE  TeardownInv'
    BY <2>2, RunOnStrandInv, RunTimerInv, LeavesInv, ThreadKinds DEF Works
  <2>3. ASSUME NEW t \in Threads, GoOn(t) \/ Ends(t)
        PROVE  TeardownInv'
    BY <2>0, <2>3, GoOnInv, ListenerReturnsInv, CallExitInv, InExitInv,
       ExitReturnedInv, DestroyMembersInv DEF Ends
  <2>4. CASE Expire
    BY <2>4, ExpireInv
  <2> QED
    BY <1>2, <2>1, <2>2, <2>3, <2>4 DEF TeardownNext
<1> QED
  BY <1>1, <1>2

(* TeardownInv holds in every reachable state.                             *)
THEOREM TeardownInvariance == TeardownSpec => []TeardownInv
  BY TeardownInitInv, TeardownNextInv, PTL DEF TeardownSpec

(* The variables of the messenger, of its life and of its loop keep their  *)
(* types, and one thread at most runs the destructor.                      *)
THEOREM TeardownTypeCorrect == TeardownSpec => []TeardownTypeOK
<1>1. TeardownInv => TeardownTypeOK
  <2> SUFFICES ASSUME TeardownInv PROVE TeardownTypeOK
    OBVIOUS
  <2>1. MessengerTypeOK /\ LifeTypeOK
    BY DEF TeardownInv, MessengerInv
  <2>2. Cardinality(destroyer) <= 1
    <3>1. CASE destroyer = {}
      BY <3>1, FS_EmptySet
    <3>2. ASSUME NEW t \in Threads, destroyer = {t}
          PROVE  Cardinality(destroyer) <= 1
      BY <3>2, FS_Singleton
    <3> QED
      BY <3>1, <3>2 DEF TeardownInv, OneDestroyer
  <2>3. Pool!LoopTypeOK
    <3>1. IoThreads \cup Threads = Threads
      BY ThreadKinds
    <3> QED
      BY <2>1, <3>1 DEF LifeTypeOK, Pool!LoopTypeOK, Pool!LoopThreads
  <2> QED
    BY <2>1, <2>2, <2>3 DEF LifeTypeOK, TeardownTypeOK
<1> QED
  BY <1>1, TeardownInvariance, PTL

(* When the destructor comes to the members, every thread of the loop has  *)
(* ended: no handler runs on a messenger that is half destroyed.           *)
THEOREM NoHandlerOutlives == TeardownSpec => []NoneOutlives
<1>1. TeardownInv => NoneOutlives
  BY DEF TeardownInv, LifeTypeOK, OneDestroyer, EndedIsOut, ExitStages,
         NoneOutlives
<1> QED
  BY <1>1, TeardownInvariance, PTL

(* A disconnected messenger with nothing under way that an application     *)
(* thread gives up meets no exception on its way to the end of the         *)
(* session's members, which is itself undefined whoever releases.          *)
THEOREM QuietReleaseThrowsNothing == TeardownSpec => []QuietThrowsNothing
<1>1. TeardownInv => QuietThrowsNothing
  BY DEF TeardownInv, StaysQuiet, QuietThrowsNothing
<1> QED
  BY <1>1, TeardownInvariance, PTL

(* Up to the end of its life the messenger tells the truth, and its stream *)
(* has one write at most and one read: also with what the handlers do that *)
(* run while the destructor is under way.  (Of the closes it says nothing: *)
(* they are started off the strand, and may be two.)                       *)
THEOREM TruthfulToTheEnd ==
  TeardownSpec => [](/\ StateIsTruthful /\ MessengerAgrees
                     /\ OneWriteOfQueued /\ OpenIsRead)
<1>1. TeardownInv => /\ StateIsTruthful /\ MessengerAgrees
                     /\ OneWriteOfQueued /\ OpenIsRead
  BY DEF TeardownInv, MessengerInv, SessionInv
<1> QED
  BY <1>1, TeardownInvariance, PTL

-----------------------------------------------------------------------------
(* The session keeps its promise until it is destroyed.                    *)

LEMMA EndsIsStep ==
  ASSUME NEW t \in Threads, Release(t) \/ Ends(t) \/ Leaves(t)
  PROVE  SessionStep
<1>1. CASE Release(t) \/ ListenerReturns(t)
  BY <1>1 DEF Release, ListenerReturns, sessionVars, SessionStep
<1>2. CASE \/ CallExit(t) \/ InExit(t) \/ ExitReturned(t)
           \/ DestroyMembers(t) \/ Leaves(t)
  <2>1. UNCHANGED messengerVars
    BY <1>2 DEF CallExit, InExit, ExitReturned, DestroyMembers, Leaves
  <2> QED
    BY <2>1 DEF messengerVars, sessionVars, SessionStep
<1> QED
  BY <1>1, <1>2 DEF Ends

LEMMA TeardownNextIsStep == [TeardownNext]_teardownVars => SessionStep
<1> SUFFICES ASSUME [TeardownNext]_teardownVars
             PROVE  SessionStep
  OBVIOUS
<1>1. ASSUME NEW t \in AppThreads, Use(t)
      PROVE  SessionStep
  BY <1>1, CallIsStep, ThreadKinds DEF Use
<1>2. ASSUME NEW t \in IoThreads, RunOnStrand(t)
      PROVE  SessionStep
  BY <1>2 DEF RunOnStrand, SendOnStrand, SessionStep
<1>3. ASSUME NEW t \in IoThreads, RunTimer(t)
      PROVE  SessionStep
  BY <1>3, TimerIsStep DEF RunTimer
<1>4. ASSUME NEW t \in Threads, GoOn(t)
      PROVE  SessionStep
  BY <1>4, ProceedIsStep DEF GoOn
<1>5. CASE Expire
  BY <1>5, TimerIsStep DEF Expire
<1>6. CASE UNCHANGED teardownVars
  BY <1>6 DEF teardownVars, messengerVars, sessionVars, SessionStep
<1> QED
  BY <1>1, <1>2, <1>3, <1>4, <1>5, <1>6, EndsIsStep, ThreadKinds
  DEF TeardownNext, Works

(* Nothing that was accepted is lost, sent twice or sent out of order on   *)
(* the way out either.                                                     *)
THEOREM TeardownImplementsOutbox == TeardownSpec => IsOutbox
<1>1. TeardownInit => Sending!OutboxInit
  BY DEF TeardownInit, MessengerInit, SessionInit, Sending!OutboxInit
<1>2. TeardownInv /\ [TeardownNext]_teardownVars
        => [Sending!OutboxNext]_(Sending!outboxVars)
  BY TeardownNextIsStep, StepOutbox DEF TeardownInv, MessengerInv
<1> QED
  BY <1>1, <1>2, TeardownInvariance, PTL
  DEF TeardownSpec, IsOutbox, Sending!OutboxSpec

=============================================================================
