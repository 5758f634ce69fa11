------------------------- MODULE WebsocketMessenger -------------------------
(***************************************************************************)
(* nbsdk::net::WebsocketMessenger (net/messenger/websocket_messenger.{h,   *)
(* cc}) on top of its WebsocketSession: Open, Close and SendMessage on the *)
(* threads of the application, the callbacks of the session on its strand, *)
(* and the recovery timer, whose handler runs on any thread of the loop    *)
(* and outside the strand.                                                 *)
(*                                                                         *)
(* The atomics of the two classes are read and written one by one, so a    *)
(* function that uses several of them takes several steps: at[t] says      *)
(* which one thread t has reached.                                         *)
(***************************************************************************)
EXTENDS WebsocketSession

CONSTANTS
  AppThreads,   \* threads that use the messenger
  IoThreads     \* threads that run its EventLoop

ASSUME ThreadsAssumption ==
  /\ Threads = AppThreads \cup IoThreads
  /\ AppThreads \cap IoThreads = {}

MessengerStates == {"kMessengerClosed", "kMessengerOpened", "kMessengerError"}

(* The next thing a thread inside the messenger is about to do.            *)
Places == {"idle",
           "connect",      \* call websocket_->Connect()
           "cancel",       \* in Close: recovery_timer_->cancel()
           "disconnect",   \* in Close: websocket_->Disconnect()
           "test",         \* in OnErrorCallback: read try_to_recovery_
           "arm"}          \* in OnErrorCallback: set the timer

VARIABLES
  mstate,        \* state_ of the messenger
  tryRecovery,   \* try_to_recovery_
  armed,         \* a wait on recovery_timer_ is pending
  ready,         \* handlers of waits that have expired or been cancelled
  at             \* where each thread is

timerVars == <<armed, ready>>

messengerVars == <<sessionVars, mstate, tryRecovery, timerVars, at>>

-----------------------------------------------------------------------------
Go(t, place) == at' = [at EXCEPT ![t] = place]

Free(t) == at[t] = "idle" /\ caller[t] = "idle"

StrandBusy == \E t \in IoThreads : at[t] \in {"test", "arm"}

(* Setting the timer again or cancelling it completes the pending wait, if *)
(* there is one, with operation_aborted; the handler does not look at it.  *)
EndWait == ready' = IF armed THEN ready + 1 ELSE ready

-----------------------------------------------------------------------------
(* The application.                                                        *)

Open(t) ==
  /\ Free(t)
  /\ Spend("connect")
  /\ tryRecovery' = TRUE
  /\ Go(t, "connect")
  /\ UNCHANGED <<state, queue, posted, leftover, stream, live, dead, caller,
                 wire, mstate, timerVars>>

(* The call of Connect in Open and in the handler of the timer.            *)
CallConnect(t) ==
  /\ at[t] = "connect"
  /\ Go(t, "idle")
  /\ Connect(t)
  /\ UNCHANGED <<budget, mstate, tryRecovery, timerVars>>

Close(t) ==
  /\ Free(t)
  /\ Spend("disconnect")
  /\ tryRecovery' = FALSE
  /\ Go(t, "cancel")
  /\ UNCHANGED <<state, queue, posted, leftover, stream, live, dead, caller,
                 wire, mstate, timerVars>>

CancelTimer(t) ==
  /\ at[t] = "cancel"
  /\ Go(t, "disconnect")
  /\ EndWait
  /\ armed' = FALSE
  /\ UNCHANGED <<sessionVars, mstate, tryRecovery>>

CallDisconnect(t) ==
  /\ at[t] = "disconnect"
  /\ Go(t, "idle")
  /\ \/ Disconnect /\ UNCHANGED budget
     \/ state = "kDisconnected" /\ UNCHANGED sessionVars
  /\ UNCHANGED <<mstate, tryRecovery, timerVars>>

SendMessage(t) ==
  /\ Free(t)
  /\ SendData(t)
  /\ Spend("send")
  /\ UNCHANGED <<mstate, tryRecovery, timerVars, at>>

-----------------------------------------------------------------------------
(* The callbacks of the session, inside its handlers on the strand.        *)

OnConnectedCallback == mstate' = "kMessengerOpened" /\ UNCHANGED at

(* Mutants: the state is not recorded, or as the enumerator for "unknown". *)
OnClosedCallbackUnrecorded == UNCHANGED <<mstate, at>>

OnClosedCallbackUnknown == mstate' = "kUnknownState" /\ UNCHANGED at

OnClosedCallback == mstate' = "kMessengerClosed" /\ UNCHANGED at

NeedRestore == {"kConnectError", "kReceiveError", "kDisconnectError"}

(* Mutant: only an error that will be recovered from is recorded.          *)
OnErrorCallbackQuiet(error, t) ==
  IF error \in NeedRestore
  THEN mstate' = "kMessengerError" /\ Go(t, "test")
  ELSE UNCHANGED <<mstate, at>>

(* The listener is called before try_to_recovery_ is read.                 *)
OnErrorCallback(error, t) ==
  /\ mstate' = "kMessengerError"
  /\ IF error \in NeedRestore THEN Go(t, "test") ELSE UNCHANGED at

OnReceiveMsgCallback == UNCHANGED <<mstate, at>>

React(cb, t) ==
  \/ cb = "connect" /\ OnConnectedCallback
  \/ cb = "close" /\ OnClosedCallback
  \/ cb \in Errors /\ OnErrorCallback(cb, t)
  \/ cb = "message" /\ OnReceiveMsgCallback
  \/ cb = "none" /\ UNCHANGED <<mstate, at>>

OnStrand(op, t) ==
  /\ Free(t)
  /\ ~StrandBusy
  /\ \E cb \in Callbacks : Handler(op, cb) /\ React(cb, t)
  /\ UNCHANGED <<tryRecovery, timerVars>>

SendOnStrand(t) ==
  /\ Free(t)
  /\ ~StrandBusy
  /\ SendDataInner
  /\ UNCHANGED <<mstate, tryRecovery, timerVars, at>>

TestRecovery(t) ==
  /\ at[t] = "test"
  /\ Go(t, IF tryRecovery THEN "arm" ELSE "idle")
  /\ UNCHANGED <<sessionVars, mstate, tryRecovery, timerVars>>

(* Mutant: the expiry is set and nothing waits for it.                     *)
ArmRecoveryUnwaited(t) ==
  /\ at[t] = "arm"
  /\ Go(t, "idle")
  /\ EndWait
  /\ armed' = FALSE
  /\ UNCHANGED <<sessionVars, mstate, tryRecovery>>

ArmRecovery(t) ==
  /\ at[t] = "arm"
  /\ Go(t, "idle")
  /\ EndWait
  /\ armed' = TRUE
  /\ UNCHANGED <<sessionVars, mstate, tryRecovery>>

-----------------------------------------------------------------------------
(* The timer.                                                              *)

TimerFires ==
  /\ armed
  /\ EndWait
  /\ armed' = FALSE
  /\ UNCHANGED <<sessionVars, mstate, tryRecovery, at>>

TimerHandler(t) ==
  /\ Free(t)
  /\ ready > 0
  /\ ready' = ready - 1
  /\ IF mstate # "kMessengerClosed" THEN Go(t, "connect") ELSE UNCHANGED at
  /\ UNCHANGED <<sessionVars, mstate, tryRecovery, armed>>

-----------------------------------------------------------------------------
MessengerInit ==
  /\ SessionInit
  /\ mstate = "kMessengerClosed"
  /\ tryRecovery = TRUE
  /\ armed = FALSE
  /\ ready = 0
  /\ at = [t \in Threads |-> "idle"]

(* A thread goes on with what it is in the middle of.                      *)
Proceed(t) ==
  \/ CallConnect(t)
  \/ CancelTimer(t)
  \/ CallDisconnect(t)
  \/ TestRecovery(t)
  \/ ArmRecovery(t)
  \/ Resume(t) /\ UNCHANGED <<mstate, tryRecovery, timerVars, at>>

MessengerNext ==
  \/ \E t \in AppThreads : Open(t) \/ Close(t) \/ SendMessage(t)
  \/ \E t \in Threads : Proceed(t)
  \/ \E t \in IoThreads :
       \/ \E op \in Ops : OnStrand(op, t)
       \/ SendOnStrand(t)
       \/ TimerHandler(t)
  \/ TimerFires

MessengerSpec == MessengerInit /\ [][MessengerNext]_messengerVars

(* A thread that has begun a call or a handler finishes it, the timer      *)
(* fires, and the loop runs every handler that is ready; what waits for    *)
(* the peer may wait for ever, as in the session.                          *)
MessengerFairness ==
  /\ \A t \in Threads : WF_messengerVars(Proceed(t))
  /\ \A op \in Peerless :
       WF_messengerVars(\E t \in IoThreads : OnStrand(op, t))
  /\ \A op \in Ops \ Peerless :
       WF_messengerVars(Aborted(op) /\ \E t \in IoThreads : OnStrand(op, t))
  /\ WF_messengerVars(\E t \in IoThreads : SendOnStrand(t))
  /\ WF_messengerVars(\E t \in IoThreads : TimerHandler(t))
  /\ WF_messengerVars(TimerFires)

FairMessengerSpec == MessengerSpec /\ MessengerFairness

-----------------------------------------------------------------------------
(* Properties.                                                             *)

(* Every variable of the messenger keeps its type.                         *)
MessengerTypeOK ==
  /\ SessionTypeOK
  /\ mstate \in MessengerStates
  /\ tryRecovery \in BOOLEAN
  /\ armed \in BOOLEAN
  /\ ready \in Nat
  /\ at \in [Threads -> Places]

(* What CurrentState of the messenger answers agrees with the session,     *)
(* whenever the session is not in the middle of an attempt or a handler.   *)
MessengerAgrees ==
  /\ state = "kConnected" => mstate = "kMessengerOpened"
  /\ state = "kDisconnected" => mstate = "kMessengerClosed"
  /\ state = "kError" => mstate = "kMessengerError"

(* A failure for which a timer is set leads to another attempt, unless the *)
(* messenger is closed or a connection is there in the meantime: no        *)
(* interleaving of Open, Close, later failures and handlers of earlier     *)
(* waits makes the timer's Connect get lost.                               *)
Settled ==
  \/ Attempts > 0
  \/ state = "kConnected"
  \/ mstate = "kMessengerClosed"
  \/ ~tryRecovery

Recovers ==
  \A t \in IoThreads : at[t] = "arm" ~> Settled

(* Close hangs on nothing but the peer's close frame: if that comes, the   *)
(* messenger reports itself closed or in error after Close, it does not    *)
(* stay kMessengerOpened.                                                  *)
PeerCloses == WF_messengerVars(\E t \in IoThreads : OnStrand("close", t))

CloseIsAnswered ==
  PeerCloses =>
    \A t \in AppThreads :
      at[t] = "disconnect" ~> mstate # "kMessengerOpened"

-----------------------------------------------------------------------------
(* What comments in the code say of it, and the code does not do.          *)

(* Close stops the error recovery (websocket_messenger.cc:42): the loop    *)
(* starts no connection while it is stopped.                               *)
RecoveryStopped ==
  [][\A t \in IoThreads :
       caller[t] # "start" /\ caller'[t] = "start" => tryRecovery]_messengerVars

(* Open turns reconnecting on (websocket_messenger.cc:34): while it is on, *)
(* the messenger does not stay in kMessengerError.                         *)
ErrorIsLeft ==
  ~<>[](tryRecovery /\ mstate = "kMessengerError" /\ Attempts = 0)

=============================================================================
