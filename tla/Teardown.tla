------------------------------ MODULE Teardown ------------------------------
(***************************************************************************)
(* The end of a WebsocketMessenger: ~WebsocketMessenger, ~EventLoop and    *)
(* ~WebsocketSession, on top of the messenger, its session and the loop    *)
(* whose threads run their handlers.                                       *)
(*                                                                         *)
(* The messenger is kept alive by the references of the application and by *)
(* the one a callback hands to the listener (shared_from_this()); whoever  *)
(* gives up the last one runs the destructor.  The callbacks themselves    *)
(* and the handler of the timer only hold a plain this.                    *)
(***************************************************************************)
EXTENDS WebsocketMessenger, FiniteSets

VARIABLES
  owners,     \* application threads that hold a reference
  holding,    \* threads inside a call of the listener, with a reference
  life,       \* of the messenger: "alive", then the parts of its destructor
  destroyer,  \* the threads that run the destructor: one at most
  clean,      \* the destructor was entered with nothing under way (history)
  ended,      \* threads of the loop that have left ioc_.run()
  running, stopped, threads, call, crashed   \* of the EventLoop

lifeVars == <<owners, holding, life, destroyer, clean>>

poolVars == <<running, stopped, threads, call, crashed>>

teardownVars == <<messengerVars, lifeVars, ended, poolVars>>

Lives == {"alive", "close", "exit", "members", "undefined"}

(* A thread of the loop is in a handler from its first step to its last.   *)
InHandler(t) ==
  t \in IoThreads /\ (~Free(t) \/ t \in holding \/ t \in destroyer)

Pool == INSTANCE EventLoop WITH
  Workers <- IoThreads, Owners <- Threads, Tasks <- {"handler"},
  MaxCalls <- 0, MaxPosts <- 0, calls <- 0, posts <- 0,
  left <- {}, queued <- {},
  run <- [t \in Threads |-> IF t \in AppThreads \cup ended THEN "outside"
                            ELSE IF InHandler(t) THEN "handler" ELSE "run"]

-----------------------------------------------------------------------------
(* The messenger at work, from the end of its constructor, which has       *)
(* called Loop, on.                                                        *)

TeardownInit ==
  /\ MessengerInit
  /\ owners = AppThreads
  /\ holding = {}
  /\ life = "alive"
  /\ destroyer = {}
  /\ clean = FALSE
  /\ ended = {}
  /\ running = TRUE
  /\ stopped = FALSE
  /\ threads = IoThreads
  /\ call = [t \in Threads |-> "idle"]
  /\ crashed = FALSE

Use(t) ==
  /\ t \in owners
  /\ Open(t) \/ Close(t) \/ SendMessage(t)
  /\ UNCHANGED <<lifeVars, ended, poolVars>>

(* A free thread of the loop takes a handler as long as ioc_ is running.   *)
Takes(t) == t \notin ended /\ ~InHandler(t) /\ ~stopped

StrandFree == holding = {} /\ destroyer \cap IoThreads = {}

(* Not every callback of the session ends in one of the listener.          *)
Told == {"connect", "close", "message",
         "kConnectError", "kSendError", "kReceiveError"}

(* The listener is called if its weak pointer can be locked.  With the     *)
(* destructor running there is no reference left to be shared, and         *)
(* shared_from_this throws out of ioc_.run().                              *)
CallListener(cb, t) ==
  \/ UNCHANGED <<holding, crashed>>
  \/ /\ cb \in Told
     /\ IF life = "alive"
        THEN holding' = holding \cup {t} /\ UNCHANGED crashed
        ELSE crashed' = TRUE /\ UNCHANGED holding

RunOnStrand(t) ==
  /\ Takes(t)
  /\ StrandFree
  /\ ~StrandBusy
  /\ \/ /\ \E op \in Ops, cb \in Callbacks :
             Handler(op, cb) /\ React(cb, t) /\ CallListener(cb, t)
        /\ UNCHANGED <<tryRecovery, timerVars>>
     \/ SendOnStrand(t) /\ UNCHANGED <<holding, crashed>>
  /\ UNCHANGED <<owners, life, destroyer, clean, ended, running, stopped,
                 threads, call>>

RunTimer(t) ==
  /\ Takes(t)
  /\ TimerHandler(t)
  /\ UNCHANGED <<lifeVars, ended, poolVars>>

Expire ==
  /\ life \in {"alive", "close", "exit"}
  /\ TimerFires
  /\ UNCHANGED <<lifeVars, ended, poolVars>>

GoOn(t) ==
  /\ t \notin holding
  /\ Proceed(t)
  /\ UNCHANGED <<lifeVars, ended, poolVars>>

-----------------------------------------------------------------------------
(* The last reference.                                                     *)

(* Nothing is outstanding, waiting or half done but a read that was cut    *)
(* off, and the session is not connected.                                  *)
Quiet ==
  /\ state = "kDisconnected"
  /\ \A op \in Ops \ {"read"} : Outstanding(op) = 0
  /\ posted = <<>>
  /\ ~armed /\ ready = 0
  /\ \A t \in Threads : Free(t)

(* ~WebsocketMessenger begins with Close: try_to_recovery_ is cleared.     *)
Destroy(t) ==
  /\ life' = "close"
  /\ destroyer' = {t}
  /\ clean' = (Quiet /\ t \in AppThreads)
  /\ tryRecovery' = FALSE

LiveOn == UNCHANGED <<life, destroyer, clean, tryRecovery>>

Release(t) ==
  /\ t \in owners
  /\ Free(t)
  /\ owners' = owners \ {t}
  /\ IF owners' = {} /\ holding = {}
     THEN Destroy(t) /\ Go(t, "cancel")
     ELSE LiveOn /\ UNCHANGED at
  /\ UNCHANGED <<sessionVars, mstate, timerVars, holding, ended, poolVars>>

ListenerReturns(t) ==
  /\ t \in holding
  /\ holding' = holding \ {t}
  /\ IF owners = {}
     THEN Destroy(t) /\ Go(t, "cancel")
     ELSE LiveOn /\ UNCHANGED at
  /\ UNCHANGED <<sessionVars, mstate, timerVars, owners, ended, poolVars>>

-----------------------------------------------------------------------------
(* The destructor, after its Close.                                        *)

(* Mutant: the loop is left running while the members are destroyed.       *)
ExitNotCalled(t) ==
  /\ life = "close"
  /\ t \in destroyer
  /\ Free(t)
  /\ life' = "members"
  /\ UNCHANGED <<messengerVars, owners, holding, destroyer, clean, ended,
                 poolVars>>

CallExit(t) ==
  /\ life = "close"
  /\ t \in destroyer
  /\ Free(t)
  /\ life' = "exit"
  /\ UNCHANGED <<messengerVars, owners, holding, destroyer, clean, ended>>
  /\ Pool!Exit(t)

InExit(t) ==
  /\ UNCHANGED <<messengerVars, lifeVars, ended>>
  /\ Pool!Stop(t) \/ Pool!Joined(t) \/ Pool!Clear(t)
     \/ \E w \in IoThreads : Pool!Join(t, w)

Leaves(t) ==
  /\ t \in IoThreads
  /\ ended' = ended \cup {t}
  /\ UNCHANGED <<messengerVars, lifeVars>>
  /\ Pool!Leave(t)

ExitReturned(t) ==
  /\ life = "exit"
  /\ t \in destroyer
  /\ call[t] = "idle"
  /\ life' = "members"
  /\ UNCHANGED <<messengerVars, owners, holding, destroyer, clean, ended,
                 poolVars>>

(* The members go in the reverse of the order they are declared in:        *)
(* recovery_timer_, then loop_ with its io_context and every handler in    *)
(* it, and only then websocket_, which by now is the last reference to the *)
(* session.  ~WebsocketSession calls Disconnect, whose shared_from_this    *)
(* throws unless state_ is kDisconnected.  If it is, the session destroys  *)
(* a strand, a resolver and a socket that reach for the services of an     *)
(* io_context that is gone: no release ends in defined behaviour.          *)
DestroyMembers(t) ==
  /\ life = "members"
  /\ t \in destroyer
  /\ \/ /\ state # "kDisconnected"
        /\ crashed' = TRUE
        /\ UNCHANGED life
     \/ /\ state = "kDisconnected"
        /\ life' = "undefined"
        /\ UNCHANGED crashed
  /\ UNCHANGED <<messengerVars, owners, holding, destroyer, clean, ended,
                 running, stopped, threads, call>>

-----------------------------------------------------------------------------
Works(t) ==
  \/ RunOnStrand(t)
  \/ RunTimer(t)
  \/ Leaves(t)

Ends(t) ==
  \/ ListenerReturns(t)
  \/ CallExit(t)
  \/ InExit(t)
  \/ ExitReturned(t)
  \/ DestroyMembers(t)

TeardownNext ==
  /\ ~crashed
  /\ \/ \E t \in AppThreads : Use(t) \/ Release(t)
     \/ \E t \in IoThreads : Works(t)
     \/ \E t \in Threads : GoOn(t) \/ Ends(t)
     \/ Expire

TeardownSpec == TeardownInit /\ [][TeardownNext]_teardownVars

(* Threads are scheduled and the listener returns.                         *)
FairTeardownSpec ==
  /\ TeardownSpec
  /\ \A t \in Threads :
       WF_teardownVars(~crashed /\ (GoOn(t) \/ Ends(t) \/ Leaves(t)))

-----------------------------------------------------------------------------
(* Properties.                                                             *)

(* Every variable keeps its type.                                          *)
TeardownTypeOK ==
  /\ MessengerTypeOK
  /\ owners \subseteq AppThreads
  /\ holding \subseteq IoThreads
  /\ life \in Lives
  /\ destroyer \in SUBSET Threads /\ Cardinality(destroyer) <= 1
  /\ clean \in BOOLEAN
  /\ ended \subseteq IoThreads
  /\ Pool!LoopTypeOK

(* No handler outlives the messenger: when the destructor comes to the     *)
(* members every thread of the loop has ended, so none of the callbacks    *)
(* and handlers that hold a plain this can run on a messenger that is      *)
(* half destroyed, however late the last reference went and whatever they  *)
(* were in the middle of.                                                  *)
NoneOutlives ==
  life \in {"members", "undefined"} =>
    /\ ended = IoThreads
    /\ holding = {}
    /\ \A t \in IoThreads : Free(t)

(* If the session is disconnected, with no connection attempt, close,      *)
(* write or recovery under way, and an application thread gives up the     *)
(* last reference, then no destructor and no thread of the loop meets an   *)
(* exception.  It is all the code can promise of a release: what follows,  *)
(* the end of the session's members after their io_context, is undefined.  *)
QuietThrowsNothing == clean => ~crashed

(* Giving up a messenger does not hang, although handlers are running and  *)
(* may still be setting timers: the destructor gets through Exit and comes *)
(* to the session's members, unless an exception ends the program.         *)
DestructorEnds == life = "close" ~> crashed \/ life = "undefined"

=============================================================================
