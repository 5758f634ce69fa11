----------------------------- MODULE EventLoop -----------------------------
(***************************************************************************)
(* nbsdk::base::EventLoop (base/event_loop.{h,cc}): an io_context and the  *)
(* threads that run it.                                                    *)
(*                                                                         *)
(* threads_ is a plain vector, so Loop, SyncLoop and Exit are called one   *)
(* at a time; only the time a SyncLoop spends in ioc_.run() may overlap    *)
(* with other calls, or nobody could end it.  Between two accesses to      *)
(* running_ or the io_context the threads of the loop take steps.          *)
(***************************************************************************)
EXTENDS FiniteSets, Naturals

CONSTANTS
  Workers,    \* the threads the loop starts: thread_count_ of them
  Owners,     \* the threads that call Loop, SyncLoop and Exit
  Tasks,      \* the handlers that are posted
  MaxCalls,   \* how many calls are made
  MaxPosts    \* how many handlers are posted

ASSUME LoopAssumption ==
  /\ MaxCalls \in Nat
  /\ MaxPosts \in Nat
  /\ Tasks \cap {"outside", "run"} = {}

(* Where a thread can be in Loop, SyncLoop or Exit.                        *)
Calls == {"idle",
          "store", "reset", "spawn",    \* in Loop
          "storeS", "resetS", "spawnS", \* in SyncLoop
          "stop", "join", "clear"}      \* in Exit

VARIABLES
  running,   \* running_
  stopped,   \* ioc_.stopped()
  threads,   \* the threads of threads_ that can be joined
  left,      \* the threads the for statement has still to start
  call,      \* where each thread is in a call of the loop
  run,       \* "outside" ioc_.run(), in "run" waiting, or the task it runs
  queued,    \* handlers posted to the io_context
  crashed,   \* an exception has left a thread: std::terminate
  calls, posts

loopVars == <<running, stopped, threads, left, call, run, queued, crashed,
              calls, posts>>

LoopThreads == Workers \cup Owners

-----------------------------------------------------------------------------
Step(c, from, to) ==
  /\ call[c] = from
  /\ call' = [call EXCEPT ![c] = to]

(* A thread may make a call if no call is under way and it is not in run() *)
(* waiting for a handler; a handler may make one.                          *)
MayCall(c) ==
  /\ \A d \in LoopThreads : call[d] = "idle"
  /\ run[c] \in Tasks \/ (run[c] = "outside" /\ c \notin Workers)

Count ==
  /\ calls < MaxCalls
  /\ calls' = calls + 1

(* Loop and SyncLoop return at once if running_ is set.                    *)
Loop(c) ==
  /\ MayCall(c)
  /\ ~running
  /\ Step(c, "idle", "store")
  /\ UNCHANGED <<running, stopped, threads, left, run, queued, crashed, posts>>

(* A handler must not call SyncLoop: run() cannot be nested in run().      *)
SyncLoop(c) ==
  /\ MayCall(c)
  /\ run[c] = "outside"
  /\ ~running
  /\ Step(c, "idle", "storeS")
  /\ UNCHANGED <<running, stopped, threads, left, run, queued, crashed, posts>>

StoreRunning(c) ==
  /\ Step(c, "store", "reset") \/ Step(c, "storeS", "resetS")
  /\ running' = TRUE
  /\ UNCHANGED <<stopped, threads, left, run, queued, crashed, calls, posts>>

(* Mutants: the io_context is made anew, without the handlers that wait;   *)
(* it is not made ready to run again.                                      *)
ResetDiscarding(c) ==
  /\ \/ Step(c, "reset", "spawn") /\ left' = Workers
     \/ Step(c, "resetS", "spawnS")
        /\ left' = Workers \ {CHOOSE w \in Workers : TRUE}
  /\ stopped' = FALSE
  /\ queued' = {}
  /\ UNCHANGED <<running, threads, run, crashed, calls, posts>>

NoReset(c) ==
  /\ \/ Step(c, "reset", "spawn") /\ left' = Workers
     \/ Step(c, "resetS", "spawnS")
        /\ left' = Workers \ {CHOOSE w \in Workers : TRUE}
  /\ UNCHANGED <<running, stopped, threads, run, queued, crashed, calls, posts>>

(* The caller of SyncLoop is one of the thread_count_ threads.             *)
Reset(c) ==
  /\ \/ Step(c, "reset", "spawn") /\ left' = Workers
     \/ Step(c, "resetS", "spawnS")
        /\ left' = Workers \ {CHOOSE w \in Workers : TRUE}
  /\ stopped' = FALSE
  /\ UNCHANGED <<running, threads, run, queued, crashed, calls, posts>>

Spawn(c, w) ==
  /\ call[c] \in {"spawn", "spawnS"}
  /\ w \in left
  /\ left' = left \ {w}
  /\ threads' = threads \cup {w}
  /\ run' = [run EXCEPT ![w] = "run"]
  /\ UNCHANGED <<running, stopped, call, queued, crashed, calls, posts>>

(* Mutant: the caller of SyncLoop is put among the threads to be joined.   *)
SpawnedSelf(c) ==
  /\ left = {}
  /\ \/ Step(c, "spawn", "idle") /\ UNCHANGED <<run, threads>>
     \/ /\ Step(c, "spawnS", "idle")
        /\ run' = [run EXCEPT ![c] = "run"]
        /\ threads' = threads \cup {c}
  /\ UNCHANGED <<running, stopped, left, queued, crashed, calls, posts>>

(* Loop returns when the last thread is started; SyncLoop goes on to run().*)
Spawned(c) ==
  /\ left = {}
  /\ \/ Step(c, "spawn", "idle") /\ UNCHANGED run
     \/ Step(c, "spawnS", "idle") /\ run' = [run EXCEPT ![c] = "run"]
  /\ UNCHANGED <<running, stopped, threads, left, queued, crashed, calls, posts>>

(* Exit returns at once unless running_ is set.                            *)
Exit(c) ==
  /\ MayCall(c)
  /\ running
  /\ Step(c, "idle", "stop")
  /\ UNCHANGED <<running, stopped, threads, left, run, queued, crashed, posts>>

(* Mutant: the threads are joined without being told to end.               *)
StopNone(c) ==
  /\ Step(c, "stop", "join")
  /\ UNCHANGED <<running, stopped, threads, left, run, queued, crashed, calls,
                 posts>>

Stop(c) ==
  /\ Step(c, "stop", "join")
  /\ stopped' = TRUE
  /\ UNCHANGED <<running, threads, left, run, queued, crashed, calls, posts>>

(* Mutant: the threads are forgotten and not joined.                       *)
JoinNot(c, w) ==
  /\ call[c] = "join"
  /\ w \in threads
  /\ threads' = threads \ {w}
  /\ UNCHANGED <<running, stopped, left, call, run, queued, crashed, calls,
                 posts>>

(* join waits for the thread to end; of the calling thread it throws.      *)
Join(c, w) ==
  /\ call[c] = "join"
  /\ w \in threads
  /\ \/ /\ w = c
        /\ crashed' = TRUE
        /\ UNCHANGED threads
     \/ /\ run[w] = "outside"
        /\ threads' = threads \ {w}
        /\ UNCHANGED crashed
  /\ UNCHANGED <<running, stopped, left, call, run, queued, calls, posts>>

Joined(c) ==
  /\ threads = {}
  /\ Step(c, "join", "clear")
  /\ UNCHANGED <<running, stopped, threads, left, run, queued, crashed, calls,
                 posts>>

(* Mutant: the io_context is made ready to run again here, and not when    *)
(* the loop starts.                                                        *)
ClearResetting(c) ==
  /\ Step(c, "clear", "idle")
  /\ running' = FALSE
  /\ stopped' = FALSE
  /\ UNCHANGED <<threads, left, run, queued, crashed, calls, posts>>

Clear(c) ==
  /\ Step(c, "clear", "idle")
  /\ running' = FALSE
  /\ UNCHANGED <<stopped, threads, left, run, queued, crashed, calls, posts>>

-----------------------------------------------------------------------------
(* The io_context.  The work guard keeps run() from returning for want of  *)
(* handlers; stop() makes every run() return after its current handler.    *)

Post(task) ==
  /\ posts < MaxPosts
  /\ posts' = posts + 1
  /\ task \notin queued
  /\ \A t \in LoopThreads : run[t] # task
  /\ queued' = queued \cup {task}
  /\ UNCHANGED <<running, stopped, threads, left, call, run, crashed, calls>>

Take(t, task) ==
  /\ run[t] = "run"
  /\ ~stopped
  /\ task \in queued
  /\ queued' = queued \ {task}
  /\ run' = [run EXCEPT ![t] = task]
  /\ UNCHANGED <<running, stopped, threads, left, call, crashed, calls, posts>>

Finish(t) ==
  /\ run[t] \in Tasks
  /\ call[t] = "idle"
  /\ run' = [run EXCEPT ![t] = "run"]
  /\ UNCHANGED <<running, stopped, threads, left, call, queued, crashed, calls,
                 posts>>

(* run() returns: a thread of the loop ends, the caller of SyncLoop goes   *)
(* on behind it.                                                           *)
Leave(t) ==
  /\ run[t] = "run"
  /\ stopped
  /\ run' = [run EXCEPT ![t] = "outside"]
  /\ UNCHANGED <<running, stopped, threads, left, call, queued, crashed, calls,
                 posts>>

-----------------------------------------------------------------------------
LoopInit ==
  /\ running = FALSE
  /\ stopped = FALSE
  /\ threads = {}
  /\ left = {}
  /\ call = [t \in LoopThreads |-> "idle"]
  /\ run = [t \in LoopThreads |-> "outside"]
  /\ queued = {}
  /\ crashed = FALSE
  /\ calls = 0
  /\ posts = 0

(* What a thread does without anybody asking for it.                       *)
Continue(t) ==
  \/ StoreRunning(t)
  \/ Reset(t)
  \/ \E w \in Workers : Spawn(t, w) \/ Join(t, w)
  \/ Spawned(t)
  \/ Stop(t)
  \/ Joined(t)
  \/ Clear(t)
  \/ \E task \in Tasks : Take(t, task)
  \/ Finish(t)
  \/ Leave(t)

LoopNext ==
  /\ ~crashed
  /\ \/ \E c \in Owners : (Loop(c) \/ SyncLoop(c) \/ Exit(c)) /\ Count
     \/ \E t \in LoopThreads : Continue(t)
     \/ \E task \in Tasks : Post(task)

LoopSpec == LoopInit /\ [][LoopNext]_loopVars

(* Threads are scheduled, and handlers return.                             *)
FairLoopSpec ==
  /\ LoopSpec
  /\ \A t \in LoopThreads : WF_loopVars(~crashed /\ Continue(t))

-----------------------------------------------------------------------------
(* Properties.                                                             *)

(* Every variable of the loop keeps its type.                              *)
LoopTypeOK ==
  /\ running \in BOOLEAN
  /\ stopped \in BOOLEAN
  /\ threads \subseteq Workers
  /\ left \subseteq Workers
  /\ call \in [LoopThreads -> Calls]
  /\ run \in [LoopThreads -> {"outside", "run"} \cup Tasks]
  /\ queued \subseteq Tasks
  /\ crashed \in BOOLEAN
  /\ calls \in Nat
  /\ posts \in Nat

(* running_ tells the truth about the threads.  While no call is under way *)
(* either it is set, the io_context can run, and the threads started are   *)
(* in run(); or it is clear and every thread of the loop has ended, so the *)
(* owner of the io_context may destroy it.                                 *)
AllIdle == \A t \in LoopThreads : call[t] = "idle"

PoolMatchesFlag ==
  AllIdle =>
    IF running
    THEN /\ ~stopped
         /\ \A w \in Workers : w \in threads <=> run[w] # "outside"
    ELSE /\ threads = {}
         /\ \A w \in Workers : run[w] = "outside"

(* Handlers run as an Executor promises, through every sequence of Loop,   *)
(* SyncLoop and Exit: none is lost, none runs twice, none begins after     *)
(* Exit has returned, although the caller of a SyncLoop may still be on    *)
(* its way out of run() and a later Loop makes the io_context run again.   *)
Active == {task \in Tasks : \E t \in LoopThreads : run[t] = task}

Promise ==
  INSTANCE Executor WITH on <- running, pending <- queued, active <- Active

IsExecutor == Promise!ExecutorSpec

(* Exit returns, unless a thread of the loop calls it and ends the program *)
(* by joining itself: the handlers that are running return, and no thread  *)
(* waits for further ones.                                                 *)
ExitReturns ==
  \A c \in Owners : call[c] = "stop" ~> call[c] = "idle" \/ crashed

(* A SyncLoop returns after an Exit, although its caller is none of the    *)
(* threads that are joined, unless the loop is started again before the    *)
(* caller has noticed.                                                     *)
SyncLoopReturns ==
  \A c \in Owners :
    run[c] # "outside" /\ ~running
      ~> run[c] = "outside" \/ running \/ crashed

(* A handler that is posted runs while the loop does, also one that was    *)
(* left over by an earlier Exit.                                           *)
TaskRuns ==
  \A task \in Tasks :
    task \in queued /\ running ~> task \notin queued \/ ~running \/ crashed

=============================================================================
