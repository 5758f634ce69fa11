--------------------------- MODULE EventLoop_proofs ---------------------------
(***************************************************************************)
(* Proofs about EventLoop, for any threads, handlers and numbers of calls. *)
(***************************************************************************)
EXTENDS EventLoop, TLAPS

(* The strengthening of PoolMatchesFlag says what holds of the threads at  *)
(* every step of a call, and not only between calls.                       *)
Ended ==
  /\ threads = {}
  /\ \A w \in Workers : run[w] = "outside"

Mirrored == \A w \in Workers : w \in threads <=> run[w] # "outside"

OneCall ==
  \A c, d \in LoopThreads : call[c] # "idle" /\ call[d] # "idle" => c = d

(* A thread in a call is in a handler, or is not one of the loop's; one of *)
(* the loop's is in Exit.                                                  *)
CallerPlaced ==
  \A c \in LoopThreads :
    \/ call[c] = "idle"
    \/ /\ run[c] \in Tasks
       /\ call[c] \notin {"storeS", "resetS", "spawnS"}
       /\ c \in Workers => call[c] \in {"stop", "join", "clear"}
    \/ run[c] = "outside" /\ c \notin Workers

CallStages ==
  \A c \in LoopThreads :
    /\ call[c] \in {"store", "storeS"} => ~running /\ Ended
    /\ call[c] \in {"reset", "resetS"} => running /\ Ended
    /\ call[c] \in {"spawn", "spawnS"} =>
         running /\ ~stopped /\ Mirrored /\ left \cap threads = {}
    /\ call[c] = "stop" => running /\ ~stopped /\ Mirrored
    /\ call[c] = "join" =>
         /\ running /\ stopped
         /\ \A w \in Workers : run[w] # "outside" => w \in threads
    /\ call[c] = "clear" => running /\ stopped /\ Ended

(* The caller of a SyncLoop that has not noticed the end of the loop, and  *)
(* is still in run(), cannot take a handler before the loop is on again.   *)
InRunIsOn == \A t \in LoopThreads : run[t] # "outside" => running \/ stopped

(* A handler waits once, or runs on one thread.                            *)
OncePerTask ==
  \A t \in LoopThreads :
    /\ run[t] \notin queued
    /\ \A u \in LoopThreads : run[t] \in Tasks /\ run[u] = run[t] => t = u

LoopInv ==
  /\ LoopTypeOK
  /\ OneCall
  /\ CallerPlaced
  /\ CallStages
  /\ PoolMatchesFlag
  /\ InRunIsOn
  /\ OncePerTask

-----------------------------------------------------------------------------
(* What a step of a call does to the places of the threads.                *)

LEMMA TaskNames == "outside" \notin Tasks /\ "run" \notin Tasks
  BY LoopAssumption

LEMMA StepFacts ==
  ASSUME LoopTypeOK, NEW c \in LoopThreads, NEW from, NEW to \in Calls,
         Step(c, from, to)
  PROVE  /\ call[c] = from
         /\ call' \in [LoopThreads -> Calls]
         /\ call'[c] = to
         /\ \A d \in LoopThreads \ {c} : call'[d] = call[d]
  BY DEF Step, LoopTypeOK

LEMMA AloneInCall ==
  ASSUME OneCall, NEW c \in LoopThreads, call[c] # "idle"
  PROVE  \A d \in LoopThreads \ {c} : call[d] = "idle"
  BY DEF OneCall

LEMMA LoopInitInv == LoopInit => LoopInv
<1> SUFFICES ASSUME LoopInit PROVE LoopInv
  OBVIOUS
<1>1. LoopTypeOK
  BY DEF LoopInit, LoopTypeOK, Calls
<1>2. \A t \in LoopThreads : call[t] = "idle" /\ run[t] = "outside"
  BY DEF LoopInit
<1>3. \A w \in Workers : run[w] = "outside"
  BY <1>2 DEF LoopThreads
<1> QED
  BY <1>1, <1>2, <1>3, TaskNames
  DEF LoopInit, LoopInv, OneCall, CallerPlaced, CallStages, PoolMatchesFlag,
      InRunIsOn, OncePerTask, AllIdle

-----------------------------------------------------------------------------
(* The calls begin: until their first access to running_ or the io_context *)
(* nothing changes but the place of the caller.                            *)

LEMMA CallInv ==
  ASSUME LoopInv, NEW c \in Owners, Loop(c) \/ SyncLoop(c) \/ Exit(c), Count
  PROVE  LoopInv'
<1>0. c \in LoopThreads /\ LoopTypeOK /\ OncePerTask /\ InRunIsOn
  BY DEF LoopThreads, LoopInv
<1>1. /\ \A d \in LoopThreads : call[d] = "idle"
      /\ run[c] \in Tasks \/ (run[c] = "outside" /\ c \notin Workers)
      /\ UNCHANGED <<running, stopped, threads, left, run, queued, crashed, posts>>
  BY DEF Loop, SyncLoop, Exit, MayCall
<1>2. PICK to \in {"store", "storeS", "stop"} :
         /\ Step(c, "idle", to)
         /\ to \in {"store", "storeS"} => ~running
         /\ to = "storeS" => run[c] = "outside"
         /\ to = "stop" => running
  BY DEF Loop, SyncLoop, Exit
<1>3. /\ call' \in [LoopThreads -> Calls] /\ call'[c] = to
      /\ \A d \in LoopThreads \ {c} : call'[d] = "idle"
  BY <1>0, <1>1, <1>2, StepFacts DEF Calls
<1>4. IF running THEN ~stopped /\ Mirrored ELSE Ended
  BY <1>1 DEF LoopInv, PoolMatchesFlag, AllIdle, Mirrored, Ended
<1>5. LoopTypeOK'
  BY <1>0, <1>1, <1>3 DEF Count, LoopTypeOK
<1>6. /\ OneCall'
      /\ ~AllIdle'
  BY <1>0, <1>1, <1>2, <1>3 DEF OneCall, AllIdle
<1>9. CallerPlaced'
  <2>1. c \in Workers => call'[c] = "stop"
    BY <1>1, <1>2, <1>3, <1>4, TaskNames DEF Ended
  <2>2. \/ run'[c] \in Tasks /\ call'[c] \notin {"storeS", "resetS", "spawnS"}
        \/ run'[c] = "outside" /\ c \notin Workers
    BY <1>1, <1>2, <1>3, TaskNames
  <2> QED
    BY <1>3, <2>1, <2>2 DEF CallerPlaced
<1>7. CallStages'
  BY <1>1, <1>2, <1>3, <1>4 DEF CallStages, Mirrored, Ended
<1>8. InRunIsOn' /\ OncePerTask'
  BY <1>0, <1>1 DEF InRunIsOn, OncePerTask
<1> QED
  BY <1>5, <1>6, <1>7, <1>8, <1>9 DEF LoopInv, PoolMatchesFlag

-----------------------------------------------------------------------------
(* Loop and SyncLoop, behind their test of running_.                       *)

(* A step of the caller c alone: the other threads are in no call, and     *)
(* between calls nothing else holds than what is said of c.                *)
LEMMA CallerStep ==
  ASSUME LoopInv, NEW c \in LoopThreads, call[c] # "idle",
         call' \in [LoopThreads -> Calls],
         \A d \in LoopThreads \ {c} : call'[d] = call[d]
  PROVE  /\ OneCall'
         /\ \A d \in LoopThreads \ {c} : call'[d] = "idle"
  BY AloneInCall DEF LoopInv, OneCall

LEMMA StoreRunningInv ==
  ASSUME LoopInv, NEW c \in LoopThreads, StoreRunning(c)
  PROVE  LoopInv'
<1>0. LoopTypeOK /\ OneCall /\ CallerPlaced /\ CallStages /\ OncePerTask
  BY DEF LoopInv
<1>1. /\ running' = TRUE
      /\ UNCHANGED <<stopped, threads, left, run, queued, crashed, calls, posts>>
  BY DEF StoreRunning
<1>2. /\ \/ call[c] = "store" /\ call'[c] = "reset"
         \/ call[c] = "storeS" /\ call'[c] = "resetS"
      /\ call' \in [LoopThreads -> Calls]
      /\ \A d \in LoopThreads \ {c} : call'[d] = call[d]
  BY <1>0, StepFacts DEF StoreRunning, Calls
<1>3. OneCall' /\ \A d \in LoopThreads \ {c} : call'[d] = "idle"
  BY <1>2, CallerStep
<1>4. Ended
  BY <1>0, <1>2 DEF CallStages
<1>5. LoopTypeOK'
  BY <1>0, <1>1, <1>2 DEF LoopTypeOK
<1>6. CallerPlaced'
  BY <1>0, <1>1, <1>2, <1>3 DEF CallerPlaced
<1>7. CallStages'
  BY <1>1, <1>2, <1>3, <1>4 DEF CallStages, Ended
<1>8. InRunIsOn' /\ OncePerTask' /\ ~AllIdle'
  BY <1>0, <1>1, <1>2 DEF InRunIsOn, OncePerTask, AllIdle
<1> QED
  BY <1>3, <1>5, <1>6, <1>7, <1>8 DEF LoopInv, PoolMatchesFlag

LEMMA ResetInv ==
  ASSUME LoopInv, NEW c \in LoopThreads, Reset(c)
  PROVE  LoopInv'
<1>0. /\ LoopTypeOK /\ OneCall /\ CallerPlaced /\ CallStages
      /\ InRunIsOn /\ OncePerTask
  BY DEF LoopInv
<1>1. /\ stopped' = FALSE /\ left' \subseteq Workers
      /\ UNCHANGED <<running, threads, run, queued, crashed, calls, posts>>
  BY DEF Reset
<1>2. /\ \/ call[c] = "reset" /\ call'[c] = "spawn"
         \/ call[c] = "resetS" /\ call'[c] = "spawnS"
      /\ call' \in [LoopThreads -> Calls]
      /\ \A d \in LoopThreads \ {c} : call'[d] = call[d]
  BY <1>0, StepFacts DEF Reset, Calls
<1>3. OneCall' /\ \A d \in LoopThreads \ {c} : call'[d] = "idle"
  BY <1>2, CallerStep
<1>4. running /\ Ended
  BY <1>0, <1>2 DEF CallStages
<1>5. LoopTypeOK'
  BY <1>0, <1>1, <1>2 DEF LoopTypeOK
<1>6. CallerPlaced'
  BY <1>0, <1>1, <1>2, <1>3 DEF CallerPlaced
<1>7. CallStages'
  <2>1. Mirrored' /\ (left \cap threads = {})'
    BY <1>1, <1>4 DEF Mirrored, Ended
  <2> QED
    BY <1>1, <1>2, <1>3, <1>4, <2>1 DEF CallStages
<1>8. InRunIsOn' /\ OncePerTask' /\ ~AllIdle'
  BY <1>0, <1>1, <1>2, <1>4 DEF InRunIsOn, OncePerTask, AllIdle
<1> QED
  BY <1>3, <1>5, <1>6, <1>7, <1>8 DEF LoopInv, PoolMatchesFlag

LEMMA SpawnInv ==
  ASSUME LoopInv, NEW c \in LoopThreads, NEW w \in Workers, Spawn(c, w)
  PROVE  LoopInv'
<1>0. /\ LoopTypeOK /\ OneCall /\ CallerPlaced /\ CallStages
      /\ InRunIsOn /\ OncePerTask
  BY DEF LoopInv
<1>1. /\ call[c] \in {"spawn", "spawnS"}
      /\ threads' = threads \cup {w}
      /\ run' = [run EXCEPT ![w] = "run"] /\ left' = left \ {w}
      /\ UNCHANGED <<running, stopped, call, queued, crashed, calls, posts>>
  BY DEF Spawn
<1>2. running /\ ~stopped /\ Mirrored /\ left \cap threads = {}
  BY <1>0, <1>1 DEF CallStages
<1>3. w \in LoopThreads /\ \A d \in LoopThreads \ {c} : call[d] = "idle"
  BY <1>0, <1>1, AloneInCall DEF LoopThreads
<1>4. /\ run'[w] = "run"
      /\ \A t \in LoopThreads \ {w} : run'[t] = run[t]
  BY <1>0, <1>1, <1>3 DEF LoopTypeOK
<1>5. LoopTypeOK'
  BY <1>0, <1>1 DEF LoopTypeOK
<1>6. Mirrored'
  BY <1>1, <1>2, <1>3, <1>4 DEF Mirrored, LoopThreads
<1>7. CallStages' /\ OneCall' /\ ~AllIdle'
  BY <1>0, <1>1, <1>2, <1>3, <1>6 DEF CallStages, OneCall, AllIdle
<1>8. CallerPlaced'
  BY <1>0, <1>1, <1>3, <1>4 DEF CallerPlaced
<1>9. InRunIsOn' /\ OncePerTask'
  BY <1>0, <1>1, <1>2, <1>4, TaskNames
  DEF InRunIsOn, OncePerTask, LoopTypeOK
<1> QED
  BY <1>5, <1>7, <1>8, <1>9 DEF LoopInv, PoolMatchesFlag

LEMMA SpawnedInv ==
  ASSUME LoopInv, NEW c \in LoopThreads, Spawned(c)
  PROVE  LoopInv'
<1>0. /\ LoopTypeOK /\ OneCall /\ CallerPlaced /\ CallStages
      /\ InRunIsOn /\ OncePerTask
  BY DEF LoopInv
<1>1. UNCHANGED <<running, stopped, threads, left, queued, crashed, calls, posts>>
  BY DEF Spawned
<1>2. /\ call[c] \in {"spawn", "spawnS"} /\ call'[c] = "idle"
      /\ call' \in [LoopThreads -> Calls]
      /\ \A d \in LoopThreads \ {c} : call'[d] = call[d]
  BY <1>0, StepFacts DEF Spawned, Calls
<1>3. OneCall' /\ AllIdle'
  BY <1>2, CallerStep DEF AllIdle
<1>4. running /\ ~stopped /\ Mirrored
  BY <1>0, <1>2 DEF CallStages
<1>5. \/ run' = run
      \/ /\ c \notin Workers /\ run[c] = "outside"
         /\ run' = [run EXCEPT ![c] = "run"]
  BY <1>0 DEF Spawned, Step, CallerPlaced
<1>6. /\ run' \in [LoopThreads -> {"outside", "run"} \cup Tasks]
      /\ \A w \in Workers : run'[w] = run[w]
      /\ \A t \in LoopThreads : run'[t] = run[t] \/ run'[t] = "run"
  BY <1>0, <1>5 DEF LoopTypeOK, LoopThreads
<1>7. LoopTypeOK'
  BY <1>0, <1>1, <1>2, <1>6 DEF LoopTypeOK
<1>8. CallerPlaced' /\ CallStages'
  BY <1>3 DEF AllIdle, CallerPlaced, CallStages
<1>9. PoolMatchesFlag' /\ InRunIsOn'
  BY <1>1, <1>4, <1>6 DEF PoolMatchesFlag, InRunIsOn, Mirrored
<1>10. OncePerTask'
  BY <1>0, <1>1, <1>6, TaskNames DEF OncePerTask, LoopTypeOK
<1> QED
  BY <1>3, <1>7, <1>8, <1>9, <1>10 DEF LoopInv

-----------------------------------------------------------------------------
(* Exit, behind its test of running_.                                      *)

LEMMA StopInv ==
  ASSUME LoopInv, NEW c \in LoopThreads, Stop(c)
  PROVE  LoopInv'
<1>0. /\ LoopTypeOK /\ OneCall /\ CallerPlaced /\ CallStages
      /\ InRunIsOn /\ OncePerTask
  BY DEF LoopInv
<1>1. /\ stopped' = TRUE
      /\ UNCHANGED <<running, threads, left, run, queued, crashed, calls, posts>>
  BY DEF Stop
<1>2. /\ call[c] = "stop" /\ call'[c] = "join"
      /\ call' \in [LoopThreads -> Calls]
      /\ \A d \in LoopThreads \ {c} : call'[d] = call[d]
  BY <1>0, StepFacts DEF Stop, Calls
<1>3. OneCall' /\ \A d \in LoopThreads \ {c} : call'[d] = "idle"
  BY <1>2, CallerStep
<1>4. running /\ Mirrored
  BY <1>0, <1>2 DEF CallStages
<1>5. LoopTypeOK'
  BY <1>0, <1>1, <1>2 DEF LoopTypeOK
<1>6. CallerPlaced'
  BY <1>0, <1>1, <1>2, <1>3 DEF CallerPlaced
<1>7. CallStages'
  BY <1>1, <1>2, <1>3, <1>4 DEF CallStages, Mirrored
<1>8. InRunIsOn' /\ OncePerTask' /\ ~AllIdle'
  BY <1>0, <1>1, <1>2 DEF InRunIsOn, OncePerTask, AllIdle
<1> QED
  BY <1>3, <1>5, <1>6, <1>7, <1>8 DEF LoopInv, PoolMatchesFlag

LEMMA JoinInv ==
  ASSUME LoopInv, NEW c \in LoopThreads, NEW w \in Workers, Join(c, w)
  PROVE  LoopInv'
<1>0. /\ LoopTypeOK /\ OneCall /\ CallerPlaced /\ CallStages
      /\ InRunIsOn /\ OncePerTask
  BY DEF LoopInv
<1>1. /\ call[c] = "join" /\ crashed' \in BOOLEAN
      /\ threads' = threads \/ (threads' = threads \ {w} /\ run[w] = "outside")
      /\ UNCHANGED <<running, stopped, left, call, run, queued, calls, posts>>
  BY <1>0 DEF Join, LoopTypeOK
<1>2. \A d \in LoopThreads \ {c} : call[d] = "idle"
  BY <1>0, <1>1, AloneInCall
<1>3. LoopTypeOK'
  BY <1>0, <1>1 DEF LoopTypeOK
<1>4. CallStages'
  BY <1>0, <1>1, <1>2 DEF CallStages
<1>5. OneCall' /\ CallerPlaced' /\ ~AllIdle'
  BY <1>0, <1>1 DEF OneCall, CallerPlaced, AllIdle
<1>6. InRunIsOn' /\ OncePerTask'
  BY <1>0, <1>1 DEF InRunIsOn, OncePerTask
<1> QED
  BY <1>3, <1>4, <1>5, <1>6 DEF LoopInv, PoolMatchesFlag

LEMMA JoinedInv ==
  ASSUME LoopInv, NEW c \in LoopThreads, Joined(c)
  PROVE  LoopInv'
<1>0. /\ LoopTypeOK /\ OneCall /\ CallerPlaced /\ CallStages
      /\ InRunIsOn /\ OncePerTask
  BY DEF LoopInv
<1>1. /\ threads = {}
      /\ UNCHANGED <<running, stopped, threads, left, run, queued, crashed, calls,
                     posts>>
  BY DEF Joined
<1>2. /\ call[c] = "join" /\ call'[c] = "clear"
      /\ call' \in [LoopThreads -> Calls]
      /\ \A d \in LoopThreads \ {c} : call'[d] = call[d]
  BY <1>0, StepFacts DEF Joined, Calls
<1>3. OneCall' /\ \A d \in LoopThreads \ {c} : call'[d] = "idle"
  BY <1>2, CallerStep
<1>4. running /\ stopped /\ Ended
  BY <1>0, <1>1, <1>2 DEF CallStages, Ended
<1>5. LoopTypeOK'
  BY <1>0, <1>1, <1>2 DEF LoopTypeOK
<1>6. CallerPlaced'
  BY <1>0, <1>1, <1>2, <1>3 DEF CallerPlaced
<1>7. CallStages'
  BY <1>1, <1>2, <1>3, <1>4 DEF CallStages, Ended
<1>8. InRunIsOn' /\ OncePerTask' /\ ~AllIdle'
  BY <1>0, <1>1, <1>2 DEF InRunIsOn, OncePerTask, AllIdle
<1> QED
  BY <1>3, <1>5, <1>6, <1>7, <1>8 DEF LoopInv, PoolMatchesFlag

LEMMA ClearInv ==
  ASSUME LoopInv, NEW c \in LoopThreads, Clear(c)
  PROVE  LoopInv'
<1>0. /\ LoopTypeOK /\ OneCall /\ CallerPlaced /\ CallStages
      /\ InRunIsOn /\ OncePerTask
  BY DEF LoopInv
<1>1. /\ running' = FALSE
      /\ UNCHANGED <<stopped, threads, left, run, queued, crashed, calls, posts>>
  BY DEF Clear
<1>2. /\ call[c] = "clear" /\ call'[c] = "idle"
      /\ call' \in [LoopThreads -> Calls]
      /\ \A d \in LoopThreads \ {c} : call'[d] = call[d]
  BY <1>0, StepFacts DEF Clear, Calls
<1>3. OneCall' /\ AllIdle'
  BY <1>2, CallerStep DEF AllIdle
<1>4. stopped /\ Ended
  BY <1>0, <1>2 DEF CallStages
<1>5. LoopTypeOK'
  BY <1>0, <1>1, <1>2 DEF LoopTypeOK
<1>6. CallerPlaced' /\ CallStages'
  BY <1>3 DEF AllIdle, CallerPlaced, CallStages
<1>7. PoolMatchesFlag' /\ InRunIsOn' /\ OncePerTask'
  BY <1>0, <1>1, <1>4 DEF PoolMatchesFlag, InRunIsOn, OncePerTask, Ended
<1> QED
  BY <1>3, <1>5, <1>6, <1>7 DEF LoopInv

-----------------------------------------------------------------------------
(* The io_context.                                                         *)

LEMMA PostInv ==
  ASSUME LoopInv, NEW task \in Tasks, Post(task)
  PROVE  LoopInv'
<1>0. LoopTypeOK /\ OncePerTask
  BY DEF LoopInv
<1>1. /\ \A t \in LoopThreads : run[t] # task
      /\ queued' = queued \cup {task} /\ posts' = posts + 1
      /\ UNCHANGED <<running, stopped, threads, left, call, run, crashed, calls>>
  BY DEF Post
<1>2. LoopTypeOK'
  BY <1>0, <1>1 DEF LoopTypeOK
<1>3. OncePerTask'
  BY <1>0, <1>1 DEF OncePerTask
<1> QED
  BY <1>1, <1>2, <1>3
  DEF LoopInv, OneCall, CallerPlaced, CallStages, Ended, Mirrored,
      PoolMatchesFlag, AllIdle, InRunIsOn

(* A thread of the loop, or the caller of a SyncLoop, goes from one place  *)
(* to another without leaving run().                                       *)
LEMMA RunStep ==
  ASSUME LoopInv, NEW t \in LoopThreads,
         NEW place \in {"run"} \cup Tasks,
         call[t] = "idle", run[t] # "outside",
         run' = [run EXCEPT ![t] = place],
         UNCHANGED <<running, stopped, threads, left, call>>
  PROVE  /\ run' \in [LoopThreads -> {"outside", "run"} \cup Tasks]
         /\ OneCall' /\ CallerPlaced' /\ CallStages' /\ PoolMatchesFlag'
         /\ InRunIsOn'
<1>0. LoopTypeOK
  BY DEF LoopInv
<1>1. /\ run' \in [LoopThreads -> {"outside", "run"} \cup Tasks]
      /\ \A u \in LoopThreads \ {t} : run'[u] = run[u]
      /\ run'[t] = place
  BY <1>0 DEF LoopTypeOK
<1>2. \A u \in LoopThreads : run'[u] = "outside" <=> run[u] = "outside"
  BY <1>1, TaskNames
<1>3. OneCall' /\ CallerPlaced'
  BY <1>1 DEF LoopInv, OneCall, CallerPlaced
<1>4. CallStages' /\ PoolMatchesFlag' /\ InRunIsOn'
  BY <1>2 DEF LoopInv, CallStages, PoolMatchesFlag, AllIdle, Ended, Mirrored,
              InRunIsOn, LoopThreads
<1> QED
  BY <1>1, <1>3, <1>4

LEMMA TakeInv ==
  ASSUME LoopInv, NEW t \in LoopThreads, NEW task \in Tasks, Take(t, task)
  PROVE  LoopInv'
<1>0. LoopTypeOK /\ OncePerTask /\ CallerPlaced
  BY DEF LoopInv
<1>1. /\ run[t] = "run" /\ task \in queued
      /\ run' = [run EXCEPT ![t] = task] /\ queued' = queued \ {task}
      /\ UNCHANGED <<running, stopped, threads, left, call, crashed, calls, posts>>
  BY DEF Take
<1>2. call[t] = "idle"
  BY <1>0, <1>1, TaskNames DEF CallerPlaced
<1>3. /\ run' \in [LoopThreads -> {"outside", "run"} \cup Tasks]
      /\ OneCall' /\ CallerPlaced' /\ CallStages' /\ PoolMatchesFlag' /\ InRunIsOn'
  BY <1>1, <1>2, RunStep
<1>4. LoopTypeOK'
  BY <1>0, <1>1, <1>3 DEF LoopTypeOK
<1>5. /\ run'[t] = task
      /\ \A u \in LoopThreads \ {t} : run'[u] = run[u] /\ run[u] # task
  BY <1>0, <1>1 DEF LoopTypeOK, OncePerTask
<1>6. OncePerTask'
  BY <1>0, <1>1, <1>5, TaskNames DEF OncePerTask
<1> QED
  BY <1>3, <1>4, <1>6 DEF LoopInv

LEMMA FinishInv ==
  ASSUME LoopInv, NEW t \in LoopThreads, Finish(t)
  PROVE  LoopInv'
<1>0. LoopTypeOK /\ OncePerTask
  BY DEF LoopInv
<1>1. /\ run[t] \in Tasks /\ call[t] = "idle"
      /\ run' = [run EXCEPT ![t] = "run"]
      /\ UNCHANGED <<running, stopped, threads, left, call, queued, crashed, calls,
                     posts>>
  BY DEF Finish
<1>3. /\ run' \in [LoopThreads -> {"outside", "run"} \cup Tasks]
      /\ OneCall' /\ CallerPlaced' /\ CallStages' /\ PoolMatchesFlag' /\ InRunIsOn'
  BY <1>1, RunStep, TaskNames
<1>4. LoopTypeOK'
  BY <1>0, <1>1, <1>3 DEF LoopTypeOK
<1>5. run'[t] = "run" /\ \A u \in LoopThreads \ {t} : run'[u] = run[u]
  BY <1>0, <1>1 DEF LoopTypeOK
<1>6. OncePerTask'
  BY <1>0, <1>1, <1>5, TaskNames DEF OncePerTask, LoopTypeOK
<1> QED
  BY <1>3, <1>4, <1>6 DEF LoopInv

(* A thread that leaves run() is one of the loop's that Exit is about to   *)
(* join, or the caller of a SyncLoop.                                      *)
LEMMA LeaveInv ==
  ASSUME LoopInv, NEW t \in LoopThreads, Leave(t)
  PROVE  LoopInv'
<1>0. /\ LoopTypeOK /\ OneCall /\ CallerPlaced /\ CallStages
      /\ PoolMatchesFlag /\ InRunIsOn /\ OncePerTask
  BY DEF LoopInv
<1>1. /\ run[t] = "run" /\ stopped
      /\ run' = [run EXCEPT ![t] = "outside"]
      /\ UNCHANGED <<running, stopped, threads, left, call, queued, crashed, calls,
                     posts>>
  BY DEF Leave
<1>2. /\ run'[t] = "outside"
      /\ \A u \in LoopThreads \ {t} : run'[u] = run[u]
  BY <1>0, <1>1 DEF LoopTypeOK
<1>3. LoopTypeOK' /\ OneCall'
  BY <1>0, <1>1 DEF LoopTypeOK, OneCall
<1>4. CallerPlaced'
  BY <1>0, <1>1, <1>2, TaskNames DEF CallerPlaced
<1>5. CallStages' /\ PoolMatchesFlag'
  BY <1>0, <1>1, <1>2
  DEF CallStages, PoolMatchesFlag, AllIdle, Ended, Mirrored, LoopThreads
<1>6. InRunIsOn' /\ OncePerTask'
  BY <1>0, <1>1, <1>2, TaskNames DEF InRunIsOn, OncePerTask, LoopTypeOK
<1> QED
  BY <1>3, <1>4, <1>5, <1>6 DEF LoopInv

-----------------------------------------------------------------------------
LEMMA LoopStutterInv == LoopInv /\ UNCHANGED loopVars => LoopInv'
  BY DEF loopVars, LoopInv, LoopTypeOK, OneCall, CallerPlaced, CallStages,
         Ended, Mirrored, PoolMatchesFlag, AllIdle, InRunIsOn, OncePerTask

LEMMA ContinueInv ==
  ASSUME LoopInv, NEW t \in LoopThreads, Continue(t)
  PROVE  LoopInv'
  BY StoreRunningInv, ResetInv, SpawnInv, SpawnedInv, StopInv, JoinInv,
     JoinedInv, ClearInv, TakeInv, FinishInv, LeaveInv DEF Continue

LEMMA LoopNextInv == LoopInv /\ [LoopNext]_loopVars => LoopInv'
<1> SUFFICES ASSUME LoopInv, [LoopNext]_loopVars
             PROVE  LoopInv'
  OBVIOUS
<1>1. ASSUME NEW c \in Owners, Loop(c) \/ SyncLoop(c) \/ Exit(c), Count
      PROVE  LoopInv'
  BY <1>1, CallInv
<1>2. ASSUME NEW t \in LoopThreads, Continue(t)
      PROVE  LoopInv'
  BY <1>2, ContinueInv
<1>3. ASSUME NEW task \in Tasks, Post(task)
      PROVE  LoopInv'
  BY <1>3, PostInv
<1>4. CASE UNCHANGED loopVars
  BY <1>4, LoopStutterInv
<1> QED
  BY <1>1, <1>2, <1>3, <1>4 DEF LoopNext

(* LoopInv holds in every reachable state, whatever the numbers of threads *)
(* and handlers, and however Loop, SyncLoop and Exit follow each other.    *)
THEOREM LoopInvariance == LoopSpec => []LoopInv
  BY LoopInitInv, LoopNextInv, PTL DEF LoopSpec

(* The variables of the loop keep their types.                             *)
THEOREM LoopTypeCorrect == LoopSpec => []LoopTypeOK
<1>1. LoopInv => LoopTypeOK
  BY DEF LoopInv
<1> QED
  BY <1>1, LoopInvariance, PTL

(* Between calls running_ tells whether the threads of the loop run; when  *)
(* it is clear all of them have ended.                                     *)
THEOREM FlagTruthful == LoopSpec => []PoolMatchesFlag
<1>1. LoopInv => PoolMatchesFlag
  BY DEF LoopInv
<1> QED
  BY <1>1, LoopInvariance, PTL

-----------------------------------------------------------------------------
(* The loop implements the Executor.                                       *)

(* A step that takes no handler up and ends none is one of a call.         *)
LEMMA ActiveSame ==
  ASSUME \A t \in LoopThreads :
           \/ run'[t] = run[t]
           \/ run[t] \notin Tasks /\ run'[t] \notin Tasks
  PROVE  Active' = Active
  BY DEF Active

LEMMA TakeBegins ==
  ASSUME LoopInv, NEW t \in LoopThreads, NEW task \in Tasks, Take(t, task)
  PROVE  Promise!Begin(task)
<1>1. /\ run[t] = "run" /\ ~stopped /\ task \in queued
      /\ run' = [run EXCEPT ![t] = task] /\ queued' = queued \ {task}
      /\ running' = running
  BY DEF Take
<1>2. running
  BY <1>1 DEF LoopInv, InRunIsOn
<1>3. /\ run'[t] = task
      /\ \A u \in LoopThreads \ {t} : run'[u] = run[u]
  BY <1>1 DEF LoopInv, LoopTypeOK
<1>4. Active' = Active \cup {task}
  BY <1>1, <1>3, TaskNames DEF Active
<1> QED
  BY <1>1, <1>2, <1>4 DEF Promise!Begin

LEMMA FinishEnds ==
  ASSUME LoopInv, NEW t \in LoopThreads, Finish(t)
  PROVE  \E task \in Tasks : Promise!End(task)
<1>1. /\ run[t] \in Tasks /\ run' = [run EXCEPT ![t] = "run"]
      /\ UNCHANGED <<running, queued>>
  BY DEF Finish
<1>2. /\ run'[t] = "run"
      /\ \A u \in LoopThreads \ {t} : run'[u] = run[u] /\ run[u] # run[t]
  BY <1>1 DEF LoopInv, LoopTypeOK, OncePerTask
<1>3. run[t] \in Active /\ Active' = Active \ {run[t]}
  BY <1>1, <1>2, TaskNames DEF Active
<1> QED
  BY <1>1, <1>3 DEF Promise!End

LEMMA ContinueExecutor ==
  ASSUME LoopInv, NEW t \in LoopThreads, Continue(t)
  PROVE  Promise!ExecutorNext \/ UNCHANGED <<running, queued, Active>>
<1>0. LoopTypeOK /\ CallStages /\ CallerPlaced
  BY DEF LoopInv
<1>1. CASE StoreRunning(t)
  <2>1. ~running
    BY <1>0, <1>1 DEF StoreRunning, Step, CallStages
  <2>2. running' = TRUE /\ UNCHANGED <<queued, run>>
    BY <1>1 DEF StoreRunning
  <2> QED
    BY <2>1, <2>2 DEF Promise!ExecutorNext, Promise!Switch, Active
<1>2. CASE Clear(t)
  <2>1. running
    BY <1>0, <1>2 DEF Clear, Step, CallStages
  <2>2. running' = FALSE /\ UNCHANGED <<queued, run>>
    BY <1>2 DEF Clear
  <2> QED
    BY <2>1, <2>2 DEF Promise!ExecutorNext, Promise!Switch, Active
<1>3. ASSUME NEW w \in Workers, Spawn(t, w)
      PROVE  UNCHANGED <<running, queued, Active>>
  <2>1. /\ call[t] \in {"spawn", "spawnS"} /\ w \in left
        /\ run' = [run EXCEPT ![w] = "run"] /\ UNCHANGED <<running, queued>>
    BY <1>3 DEF Spawn
  <2>2. run[w] = "outside"
    BY <1>0, <2>1 DEF CallStages, Mirrored
  <2>3. \A u \in LoopThreads \ {w} : run'[u] = run[u]
    BY <1>0, <2>1 DEF LoopTypeOK
  <2>4. run'[w] = "run"
    BY <1>0, <2>1 DEF LoopTypeOK, LoopThreads
  <2> QED
    BY <2>1, <2>2, <2>3, <2>4, TaskNames, ActiveSame
<1>4. CASE Spawned(t)
  <2>1. /\ UNCHANGED <<running, queued>>
        /\ \/ run' = run
           \/ run[t] = "outside" /\ run' = [run EXCEPT ![t] = "run"]
    BY <1>0, <1>4 DEF Spawned, Step, CallerPlaced
  <2>2. \A u \in LoopThreads :
          run'[u] = run[u] \/ (run[u] = "outside" /\ run'[u] = "run")
    BY <1>0, <2>1 DEF LoopTypeOK
  <2> QED
    BY <2>1, <2>2, TaskNames, ActiveSame
<1>5. CASE Leave(t)
  <2>1. /\ UNCHANGED <<running, queued>>
        /\ run[t] = "run" /\ run' = [run EXCEPT ![t] = "outside"]
    BY <1>5 DEF Leave
  <2>2. \A u \in LoopThreads :
          run'[u] = run[u] \/ (run[u] = "run" /\ run'[u] = "outside")
    BY <1>0, <2>1 DEF LoopTypeOK
  <2> QED
    BY <2>1, <2>2, TaskNames, ActiveSame
<1>6. CASE Reset(t) \/ Stop(t) \/ Joined(t) \/ \E w \in Workers : Join(t, w)
  BY <1>6 DEF Reset, Stop, Joined, Join, Active
<1> QED
  BY <1>1, <1>2, <1>3, <1>4, <1>5, <1>6, TakeBegins, FinishEnds
  DEF Continue, Promise!ExecutorNext

LEMMA NextExecutor ==
  LoopInv /\ [LoopNext]_loopVars
    => [Promise!ExecutorNext]_(Promise!executorVars)
<1> SUFFICES ASSUME LoopInv, [LoopNext]_loopVars
             PROVE  Promise!ExecutorNext \/ UNCHANGED <<running, queued, Active>>
  BY DEF Promise!executorVars
<1>1. ASSUME NEW c \in Owners, Loop(c) \/ SyncLoop(c) \/ Exit(c)
      PROVE  UNCHANGED <<running, queued, Active>>
  BY <1>1 DEF Loop, SyncLoop, Exit, Active
<1>2. ASSUME NEW t \in LoopThreads, Continue(t)
      PROVE  Promise!ExecutorNext \/ UNCHANGED <<running, queued, Active>>
  BY <1>2, ContinueExecutor
<1>3. ASSUME NEW task \in Tasks, Post(task)
      PROVE  Promise!Submit(task)
  BY <1>3 DEF Post, Promise!Submit, Active
<1>4. CASE UNCHANGED loopVars
  BY <1>4 DEF loopVars, Active
<1> QED
  BY <1>1, <1>2, <1>3, <1>4 DEF LoopNext, Promise!ExecutorNext

(* Through every sequence of Loop, SyncLoop and Exit, and with a SyncLoop  *)
(* caller on its way out of run() or not, a handler runs once for each     *)
(* time it is posted, begins only while the loop is on, and is not lost    *)
(* when the loop is turned off.                                            *)
THEOREM ImplementsExecutor == LoopSpec => IsExecutor
<1>1. LoopInit => Promise!ExecutorInit
  BY TaskNames DEF LoopInit, Promise!ExecutorInit, Active
<1>2. LoopInv /\ [LoopNext]_loopVars
        => [Promise!ExecutorNext]_(Promise!executorVars)
  BY NextExecutor
<1> QED
  BY <1>1, <1>2, LoopInvariance, PTL
  DEF LoopSpec, IsExecutor, Promise!ExecutorSpec

=============================================================================
