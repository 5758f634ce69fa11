------------------------------ MODULE Executor ------------------------------
(***************************************************************************)
(* What an EventLoop promises about the handlers posted to its io_context: *)
(* each time it is posted it runs once, begins only while the loop is on,  *)
(* and is not lost: posted while the loop is off, or left over when it is  *)
(* turned off, it stays pending.  In which order they run, and on which    *)
(* thread, is not said.                                                    *)
(***************************************************************************)
CONSTANT Tasks   \* the handlers

VARIABLES on,        \* between Loop and Exit
          pending,   \* handlers posted and not begun
          active     \* handlers that are running

executorVars == <<on, pending, active>>

ExecutorInit ==
  /\ on = FALSE
  /\ pending = {}
  /\ active = {}

Submit(task) ==
  /\ task \notin pending \cup active
  /\ pending' = pending \cup {task}
  /\ UNCHANGED <<on, active>>

Begin(task) ==
  /\ on
  /\ task \in pending
  /\ pending' = pending \ {task}
  /\ active' = active \cup {task}
  /\ UNCHANGED on

End(task) ==
  /\ task \in active
  /\ active' = active \ {task}
  /\ UNCHANGED <<on, pending>>

(* Turning it off does not wait for a handler on a thread it did not start *)
(* itself.                                                                 *)
Switch ==
  /\ on' = ~on
  /\ UNCHANGED <<pending, active>>

ExecutorNext ==
  \/ \E task \in Tasks : Submit(task) \/ Begin(task) \/ End(task)
  \/ Switch

ExecutorSpec == ExecutorInit /\ [][ExecutorNext]_executorVars

=============================================================================
