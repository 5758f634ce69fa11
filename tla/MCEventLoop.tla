---------------------------- MODULE MCEventLoop ----------------------------
(* Small instances of EventLoop.                                           *)
EXTENDS EventLoop

CONSTANTS w1, w2, o1, o2, t1, t2

MCWorkers == {w1, w2}

(* A handler on a thread of the loop calls it, too.                        *)
MCOwners == {o1, o2, w1}

MCTasks == {t1, t2}

=============================================================================
