----------------------------- MODULE MCTaskQueue -----------------------------
(* TaskQueue on a few tasks.                                                  *)
EXTENDS TaskQueue, TLC

CONSTANTS t1, t2, t3, c1

OneTask    == {t1}
TwoTasks   == {t1, t2}
ThreeTasks == {t1, t2, t3}
OneCall    == {c1}

\* The tasks are interchangeable when all or none of them are registered.
TaskSymmetry == Permutations(Tasks)
=============================================================================
