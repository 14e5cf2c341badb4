------------------------- MODULE MCAsyncTaskManager -------------------------
(* TLC instances of AsyncTaskManager.                                      *)
EXTENDS AsyncTaskManager

CONSTANTS c1, j3

Calls == {"exec", "cancel", "cancelUser", "synchronize"}

\* Threads use everything and destroy the manager; or the callbacks call back,
\* and then no thread waits for a callback (a cancel would deadlock); or there
\* are more tasks than ids.
Disciplined ==
  {[threads |-> Clients, client |-> Calls, callback |-> {}, jobs |-> Jobs \ {j3},
    periods |-> Periods, destroys |-> TRUE],
   [threads |-> Clients, client |-> {"exec", "synchronize"}, callback |-> Calls \ {"synchronize"},
    jobs |-> Jobs \ {j3}, periods |-> Periods, destroys |-> FALSE],
   [threads |-> {c1}, client |-> {"exec", "cancel"}, callback |-> {}, jobs |-> Jobs,
    periods |-> {0}, destroys |-> FALSE]}

\* A callback schedules tasks while a thread cancels and synchronizes.
Reentrant == {[threads |-> Clients, client |-> Calls, callback |-> {"exec"}, jobs |-> Jobs \ {j3},
               periods |-> Periods, destroys |-> FALSE]}
=============================================================================
