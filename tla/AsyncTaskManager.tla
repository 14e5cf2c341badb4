-------------------------- MODULE AsyncTaskManager --------------------------
(***************************************************************************)
(* AsyncManager::AsyncTaskManager: delayed and periodic tasks, run by one  *)
(* thread of its own (the Worker), scheduled and cancelled by any thread.  *)
(*                                                                         *)
(* A step is a stretch of code that holds internal_mutex_ from its first   *)
(* to its last access of the shared state, or one blocking operation.      *)
(* internal_mutex_ is held from one step to the next only by a client that *)
(* waits in cancel_task_with_lock_held for a running callback to end; a    *)
(* task's in_callback only by the Worker, from just before it takes        *)
(* synchronization_mutex_ until the callback has returned.  The three      *)
(* mutexes are therefore read off the program counters.                    *)
(*                                                                         *)
(* A callback may itself call the manager: those calls run on the Worker.  *)
(* A call that returns without changing anything (a cancel of an unknown   *)
(* id, a schedule when every id is in use) is a stuttering step.           *)
(***************************************************************************)
EXTENDS Naturals

CONSTANTS
  Clients,          \* threads that call the manager, other than its own
  Worker,           \* thread_, the task thread
  None,
  Users,            \* AsyncUserId
  Jobs,             \* Task objects: bounds the number of ExecAsync calls
  kMaxTaskId,       \* the last AsyncTaskId; 0 is kInvalidTaskId
  Delays, Periods,  \* delays and periods in use; period 0: not periodic
  MaxTime,          \* bound: the clock stops here
  Usages            \* the ways a program may use the manager (see usage)

Agents == Clients \cup {Worker}
Ids == 1 .. kMaxTaskId
Task == [task_id : Ids, user_id : Users, time : Nat, period : Nat]
Op == {"none", "start", "notify", "cancel", "critical"}
Call == [op : Op, todo : SUBSET Ids, user : Users \cup {None}, target : SUBSET Jobs]
NoCall == [op |-> "none", todo |-> {}, user |-> None, target |-> {}]

ASSUME IdAssumption == kMaxTaskId \in Nat \ {0}
ASSUME TimeAssumption == Delays \subseteq Nat /\ Periods \subseteq Nat /\ MaxTime \in Nat
ASSUME NamesAssumption == None \notin Jobs \cup Users \cup Task /\ Worker \notin Clients

VARIABLES
  now,                \* steady_clock::now()
  lastTaskId_,
  task,               \* the Task objects created so far
  tasks_by_id_,
  tasks_by_user_id_,  \* an absent user has the empty set
  task_queue_,        \* ordered by (time, task_id)
  running_,
  thread_,            \* whether thread_ is joinable
  pc,                 \* where the Worker is in ThreadRoutine
  task_p,             \* the task the Worker runs
  deadline,           \* of its wait on internal_cond_var_, None for wait()
  call,               \* the member function each thread is in
  phase,              \* "alive", "joining", "destroyed" or "aborted"
  cancelled,          \* history: tasks a completed call has cancelled
  usage               \* how this program uses the manager, fixed from the start: its
                      \* threads, the member functions they and the callbacks call,
                      \* the tasks they schedule, with which periods, and whether it
                      \* destroys the manager

tables == <<tasks_by_id_, tasks_by_user_id_, task_queue_>>
thread == <<running_, thread_, pc, task_p, deadline>>
vars == <<now, lastTaskId_, task, tables, thread, call, phase, cancelled, usage>>

Init ==
  /\ now = 0
  /\ lastTaskId_ = 0
  /\ task = [j \in Jobs |-> None]
  /\ tasks_by_id_ = [i \in Ids |-> None]
  /\ tasks_by_user_id_ = [u \in Users |-> {}]
  /\ task_queue_ = {}
  /\ running_ = FALSE
  /\ thread_ = FALSE
  /\ pc = "off"
  /\ task_p = None
  /\ deadline = None
  /\ call = [a \in Agents |-> NoCall]
  /\ phase = "alive"
  /\ cancelled = {}
  /\ usage \in Usages

-----------------------------------------------------------------------------
(* The three mutexes, and who may call what.                               *)

InternalFree == \A c \in Clients : call[c].op # "cancel"

\* Task::in_callback of j is held by the Worker.
InCallback(j) == pc \in {"sync", "callback"} /\ task_p = j

SynchronizationFree == pc # "callback" /\ \A c \in Clients : call[c].op # "critical"

\* Thread a may enter member function f.  The destructor is the last call of
\* the clients; callbacks may still call while it waits for the Worker.
MayCall(a, f) ==
  /\ call[a].op = "none"
  /\ IF a = Worker THEN pc = "callback" /\ f \in usage.callback
                   ELSE phase = "alive" /\ a \in usage.threads /\ f \in usage.client
  /\ phase \in {"alive", "joining"}

-----------------------------------------------------------------------------
(* Scheduling.                                                             *)

InUse == {i \in Ids : tasks_by_id_[i] # None}

\* NextAsyncTaskId applied n times.
NextAsyncTaskId(id, n) == ((id + n - 1) % kMaxTaskId) + 1

\* The do-while loop of scheduleTask ends, after n rounds, at an id not in use.
EndsAfter(n) ==
  /\ NextAsyncTaskId(lastTaskId_, n) \notin InUse
  /\ \A m \in 1 .. n - 1 : NextAsyncTaskId(lastTaskId_, m) \in InUse

\* ExecAsync (period 0) and ExecAsyncPeriodically, up to the end of the first
\* critical section of scheduleTask.
ScheduleTask(a, user, delay, period) ==
  /\ MayCall(a, "exec")
  /\ InternalFree
  /\ \E j \in Jobs, n \in Ids :
     LET id == NextAsyncTaskId(lastTaskId_, n) IN
       /\ task[j] = None /\ j \in usage.jobs /\ period \in usage.periods
       /\ EndsAfter(n)
       /\ lastTaskId_' = id
       /\ task' = [task EXCEPT ![j] =
                     [task_id |-> id, user_id |-> user, time |-> now + delay, period |-> period]]
       /\ tasks_by_id_' = [tasks_by_id_ EXCEPT ![id] = j]
       /\ tasks_by_user_id_' = [tasks_by_user_id_ EXCEPT ![user] = @ \cup {id}]
       /\ task_queue_' = task_queue_ \cup {j}
  /\ call' = [call EXCEPT ![a].op = "start"]
  /\ UNCHANGED <<now, thread, phase, cancelled>>

\* Assigning to thread_ while it is joinable terminates the process.
TryStartThread(a) ==
  /\ call[a].op = "start"
  /\ InternalFree
  /\ call' = [call EXCEPT ![a].op = "notify"]
  /\ running_' = TRUE
  /\ IF running_ THEN UNCHANGED <<thread_, pc, phase>>
     ELSE IF thread_ THEN phase' = "aborted" /\ UNCHANGED <<thread_, pc>>
     ELSE thread_' = TRUE /\ pc' = "top" /\ UNCHANGED phase
  /\ UNCHANGED <<now, lastTaskId_, task, tables, task_p, deadline, cancelled>>

\* What internal_cond_var_.notify_one() makes of the Worker's position.
Notified == IF pc = "waiting" THEN "woken" ELSE pc

NotifyThread_Lost(a) ==
  /\ call[a].op = "notify"
  /\ call' = [call EXCEPT ![a] = NoCall]
  /\ UNCHANGED <<now, lastTaskId_, task, tables, thread, phase, cancelled>>

NotifyThread(a) ==
  /\ call[a].op = "notify"
  /\ call' = [call EXCEPT ![a] = NoCall]
  /\ pc' = Notified
  /\ UNCHANGED <<now, lastTaskId_, task, tables, running_, thread_, task_p, deadline, phase,
                 cancelled>>

-----------------------------------------------------------------------------
(* Cancelling, under internal_mutex_.                                      *)

\* The erasures of cancel_task_with_lock_held, for ids in use.
EraseTasks(ids) ==
  /\ tasks_by_id_' = [i \in Ids |-> IF i \in ids THEN None ELSE tasks_by_id_[i]]
  /\ task_queue_' = task_queue_ \ {tasks_by_id_[i] : i \in ids}

\* CancelAsyncTasksFromUser forgets the user's ids, CancelAsyncTask does not.
ForgetUser(user) ==
  tasks_by_user_id_' =
    IF user = None THEN tasks_by_user_id_ ELSE [tasks_by_user_id_ EXCEPT ![user] = {}]

\* The Worker cancels without waiting, and so does a client that has no task
\* to cancel; other clients go on in CancelNext, holding internal_mutex_.
CancelTasks(a, ids, user, target) ==
  /\ InternalFree
  /\ IF a = Worker \/ ids = {}
     THEN /\ EraseTasks(ids)
          /\ ForgetUser(user)
          /\ cancelled' = cancelled \cup target
          /\ UNCHANGED call
     ELSE /\ call' = [call EXCEPT ![a] =
                        [op |-> "cancel", todo |-> ids, user |-> user, target |-> target]]
          /\ UNCHANGED <<tables, cancelled>>
  /\ UNCHANGED <<now, lastTaskId_, task, thread, phase>>

CancelAsyncTask_NotRunning(a, j) ==
  /\ MayCall(a, "cancel")
  /\ task[j] # None
  /\ CancelTasks(a, IF InCallback(j) THEN {} ELSE {task[j].task_id} \cap InUse, None, {j})

CancelAsyncTask(a, j) ==
  /\ MayCall(a, "cancel")
  /\ task[j] # None
  /\ CancelTasks(a, {task[j].task_id} \cap InUse, None, {j})

CancelAsyncTasksFromUser(a, user) ==
  /\ MayCall(a, "cancelUser")
  /\ CancelTasks(a, tasks_by_user_id_[user] \cap InUse, user,
                 {j \in Jobs : task[j] # None /\ task[j].user_id = user})

\* lock_guard on the in_callback of the next task, then its erasure.
CancelNext(c) ==
  /\ call[c].op = "cancel"
  /\ \E id \in call[c].todo :
       /\ \A other \in call[c].todo : id <= other
       /\ ~InCallback(tasks_by_id_[id])
       /\ EraseTasks({id})
       /\ call' = [call EXCEPT ![c].todo = @ \ {id}]
  /\ UNCHANGED <<now, lastTaskId_, task, tasks_by_user_id_, thread, phase, cancelled>>

CancelReturns(c) ==
  /\ call[c].op = "cancel"
  /\ call[c].todo = {}
  /\ ForgetUser(call[c].user)
  /\ cancelled' = cancelled \cup call[c].target
  /\ call' = [call EXCEPT ![c] = NoCall]
  /\ UNCHANGED <<now, lastTaskId_, task, tasks_by_id_, task_queue_, thread, phase>>

-----------------------------------------------------------------------------
(* Synchronize, called by a client with a callback that calls nothing.     *)

SynchronizeEnter(c) ==
  /\ MayCall(c, "synchronize")
  /\ SynchronizationFree
  /\ call' = [call EXCEPT ![c].op = "critical"]
  /\ UNCHANGED <<now, lastTaskId_, task, tables, thread, phase, cancelled>>

SynchronizeLeave(c) ==
  /\ call[c].op = "critical"
  /\ call' = [call EXCEPT ![c] = NoCall]
  /\ UNCHANGED <<now, lastTaskId_, task, tables, thread, phase, cancelled>>

-----------------------------------------------------------------------------
(* ThreadRoutine.                                                          *)

Earlier(j, k) ==
  \/ task[j].time < task[k].time
  \/ task[j].time = task[k].time /\ task[j].task_id < task[k].task_id

\* j is *task_queue_.begin().
IsFirst(j) == j \in task_queue_ /\ \A k \in task_queue_ : ~Earlier(k, j)

LoopTop ==
  /\ pc = "top"
  /\ pc' = IF running_ THEN "peek" ELSE "off"
  /\ UNCHANGED <<now, lastTaskId_, task, tables, running_, thread_, task_p, deadline, call,
                 phase, cancelled>>

TakeTask_IdKept(j) ==
  /\ pc = "peek"
  /\ InternalFree
  /\ IsFirst(j)
  /\ task[j].time < now
  /\ pc' = "taken"
  /\ task_p' = j
  /\ IF task[j].period # 0
     THEN /\ task' = [task EXCEPT ![j].time = @ + task[j].period]
          /\ UNCHANGED tables
     ELSE /\ task_queue_' = task_queue_ \ {j}
          /\ UNCHANGED <<task, tasks_by_user_id_, tasks_by_id_>>
  /\ UNCHANGED <<now, lastTaskId_, running_, thread_, deadline, call, phase, cancelled>>

\* A due periodic task is put back in the queue, a due one-shot task forgotten,
\* before its callback runs.
TakeTask(j) ==
  /\ pc = "peek"
  /\ InternalFree
  /\ IsFirst(j)
  /\ task[j].time < now
  /\ pc' = "taken"
  /\ task_p' = j
  /\ IF task[j].period # 0
     THEN /\ task' = [task EXCEPT ![j].time = @ + task[j].period]
          /\ UNCHANGED tables
     ELSE /\ task_queue_' = task_queue_ \ {j}
          /\ tasks_by_user_id_' =
               [tasks_by_user_id_ EXCEPT ![task[j].user_id] = @ \ {task[j].task_id}]
          /\ tasks_by_id_' = [tasks_by_id_ EXCEPT ![task[j].task_id] = None]
          /\ UNCHANGED task
  /\ UNCHANGED <<now, lastTaskId_, running_, thread_, deadline, call, phase, cancelled>>

NothingDue ==
  /\ pc = "peek"
  /\ InternalFree
  /\ \A j \in task_queue_ : IsFirst(j) => task[j].time >= now
  /\ pc' = "check"
  /\ UNCHANGED <<now, lastTaskId_, task, tables, running_, thread_, task_p, deadline, call,
                 phase, cancelled>>

LockInCallback ==
  /\ pc = "taken"
  /\ pc' = "sync"
  /\ UNCHANGED <<now, lastTaskId_, task, tables, running_, thread_, task_p, deadline, call,
                 phase, cancelled>>

InvokeCallback ==
  /\ pc = "sync"
  /\ SynchronizationFree
  /\ pc' = "callback"
  /\ UNCHANGED <<now, lastTaskId_, task, tables, running_, thread_, task_p, deadline, call,
                 phase, cancelled>>

CallbackReturns ==
  /\ pc = "callback"
  /\ call[Worker].op = "none"
  /\ pc' = "check"
  /\ task_p' = None
  /\ UNCHANGED <<now, lastTaskId_, task, tables, running_, thread_, deadline, call, phase,
                 cancelled>>

\* Termination is checked, and the deadline read, in the critical section that
\* starts to wait.
Wait ==
  /\ pc = "check"
  /\ InternalFree
  /\ \/ ~running_ /\ pc' = "off" /\ UNCHANGED deadline
     \/ running_ /\ pc' = "waiting" /\ task_queue_ = {} /\ deadline' = None
     \/ running_ /\ pc' = "waiting" /\ \E j \in Jobs : IsFirst(j) /\ deadline' = task[j].time
  /\ UNCHANGED <<now, lastTaskId_, task, tables, running_, thread_, task_p, call, phase, cancelled>>

WaitTimesOut ==
  /\ pc = "waiting"
  /\ deadline # None
  /\ now >= deadline
  /\ pc' = "woken"
  /\ UNCHANGED <<now, lastTaskId_, task, tables, running_, thread_, task_p, deadline, call,
                 phase, cancelled>>

\* The wait returns when it has internal_mutex_ again.
WaitReturns ==
  /\ pc = "woken"
  /\ InternalFree
  /\ pc' = "top"
  /\ deadline' = None
  /\ UNCHANGED <<now, lastTaskId_, task, tables, running_, thread_, task_p, call, phase, cancelled>>

ThreadRoutine ==
  \/ LoopTop \/ (\E j \in Jobs : TakeTask(j)) \/ NothingDue
  \/ LockInCallback \/ InvokeCallback \/ CallbackReturns
  \/ Wait \/ WaitTimesOut \/ WaitReturns

-----------------------------------------------------------------------------
(* The destructor, and time.                                               *)

StopThread_NotNotified ==
  /\ usage.destroys
  /\ phase = "alive"
  /\ \A c \in Clients : call[c].op = "none"
  /\ tasks_by_id_' = [i \in Ids |-> None]
  /\ task_queue_' = {}
  /\ running_' = FALSE
  /\ phase' = IF running_ THEN "joining" ELSE "destroyed"
  /\ UNCHANGED <<now, lastTaskId_, task, tasks_by_user_id_, thread_, pc, task_p, deadline, call,
                 cancelled>>

\* stopThread up to the join.  No client is in a call: the class documents the
\* destructor as unsafe to call concurrently with other member functions.
StopThread ==
  /\ usage.destroys
  /\ phase = "alive"
  /\ \A c \in Clients : call[c].op = "none"
  /\ tasks_by_id_' = [i \in Ids |-> None]
  /\ task_queue_' = {}
  /\ running_' = FALSE
  /\ phase' = IF running_ THEN "joining" ELSE "destroyed"
  /\ pc' = IF running_ THEN Notified ELSE pc
  /\ UNCHANGED <<now, lastTaskId_, task, tasks_by_user_id_, thread_, task_p, deadline, call,
                 cancelled>>

Join ==
  /\ phase = "joining"
  /\ pc = "off"
  /\ phase' = "destroyed"
  /\ thread_' = FALSE
  /\ UNCHANGED <<now, lastTaskId_, task, tables, running_, pc, task_p, deadline, call, cancelled>>

TimePasses ==
  /\ now < MaxTime
  /\ now' = now + 1
  /\ UNCHANGED <<lastTaskId_, task, tables, thread, call, phase, cancelled>>

Ended == phase \in {"destroyed", "aborted"}

\* The manager exists, and is used as before.
Running == ~Ended /\ UNCHANGED usage

MemberFunction(a) ==
  \/ \E u \in Users, d \in Delays, p \in Periods : ScheduleTask(a, u, d, p)
  \/ TryStartThread(a)
  \/ NotifyThread(a)
  \/ \E j \in Jobs : CancelAsyncTask(a, j)
  \/ \E u \in Users : CancelAsyncTasksFromUser(a, u)

ClientStep(c) == CancelNext(c) \/ CancelReturns(c) \/ SynchronizeEnter(c) \/ SynchronizeLeave(c)

Next ==
  \/ /\ Running
     /\ \/ \E a \in Agents : MemberFunction(a)
        \/ \E c \in Clients : ClientStep(c)
        \/ ThreadRoutine
        \/ StopThread
        \/ Join
        \/ TimePasses
  \/ Ended /\ UNCHANGED vars

Spec == Init /\ [][Next]_vars

(* The OS runs every thread that can run, callbacks return, the clock goes *)
(* on.  Strong fairness of the Worker: a client that synchronizes again    *)
(* and again does not keep it from its mutexes for ever.                   *)
Fairness ==
  /\ SF_vars(Running /\ ThreadRoutine)
  /\ \A a \in Agents : WF_vars(Running /\ (TryStartThread(a) \/ NotifyThread(a)))
  /\ \A c \in Clients : WF_vars(Running /\ (CancelNext(c) \/ CancelReturns(c) \/ SynchronizeLeave(c)))
  /\ WF_vars(Running /\ Join)
  /\ WF_vars(Running /\ TimePasses)

FairSpec == Spec /\ Fairness

-----------------------------------------------------------------------------
(* Properties.                                                             *)

\* Every field keeps its type; task ids stay in {1..kMaxTaskId}.
TypeOK ==
  /\ now \in Nat
  /\ lastTaskId_ \in Ids \cup {0}
  /\ task \in [Jobs -> Task \cup {None}]
  /\ tasks_by_id_ \in [Ids -> Jobs \cup {None}]
  /\ tasks_by_user_id_ \in [Users -> SUBSET Ids]
  /\ task_queue_ \in SUBSET Jobs
  /\ running_ \in BOOLEAN
  /\ thread_ \in BOOLEAN
  /\ pc \in {"off", "top", "peek", "taken", "sync", "callback", "check", "waiting", "woken"}
  /\ task_p \in Jobs \cup {None}
  /\ deadline \in Nat \cup {None}
  /\ call \in [Agents -> Call]
  /\ phase \in {"alive", "joining", "destroyed", "aborted"}
  /\ cancelled \in SUBSET Jobs

\* The three tables describe the same tasks whenever internal_mutex_ is free
\* for another thread: the queue holds exactly the tasks that have an id, each
\* under its own id, and the ids of a user cover all its scheduled tasks, so
\* that neither kind of cancel can miss one.
TablesMatch ==
  /\ task_queue_ = {tasks_by_id_[i] : i \in InUse}
  /\ \A i \in InUse :
       /\ task[tasks_by_id_[i]] # None
       /\ task[tasks_by_id_[i]].task_id = i
       /\ i \in tasks_by_user_id_[task[tasks_by_id_[i]].user_id]

\* Every field keeps its type and the three tables describe the same tasks (see
\* TablesMatch), whatever the order of ScheduleTask, CancelTask and the Worker.
TablesAgree == TypeOK /\ TablesMatch

\* Once a cancel has returned, ThreadRoutine never takes the task from the
\* queue again ("Cancels the/every future occurrence of the action").
CancelledNeverTaken ==
  [][\A j \in cancelled : ~(pc = "peek" /\ pc' = "taken" /\ task_p' = j)]_vars

\* Every scheduled task whose time comes is run, unless it is cancelled first:
\* the Worker misses no notification.
DueTasksRun ==
  \A j \in Jobs :
    (j \in task_queue_ /\ task[j].time < MaxTime) ~> (task_p = j \/ j \notin task_queue_ \/ Ended)

\* Calls return.  async_manager.h: a cancel "will block until the task is
\* completed", and no longer; and the destructor, which joins the task thread,
\* returns wherever the thread is when running_ is cleared (the argument of the
\* comment above kMaxTaskId).
CallsReturn ==
  /\ \A c \in Clients : (call[c].op = "cancel") ~> (call[c].op # "cancel")
  /\ (phase = "joining") ~> Ended
=============================================================================
