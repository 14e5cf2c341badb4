----------------------- MODULE AsyncTaskManager_proofs -----------------------
(***************************************************************************)
(* Proofs about AsyncTaskManager, for any threads, users, number of tasks  *)
(* and width of the task ids: the tables agree, and a cancelled task is    *)
(* never taken from the queue again.                                       *)
(***************************************************************************)
EXTENDS AsyncTaskManager, TLAPS

\* Client c is in a cancel, holding internal_mutex_: the ids on its list are in
\* use, and every queued task it promises to cancel, or whose user it is about
\* to forget, is still on the list.
CancelCovers(c) ==
  /\ call[c].todo \subseteq InUse
  /\ \A j \in call[c].target :
       task[j] # None /\ (j \in task_queue_ => task[j].task_id \in call[c].todo)
  /\ \A j \in task_queue_ :
       call[c].user # None /\ task[j].user_id = call[c].user => task[j].task_id \in call[c].todo

\* What CancelledNeverTaken rests on: cancelled tasks are out of the queue, and
\* at most one client is in a cancel.
CancelledIsGone ==
  /\ \A j \in cancelled : task[j] # None /\ j \notin task_queue_
  /\ \A c \in Clients : call[c].op = "cancel" => CancelCovers(c)
  /\ \A c, d \in Clients : call[c].op = "cancel" /\ call[d].op = "cancel" => c = d

IInv == TypeOK /\ TablesMatch /\ CancelledIsGone

-----------------------------------------------------------------------------
(* Lemmas.                                                                 *)

\* The id generator of scheduleTask stays in {1..kMaxTaskId}.
LEMMA NextIdType ==
  ASSUME NEW id \in Ids \cup {0}, NEW n \in Ids
  PROVE  NextAsyncTaskId(id, n) \in Ids
<1>1. kMaxTaskId \in Nat /\ kMaxTaskId > 0 /\ id + n - 1 \in Nat
  BY IdAssumption DEF Ids
<1>2. (id + n - 1) % kMaxTaskId \in 0 .. kMaxTaskId - 1
  BY <1>1
<1> QED
  BY <1>1, <1>2 DEF NextAsyncTaskId, Ids

\* The queue, as TablesMatch describes it.
LEMMA InQueue ==
  ASSUME IInv, NEW j
  PROVE  /\ j \in task_queue_ <=> \E i \in Ids : tasks_by_id_[i] = j /\ j # None
         /\ j \in task_queue_ => /\ j \in Jobs
                                 /\ task[j] \in Task
                                 /\ tasks_by_id_[task[j].task_id] = j
                                 /\ task[j].task_id \in InUse
                                 /\ task[j].task_id \in tasks_by_user_id_[task[j].user_id]
BY DEF IInv, TypeOK, TablesMatch, InUse

\* A step that leaves the tables, the tasks and the calls alone.
LEMMA ThreadStepSafe ==
  ASSUME IInv, UNCHANGED <<task, tables, call, cancelled>>, TypeOK'
  PROVE  IInv'
<1>1. TablesMatch'
  BY DEF IInv, TablesMatch, InUse, tables
<1>2. CancelledIsGone'
  BY DEF IInv, CancelledIsGone, CancelCovers, InUse, tables
<1> QED
  BY <1>1, <1>2 DEF IInv

\* A step that changes one thread's call to one that is not a cancel.
LEMMA CallStepSafe ==
  ASSUME IInv, NEW a \in Agents, NEW k \in Call, k.op # "cancel",
         call' = [call EXCEPT ![a] = k], UNCHANGED <<task, tables, cancelled>>, TypeOK'
  PROVE  IInv'
<1>1. TablesMatch'
  BY DEF IInv, TablesMatch, InUse, tables
<1>2. \A c \in Clients : call'[c].op = "cancel" => call'[c] = call[c]
  BY DEF IInv, TypeOK, Agents
<1>3. CancelledIsGone'
  BY <1>2 DEF IInv, CancelledIsGone, CancelCovers, InUse, tables
<1> QED
  BY <1>1, <1>3 DEF IInv

LEMMA CallOpType ==
  ASSUME TypeOK, NEW a \in Agents, NEW op \in Op
  PROVE  /\ [call[a] EXCEPT !.op = op] \in Call
         /\ [call EXCEPT ![a].op = op] = [call EXCEPT ![a] = [call[a] EXCEPT !.op = op]]
         /\ [call EXCEPT ![a].op = op] \in [Agents -> Call]
         /\ [call[a] EXCEPT !.op = op].op = op
         /\ NoCall \in Call
         /\ [call EXCEPT ![a] = NoCall] \in [Agents -> Call]
<1>1. call[a] \in Call /\ call \in [Agents -> Call]
  BY DEF TypeOK
<1>2. [call[a] EXCEPT !.op = op] \in Call /\ [call[a] EXCEPT !.op = op].op = op
  BY <1>1 DEF Call
<1>3. [call EXCEPT ![a].op = op] = [call EXCEPT ![a] = [call[a] EXCEPT !.op = op]]
  BY <1>1
<1>4. NoCall \in Call
  BY DEF NoCall, Call, Op
<1> QED
  BY <1>1, <1>2, <1>3, <1>4

-----------------------------------------------------------------------------
(* Scheduling.                                                             *)

LEMMA ScheduleTaskSafe ==
  ASSUME IInv, NEW a \in Agents, NEW user \in Users, NEW delay \in Delays, NEW period \in Periods,
         ScheduleTask(a, user, delay, period)
  PROVE  IInv'
<1>1. PICK j \in Jobs, n \in Ids :
        /\ task[j] = None
        /\ EndsAfter(n)
        /\ lastTaskId_' = NextAsyncTaskId(lastTaskId_, n)
        /\ task' = [task EXCEPT ![j] = [task_id |-> NextAsyncTaskId(lastTaskId_, n),
                                        user_id |-> user, time |-> now + delay, period |-> period]]
        /\ tasks_by_id_' = [tasks_by_id_ EXCEPT ![NextAsyncTaskId(lastTaskId_, n)] = j]
        /\ tasks_by_user_id_' =
             [tasks_by_user_id_ EXCEPT ![user] = @ \cup {NextAsyncTaskId(lastTaskId_, n)}]
        /\ task_queue_' = task_queue_ \cup {j}
  BY ZenonT(60) DEF ScheduleTask
<1> DEFINE id == NextAsyncTaskId(lastTaskId_, n)
           t == [task_id |-> id, user_id |-> user, time |-> now + delay, period |-> period]
<1>2. id \in Ids /\ id \notin InUse /\ tasks_by_id_[id] = None
  BY <1>1, NextIdType, SMTT(30) DEF IInv, TypeOK, EndsAfter, InUse
<1> HIDE DEF id
<1>3. t \in Task /\ t # None /\ t.task_id = id /\ t.user_id = user
  BY <1>2, TimeAssumption, NamesAssumption DEF Task, IInv, TypeOK
<1> HIDE DEF t
<1>4. /\ lastTaskId_' = id
      /\ task' = [task EXCEPT ![j] = t]
      /\ tasks_by_id_' = [tasks_by_id_ EXCEPT ![id] = j]
      /\ tasks_by_user_id_' = [tasks_by_user_id_ EXCEPT ![user] = @ \cup {id}]
      /\ task_queue_' = task_queue_ \cup {j}
  BY <1>1 DEF id, t
<1>5. call' = [call EXCEPT ![a].op = "start"] /\ UNCHANGED <<now, thread, phase, cancelled>>
  BY DEF ScheduleTask
<1>6. TypeOK'
  <2>1. call' \in [Agents -> Call]
    BY <1>5, CallOpType, ZenonT(60) DEF IInv, Op
  <2>2. /\ lastTaskId_' \in Ids \cup {0}
        /\ task' \in [Jobs -> Task \cup {None}]
        /\ tasks_by_id_' \in [Ids -> Jobs \cup {None}]
        /\ tasks_by_user_id_' \in [Users -> SUBSET Ids]
        /\ task_queue_' \in SUBSET Jobs
    BY <1>2, <1>3, <1>4 DEF IInv, TypeOK
  <2> QED
    BY <1>5, <2>1, <2>2 DEF IInv, TypeOK, thread
<1>7. j \notin task_queue_ /\ \A k \in task_queue_ : task'[k] = task[k]
  BY <1>1, <1>4, InQueue, NamesAssumption DEF IInv, TypeOK
<1>8. TablesMatch'
  <2>1. InUse' = InUse \cup {id}
    BY <1>2, <1>4, NamesAssumption DEF IInv, TypeOK, InUse
  <2>2. \A i \in InUse : tasks_by_id_'[i] = tasks_by_id_[i]
    BY <1>2, <1>4 DEF IInv, TypeOK, InUse
  <2>3. tasks_by_id_'[id] = j
    BY <1>2, <1>4 DEF IInv, TypeOK
  <2>4. task_queue_' = {tasks_by_id_'[i] : i \in InUse'}
    BY <1>4, <2>1, <2>2, <2>3 DEF IInv, TablesMatch
  <2>5. ASSUME NEW i \in InUse
        PROVE  /\ task'[tasks_by_id_'[i]] # None
               /\ task'[tasks_by_id_'[i]].task_id = i
               /\ i \in tasks_by_user_id_'[task'[tasks_by_id_'[i]].user_id]
    <3>1. tasks_by_id_[i] \in task_queue_ /\ task[tasks_by_id_[i]] \in Task
      BY InQueue DEF IInv, TypeOK, TablesMatch, InUse
    <3>2. task[tasks_by_id_[i]].user_id \in Users
      BY <3>1 DEF Task
    <3> QED
      BY <1>4, <1>7, <2>2, <3>1, <3>2 DEF IInv, TypeOK, TablesMatch
  <2>6. task'[j] = t /\ id \in tasks_by_user_id_'[user]
    BY <1>2, <1>4 DEF IInv, TypeOK
  <2> QED
    BY <1>3, <2>1, <2>3, <2>4, <2>5, <2>6 DEF TablesMatch
<1>9. CancelledIsGone'
  <2>1. \A c \in Clients : call'[c].op # "cancel"
    <3>1. \A c \in Clients : call[c].op # "cancel" /\ c \in Agents
      BY DEF ScheduleTask, InternalFree, Agents
    <3>2. \A c \in Clients : call'[c].op = call[c].op \/ call'[c].op = "start"
      BY <1>5, <3>1, CallOpType DEF IInv, TypeOK, Op
    <3> QED
      BY <3>1, <3>2
  <2>2. \A k \in cancelled : k # j /\ task'[k] = task[k]
    BY <1>1, <1>4 DEF IInv, TypeOK, CancelledIsGone
  <2> QED
    BY <1>4, <1>5, <2>1, <2>2 DEF IInv, CancelledIsGone
<1> QED
  BY <1>6, <1>8, <1>9 DEF IInv

-----------------------------------------------------------------------------
(* Cancelling.                                                             *)

\* The tables after the erasure of ids, the user that is forgotten included: no
\* task of that user is left.
LEMMA ForgetKeepsAgreement ==
  ASSUME IInv, NEW ids \in SUBSET Ids, ids \subseteq InUse, EraseTasks(ids),
         NEW user \in Users \cup {None}, ForgetUser(user), UNCHANGED task,
         \A j \in task_queue_ :
           user # None /\ task[j].user_id = user => task[j].task_id \in ids
  PROVE  /\ TablesMatch'
         /\ tasks_by_id_' \in [Ids -> Jobs \cup {None}]
         /\ tasks_by_user_id_' \in [Users -> SUBSET Ids]
         /\ task_queue_' \in SUBSET Jobs
         /\ \A j \in task_queue_ : j \in task_queue_' <=> task[j].task_id \notin ids
         /\ task_queue_' \subseteq task_queue_
<1>1. tasks_by_id_' \in [Ids -> Jobs \cup {None}] /\ task_queue_' \in SUBSET Jobs
  BY DEF IInv, TypeOK, EraseTasks
<1>2. tasks_by_user_id_' \in [Users -> SUBSET Ids]
  BY DEF IInv, TypeOK, ForgetUser
<1>3. task_queue_' \subseteq task_queue_
  BY DEF EraseTasks
<1>4. \A j \in task_queue_ : j \in task_queue_' <=> task[j].task_id \notin ids
  <2>1. TAKE j \in task_queue_
  <2>2. j \in task_queue_' <=> \A i \in ids : tasks_by_id_[i] # j
    BY DEF EraseTasks
  <2>3. \A i \in ids : tasks_by_id_[i] = j => task[j].task_id = i
    BY DEF IInv, TablesMatch
  <2>4. tasks_by_id_[task[j].task_id] = j
    BY InQueue
  <2> QED
    BY <2>2, <2>3, <2>4
<1>5. InUse' = InUse \ ids /\ \A i \in InUse' : tasks_by_id_'[i] = tasks_by_id_[i]
  BY DEF InUse, EraseTasks
<1>6. task_queue_' = {tasks_by_id_'[i] : i \in InUse'}
  <2>1. ASSUME NEW j \in task_queue_' PROVE \E i \in InUse' : tasks_by_id_'[i] = j
    BY <1>3, <1>4, <1>5, InQueue
  <2>2. ASSUME NEW i \in InUse' PROVE tasks_by_id_'[i] \in task_queue_'
    BY <1>4, <1>5 DEF IInv, TablesMatch
  <2> QED
    BY <2>1, <2>2
<1>7. ASSUME NEW i \in InUse'
      PROVE  i \in tasks_by_user_id_'[task[tasks_by_id_[i]].user_id]
  <2> DEFINE j == tasks_by_id_[i]
  <2>1. i \in InUse /\ i \notin ids /\ j \in task_queue_ /\ task[j].task_id = i
    BY <1>5 DEF IInv, TablesMatch
  <2>2. i \in tasks_by_user_id_[task[j].user_id] /\ task[j] \in Task
    BY <2>1, InQueue
  <2>3. task[j].user_id \in Users /\ (user # None => task[j].user_id # user)
    BY <2>1, <2>2 DEF Task
  <2> QED
    BY <2>2, <2>3 DEF ForgetUser, IInv, TypeOK
<1> QED
  BY <1>1, <1>2, <1>3, <1>4, <1>5, <1>6, <1>7 DEF IInv, TablesMatch

\* Both kinds of cancel, given that the ids cover the tasks promised.
LEMMA CancelTasksSafe ==
  ASSUME IInv, NEW a \in Agents, NEW ids \in SUBSET Ids, ids \subseteq InUse,
         NEW user \in Users \cup {None}, NEW target \in SUBSET Jobs,
         \A j \in target : task[j] # None /\ (j \in task_queue_ => task[j].task_id \in ids),
         \A j \in task_queue_ :
           user # None /\ task[j].user_id = user => task[j].task_id \in ids,
         CancelTasks(a, ids, user, target)
  PROVE  IInv'
<1>1. /\ UNCHANGED <<now, lastTaskId_, task, thread, phase>>
      /\ \A c \in Clients : call[c].op # "cancel"
  BY DEF CancelTasks, InternalFree
<1>2. CASE a = Worker \/ ids = {}
  <2>1. EraseTasks(ids) /\ ForgetUser(user) /\ cancelled' = cancelled \cup target /\ UNCHANGED call
    BY <1>2 DEF CancelTasks
  <2>2. /\ TablesMatch'
        /\ tasks_by_id_' \in [Ids -> Jobs \cup {None}]
        /\ tasks_by_user_id_' \in [Users -> SUBSET Ids]
        /\ task_queue_' \in SUBSET Jobs
        /\ \A j \in task_queue_ : j \in task_queue_' <=> task[j].task_id \notin ids
        /\ task_queue_' \subseteq task_queue_
    BY <1>1, <2>1, ForgetKeepsAgreement
  <2>3. TypeOK'
    BY <1>1, <2>1, <2>2 DEF IInv, TypeOK, thread
  <2>4. CancelledIsGone'
    BY <1>1, <2>1, <2>2 DEF IInv, CancelledIsGone
  <2> QED
    BY <2>2, <2>3, <2>4 DEF IInv
<1>3. CASE ~(a = Worker \/ ids = {})
  <2> DEFINE k == [op |-> "cancel", todo |-> ids, user |-> user, target |-> target]
  <2>1. call' = [call EXCEPT ![a] = k] /\ UNCHANGED <<tables, cancelled>>
    BY <1>3 DEF CancelTasks
  <2>2. k \in Call
    BY DEF Call, Op
  <2>3. TypeOK'
    BY <1>1, <2>1, <2>2 DEF IInv, TypeOK, thread, tables
  <2>4. TablesMatch'
    BY <1>1, <2>1 DEF IInv, TablesMatch, InUse, tables
  <2>5. \A c \in Clients : (call'[c] = k /\ c = a) \/ call'[c].op # "cancel"
    BY <1>1, <2>1, <2>2 DEF IInv, TypeOK, Agents
  <2>6. CancelledIsGone'
    BY <1>1, <2>1, <2>5 DEF IInv, CancelledIsGone, CancelCovers, InUse, tables
  <2> QED
    BY <2>3, <2>4, <2>6 DEF IInv
<1> QED
  BY <1>2, <1>3

LEMMA CancelAsyncTaskSafe ==
  ASSUME IInv, NEW a \in Agents, NEW j \in Jobs, CancelAsyncTask(a, j)
  PROVE  IInv'
<1> DEFINE ids == {task[j].task_id} \cap InUse
<1>1. ids \in SUBSET Ids /\ ids \subseteq InUse
  BY DEF InUse
<1>2. task[j] # None /\ (j \in task_queue_ => task[j].task_id \in ids)
  BY InQueue DEF CancelAsyncTask
<1>3. CancelTasks(a, ids, None, {j})
  BY DEF CancelAsyncTask
<1> HIDE DEF ids
<1> QED
  BY <1>1, <1>2, <1>3, CancelTasksSafe

LEMMA CancelAsyncTasksFromUserSafe ==
  ASSUME IInv, NEW a \in Agents, NEW user \in Users, CancelAsyncTasksFromUser(a, user)
  PROVE  IInv'
<1> DEFINE ids == tasks_by_user_id_[user] \cap InUse
           target == {j \in Jobs : task[j] # None /\ task[j].user_id = user}
<1>1. ids \in SUBSET Ids /\ ids \subseteq InUse /\ target \in SUBSET Jobs
  BY DEF InUse
<1>2. \A j \in task_queue_ : task[j].user_id = user => task[j].task_id \in ids
  BY InQueue
<1>3. CancelTasks(a, ids, user, target)
  BY DEF CancelAsyncTasksFromUser
<1>4. \A j \in target : task[j] # None /\ (j \in task_queue_ => task[j].task_id \in ids)
  BY <1>2
<1> HIDE DEF ids, target
<1> QED
  BY <1>1, <1>2, <1>3, <1>4, CancelTasksSafe

LEMMA CancelNextSafe ==
  ASSUME IInv, NEW c \in Clients, CancelNext(c)
  PROVE  IInv'
<1>1. /\ call[c].op = "cancel"
      /\ CancelCovers(c)
      /\ UNCHANGED <<now, lastTaskId_, task, tasks_by_user_id_, thread, phase, cancelled>>
  BY DEF CancelNext, IInv, CancelledIsGone
<1>2. PICK id \in call[c].todo :
        EraseTasks({id}) /\ call' = [call EXCEPT ![c].todo = @ \ {id}]
  BY ZenonT(60) DEF CancelNext
<1> DEFINE k == [call[c] EXCEPT !.todo = call[c].todo \ {id}]
<1>3. c \in Agents /\ call[c] \in Call /\ call \in [Agents -> Call]
  BY DEF IInv, TypeOK, Agents
<1>4. /\ k \in Call /\ k.op = "cancel" /\ k.todo = call[c].todo \ {id}
      /\ k.user = call[c].user /\ k.target = call[c].target
  BY <1>1, <1>3 DEF Call
<1>5. call' = [call EXCEPT ![c] = k]
  BY <1>2, <1>3
<1> HIDE DEF k
<1>6. id \in Ids /\ id \in InUse
  BY <1>1 DEF CancelCovers, InUse
<1>7. /\ TablesMatch'
      /\ tasks_by_id_' \in [Ids -> Jobs \cup {None}]
      /\ task_queue_' \in SUBSET Jobs
      /\ \A j \in task_queue_ : j \in task_queue_' <=> task[j].task_id # id
      /\ task_queue_' \subseteq task_queue_
  <2>1. ForgetUser(None)
    BY <1>1 DEF ForgetUser
  <2> QED
    BY <1>1, <1>2, <1>6, <2>1, ForgetKeepsAgreement
<1>8. TypeOK'
  BY <1>1, <1>3, <1>4, <1>5, <1>7 DEF IInv, TypeOK, thread
<1>9. CancelledIsGone'
  <2>1. call'[c] = k /\ \A d \in Clients : call'[d].op = "cancel" => d = c
    BY <1>1, <1>3, <1>5 DEF IInv, CancelledIsGone, Agents
  <2>2. InUse' = InUse \ {id}
    BY <1>2 DEF EraseTasks, InUse
  <2>3. CancelCovers(c)'
    BY <1>1, <1>4, <1>7, <2>1, <2>2 DEF CancelCovers
  <2> QED
    BY <1>1, <1>7, <2>1, <2>3 DEF IInv, CancelledIsGone
<1> QED
  BY <1>7, <1>8, <1>9 DEF IInv

LEMMA CancelReturnsSafe ==
  ASSUME IInv, NEW c \in Clients, CancelReturns(c)
  PROVE  IInv'
<1>1. /\ call[c].op = "cancel" /\ call[c].todo = {}
      /\ CancelCovers(c)
      /\ ForgetUser(call[c].user)
      /\ cancelled' = cancelled \cup call[c].target
      /\ call' = [call EXCEPT ![c] = NoCall]
      /\ UNCHANGED <<now, lastTaskId_, task, tasks_by_id_, task_queue_, thread, phase>>
  BY DEF CancelReturns, IInv, CancelledIsGone
<1>2. c \in Agents /\ call[c].user \in Users \cup {None} /\ call[c].target \in SUBSET Jobs
  BY DEF IInv, TypeOK, Agents, Call
<1>3. EraseTasks({})
  BY <1>1 DEF EraseTasks, IInv, TypeOK
<1>4. TablesMatch' /\ tasks_by_user_id_' \in [Users -> SUBSET Ids]
  BY <1>1, <1>2, <1>3, ForgetKeepsAgreement DEF CancelCovers
<1>5. TypeOK'
  BY <1>1, <1>2, <1>4, CallOpType, ZenonT(60) DEF IInv, TypeOK, thread, Op
<1>6. CancelledIsGone'
  <2>1. \A d \in Clients : call'[d].op # "cancel"
    BY <1>1, <1>2 DEF IInv, TypeOK, CancelledIsGone, Agents, NoCall
  <2> QED
    BY <1>1, <2>1 DEF IInv, CancelledIsGone, CancelCovers
<1> QED
  BY <1>4, <1>5, <1>6 DEF IInv

-----------------------------------------------------------------------------
(* The Worker and the destructor.                                          *)

LEMMA TakeTaskSafe ==
  ASSUME IInv, NEW j \in Jobs, TakeTask(j)
  PROVE  IInv'
<1>1. /\ j \in task_queue_
      /\ pc' = "taken" /\ task_p' = j
      /\ \A c \in Clients : call[c].op # "cancel"
      /\ UNCHANGED <<now, lastTaskId_, running_, thread_, deadline, call, phase, cancelled>>
  BY DEF TakeTask, IsFirst, InternalFree
<1>2. task[j] \in Task /\ tasks_by_id_[task[j].task_id] = j /\ task[j].task_id \in Ids
  BY <1>1, InQueue DEF Task
<1>3. CASE task[j].period # 0
  <2> DEFINE t == [task[j] EXCEPT !.time = task[j].time + task[j].period]
  <2>1. UNCHANGED tables
    BY <1>3 DEF TakeTask
  <2>2. /\ t \in Task /\ t # None
        /\ t.task_id = task[j].task_id /\ t.user_id = task[j].user_id
    BY <1>2, NamesAssumption DEF Task
  <2>3. task' = [task EXCEPT ![j] = t]
    BY <1>3 DEF TakeTask, IInv, TypeOK
  <2> HIDE DEF t
  <2>4. \A k \in Jobs : /\ (task'[k] = None) <=> (task[k] = None)
                        /\ task'[k].task_id = task[k].task_id
                        /\ task'[k].user_id = task[k].user_id
    BY <1>2, <2>2, <2>3, NamesAssumption DEF IInv, TypeOK
  <2>5. TypeOK'
    BY <1>1, <2>1, <2>2, <2>3 DEF IInv, TypeOK, tables
  <2>6. TablesMatch'
    BY <2>1, <2>4 DEF IInv, TypeOK, TablesMatch, InUse, tables
  <2>7. CancelledIsGone'
    BY <1>1, <2>1, <2>4 DEF IInv, TypeOK, CancelledIsGone, tables
  <2> QED
    BY <2>5, <2>6, <2>7 DEF IInv
<1>4. CASE task[j].period = 0
  <2>1. /\ task_queue_' = task_queue_ \ {j}
        /\ tasks_by_user_id_' =
             [tasks_by_user_id_ EXCEPT ![task[j].user_id] = @ \ {task[j].task_id}]
        /\ tasks_by_id_' = [tasks_by_id_ EXCEPT ![task[j].task_id] = None]
        /\ UNCHANGED task
    BY <1>4 DEF TakeTask
  <2>2. TypeOK'
    BY <1>1, <1>2, <2>1 DEF IInv, TypeOK, Task
  <2>3. InUse' = InUse \ {task[j].task_id} /\ \A i \in InUse' : tasks_by_id_'[i] = tasks_by_id_[i]
    BY <1>2, <2>1 DEF IInv, TypeOK, InUse
  <2>4. \A i \in InUse' : i \in tasks_by_user_id_'[task[tasks_by_id_[i]].user_id]
    <3>1. TAKE i \in InUse'
    <3>2. /\ i \in tasks_by_user_id_[task[tasks_by_id_[i]].user_id]
          /\ i # task[j].task_id
          /\ task[tasks_by_id_[i]] \in Task
      BY <2>3, InQueue DEF IInv, TablesMatch
    <3> QED
      BY <2>1, <3>2 DEF IInv, TypeOK, Task
  <2>5. task_queue_' = {tasks_by_id_'[i] : i \in InUse'}
    <3>1. ASSUME NEW k \in task_queue_' PROVE \E i \in InUse' : tasks_by_id_'[i] = k
      BY <1>2, <2>1, <2>3, InQueue
    <3>2. ASSUME NEW i \in InUse' PROVE tasks_by_id_'[i] \in task_queue_'
      BY <2>1, <2>3 DEF IInv, TablesMatch
    <3> QED
      BY <3>1, <3>2
  <2>6. TablesMatch'
    BY <2>1, <2>3, <2>4, <2>5 DEF IInv, TablesMatch
  <2>7. CancelledIsGone'
    BY <1>1, <2>1 DEF IInv, CancelledIsGone
  <2> QED
    BY <2>2, <2>6, <2>7 DEF IInv
<1> QED
  BY <1>3, <1>4

LEMMA StopThreadSafe ==
  ASSUME IInv, StopThread
  PROVE  IInv'
<1>1. InUse' = {}
  BY DEF StopThread, InUse
<1>2. TypeOK'
  BY ZenonT(60) DEF StopThread, Notified, IInv, TypeOK
<1>3. TablesMatch'
  BY <1>1 DEF StopThread, TablesMatch
<1>4. CancelledIsGone'
  BY DEF StopThread, IInv, CancelledIsGone
<1> QED
  BY <1>2, <1>3, <1>4 DEF IInv

-----------------------------------------------------------------------------
(* The invariant, and what follows from it.                                *)

\* Nothing is scheduled at first.
LEMMA InitIInv == Init => IInv
<1> SUFFICES ASSUME Init PROVE IInv
  OBVIOUS
<1>1. TypeOK
  BY IdAssumption, ZenonT(60) DEF Init, TypeOK, NoCall, Call, Op
<1>2. InUse = {}
  BY DEF Init, InUse
<1>3. TablesMatch
  BY <1>2 DEF Init, TablesMatch
<1>4. CancelledIsGone
  BY DEF Init, CancelledIsGone, NoCall, Agents
<1> QED
  BY <1>1, <1>3, <1>4 DEF IInv

\* Every step keeps the invariant.
LEMMA NextIInv == IInv /\ [Next]_vars => IInv'
<1> SUFFICES ASSUME IInv, [Next]_vars PROVE IInv'
  OBVIOUS
<1>1. ASSUME NEW a \in Agents, MemberFunction(a) PROVE IInv'
  <2>1. ASSUME TryStartThread(a) PROVE IInv'
    <3>1. /\ call' = [call EXCEPT ![a] = [call[a] EXCEPT !.op = "notify"]]
          /\ [call[a] EXCEPT !.op = "notify"] \in Call
          /\ [call[a] EXCEPT !.op = "notify"].op # "cancel"
          /\ call' \in [Agents -> Call]
      BY <2>1, CallOpType, ZenonT(60) DEF TryStartThread, IInv, Op
    <3>2. TypeOK'
      BY <2>1, <3>1, ZenonT(60) DEF TryStartThread, IInv, TypeOK, tables
    <3> QED
      BY <2>1, <3>1, <3>2, CallStepSafe, ZenonT(60) DEF TryStartThread
  <2>2. ASSUME NotifyThread(a) PROVE IInv'
    <3>1. call' = [call EXCEPT ![a] = NoCall] /\ call' \in [Agents -> Call] /\ NoCall \in Call
      BY <2>2, CallOpType, ZenonT(60) DEF NotifyThread, IInv, Op
    <3>2. TypeOK'
      BY <2>2, <3>1 DEF NotifyThread, Notified, IInv, TypeOK, tables
    <3> QED
      BY <2>2, <3>1, <3>2, CallStepSafe, ZenonT(60) DEF NotifyThread, NoCall
  <2> QED
    BY <1>1, <2>1, <2>2, ScheduleTaskSafe, CancelAsyncTaskSafe, CancelAsyncTasksFromUserSafe
    DEF MemberFunction
<1>2. ASSUME NEW c \in Clients, ClientStep(c) PROVE IInv'
  <2>1. c \in Agents
    BY DEF Agents
  <2>2. ASSUME SynchronizeEnter(c) PROVE IInv'
    <3>1. /\ call' = [call EXCEPT ![c] = [call[c] EXCEPT !.op = "critical"]]
          /\ [call[c] EXCEPT !.op = "critical"] \in Call
          /\ [call[c] EXCEPT !.op = "critical"].op # "cancel"
          /\ call' \in [Agents -> Call]
      BY <2>1, <2>2, CallOpType, ZenonT(60) DEF SynchronizeEnter, IInv, Op
    <3>2. TypeOK'
      BY <2>2, <3>1 DEF SynchronizeEnter, IInv, TypeOK, tables, thread
    <3> QED
      BY <2>1, <2>2, <3>1, <3>2, CallStepSafe, ZenonT(60) DEF SynchronizeEnter
  <2>3. ASSUME SynchronizeLeave(c) PROVE IInv'
    <3>1. call' = [call EXCEPT ![c] = NoCall] /\ call' \in [Agents -> Call] /\ NoCall \in Call
      BY <2>1, <2>3, CallOpType, ZenonT(60) DEF SynchronizeLeave, IInv, Op
    <3>2. TypeOK'
      BY <2>3, <3>1 DEF SynchronizeLeave, IInv, TypeOK, tables, thread
    <3> QED
      BY <2>1, <2>3, <3>1, <3>2, CallStepSafe, ZenonT(60) DEF SynchronizeLeave, NoCall
  <2> QED
    BY <1>2, <2>2, <2>3, CancelNextSafe, CancelReturnsSafe DEF ClientStep
<1>3. ASSUME ThreadRoutine PROVE IInv'
  <2>1. ASSUME LoopTop \/ NothingDue \/ LockInCallback \/ InvokeCallback \/ CallbackReturns
               \/ WaitTimesOut \/ WaitReturns
        PROVE  IInv'
    <3>1. UNCHANGED <<task, tables, call, cancelled>> /\ TypeOK'
      BY <2>1 DEF LoopTop, NothingDue, LockInCallback, InvokeCallback, CallbackReturns,
                  WaitTimesOut, WaitReturns, IInv, TypeOK, tables
    <3> QED
      BY <3>1, ThreadStepSafe
  <2>2. ASSUME Wait PROVE IInv'
    <3>1. \A j \in Jobs : IsFirst(j) => task[j].time \in Nat
      BY InQueue DEF IsFirst, Task
    <3>2. deadline' \in Nat \cup {None}
      BY <2>2, <3>1 DEF Wait, IInv, TypeOK
    <3>3. UNCHANGED <<task, tables, call, cancelled>> /\ TypeOK'
      BY <2>2, <3>2 DEF Wait, IInv, TypeOK, tables
    <3> QED
      BY <3>3, ThreadStepSafe
  <2> QED
    BY <1>3, <2>1, <2>2, TakeTaskSafe DEF ThreadRoutine
<1>4. ASSUME Join \/ TimePasses PROVE IInv'
  <2>1. UNCHANGED <<task, tables, call, cancelled>>
    BY <1>4 DEF Join, TimePasses
  <2>2. CASE Join
    BY <2>1, <2>2, ThreadStepSafe, ZenonT(60) DEF Join, IInv, TypeOK, tables
  <2>3. CASE TimePasses
    <3>1. now' \in Nat
      BY <2>3 DEF TimePasses, IInv, TypeOK
    <3>2. /\ UNCHANGED <<lastTaskId_, task, call, phase, cancelled>>
          /\ UNCHANGED <<tasks_by_id_, tasks_by_user_id_, task_queue_>>
          /\ UNCHANGED <<running_, thread_, pc, task_p, deadline>>
      BY <2>3 DEF TimePasses, tables, thread
    <3>3. TypeOK'
      BY <3>1, <3>2, ZenonT(60) DEF IInv, TypeOK
    <3> QED
      BY <2>1, <3>3, ThreadStepSafe
  <2> QED
    BY <1>4, <2>2, <2>3
<1>5. ASSUME UNCHANGED vars PROVE IInv'
  <2>1. UNCHANGED <<task, tables, call, cancelled>>
    BY <1>5 DEF vars
  <2>2. UNCHANGED <<now, lastTaskId_, task>> /\ UNCHANGED <<call, phase, cancelled, usage>>
    BY <1>5 DEF vars
  <2>3. UNCHANGED <<tasks_by_id_, tasks_by_user_id_, task_queue_>>
    BY <1>5 DEF vars, tables
  <2>4. UNCHANGED <<running_, thread_, pc, task_p, deadline>>
    BY <1>5 DEF vars, thread
  <2>5. TypeOK'
    BY <2>2, <2>3, <2>4, ZenonT(60) DEF IInv, TypeOK
  <2> QED
    BY <2>1, <2>5, ThreadStepSafe
<1> QED
  BY <1>1, <1>2, <1>3, <1>4, <1>5, StopThreadSafe DEF Next

\* The invariant holds in every reachable state.
LEMMA Inductive == Spec => []IInv
BY InitIInv, NextIInv, PTL DEF Spec

\* Ids stay in range whatever the order of the calls and for every kMaxTaskId.
THEOREM TypeCorrect == Spec => []TypeOK
<1>1. IInv => TypeOK
  BY DEF IInv
<1> QED
  BY <1>1, Inductive, PTL

\* The tables of the task manager agree after every critical section, for any
\* number of threads, users and tasks.
THEOREM TablesAlwaysAgree == Spec => []TablesAgree
<1>1. IInv => TablesAgree
  BY DEF IInv, TablesAgree
<1> QED
  BY <1>1, Inductive, PTL

\* ThreadRoutine never takes a task whose cancel has returned.
THEOREM CancelIsFinal == Spec => CancelledNeverTaken
<1>1. IInv /\ [Next]_vars =>
        [\A j \in cancelled : ~(pc = "peek" /\ pc' = "taken" /\ task_p' = j)]_vars
  <2> SUFFICES ASSUME IInv, Next, NEW j \in cancelled, pc = "peek", pc' = "taken", task_p' = j
               PROVE  FALSE
    OBVIOUS
  <2>1. j \in Jobs /\ j \notin task_queue_
    BY DEF IInv, TypeOK, CancelledIsGone
  <2>2. \E k \in Jobs : TakeTask(k)
    BY DEF Next, MemberFunction, ClientStep, ThreadRoutine, ScheduleTask, TryStartThread,
           NotifyThread, Notified, CancelAsyncTask, CancelAsyncTasksFromUser, CancelTasks,
           CancelNext, CancelReturns, SynchronizeEnter, SynchronizeLeave, LoopTop, NothingDue,
           LockInCallback, InvokeCallback, CallbackReturns, Wait, WaitTimesOut, WaitReturns,
           StopThread, Join, TimePasses, vars, thread
  <2> QED
    BY <2>1, <2>2 DEF TakeTask, IsFirst
<1> QED
  BY <1>1, Inductive, PTL DEF Spec, CancelledNeverTaken
=============================================================================
