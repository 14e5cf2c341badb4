--------------------------- MODULE AsyncFdWatcher ---------------------------
(***************************************************************************)
(* AsyncManager::AsyncFdWatcher, the thread that calls a callback when a   *)
(* file descriptor can be read, under the sockets that use it              *)
(* (PosixAsyncSocket: watching_ and fd_), and the part of the kernel they  *)
(* meet: descriptor numbers, which are reused, the data that waits on a    *)
(* socket, select() and the notification pipe.                             *)
(*                                                                         *)
(* internal_mutex_ is recursive; the Worker holds it while it runs the     *)
(* callbacks of one pass, everyone else only within a step.  The order in  *)
(* which a pass runs its callbacks (that of the descriptor numbers) is     *)
(* left open, since the kernel chooses the numbers.                        *)
(***************************************************************************)
EXTENDS Naturals, FiniteSets

CONSTANTS
  Clients,        \* threads that use the sockets, other than the watcher's
  Worker,         \* thread_
  None,
  Socks,          \* PosixAsyncSocket objects, numbered as they are created
  Fds,            \* descriptor numbers for the sockets
  Pipe            \* notification_listen_fd_

ASSUME NamesAssumption ==
  /\ Worker \notin Clients /\ None \notin Socks \cup Fds /\ Pipe \notin Fds
  /\ Socks \subseteq Nat /\ Fds \subseteq Nat

Agents == Clients \cup {Worker}
Op == {"none", "add", "start", "pipe", "notify", "erase", "close"}
Call == [op : Op, sock : Socks \cup {None}, closing : BOOLEAN]
NoCall == [op |-> "none", sock |-> None, closing |-> FALSE]

VARIABLES
  fd_,                  \* descriptor of each socket, None when not open
  opened,               \* sockets created so far
  data,                 \* sockets a read of which would not block
  watching_,            \* sockets whose watching_ is set
  watched_shared_fds_,  \* the socket whose callback each descriptor has
  running_,
  thread_,              \* whether thread_ is joinable
  notification_fds_,    \* whether the pipe exists
  unread,               \* whether the pipe holds unread notifications
  pc,                   \* where the Worker is in ThreadRoutine
  read_fds,             \* the descriptor set of the current iteration
  fds,                  \* callbacks the current pass has still to run
  current,              \* the socket whose callback runs
  call,                 \* the function each thread is in
  phase,                \* "alive", "joining", "destroyed" or "aborted"
  stopped,              \* history: sockets whose watch was stopped, not renewed
  late,                 \* history: those that a callback of another socket stopped in this pass
  failed                \* history: whether pipe() or fcntl() has failed

sockets == <<fd_, opened, data, watching_>>
thread == <<running_, thread_, notification_fds_, unread, pc, read_fds, fds, current>>
history == <<stopped, late, failed>>
vars == <<sockets, watched_shared_fds_, thread, call, phase, history>>

Init ==
  /\ fd_ = [s \in Socks |-> None]
  /\ opened = {}
  /\ data = {}
  /\ watching_ = {}
  /\ watched_shared_fds_ = [f \in Fds |-> None]
  /\ running_ = FALSE
  /\ thread_ = FALSE
  /\ notification_fds_ = FALSE
  /\ unread = FALSE
  /\ pc = "off"
  /\ read_fds = {}
  /\ fds = {}
  /\ current = None
  /\ call = [a \in Agents |-> NoCall]
  /\ phase = "alive"
  /\ stopped = {}
  /\ late = {}
  /\ failed = FALSE

IsOpen(s) == fd_[s] # None
Watched == {watched_shared_fds_[f] : f \in Fds} \ {None}
MutexFree(a) == a = Worker \/ pc \notin {"pass", "callback"}

\* Thread a may enter a function of socket s.  Threads do not use one socket at
\* once, except that a callback may run before the watch that registered it
\* has returned; a callback may use any socket, its own or another.
MayCall(a, s) ==
  /\ call[a].op = "none"
  /\ \A b \in Agents : call[b].sock = s => call[b].op \in {"start", "pipe", "notify"}
  /\ IF a = Worker THEN pc = "callback" ELSE phase = "alive"

Goto(a, op) == call' = [call EXCEPT ![a].op = op]
Return(a) == call' = [call EXCEPT ![a] = NoCall]

-----------------------------------------------------------------------------
(* The kernel.                                                             *)

\* The next socket is created, on the lowest descriptor that no open socket has.
Open(s, f) ==
  /\ phase = "alive"
  /\ opened = 1 .. s - 1
  /\ \A other \in Socks : fd_[other] # f
  /\ \A g \in 1 .. f - 1 : \E other \in Socks : fd_[other] = g
  /\ fd_' = [fd_ EXCEPT ![s] = f]
  /\ opened' = opened \cup {s}
  /\ UNCHANGED <<data, watching_, watched_shared_fds_, thread, call, phase, history>>

\* The peer sends, connects or closes its end.
Arrive(s) ==
  /\ IsOpen(s)
  /\ data' = data \cup {s}
  /\ UNCHANGED <<fd_, opened, watching_, watched_shared_fds_, thread, call, phase, history>>

-----------------------------------------------------------------------------
(* PosixAsyncSocket and the member functions of the watcher it calls.      *)

WatchForNonBlockingRead(a, s) ==
  /\ MayCall(a, s)
  /\ IsOpen(s)
  /\ s \notin watching_
  /\ watching_' = watching_ \cup {s}
  /\ call' = [call EXCEPT ![a] = [op |-> "add", sock |-> s, closing |-> FALSE]]
  /\ UNCHANGED <<fd_, opened, data, watched_shared_fds_, thread, phase, history>>

\* The critical section of WatchFdForNonBlockingReads.  The descriptor may have
\* been closed since by another thread, and is then -1 (no socket of the model).
AddWatch(a) ==
  /\ call[a].op = "add"
  /\ MutexFree(a)
  /\ Goto(a, "start")
  /\ watched_shared_fds_' =
       [f \in Fds |-> IF f = fd_[call[a].sock] THEN call[a].sock ELSE watched_shared_fds_[f]]
  /\ stopped' = stopped \ {call[a].sock}
  /\ UNCHANGED <<sockets, thread, phase, late, failed>>

\* running_ is set before the pipe and the thread exist.
TryStartThread(a) ==
  /\ call[a].op = "start"
  /\ running_' = TRUE
  /\ Goto(a, IF running_ THEN "notify" ELSE "pipe")
  /\ UNCHANGED <<sockets, watched_shared_fds_, thread_, notification_fds_, unread, pc, read_fds,
                 fds, current, phase, history>>

\* pipe() or fcntl() fails: an error is returned, running_ and watching_ stay set.
PipeError(a) ==
  /\ call[a].op = "pipe"
  /\ Return(a)
  /\ failed' = TRUE
  /\ UNCHANGED <<sockets, watched_shared_fds_, thread, phase, stopped, late>>

\* Assigning to thread_ while it is joinable terminates the process.
StartThread(a) ==
  /\ call[a].op = "pipe"
  /\ Goto(a, "notify")
  /\ notification_fds_' = TRUE
  /\ unread' = FALSE
  /\ IF thread_ THEN phase' = "aborted" /\ UNCHANGED <<thread_, pc>>
                ELSE thread_' = TRUE /\ pc' = "top" /\ UNCHANGED phase
  /\ UNCHANGED <<sockets, watched_shared_fds_, running_, read_fds, fds, current, history>>

NotifyThread_Lost(a) ==
  /\ call[a].op = "notify"
  /\ Return(a)
  /\ UNCHANGED <<sockets, watched_shared_fds_, thread, phase, history>>

\* Before the pipe exists the byte goes to descriptor 0, not to the thread.
NotifyThread(a) ==
  /\ call[a].op = "notify"
  /\ Return(a)
  /\ unread' = (unread \/ notification_fds_)
  /\ UNCHANGED <<sockets, watched_shared_fds_, running_, thread_, notification_fds_, pc, read_fds,
                 fds, current, phase, history>>

StopWatching(a, s) ==
  /\ MayCall(a, s)
  /\ s \in watching_
  /\ watching_' = watching_ \ {s}
  /\ call' = [call EXCEPT ![a] = [op |-> "erase", sock |-> s, closing |-> FALSE]]
  /\ UNCHANGED <<fd_, opened, data, watched_shared_fds_, thread, phase, history>>

EraseWatch_Unlocked(a) ==
  /\ call[a].op = "erase"
  /\ watched_shared_fds_' =
       [f \in Fds |-> IF f = fd_[call[a].sock] THEN None ELSE watched_shared_fds_[f]]
  /\ stopped' = stopped \cup {call[a].sock}
  /\ late' = late \cup (IF a = Worker THEN {call[a].sock} \ {current} ELSE {})
  /\ IF call[a].closing THEN Goto(a, "close") ELSE Return(a)
  /\ UNCHANGED <<sockets, thread, phase, failed>>

\* StopWatchingFileDescriptor.
EraseWatch(a) ==
  /\ call[a].op = "erase"
  /\ MutexFree(a)
  /\ watched_shared_fds_' =
       [f \in Fds |-> IF f = fd_[call[a].sock] THEN None ELSE watched_shared_fds_[f]]
  /\ stopped' = stopped \cup {call[a].sock}
  /\ late' = late \cup (IF a = Worker THEN {call[a].sock} \ {current} ELSE {})
  /\ IF call[a].closing THEN Goto(a, "close") ELSE Return(a)
  /\ UNCHANGED <<sockets, thread, phase, failed>>

\* Close stops the watch, if any, and gives the descriptor back.
Close(a, s) ==
  /\ MayCall(a, s)
  /\ IsOpen(s)
  /\ watching_' = watching_ \ {s}
  /\ call' = [call EXCEPT ![a] =
                [op |-> IF s \in watching_ THEN "erase" ELSE "close", sock |-> s, closing |-> TRUE]]
  /\ UNCHANGED <<fd_, opened, data, watched_shared_fds_, thread, phase, history>>

CloseFd(a) ==
  /\ call[a].op = "close"
  /\ fd_' = [fd_ EXCEPT ![call[a].sock] = None]
  /\ data' = data \ {call[a].sock}
  /\ Return(a)
  /\ UNCHANGED <<opened, watching_, watched_shared_fds_, thread, phase, history>>

-----------------------------------------------------------------------------
(* ThreadRoutine.                                                          *)

LoopTop ==
  /\ pc = "top"
  /\ pc' = IF running_ THEN "setup" ELSE "off"
  /\ UNCHANGED <<sockets, watched_shared_fds_, running_, thread_, notification_fds_, unread,
                 read_fds, fds, current, call, phase, history>>

SetUpFileDescriptorSet ==
  /\ pc = "setup"
  /\ pc' = "select"
  /\ read_fds' = {f \in Fds : watched_shared_fds_[f] # None} \cup {Pipe}
  /\ UNCHANGED <<sockets, watched_shared_fds_, running_, thread_, notification_fds_, unread,
                 fds, current, call, phase, history>>

\* A descriptor of the set that is no longer open makes select fail.
SelectError ==
  /\ pc = "select"
  /\ \E f \in read_fds \ {Pipe} : \A s \in Socks : fd_[s] # f
  /\ pc' = "top"
  /\ UNCHANGED <<sockets, watched_shared_fds_, running_, thread_, notification_fds_, unread,
                 read_fds, fds, current, call, phase, history>>

Ready == {f \in read_fds : \/ f = Pipe /\ unread
                           \/ \E s \in data : fd_[s] = f}

Select ==
  /\ pc = "select"
  /\ \A f \in read_fds \ {Pipe} : \E s \in Socks : fd_[s] = f
  /\ Ready # {}
  /\ read_fds' = Ready
  /\ pc' = "selected"
  /\ UNCHANGED <<sockets, watched_shared_fds_, running_, thread_, notification_fds_, unread,
                 fds, current, call, phase, history>>

\* consumeThreadNotifications, then the second look at running_.
ConsumeThreadNotifications ==
  /\ pc = "selected"
  /\ unread' = (unread /\ Pipe \notin read_fds)
  /\ pc' = IF running_ THEN "run" ELSE "off"
  /\ UNCHANGED <<sockets, watched_shared_fds_, running_, thread_, notification_fds_, read_fds,
                 fds, current, call, phase, history>>

\* runAppropriateCallbacks takes the mutex and copies the callbacks to run.
RunAppropriateCallbacks ==
  /\ pc = "run"
  /\ fds' = {watched_shared_fds_[f] : f \in read_fds \ {Pipe}} \ {None}
  /\ pc' = "pass"
  /\ UNCHANGED <<sockets, watched_shared_fds_, running_, thread_, notification_fds_, unread,
                 read_fds, current, call, phase, history>>

\* A callback reads what waits on its socket.
InvokeCallback(s) ==
  /\ pc = "pass"
  /\ s \in fds
  /\ fds' = fds \ {s}
  /\ current' = s
  /\ data' = data \ {s}
  /\ pc' = "callback"
  /\ UNCHANGED <<fd_, opened, watching_, watched_shared_fds_, running_, thread_,
                 notification_fds_, unread, read_fds, call, phase, history>>

CallbackReturns ==
  /\ pc = "callback"
  /\ call[Worker].op = "none"
  /\ current' = None
  /\ pc' = "pass"
  /\ UNCHANGED <<sockets, watched_shared_fds_, running_, thread_, notification_fds_, unread,
                 read_fds, fds, call, phase, history>>

PassEnds ==
  /\ pc = "pass"
  /\ fds = {}
  /\ pc' = "top"
  /\ late' = {}
  /\ UNCHANGED <<sockets, watched_shared_fds_, running_, thread_, notification_fds_, unread,
                 read_fds, fds, current, call, phase, stopped, failed>>

ThreadRoutine ==
  \/ LoopTop \/ SetUpFileDescriptorSet \/ SelectError \/ Select \/ ConsumeThreadNotifications
  \/ RunAppropriateCallbacks \/ (\E s \in Socks : InvokeCallback(s)) \/ CallbackReturns \/ PassEnds

-----------------------------------------------------------------------------
(* The destructor of AsyncManager.                                         *)

StopThread_NotNotified ==
  /\ phase = "alive"
  /\ \A c \in Clients : call[c].op = "none"
  /\ running_' = FALSE
  /\ phase' = IF running_ THEN "joining" ELSE "destroyed"
  /\ UNCHANGED <<sockets, watched_shared_fds_, thread_, notification_fds_, unread, pc, read_fds,
                 fds, current, call, history>>

\* No client is in a call, as the class requires of the destructor's caller.
\* Joining the thread that a failed pipe() left unstarted throws.
StopThread ==
  /\ phase = "alive"
  /\ \A c \in Clients : call[c].op = "none"
  /\ running_' = FALSE
  /\ phase' = IF ~running_ THEN "destroyed" ELSE IF thread_ THEN "joining" ELSE "aborted"
  /\ unread' = IF running_ THEN notification_fds_ ELSE unread
  /\ UNCHANGED <<sockets, watched_shared_fds_, thread_, notification_fds_, pc, read_fds, fds,
                 current, call, history>>

Join ==
  /\ phase = "joining"
  /\ pc = "off"
  /\ phase' = "destroyed"
  /\ thread_' = FALSE
  /\ watched_shared_fds_' = [f \in Fds |-> None]
  /\ UNCHANGED <<sockets, running_, notification_fds_, unread, pc, read_fds, fds, current, call,
                 history>>

Ended == phase \in {"destroyed", "aborted"}

BeginCall(a) ==
  \E s \in Socks : WatchForNonBlockingRead(a, s) \/ StopWatching(a, s) \/ Close(a, s)

ContinueCall(a) ==
  \/ AddWatch(a) \/ TryStartThread(a) \/ PipeError(a) \/ StartThread(a) \/ NotifyThread(a)
  \/ EraseWatch(a) \/ CloseFd(a)

Next ==
  \/ /\ ~Ended
     /\ \/ \E s \in Socks, f \in Fds : Open(s, f)
        \/ \E s \in Socks : Arrive(s)
        \/ \E a \in Agents : BeginCall(a) \/ ContinueCall(a)
        \/ ThreadRoutine
        \/ StopThread
        \/ Join
  \/ Ended /\ UNCHANGED vars

Spec == Init /\ [][Next]_vars

\* The OS runs every thread that can run.  Strong fairness of CallbackReturns:
\* a callback makes finitely many calls.
Fairness ==
  /\ WF_vars(~Ended /\ ThreadRoutine)
  /\ SF_vars(~Ended /\ CallbackReturns)
  /\ \A a \in Agents : WF_vars(~Ended /\ ContinueCall(a))
  /\ WF_vars(~Ended /\ Join)

FairSpec == Spec /\ Fairness

-----------------------------------------------------------------------------
(* Properties.                                                             *)

\* Every field keeps its type.
TypeOK ==
  /\ fd_ \in [Socks -> Fds \cup {None}]
  /\ opened \in SUBSET Socks
  /\ data \in SUBSET Socks
  /\ watching_ \in SUBSET Socks
  /\ watched_shared_fds_ \in [Fds -> Socks \cup {None}]
  /\ running_ \in BOOLEAN /\ thread_ \in BOOLEAN
  /\ notification_fds_ \in BOOLEAN /\ unread \in BOOLEAN
  /\ pc \in {"off", "top", "setup", "select", "selected", "run", "pass", "callback"}
  /\ read_fds \in SUBSET (Fds \cup {Pipe})
  /\ fds \in SUBSET Socks
  /\ current \in Socks \cup {None}
  /\ call \in [Agents -> Call]
  /\ phase \in {"alive", "joining", "destroyed", "aborted"}
  /\ stopped \in SUBSET Socks /\ late \in SUBSET Socks
  /\ failed \in BOOLEAN

\* async_manager_unittest.cc: "the AsyncManager never fires an event after
\* calling StopWatchingFileDescriptor".  When a thread other than the watcher's
\* has stopped a socket, or its own callback has, that callback is not called
\* until the socket is watched again; when the callback of another socket has,
\* the copy that runAppropriateCallbacks made may still hold it, and it is not
\* called once that pass has ended.  And every field keeps its type.
SilentAfterStop ==
  /\ []TypeOK
  /\ [][\A s \in Socks : pc = "pass" /\ current' = s => s \notin stopped \ late]_vars

\* A watched socket with something to read has its callback called: no
\* notification of a new descriptor is lost, whatever the thread is doing.
DataIsRead ==
  \A s \in Socks :
    (s \in data /\ s \in Watched) ~> (s \notin data \/ s \notin Watched \/ failed \/ Ended)

\* The destructor joins the thread, wherever it is when running_ is cleared: in
\* select, before it, in a callback or past the last look at running_.  The one
\* exception is a callback that watches a descriptor meanwhile, which sets
\* running_ again (SafeToDestroy).
DestructorReturns == (phase = "joining") ~> (phase = "destroyed" \/ running_)

\* async_manager.h: "it is safe to destroy the object even if some of its
\* callbacks may call its member functions".
SafeToDestroy == [][phase = "joining" => phase' # "aborted"]_vars
=============================================================================
