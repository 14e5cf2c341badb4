------------------------ MODULE AsyncFdWatcher_proofs ------------------------
(***************************************************************************)
(* Proof that no callback of AsyncFdWatcher is invoked once its watch has  *)
(* been stopped, but for the rest of a pass in which the callback of       *)
(* another socket stopped it, for any sockets, descriptors and threads.    *)
(***************************************************************************)
EXTENDS AsyncFdWatcher, TLAPS

\* Calls that look at, or change, what is registered for a socket.
Sole == {"add", "erase", "close"}

\* The Worker is in a function of a socket only from a callback, which the pass
\* does not call again.
WorkerInv ==
  /\ call[Worker].op # "none" => pc = "callback"
  /\ pc # "callback" => current = None
  /\ pc # "off" => thread_
  /\ pc = "callback" => current \in Socks \ fds

\* One thread at a time adds, erases or closes a socket, which is not watched
\* when its descriptor is given back.
CallsInv ==
  /\ \A s \in Socks : fd_[s] # None \/ s \in watching_ => s \in opened
  /\ \A a \in Agents : call[a].op \in Sole => call[a].sock \in opened
  /\ \A a, b \in Agents :
       call[a].op \in Sole /\ call[b].op \in Sole /\ call[a].sock = call[b].sock => a = b
  /\ \A a \in Agents : call[a].op = "add" => call[a].sock \in watching_
  /\ \A a \in Agents : call[a].op = "close" => \A f \in Fds : watched_shared_fds_[f] # call[a].sock

\* A socket is registered under its own descriptor, and its watch is not forgotten
\* before it is erased.
WatchInv ==
  \A f \in Fds : watched_shared_fds_[f] # None =>
    /\ fd_[watched_shared_fds_[f]] = f
    /\ \/ watched_shared_fds_[f] \in watching_
       \/ \E a \in Agents : call[a].op = "erase" /\ call[a].sock = watched_shared_fds_[f]

\* Nothing registered has been stopped and, while the Worker holds the mutex, only
\* a callback of the pass has stopped what it is about to call.
SilentInv ==
  /\ \A f \in Fds : watched_shared_fds_[f] \notin stopped
  /\ pc \in {"pass", "callback"} => fds \cap stopped \subseteq late

IInv == TypeOK /\ WorkerInv /\ CallsInv /\ WatchInv /\ SilentInv

-----------------------------------------------------------------------------

\* Initially nothing is open, watched or called.
LEMMA InitIInv == Init => IInv
<1> SUFFICES ASSUME Init PROVE IInv
  OBVIOUS
<1> USE NamesAssumption DEF Init
<1>1. NoCall \in Call /\ NoCall.op = "none" /\ \A a \in Agents : call[a] = NoCall
  BY DEF NoCall, Call, Op
<1>2. TypeOK
  BY <1>1, ZenonT(60) DEF TypeOK
<1>3. WorkerInv /\ CallsInv /\ WatchInv /\ SilentInv
  BY <1>1 DEF WorkerInv, CallsInv, WatchInv, SilentInv, Sole, Agents
<1> QED
  BY <1>2, <1>3 DEF IInv

\* The kernel: a descriptor is opened, and data arrives at one.
LEMMA KernelSafe ==
  ASSUME IInv, (\E s \in Socks, f \in Fds : Open(s, f)) \/ (\E s \in Socks : Arrive(s))
  PROVE  IInv'
<1>1. ASSUME NEW s \in Socks, NEW f \in Fds, Open(s, f) PROVE IInv'
  <2>1. s \notin opened
    BY <1>1, NamesAssumption DEF Open
  <2>2. TypeOK'
    BY <1>1 DEF IInv, TypeOK, Open, thread, history
  <2>3. WorkerInv' /\ CallsInv'
    BY <1>1 DEF IInv, TypeOK, Open, thread, history, WorkerInv, CallsInv
  <2>4. WatchInv'
    BY <1>1, <2>1, NamesAssumption DEF IInv, TypeOK, Open, WatchInv, CallsInv
  <2>5. SilentInv'
    BY <1>1 DEF IInv, Open, thread, history, SilentInv
  <2> QED
    BY <2>2, <2>3, <2>4, <2>5 DEF IInv
<1>2. ASSUME NEW s \in Socks, Arrive(s) PROVE IInv'
  <2>1. TypeOK'
    BY <1>2 DEF IInv, TypeOK, Arrive, thread, history
  <2>2. WorkerInv' /\ CallsInv' /\ WatchInv' /\ SilentInv'
    BY <1>2 DEF IInv, Arrive, thread, history, WorkerInv, CallsInv, WatchInv, SilentInv
  <2> QED
    BY <2>1, <2>2 DEF IInv
<1> QED
  BY <1>1, <1>2

\* A step of the thread that leaves sockets and calls alone.
LEMMA ThreadSafe ==
  ASSUME IInv, ThreadRoutine
  PROVE  IInv'
<1>1. ASSUME LoopTop \/ SetUpFileDescriptorSet \/ SelectError \/ Select \/ ConsumeThreadNotifications
             \/ PassEnds
      PROVE  IInv'
  <2>1. /\ UNCHANGED <<fd_, opened, data, watching_, watched_shared_fds_, running_, thread_,
                       notification_fds_, fds, current, call, phase, stopped, failed>>
        /\ late' \in {late, {}} /\ pc' \in {"off", "top", "setup", "select", "selected", "run"}
        /\ pc \notin {"off", "callback"}
    BY <1>1 DEF LoopTop, SetUpFileDescriptorSet, SelectError, Select, ConsumeThreadNotifications,
                PassEnds, sockets, history
  <2>2. read_fds' \in SUBSET (Fds \cup {Pipe}) /\ unread' \in BOOLEAN
    BY <1>1, ZenonT(60) DEF LoopTop, SetUpFileDescriptorSet, SelectError, Select, ConsumeThreadNotifications,
                PassEnds, Ready, IInv, TypeOK
  <2>3. TypeOK'
    BY <2>1, <2>2 DEF IInv, TypeOK
  <2>4. WorkerInv' /\ CallsInv' /\ WatchInv' /\ SilentInv'
    BY <2>1 DEF IInv, WorkerInv, CallsInv, WatchInv, SilentInv
  <2> QED
    BY <2>3, <2>4 DEF IInv
<1>2. ASSUME RunAppropriateCallbacks PROVE IInv'
  <2>1. /\ UNCHANGED <<fd_, opened, data, watching_, watched_shared_fds_, running_, thread_, unread,
                       notification_fds_, read_fds, current, call, phase, stopped, late, failed>>
        /\ pc = "run" /\ pc' = "pass"
        /\ fds' = {watched_shared_fds_[f] : f \in read_fds \ {Pipe}} \ {None}
    BY <1>2 DEF RunAppropriateCallbacks, sockets, history
  <2>2. \A s \in fds' : s \in Socks /\ s \notin stopped
    BY <2>1 DEF IInv, TypeOK, SilentInv
  <2>3. TypeOK'
    BY <2>1, <2>2 DEF IInv, TypeOK
  <2>4. WorkerInv' /\ CallsInv' /\ WatchInv' /\ SilentInv'
    BY <2>1, <2>2 DEF IInv, WorkerInv, CallsInv, WatchInv, SilentInv
  <2> QED
    BY <2>3, <2>4 DEF IInv
<1>3. ASSUME NEW s \in Socks, InvokeCallback(s) PROVE IInv'
  <2>1. TypeOK'
    BY <1>3 DEF InvokeCallback, IInv, TypeOK, history
  <2>2. WorkerInv' /\ CallsInv' /\ WatchInv' /\ SilentInv'
    BY <1>3 DEF InvokeCallback, IInv, TypeOK, history, WorkerInv, CallsInv, WatchInv, SilentInv
  <2> QED
    BY <2>1, <2>2 DEF IInv
<1>4. ASSUME CallbackReturns PROVE IInv'
  <2>1. TypeOK'
    BY <1>4 DEF CallbackReturns, IInv, TypeOK, sockets, history
  <2>2. WorkerInv' /\ CallsInv' /\ WatchInv' /\ SilentInv'
    BY <1>4 DEF CallbackReturns, IInv, sockets, history, WorkerInv, CallsInv, WatchInv, SilentInv
  <2> QED
    BY <2>1, <2>2 DEF IInv
<1> QED
  BY <1>1, <1>2, <1>3, <1>4 DEF ThreadRoutine

\* A thread that enters a function is in no other, and no other thread is adding,
\* erasing or closing that socket.
LEMMA BeginSafe ==
  ASSUME IInv, NEW a \in Agents, NEW s \in Socks, MayCall(a, s), s \in opened, NEW op \in Sole,
         NEW closing \in BOOLEAN,
         call' = [call EXCEPT ![a] = [op |-> op, sock |-> s, closing |-> closing]],
         UNCHANGED <<fd_, opened, data, watched_shared_fds_, thread, phase, history>>,
         watching_' = IF op = "add" THEN watching_ \cup {s} ELSE watching_ \ {s},
         op = "close" => s \notin watching_
  PROVE  IInv'
<1> DEFINE k == [op |-> op, sock |-> s, closing |-> closing]
<1>1. k \in Call /\ k.op = op /\ k.sock = s
  BY DEF Call, Op, Sole
<1>2. /\ call[a].op = "none"
      /\ \A b \in Agents : call[b].op \in Sole => call[b].sock # s
      /\ a = Worker => pc = "callback"
  BY DEF MayCall, Sole
<1> HIDE DEF k
<1>3. call \in [Agents -> Call] /\ call' = [call EXCEPT ![a] = k]
  BY DEF IInv, TypeOK, k
<1>4. call' \in [Agents -> Call] /\ call'[a] = k /\ \A b \in Agents \ {a} : call'[b] = call[b]
  BY <1>1, <1>3
<1>5. /\ UNCHANGED <<running_, thread_, notification_fds_, unread, pc, read_fds, fds, current>>
      /\ UNCHANGED <<stopped, late, failed>> /\ watching_' \in SUBSET Socks
  BY DEF thread, history, IInv, TypeOK
<1>6. TypeOK'
  BY <1>4, <1>5 DEF IInv, TypeOK
<1>7. WorkerInv'
  BY <1>1, <1>2, <1>4, <1>5 DEF IInv, WorkerInv, Agents
<1>8. WatchInv'
  BY <1>1, <1>2, <1>4, <1>5 DEF IInv, WatchInv, Sole
<1>9. \A f \in Fds : op = "close" => watched_shared_fds_[f] # s
  BY <1>2, NamesAssumption DEF IInv, WatchInv, Sole
<1>10. CallsInv'
  BY <1>1, <1>2, <1>4, <1>9 DEF IInv, CallsInv, Sole
<1>11. SilentInv'
  BY <1>5 DEF IInv, SilentInv
<1> QED
  BY <1>6, <1>7, <1>8, <1>10, <1>11 DEF IInv

\* Entering a function of a socket.
LEMMA BeginCallSafe ==
  ASSUME IInv, NEW a \in Agents, BeginCall(a)
  PROVE  IInv'
<1>1. ASSUME NEW s \in Socks, WatchForNonBlockingRead(a, s) PROVE IInv'
  <2>1. "add" \in Sole /\ s \in opened
    BY <1>1 DEF Sole, WatchForNonBlockingRead, IsOpen, IInv, CallsInv
  <2> QED
    BY <1>1, <2>1, BeginSafe, ZenonT(60) DEF WatchForNonBlockingRead
<1>2. ASSUME NEW s \in Socks, StopWatching(a, s) PROVE IInv'
  <2>1. "erase" \in Sole /\ s \in opened
    BY <1>2 DEF Sole, StopWatching, IInv, CallsInv
  <2> QED
    BY <1>2, <2>1, BeginSafe, ZenonT(60) DEF StopWatching
<1>3. ASSUME NEW s \in Socks, Close(a, s) PROVE IInv'
  <2> DEFINE op == IF s \in watching_ THEN "erase" ELSE "close"
  <2>1. op \in Sole /\ op # "add" /\ (op = "close" => s \notin watching_) /\ s \in opened
    BY <1>3 DEF Sole, Close, IsOpen, IInv, CallsInv
  <2> HIDE DEF op
  <2> QED
    BY <1>3, <2>1, BeginSafe, ZenonT(60) DEF Close, op
<1> QED
  BY <1>1, <1>2, <1>3 DEF BeginCall

\* The watch is registered, or the thread started or notified: a call goes on
\* without the socket.
LEMMA CallMoves ==
  ASSUME IInv, NEW a \in Agents, NEW k \in Call, k.op \notin Sole, call' = [call EXCEPT ![a] = k],
         call[a].op \notin Sole, TypeOK', WorkerInv',
         UNCHANGED <<fd_, opened, watching_, watched_shared_fds_, fds, stopped, late>>,
         pc' \in {"pass", "callback"} => pc \in {"pass", "callback"}
  PROVE  IInv'
<1>1. call'[a] = k /\ \A b \in Agents \ {a} : call'[b] = call[b]
  BY DEF IInv, TypeOK
<1>2. CallsInv'
  BY <1>1 DEF IInv, CallsInv, Sole
<1>3. WatchInv'
  BY <1>1 DEF IInv, WatchInv, Sole
<1>4. SilentInv'
  BY DEF IInv, SilentInv
<1> QED
  BY <1>2, <1>3, <1>4 DEF IInv

\* A call goes on as a record of the same socket.
LEMMA GotoType ==
  ASSUME IInv, NEW a \in Agents, NEW op \in Op
  PROVE  LET k == [call[a] EXCEPT !.op = op]
         IN  /\ k \in Call /\ k.op = op /\ k.sock = call[a].sock
             /\ Goto(a, op) => call' = [call EXCEPT ![a] = k] /\ call' \in [Agents -> Call]
BY DEF IInv, TypeOK, Call, Goto

\* A call that returns leaves its thread in no function.
LEMMA ReturnType ==
  ASSUME IInv
  PROVE  /\ NoCall \in Call /\ NoCall.op = "none"
         /\ \A a \in Agents : Return(a) => call' = [call EXCEPT ![a] = NoCall] /\ call' \in [Agents -> Call]
<1>1. NoCall \in Call /\ NoCall.op = "none"
  BY DEF NoCall, Call, Op
<1> QED
  BY <1>1 DEF IInv, TypeOK, Return

\* Starting the thread, and notifying it, from any thread.
LEMMA StartSafe ==
  ASSUME IInv, NEW a \in Agents, TryStartThread(a) \/ PipeError(a) \/ StartThread(a) \/ NotifyThread(a)
  PROVE  IInv'
<1> USE DEF sockets, history
<1>1. call \in [Agents -> Call] /\ Worker \in Agents
  BY DEF IInv, TypeOK, Agents
<1>2. ASSUME TryStartThread(a) PROVE IInv'
  <2> DEFINE op == IF running_ THEN "notify" ELSE "pipe"
             k == [call[a] EXCEPT !.op = op]
  <2>1. op \in Op /\ op \notin Sole /\ op # "none" /\ Goto(a, op)
    BY <1>2 DEF Op, Sole, TryStartThread
  <2> HIDE DEF op
  <2>2. /\ k \in Call /\ k.op = op /\ k.sock = call[a].sock
        /\ call' = [call EXCEPT ![a] = k] /\ call' \in [Agents -> Call]
    BY <2>1, GotoType
  <2> HIDE DEF k
  <2>3. TypeOK'
    BY <1>2, <2>2 DEF TryStartThread, IInv, TypeOK
  <2>4. WorkerInv'
    BY <1>1, <1>2, <2>2 DEF TryStartThread, IInv, WorkerInv
  <2> QED
    BY <1>2, <2>1, <2>2, <2>3, <2>4, CallMoves, ZenonT(60) DEF TryStartThread, Sole
<1>3. ASSUME StartThread(a) PROVE IInv'
  <2> DEFINE k == [call[a] EXCEPT !.op = "notify"]
  <2>1. "notify" \in Op /\ "notify" \notin Sole
    BY DEF Op, Sole
  <2>2. /\ k \in Call /\ k.op = "notify" /\ k.sock = call[a].sock
        /\ call' = [call EXCEPT ![a] = k] /\ call' \in [Agents -> Call]
    BY <1>3, <2>1, GotoType DEF StartThread
  <2> HIDE DEF k
  <2>3. TypeOK'
    BY <1>3, <2>2, ZenonT(60) DEF StartThread, IInv, TypeOK
  <2>4. WorkerInv'
    BY <1>1, <1>3, <2>2 DEF StartThread, IInv, WorkerInv
  <2> QED
    BY <1>3, <2>1, <2>2, <2>3, <2>4, CallMoves, ZenonT(60) DEF StartThread, Sole
<1>4. ASSUME PipeError(a) \/ NotifyThread(a) PROVE IInv'
  <2>1. /\ NoCall \in Call /\ NoCall.op = "none" /\ NoCall.op \notin Sole
        /\ call' = [call EXCEPT ![a] = NoCall] /\ call' \in [Agents -> Call]
    BY <1>4, ReturnType DEF PipeError, NotifyThread, Sole
  <2>2. TypeOK'
    BY <1>4, <2>1, ZenonT(60) DEF PipeError, NotifyThread, IInv, TypeOK, thread
  <2>3. WorkerInv'
    BY <1>1, <1>4, <2>1 DEF PipeError, NotifyThread, IInv, WorkerInv, thread
  <2> QED
    BY <1>4, <2>1, <2>2, <2>3, CallMoves, ZenonT(60) DEF PipeError, NotifyThread, Sole, thread
<1> QED
  BY <1>2, <1>3, <1>4

\* The critical sections of WatchFdForNonBlockingReads and
\* StopWatchingFileDescriptor: a client waits for the end of the pass, and a
\* callback stops its own socket, which the pass will not call again, or another,
\* which it may call until it ends.
LEMMA CriticalSafe ==
  ASSUME IInv, NEW a \in Agents, AddWatch(a) \/ EraseWatch(a)
  PROVE  IInv'
<1> DEFINE s == call[a].sock
<1>1. /\ call \in [Agents -> Call] /\ Worker \in Agents /\ s \in opened /\ s \in Socks
      /\ a = Worker => pc = "callback"
      /\ a # Worker => pc \notin {"pass", "callback"}
  BY DEF IInv, TypeOK, Agents, AddWatch, EraseWatch, CallsInv, Sole, WorkerInv, MutexFree
<1>2. UNCHANGED <<fd_, opened, data, watching_, running_, thread_, notification_fds_, unread, pc,
                  read_fds, fds, current, phase, failed>>
  BY DEF AddWatch, EraseWatch, sockets, thread
<1>3. ASSUME NEW k \in Call, call' = [call EXCEPT ![a] = k], call' \in [Agents -> Call],
             k.op \in {"start", "close", "none"}, k.op # "none" => k.sock = s,
             watched_shared_fds_' \in [Fds -> Socks \cup {None}], stopped' \in SUBSET Socks,
             late' \in SUBSET Socks
      PROVE  /\ TypeOK' /\ WorkerInv'
             /\ call'[a] = k /\ \A b \in Agents \ {a} : call'[b] = call[b]
  <2>1. TypeOK'
    BY <1>2, <1>3 DEF IInv, TypeOK
  <2>2. call'[a] = k /\ \A b \in Agents \ {a} : call'[b] = call[b]
    BY <1>1, <1>3
  <2>3. WorkerInv'
    BY <1>1, <1>2, <1>3, <2>2 DEF IInv, WorkerInv
  <2> QED
    BY <2>1, <2>2, <2>3
<1>4. ASSUME AddWatch(a) PROVE IInv'
  <2> DEFINE k == [call[a] EXCEPT !.op = "start"]
  <2>1. /\ k \in Call /\ k.op = "start" /\ k.sock = s
        /\ call' = [call EXCEPT ![a] = k] /\ call' \in [Agents -> Call]
    BY <1>4, GotoType, ZenonT(60) DEF AddWatch, Op
  <2>2. /\ watched_shared_fds_' \in [Fds -> Socks \cup {None}]
        /\ \A f \in Fds : watched_shared_fds_'[f] = IF f = fd_[s] THEN s ELSE watched_shared_fds_[f]
        /\ stopped' = stopped \ {s} /\ late' = late /\ s \in watching_ /\ call[a].op = "add"
    BY <1>1, <1>4 DEF AddWatch, IInv, TypeOK, CallsInv
  <2> HIDE DEF k
  <2>3. /\ TypeOK' /\ WorkerInv'
        /\ call'[a] = k /\ \A b \in Agents \ {a} : call'[b] = call[b]
    BY <1>3, <2>1, <2>2, ZenonT(60) DEF IInv, TypeOK
  <2>4. CallsInv'
    BY <1>2, <2>1, <2>2, <2>3 DEF IInv, CallsInv, Sole
  <2>5. WatchInv'
    BY <1>2, <2>1, <2>2, <2>3 DEF IInv, WatchInv
  <2>6. SilentInv'
    BY <1>2, <2>2 DEF IInv, SilentInv
  <2> QED
    BY <2>3, <2>4, <2>5, <2>6 DEF IInv
<1>5. ASSUME EraseWatch(a) PROVE IInv'
  <2>1. PICK k \in Call :
          /\ call' = [call EXCEPT ![a] = k] /\ call' \in [Agents -> Call]
          /\ k.op \in {"close", "none"} /\ (k.op = "close" => k.sock = s)
    <3>1. CASE Goto(a, "close")
      BY <3>1, GotoType, ZenonT(60) DEF Op
    <3>2. CASE Return(a)
      BY <3>2, ReturnType
    <3> QED
      BY <1>5, <3>1, <3>2 DEF EraseWatch
  <2>2. /\ watched_shared_fds_' \in [Fds -> Socks \cup {None}]
        /\ \A f \in Fds : watched_shared_fds_'[f] = IF f = fd_[s] THEN None ELSE watched_shared_fds_[f]
        /\ stopped' = stopped \cup {s} /\ call[a].op = "erase"
        /\ late' = late \cup (IF a = Worker THEN {s} \ {current} ELSE {})
    BY <1>1, <1>5 DEF EraseWatch, IInv, TypeOK
  <2>3. /\ TypeOK' /\ WorkerInv'
        /\ call'[a] = k /\ \A b \in Agents \ {a} : call'[b] = call[b]
    BY <1>1, <1>3, <2>1, <2>2, ZenonT(60) DEF IInv, TypeOK
  <2>4. \A f \in Fds : watched_shared_fds_'[f] # s
    BY <1>1, <2>2, NamesAssumption DEF IInv, WatchInv
  <2>5. \A b \in Agents :
          call'[b].op = "close" => \A f \in Fds : watched_shared_fds_'[f] # call'[b].sock
    <3>1. \A b \in Agents : call[b].op = "close" => call[b].sock # None
      BY NamesAssumption, ZenonT(60) DEF IInv, TypeOK, CallsInv, Sole
    <3> QED
      BY <2>1, <2>2, <2>3, <2>4, <3>1 DEF IInv, CallsInv
  <2>6. CallsInv'
    BY <1>1, <1>2, <2>1, <2>2, <2>3, <2>5 DEF IInv, CallsInv, Sole
  <2>7. WatchInv'
    BY <1>2, <2>1, <2>2, <2>3, <2>4 DEF IInv, WatchInv
  <2>8. SilentInv'
    <3>1. None \notin stopped /\ s # None
      BY <1>1, NamesAssumption, ZenonT(60) DEF IInv, TypeOK
    <3>2. \A f \in Fds : watched_shared_fds_'[f] \notin stopped'
      BY <2>2, <2>4, <3>1 DEF IInv, SilentInv
    <3>3. pc \in {"pass", "callback"} => s \notin fds \/ s \in late'
      BY <1>1, <2>2 DEF IInv, WorkerInv
    <3> QED
      BY <1>2, <2>2, <3>2, <3>3 DEF IInv, SilentInv
  <2> QED
    BY <2>3, <2>6, <2>7, <2>8 DEF IInv
<1> QED
  BY <1>4, <1>5

\* The descriptor is given back when nothing is registered for the socket.
LEMMA CloseFdSafe ==
  ASSUME IInv, NEW a \in Agents, CloseFd(a)
  PROVE  IInv'
<1> DEFINE s == call[a].sock
<1>1. /\ NoCall.op = "none" /\ call'[a] = NoCall /\ call' \in [Agents -> Call]
      /\ \A b \in Agents \ {a} : call'[b] = call[b]
  BY ReturnType DEF CloseFd, IInv, TypeOK
<1>2. /\ UNCHANGED <<opened, watching_, watched_shared_fds_, running_, thread_, notification_fds_, unread,
                     pc, read_fds, fds, current, phase, stopped, late, failed>>
      /\ fd_' = [fd_ EXCEPT ![s] = None] /\ data' = data \ {s} /\ call[a].op = "close"
  BY DEF CloseFd, thread, history
<1>3. TypeOK'
  BY <1>1, <1>2, ZenonT(60) DEF IInv, TypeOK
<1>4. WorkerInv'
  BY <1>1, <1>2 DEF IInv, WorkerInv, Agents
<1>5. CallsInv'
  BY <1>1, <1>2 DEF IInv, TypeOK, CallsInv, Sole
<1>6. WatchInv'
  BY <1>1, <1>2 DEF IInv, TypeOK, WatchInv, CallsInv
<1>7. SilentInv'
  BY <1>2 DEF IInv, SilentInv
<1> QED
  BY <1>3, <1>4, <1>5, <1>6, <1>7 DEF IInv

\* The destructor stops the thread and joins it.
LEMMA StopSafe ==
  ASSUME IInv, StopThread \/ Join
  PROVE  IInv'
<1> USE DEF sockets, history
<1>1. TypeOK'
  BY ZenonT(60) DEF StopThread, Join, IInv, TypeOK
<1>2. WorkerInv' /\ CallsInv'
  BY NamesAssumption DEF StopThread, Join, IInv, TypeOK, WorkerInv, CallsInv, Sole
<1>3. CASE StopThread
  BY <1>1, <1>2, <1>3 DEF StopThread, IInv, WatchInv, SilentInv
<1>4. CASE Join
  <2>1. None \notin stopped
    BY NamesAssumption, ZenonT(60) DEF IInv, TypeOK
  <2>2. /\ \A f \in Fds : watched_shared_fds_'[f] = None
        /\ UNCHANGED <<pc, fds, stopped, late>>
    BY <1>4 DEF Join
  <2>3. WatchInv' /\ SilentInv'
    BY <2>1, <2>2 DEF IInv, WatchInv, SilentInv
  <2> QED
    BY <1>1, <1>2, <2>3 DEF IInv
<1> QED
  BY <1>3, <1>4

\* Every step keeps the invariant.
LEMMA NextIInv == IInv /\ [Next]_vars => IInv'
<1> SUFFICES ASSUME IInv, [Next]_vars PROVE IInv'
  OBVIOUS
<1>1. CASE UNCHANGED vars
  <2>1. TypeOK'
    BY <1>1 DEF IInv, TypeOK, vars, sockets, thread, history
  <2>2. WorkerInv' /\ CallsInv' /\ WatchInv' /\ SilentInv'
    BY <1>1 DEF IInv, WorkerInv, CallsInv, WatchInv, SilentInv, vars, sockets, thread, history
  <2> QED
    BY <2>1, <2>2 DEF IInv
<1>2. CASE Next
  BY <1>1, <1>2, KernelSafe, BeginCallSafe, StartSafe, CriticalSafe, CloseFdSafe, ThreadSafe, StopSafe
     DEF Next, ContinueCall
<1> QED
  BY <1>1, <1>2

\* For any number of threads, sockets and descriptors, and callbacks that use any
\* socket: once StopWatchingFileDescriptor has returned, runAppropriateCallbacks does
\* not invoke the callback of the socket, though it works on a copy of the table,
\* but for the rest of the pass when the callback of another socket called it; and
\* every field keeps its type.
THEOREM StoppedStaysSilent == Spec => SilentAfterStop
<1>1. Spec => []IInv
  BY InitIInv, NextIInv, PTL DEF Spec
<1>2. IInv => TypeOK
  BY DEF IInv
<1>3. IInv /\ [Next]_vars => [\A s \in Socks : pc = "pass" /\ current' = s => s \notin stopped \ late]_vars
  <2> SUFFICES ASSUME IInv, Next, NEW s \in Socks, pc = "pass", current' = s
               PROVE  s \notin stopped \ late
    OBVIOUS
  <2>1. current # s
    BY NamesAssumption, SMTT(30) DEF IInv, WorkerInv
  <2>2. InvokeCallback(s)
    BY <2>1, NamesAssumption
       DEF Next, Open, Arrive, BeginCall, ContinueCall, WatchForNonBlockingRead, StopWatching, Close,
           AddWatch, TryStartThread, PipeError, StartThread, NotifyThread, EraseWatch, CloseFd,
           ThreadRoutine, LoopTop, SetUpFileDescriptorSet, SelectError, Select,
           ConsumeThreadNotifications, RunAppropriateCallbacks, InvokeCallback, CallbackReturns,
           PassEnds, StopThread, Join, vars, thread
  <2> QED
    BY <2>2 DEF InvokeCallback, IInv, SilentInv
<1> QED
  BY <1>1, <1>2, <1>3, PTL DEF Spec, SilentAfterStop
=============================================================================
