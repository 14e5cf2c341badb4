# Verification of rootcanal

rootcanal is a virtual Bluetooth controller: a process that plays the
controller side of HCI for any number of hosts and lets the virtual
controllers talk to one another over simulated BR/EDR and LE physical layers.
This directory holds TLA+ models of its components, the TLC configurations
that check them on small instances, and TLAPS proofs of the properties that
hold for every instance. `PROJECT.json` maps every definition to the source
lines it stands for and lists the runs, the faulty variants (mutants) that
show a property can fail, the findings, the hazards and the theorems.

Run a model with `tlc -config <cfg> <MC module>` and the proofs with
`tlapm <module>_proofs.tla`, in this directory. Definitions named
`<definition>_<fault>` are faulty variants: no specification uses them, they
are there to replace a definition and make a property fail.

## The system and its parts

A process holds any number of virtual controllers (`HciDevice`, a `DualModeController`
made of a BR/EDR and an LE controller), each connected to its host by an HCI transport, and
a few other devices. Devices are registered with phys; a packet sent on a phy is handed
synchronously to every other device of it. `TestModel` owns devices and phys and ticks every
device from a periodic task of the `AsyncManager`, whose two threads (tasks and descriptors)
are the only concurrency of the process.

| Part | Source (under `src/`) | Module |
|---|---|---|
| LE-ACL connections: initiator, CONNECT exchange, table, keepalive, reset | `model/controller/le_controller.cc`, `acl_connection_handler.cc`, `le_acl_connection.cc` | `LeLink` |
| PHY layers, Tick, loss of a transport | `model/setup/phy_layer.cc`, `phy_device.cc`, `test_model.cc`, `model/devices/hci_device.cc` | `LeLink` |
| LE advertising: legacy, extended sets, periodic | `model/controller/le_advertiser.cc` | `LeAdvertisingSets` |
| Isochronous channels | `rust/src/llcp/iso.rs`, `manager.rs` | `LeIso`, `LeBig`, `IsoParameters` |
| BR/EDR link manager: authentication, pairing, encryption | `rust/src/lmp/` | `LmpPairing` |
| Task thread | `model/setup/async_manager.cc` | `AsyncTaskManager` |
| Descriptor thread and the sockets that use it | `model/setup/async_manager.cc`, `net/posix/` | `AsyncFdWatcher` |
| BR/EDR connections and SCO connections | `model/controller/bredr_controller.cc`, `acl_connection_handler.cc` | `BrEdrLink` |
| LE procedures of a connection: PHY, parameters, subrating, encryption, data | `model/controller/le_controller.cc` | `LeProcedures`, `LeConnected` |
| Channel sounding | `model/controller/le_controller.cc`, `le_cs_parameters.h` | `LeChannelSounding`, `LeConnected` |
| Scanning, filter lists, extended initiating, periodic synchronization | `model/controller/le_controller.cc` | `LeScanner`, `LeObserver` |
| BR/EDR inquiry, sniff mode, SCO negotiation, transports, test channel, command dispatch, properties, ... | `model/`, `lib/`, `desktop/` | not modelled (see the end) |

In every module the hosts, or the program that calls the component, are part of the model.
What they may do is a record chosen in the initial state (`usage` or `host`) from a set given
by the instance, so that one run covers several kinds of hosts; the record never changes. Some
guarantees of the code hold only for hosts that keep to a discipline, and the properties then
say so.

| Run | Module, configuration | Distinct states |
|---|---|---|
| `lelink`, `lelink_live` | `MCLeLink`, `LeLink.cfg` and `LeLinkLive.cfg` | 1,213,388 and 71,840 |
| `tasks` | `MCAsyncTaskManager`, `Tasks.cfg` | 323,007 |
| `watcher` | `AsyncFdWatcher`, `Watcher.cfg` | 562,557 |
| `advertising` | `MCLeAdvertisingSets`, `Advertising.cfg` | 256,538 |
| `iso` | `MCIsoManager`, `Iso.cfg` | 396,124 |
| `lmp` | `MCLmpPairing`, `Lmp.cfg` | 54,316 |
| `bredr` | `MCBrEdrLink`, `BrEdr.cfg` | 4,074,238 |
| `connected` | `MCLeConnected`, `Connected.cfg` | 1,393,314 |
| `observer` | `MCLeObserver`, `Observer.cfg` | 136,328 |
| `tasks_locked`, `bredr_sco` | `MCAsyncTaskManager`, `TasksLocked.cfg`; `MCBrEdrLink`, `BrEdrSco.cfg` | violations |

Eight more configurations, `WatcherDestroy.cfg`, `IsoWithdraw.cfg`, `IsoWrap.cfg`, `LmpRejected.cfg`, `LmpCollide.cfg`, `ConnectedUpdate.cfg`, `ConnectedHasty.cfg` and
`ObserverForgetful.cfg`, are not runs of `PROJECT.json`. Each drops one condition under which a property
of a passing run is claimed, and TLC finds the behaviour of the code that makes the condition necessary. They
are described with their modules.

The first invariant of a module includes its type invariant (`TypeOK`).

## LeLink: the life of an LE-ACL connection

**What it models.** A set `Ctrl` of controllers on one LE phy. The variable
`ctl[c]` is the part of a `LeController` that matters to connections:
`advertiser` (the legacy advertiser), `initiator` (`Initiator`), `connections`
(`le_acl_connections_`), `last` (`last_le_acl_handle_`), `ll` (the links the
Rust `LinkLayer` knows), `checks` (how many `CheckExpiringConnection(handle)`
tasks are scheduled for each handle) and `tasks` (the zero-delay tasks of
`task_queue_`: packets to send and deferred HCI events). `host` is a history
variable: the handles the HCI events sent so far show as connected.

Controllers are single-threaded and are driven by `Tick`. `RunPendingTasks`
runs what was due when it started; packets are handed synchronously to all the
other devices of the phy, whose handlers schedule their answers for their own
next Tick. A Tick is therefore a sequence of steps (`StartTick`, then
`SendEvent`/`SendPacket` for each due task, `CheckExpiringConnection` for
expiring timers, and `LeAdvertising` at the end) that no other Tick and no HCI
command interrupts. HCI commands (`HostCommand`) come between Ticks. `Close`
is the loss of the HCI transport, noticed at the start of a Tick whose tasks
are the last the controller runs; `RemoveDevice` is the task that the close
callback scheduled.

**Abstractions.** Addresses: a controller is its public address. Advertising
parameters: type, target and filter policy. Time: the supervision timer reads
fresh, near (past half of it) or expired; `TimePasses` moves it on.
`GetUnusedHandle` is defined by what its loop finds (the first free handle at
or after `last`, cyclically), and `AllocatorIsItsLoop` of `MCLeLink` compares it with the loop
for every table of six handles. When the table is full the loop does not end: the steps that
would allocate are disabled (`CanHandle`). `GetLeAclConnectionHandle` scans an unordered map: any
matching handle may be found.

**Runs.** The handles are 1..2 for the range 0x200..0x2ff, so that the range wraps and
handles are reused, which is the interesting case. `MaxTasks` stops a host when its
controller's queue is long, and `usage.checks` stops it from asking for a connection while
that many keepalive checks are outstanding; with two, a check of an earlier use of a handle
meets its next use.

* `lelink` has three kinds of hosts: `Steady` (the central reconnects for ever, the
  peripheral may be reset or lost), `Varied` (directed, accept-listed and non-connectable
  advertising, one connection at a time) and `Fickle` (the central may cancel and may be
  reset). `LinkLayerInSync`, `KeepaliveArmed` and `EndsReported` hold for all of them.
  `CentralsMatched` says that when nothing is in flight a central's connection has a
  counterpart in the peripheral; it is claimed for centrals that do not cancel, are not
  reset and do not initiate to a peer they are connected to (each of these breaks it, see
  below), and whose transport is not lost: a lost device has sent its DISCONNECTs and keeps its
  table until it is removed.
* `lelink_live`: `HalfOpenEnds`, for `Fickle` hosts: a connection known to only one side
  ends. Fairness: TestModel's periodic timer ticks every device of the phy for ever, which
  is strong fairness of `StartTick(c)` because the Ticks of other devices come in between; a
  started Tick runs its tasks and ends (weak); a keepalive check that is due in
  infinitely many Ticks of a controller fires in one of them and time passes (strong, since
  both are only possible at some points of a Tick cycle).

**Seen while modelling.** Four places where the code does not do what a comment says; they
are why the properties are stated as they are.

* `LeCreateConnectionCancel` (`le_controller.cc:1699`) leaves `pending_connect_request` set, so
  an LE_CONNECT_COMPLETE under way still creates a connection after the cancellation was
  reported, against the comment at line 1680.
* LE_CONNECT_COMPLETE is broadcast and `IncomingLeConnectCompletePacket` ignores it only if both
  the peer and the own address mismatch (line 5835): of two initiators of one advertiser
  the loser may take the other's answer.
* `CreateLeConnection` does not look for an existing connection, although
  `acl_connection_handler.h:79` identifies a connection by its addresses.
* `Reset` leaves queued events in place (line 6585): a Disconnection Complete
  scheduled before HCI Reset is sent after it and may name a newer connection. The same
  happens without a reset when the allocator has come round to the handle of a connection that has just
  ended. Hence `EndsReported` states that ends are reported, not that live connections are never
  reported ended.

**Proofs** (`LeLink_proofs`). For every set of controllers, handle range,
and hosts: `TypeCorrect`,
`LinkLayerNeverDisagrees`, `KeepaliveNeverLost`. The inductive invariant
`IInv` says that each controller is `Sound` (typed, link layer equal to the
table, a check for every connection) and that the tasks the current Tick has
still to run are in the queue; the latter is needed because a Tick takes the
head of the queue as often as it was long at the start. The lemma `UnusedHandleIsFree`
shows that the definition of the allocator by `CHOOSE` has a value (by
well-foundedness of `<` on the naturals). Assumptions: the range is not empty
(`RangeAssumption`), the placeholder `None` is not an address, a handle or a
connection (`NoneAssumption`), parameters have their types
(`ParameterAssumption`).

`EndsAlwaysReported` (`EndsReported`): beside `IInv`, each controller is `Reported`, the property as it is
stated for one controller; what handlers do to table and queue (`Quiet`, `Grows`, `OwnStep`) is enough to preserve it.

`CentralsAlwaysMatched` (`LeLinkMatch_proofs`): `CentralsMatched`, for any number of controllers of
which one initiates (`OneInitiator`; with two, line 5835 breaks it, see above). The invariant
`MInv` says who may send what and which role a connection has (`Placed`), that an enabled initiator has no connection to
the peer it looks for (`Waits`), and has to speak of the order of the packets in two queues: `Match(a, b, c, d)`, for
an initiator c that neither cancels nor resets and any d. By it c has at most one connection to d; while it has one, d has its end of it or the
DISCONNECT of d is on its way, and no DISCONNECT of c is; LE_CONNECT and LE_CONNECT_COMPLETE are each under way at most
once, never both, only while c waits for d and has no connection to it, and no DISCONNECT of c follows them; an LE_CONNECT_COMPLETE
whose connection has already ended is followed by the DISCONNECT that says so (`Followed`). The last
part covers a connection that d ends before c has taken the LE_CONNECT_COMPLETE for it.
`IterationOrder` stands for the order in which the code walks over an `unordered_map`; the proofs
rely on no particular order.

Liveness (`HalfOpenEnds`) is only model-checked.

## AsyncTaskManager: the task thread

**What it models.** `AsyncManager::AsyncTaskManager` with any number of
threads (`Clients`) that schedule, cancel and synchronize, and its own thread
(`Worker`), whose place in `ThreadRoutine` is `pc`. `tasks_by_id_`,
`tasks_by_user_id_` and `task_queue_` are the tables of the code; `task[j]` is
the Task object `j`; `call[a]` is the member function thread `a` is in.
`cancelled` is a history variable.

A step is one critical section of `internal_mutex_`, or one blocking
operation. The three kinds of mutex (`internal_mutex_`,
`synchronization_mutex_`, a task's `in_callback`) need no variables: who holds
them follows from the program counters (`InternalFree`, `SynchronizationFree`,
`InCallback`). `ScheduleTask`, `TryStartThread` and `NotifyThread` are the three
sections of `scheduleTask`; `CancelTasks`, `CancelNext` and `CancelReturns` are
`cancel_task_with_lock_held`, which takes `in_callback` of one task after the
other while it keeps `internal_mutex_`. A callback that calls the manager runs
those calls as the `Worker`, which cancels without waiting.

**Runs.** Two tasks, or three one-shot tasks, and two ids, so that ids wrap around and
tasks compete for them; a clock that stops at `MaxTime`.

* `tasks` has three programs: two threads that schedule, cancel, synchronize and destroy the
  manager; threads that only schedule while callbacks schedule and cancel, which is how
  rootcanal uses the manager once it runs; and one thread with more tasks than ids.
  `TablesAgree` (the three tables describe the same tasks), `CancelledNeverTaken`,
  `DueTasksRun` and `CallsReturn` hold.
* `tasks_locked` is a violation: a cancel that waits for a callback holds `internal_mutex_`, which
  the callback needs to schedule (finding in `PROJECT.json`).

The runs say CHECK_DEADLOCK FALSE: once all tasks have run and nobody destroys the manager,
every thread rests. Fairness is weak fairness of the threads' steps, for a mutex that stays
free is got, a callback returns and the clock goes on; the task thread gets strong fairness,
because a thread that synchronizes again and again takes `synchronization_mutex_` from it
infinitely often, and the operating system's mutex lets every waiter in eventually.

**Seen while modelling** and outside what the run claims: a callback may start after the cancel of its
task has returned, because `internal_mutex_` is released before `in_callback` is locked
(`async_manager.cc:486`, against `async_manager.h:96`); a callback that schedules a task while
the destructor joins the thread assigns to a joinable `thread_` (line 454, against
`async_manager.h:51`); ids of cancelled tasks stay in the user's set and may, after ids have
wrapped around, cancel a task of another user (line 406).

**Proofs** (`AsyncTaskManager_proofs`). `TypeCorrect`, `TablesAlwaysAgree` and
`CancelIsFinal`, for any threads, users, tasks, delays and any `kMaxTaskId`.
`TablesAgree` is inductive only together with what a cancel in progress knows
(`CancelCovers`): the ids on its list are in use, and every queued task that it
promises to cancel, or whose user it is about to forget, is still on the list.
`CancelledIsGone` adds that at most one client is in a cancel. Assumptions:
there is at least one id (`IdAssumption`), delays and periods are naturals
(`TimeAssumption`), the placeholder `None` is no task and the worker no client
(`NamesAssumption`).

## AsyncFdWatcher: the select() thread and the sockets that use it

**What it models.** `AsyncManager::AsyncFdWatcher` together with the
`watching_` flag and the descriptor of `PosixAsyncSocket`. Threads open, watch,
stop and close sockets; the watcher's thread builds its descriptor set, waits
in `select()`, drains its pipe, copies the callbacks of the ready descriptors
and runs the copy. Descriptors are reused after `close`, as the kernel reuses
the lowest free number; `Arrive` is data coming in; `pipe()` may fail.
A callback may use any socket, its own or another; otherwise one socket is used by one thread
at a time, except that a callback may run before the watch that registered it has returned.

**Run.** `watcher`: two sockets, two descriptors, two threads. `SilentAfterStop`: no callback of
a socket whose watch was stopped by a thread or by its own callback; a stop by the callback of
*another* socket counts from the end of its pass, because the pass runs a copy
(`async_manager.cc:242`) that may still hold the socket (`late` in the model).
`DataIsRead`: a watched socket that has data gets its callback, unless `pipe()` has failed.
`DestructorReturns`: the destructor that has cleared `running_` joins the thread, unless a callback
sets `running_` again. Fairness: weak for every thread, strong for the return of a callback (it may
lose the descriptor it reads to another thread and get it back for ever). CHECK_DEADLOCK FALSE: a
program that has closed its sockets rests.

**Where the code does less than its comments say.**

* `async_manager.h:50`: "it is safe to destroy the object even if some of its callbacks may call its
  member functions". A callback that watches a descriptor while the destructor joins finds
  `running_` cleared, makes a second pipe and assigns to the joinable `thread_` (line 188), which
  ends the process. `tlc -config WatcherDestroy.cfg AsyncFdWatcher` shows it (`SafeToDestroy`).
* The test `NoEventsAfterUnsubscribe` says that no event is fired after
  `StopWatchingFileDescriptor`; when the callback of another socket stops a socket that is ready
  too, its callback is still called in that pass.
* After `pipe()` has failed once, `running_` stays set: every later watch returns 0 with no thread to
  serve it (line 166), and the destructor joins a thread that was never started, which throws
  (`phase = "aborted"` in `StopThread`). `DataIsRead` excludes this case and no property covers it.
* A descriptor closed and reused between `select()` and the callbacks is matched by number
  (line 238).

**Proofs** (`AsyncFdWatcher_proofs`). `StoppedStaysSilent`, for any threads, sockets and
descriptors. That nothing registered has been stopped (`SilentInv`) is kept by a pass only
because the thread holds the mutex from the copy to the last callback, so that only a callback can
stop a watch meanwhile: its own, which the pass does not call again (`WorkerInv`), or another, which
the property leaves out until the pass ends; by a close and an open of the same
descriptor only because a socket is registered under its own descriptor (`WatchInv`); and by
a watch only because one thread at a time adds, erases or closes a socket (`CallsInv`).
Assumption: sockets and descriptors are numbers, the placeholders are neither, and the worker is
no client (`NamesAssumption`).
## LE advertising (`LeAdvertisingSets`)

`model/controller/le_advertiser.cc` and the parts of `le_controller.cc` that end an
advertisement or change the addresses it uses. One controller, one host.

| state | code |
|---|---|
| `legacy_advertising_in_use_`, `extended_advertising_in_use_` | the fields of the same names |
| `legacy_advertiser_` | `LegacyAdvertiser`: enable, type, own address type, peer, advertised address, timeout |
| `extended_advertisers_` | the map of `ExtendedAdvertiser`, `None` where there is no set |
| `random_address_`, `le_resolving_list_`, `le_resolving_list_enabled_` | the fields of the same names |
| `le_event_mask_` | the LE events that `le_event_mask_` and `event_mask_` both let through; after a reset none, since the default `event_mask_` leaves out the LE Meta event (`le_controller.h:748`) |
| `hostSees` | history: what the host believes enabled from completes and events |
| `unreported` | history: what stopped by itself while the host had its event masked |

Each HCI command is an action with the checks of its handler in their effect: a rejected
command still selects the command family when the handler does so first, and a rejected
`LE_Set_Extended_Advertising_Enable` leaves the addresses it has already rewritten. Every
enable generates a resolvable private address anew, so it is any of `Rpas`: enabling again, or an
enable that is rejected at a later set, changes the address of an advertisement in progress. Data is
its length, with the real limits (31, 246 minus the optional fields, 1650, the configured
capacity); fragments are appended as the code appends them. A timeout is running or expired
and `TimePasses` expires it. `Tick` runs `LeAdvertising` for an arbitrary set of due
advertisers.

The run `advertising` has five hosts.

* `DataHost`: one set, nine kinds of event properties (two of them never acceptable),
  fragments of 0, 31 and 240 octets with a capacity of 300, so that legacy, connectable and
  capacity limits are all crossed. `EnabledIsReady` says that what
  enabling checks stays true for as long as the set is enabled, that no order of data and parameter
  commands leaves data on a set that its PDU cannot carry (`DataFits`), and that the `FATAL` in
  `LeAdvertising` is out of reach. Its clause on scan response data is for hosts that are
  `Roomy`: every fragment fits the configured capacity. The INTEL_BE200 preset has a capacity of
  160 octets, less than one fragment may hold, and a complete fragment over it discards the scan
  response data of a set that is already enabled (`le_advertiser.cc:879`).
* `LimitsHost`: two sets and the legacy advertiser. Timeout, event limit, connection and host
  commands end an advertisement in every order: `HostKnows` compares the controller with
  what a host knows from the events. `MaskingHost` changes the event masks meanwhile; an
  advertiser that stops while its event is masked (`le_controller.cc:154`) is the one thing the
  host may be wrong about, and only in taking it for enabled.
* `AddressHost`: `IdentityStable`, with the own address types that use the resolving list; two
  sets so that an enable can fail at the second one after rewriting the first. What does not
  change is what the address says of the device: a public or random address stays, and a
  resolvable private address is only replaced by another one.
* `PatientHost`: `LimitedSetsEnd` under weak fairness of each set's expiry (time passes) and
  of a Tick in which the set is due (the timer of `TestModel` and the intervals). It is
  claimed for hosts that do not enable a set again while it is enabled, which restarts its
  limits. The counter of events has `Counter` = 4 values instead of 256.

**Seen while modelling** and outside what the run claims: `EnablePeriodic` sets the latch to
`advertising_enable`, so that enabling periodic advertising again while the set is disabled stops
it (`le_advertiser.h:114`, against the comment at line 165); `LeRemoveAdvertisingSet` removes
a disabled set whose periodic advertising goes on (`le_advertiser.cc:1140`, against line 1137).

**Proofs** (`LeAdvertisingSets_proofs`). `AlwaysReady`, `HostAlwaysKnows` and
`IdentityAlwaysStable`, for any sets, event masks, addresses, lists, data lengths and capacity. A set is
`Good` when it has its type, its data fits (`DataFits`) and, if enabled, it is `Ready`; every
operation on one set is shown to keep it so (the lemmas `...Follow(s)`), and `StepSafe` carries
that to the step. `IdentityStable` is an action property that needs an invariant:
while address resolution is enabled, the address in use is one that enabling the
advertiser again could choose now (`AddressesCurrent`), and all of those show one identity
(`OneIdentity`). Assumptions: what hosts send has the
types of the commands' parameters and an event limit is below the width of its counter
(`ParameterAssumption`), and the addresses, handles and placeholders differ (`NamesAssumption`,
`NoneAssumption`).

## Isochronous channels (`LeIso`, `IsoParameters`, `LeBig`)

`rust/src/llcp/iso.rs` and `manager.rs`, with the packet plumbing of `le_controller.cc`.

`LeIso` has one central with links to several peripherals, each an `IsoManager`. `central`
holds `cig_config`, `cis_config`, `cis_connections` (by handle), the queued requests,
`acl_connections` and, per link, the packets it has queued; a peripheral holds its link, its
CISes and its queue. Each HCI command and each LL packet is an action. A packet is taken from
the head of the sender's queue, which is the order in which the task queue of a controller
delivers; commands fall in between, so every crossing of packets occurs. Where the code takes
the first match of a scan over a `HashMap`, the model takes any match. Failed `unwrap()`s set
`failed`. `host` is the history of what the central's host can know from the events.

The hosts' habits are in `usage.commands`, because some guarantees depend on them: `"overlap"` is a
host that does not wait for the events of its last `LE_Create_CIS`, `"abort"` disconnects a CIS
that is being created, `"disconnect"` and `"terminate"` are Disconnect by the central and by a
peripheral of a connected CIS, `"acl"` is the loss of links, and `"withdraw"` is a host that removes
a CIG while it waits for the events of a `LE_Create_CIS`. `Orderly` hosts neither overlap
nor abort, and only one side disconnects.

`IsoParameters` evaluates the arithmetic: the checks of `LE_Set_CIG_Parameters`,
`iso_interval`, `CisParameters::new` and `transport_latency`, against the reference definition
`Suitable`. `LeBig` has the BIG commands. `MCIsoManager` puts the three side by side: a
behaviour follows one of them.

The run `iso` shows:

* for orderly hosts no interleaving of commands, packets and link losses confuses the two
  ends (`StreamsAgree`) or the central's host (`HostKnows`), although the packets do not name
  the CIS; on one link every CIS asked for is established or reported failed
  (`RequestsServed`), under weak fairness of packet delivery (Tick) and of the peripheral
  host's answer: the code has no Connection Accept Timeout, so without that assumption a
  request may wait for ever;
* CISes stay backed by their configuration (`CisConfigured`) and the ACL handle of an active CIS is
  valid (its `TypeOK`), also for hosts that are not orderly; of hosts that withdraw this is
  claimed only with one CIG, see below;
* over 7,938 combinations of SDU intervals, latencies, SDU sizes and framing, with overflow checks and without, the
  bursts carry the SDUs and the code panics only when no interval suits (or nothing is to be sent); with unframed PDUs whose
  least common multiple fits in 32 bits the ISO interval is the least that suits and the latency
  asked for is met (`ParametersDeliver`). 32-bit words are pairs of halves, and among the intervals are pairs
  whose least common multiple wraps and pairs for which only its double does;
* the BIS table is that of the BIGs and no two BIGs share a periodic train
  (`BisesOfBigs`) while trains start and stop.

`usage.bound` bounds the packets in flight and `Room` the handles in use at a peripheral. Two CISes
and three handles are the least with a queued request behind the one in progress, and leave a
handle that may be taken again; the two CISes are of one CIG or of two. CHECK_DEADLOCK FALSE: an evaluated combination of parameters
is a final state.

**Seen while modelling** and outside what the run claims (`iso.rs`): a second LE_Create_CIS is
accepted before the last LE_CIS_Established of the first (line 1057, against 1054); losing the link
of the request in progress strands requests queued for another link (341); LE_Remove_CIG removes
the CIG of a queued request, since the state of its CIS is still `Configuration` (956): the
dequeuing then fails an `unwrap` (536) or, if the CIG has been configured again, starts a CIS of a
configurable CIG, which `tlc -config IsoWithdraw.cfg MCIsoManager` shows; a data path
is set up for a direction that carries no data (1283, against 1272); where the least common multiple of
the SDU intervals and the slot wraps in 32 bits a wrong interval may be accepted, as with 215250 and 998000 us (1915;
`tlc -config IsoWrap.cfg MCIsoManager` shows it), or the code panics if built with overflow checks; framed PDUs ignore the
maximum latency (1908); a CIG without data in either direction reaches the `panic!()` at 1920.

**Proofs** (`LeBig_proofs`). `BisesAlwaysOfBigs`, for any handles, BIGs and trains:
`BisesOfBigs` is inductive with the types. The step of LE_Create_BIG rests on `LowestFree`:
calling `new_bis_connection_handle` n times takes handles whose ranks among the free ones are 1 to n, each
once. Assumption: `ParameterAssumption`, which `MCIsoManager` evaluates (the range of handles
is finite, None is no record). Nothing is proved about `LeIso` and `IsoParameters`.

## BR/EDR link manager: `LmpPairing`

Source: `rust/src/lmp/manager.rs`, `rust/src/lmp/procedure/*.rs`, and the calls in
`bredr_controller.cc` that add, remove and feed a link.

Two devices are connected. Each `Link` has one slot for an HCI command, a queue of received LMP
packets, and five endless asynchronous procedures (`run_procedures!`): `a` authentication initiator,
`b` authentication responder, `c` encryption initiator, `d` encryption responder, `e` feature responder.
`Tick(d)` polls them in that order; each runs until it has to wait. A procedure is modelled by the
operations it still has to do: `Send`, `Event`, `Lmp(kinds)` (take the head of the queue if it is of one
of the kinds), `Hci(kinds)` (the same for the slot), `Accepted(opcode)` (`SendAcceptedLmpPacketFuture`,
which also drops answers to other opcodes) and `Do(label)`, where the code branches on what was
received. The operators are named after the Rust functions. Keys, nonces and commitments are constants
in the code and do not appear; the size of the public key does (three or four chunks).

The hosts send `Authentication_Requested` and `Set_Connection_Encryption`, answer every request
with any reply and any I/O parameters `usage` allows, disconnect and reconnect. A host sends a
command only when the previous one was answered, which is when the slot is empty. `usage.overlap` says
when a host starts a procedure: only on a quiet link, when it has none of its own in progress, or at any
time. The run uses the first; `LmpCollide.cfg` shows that the code needs it.

The run `lmp` has four usages: all feature sets and association models, with and without a stored key and
with refused comparisons (`AnyIo`); passkey entry from either side with keypresses, refusals and two
pairings in a row (`Passkey`); encryption from either side, before and after authentication (`Encrypting`);
and disconnections (`Dropping`). `OutcomesAgree` (both ends report the same outcome and key, those their features call for),
`NobodyWaits` (when nothing can be done and nothing is asked of a host, every procedure is back at its
start), `AuthenticationSound` (an authentication that succeeds has a key that was checked, and a refusal yields none)
and `ProceduresEnd` hold. With `tlc -config LmpRejected.cfg MCLmpPairing` (the responder rejects the I/O capability
request with LMP_not_accepted_ext, as `rust/test/SP/BV-30-C.in:27` expects, while the initiator waits for nothing but the
capabilities, `secure_simple_pairing.rs:361`) and `LmpCollide.cfg` (both hosts request authentication, and initiator
and responder take each other's packets from the one queue, `mod.rs:151`) `ProceduresEnd` is violated: the
initiator waits for ever.

Bounds: one or two authentications per host and connection; the passkey exchange is repeated
`PASSKEY_ENTRY_REPEAT_NUMBER` = 2 times instead of 20, since the rounds are identical. Fairness: the
controllers tick periodically (a timer task), hosts answer. `FairTick` is `WF_vars(Tick(d))` with
`ENABLED` written out. The module uses a recursive `Poll` and has no theorems. CHECK_DEADLOCK FALSE:
hosts start a bounded number of procedures.

**Seen while modelling** and outside what the run claims: with a keyboard on both sides a refused passkey
leaves the other side waiting (`secure_simple_pairing.rs:630`); a negative PIN code reply is never
taken from the slot (`legacy_pairing.rs:25`); a responder without out-of-band data goes on with
the pairing ("TODO: handle error", `secure_simple_pairing.rs:666`); an extended out-of-band reply is in nobody's
list, so that the next disconnection fails an `ASSERT` (`manager.rs:278`); an encryption and an
authentication in progress take each other's feature answers (`features.rs:29`); a second
`Authentication_Requested` blocks the slot the first one waits for (`manager.rs:56`).

## BrEdrLink: BR/EDR connections

**What it models.** Controllers of one BR/EDR phy: `page_`, `page_scan_`, the ACL and SCO tables,
the seven places of the link manager (`lm_`), the task queue, and what the host has been told
(`awaiting`, `told`, `requests`). The handlers are operators on the state of one controller with
the names of the code; `HostCommand` is a command between two Ticks, and a Tick is `StartTick`, one
`RunTask` for each task that was due and `Paging`. `RunTask` hands a packet to its
destination at once, as the phy does. `CheckExpiringConnection` and the page timeout may fire in
any Tick (pings only delay them). `failed` is a failed `ASSERT`, after which nothing moves.
SCO parameters either agree or not: that is the acceptor's choice.

**Runs.** `bredr`: three controllers, three handles, two places for links (both get used), hosts
quiet while a queue holds more than two tasks (`MaxTasks`; three tasks give the same result, with
11 million states). Six kinds of hosts: role switches from both sides; SCO connections ended by
the side that made them, or by the other; two callers for one controller that accepts and
rejects; two controllers that call, cancel, accept, end and time out at once; resets on both sides
with Connection Request masked until then. `TablesAgree`: the ACL table, the link manager's links and the page state
describe the same connections, one per peer. `HostKnows`: a Create, Accept or Reject gets its
Connection Complete, each connection and each end is reported. `AssertsHold`. `EndsAgree`: when
nothing is queued both ends of a connection have it, in opposite roles and with the same SCO
state; the condition `Steady` says for which hosts (see below). The system never rests, so
deadlock is checked.

`bredr_sco` (violation of `AssertsHold`): the host of B sets up a SCO connection while the host of A
ends the ACL connection. A sends DISCONNECT only, and B's `IncomingDisconnectPacket` removes an
ACL connection under a pending SCO connection, which `AclConnectionHandler::Disconnect`
asserts not to happen.

**Proofs** (`BrEdrLink_proofs`), for any sets of controllers, handles and places for links and any
hosts; assumed are `NoneAssumption` (`None` is not a controller, a handle or a record) and
`HandlesAssumption` (finitely many handles). The inductive invariant `IInv` says of each controller
`Good`: its fields have their types and, unless an `ASSERT` has failed, `Agree(acl, lm_, page_)`. Agreement
must cover the page state: `IncomingPageResponsePacket` adds a connection without looking for an
older one with the same peer, and only "no connected peer is paged" excludes a second entry.
`AgreeAdd` and `AgreeRemove` are the two ways in which the tables change; each handler has a lemma
that it is `Fine`: it keeps `Good` and drops no queued task, which is what a Tick that has
counted its tasks relies on. `TypeCorrect` and `TablesAlwaysAgree` follow; after a failed `ASSERT` they claim nothing.

`HostAlwaysKnows` (`HostKnows`) needs the invariant `KInv`: of each controller `Known`, which says more than the property
at three points. A connection in the table has no Disconnection Complete queued, and a queued Connection Complete is
about a connection in the table or has the Disconnection Complete behind it (`Told`); this rests on handles that are not used again
while a queued event names them. A queued answer is about a peer that is not paged and that the host awaits, except in a
Tick, which sends every answer that was queued when it began and queues none (`Paged`). And a controller deals with
its peers only, never with itself (`Apart`). As in the property, `Paged` is claimed where the host neither rejects nor
resets, `Told` where it does not reset. Each handler has a lemma that it `Informs`: it keeps all three and `Awaits`.

`AssertsAlwaysHold`: no `ASSERT` fails, if the link manager has a place for every peer (`EnoughSlots`: finitely many
controllers and places, and at most one place fewer than controllers) and the hosts open no SCO connection (`usage.speakers = {}`). Room for a link follows from `TablesAgree` by counting:
the links are injective and their peers are other controllers. `bredr_sco` shows an `ASSERT` that fails with SCO connections;
for the SCO hosts of the run `bredr` it is only model-checked.

**Seen while modelling**, and the reason for `Steady` and for the guards of `HostCommand`:
- SCO_DISCONNECT names no connection: after crossing disconnections it removes the peer's next, pending one.
- Setup Synchronous Connection while one is open makes a second entry; the ACL connection then cannot be ended without a failed `ASSERT`.
- Reject, and accept in a collision that the peer resolved, leave `page_scan_` set, and every later page is ignored until a reset.
- If both hosts accept in a page collision, both controllers are peripherals; cancelling and calling again with the other `allow_role_switch` can make both central.
- A page repeated just before the answer arrives stays in flight; accepted after a disconnection by the acceptor, a cancel, a page timeout or a reset of the caller, it leaves a connection that only one side has, and that lasts, since a ping is answered without a connection.
- HCI Reset leaves the events of the old connections in the queue.
- The Connection Complete of a rejection cannot be told from that of an own Create Connection to the same peer.

## LE procedures of a connection: `LeProcedures`, `LeChannelSounding`, `LeConnected`

**What they model.** The handlers of `le_controller.cc` that serve a connection once it is up.
`LeProcedures` has PHY update, connection parameters, subrating, encryption, features, version,
transmit power and ACL data; `LeChannelSounding` has channel sounding, from the exchange of
capabilities to the start and the end of a procedure. Both are operators from the state of one end
(`LeAclConnection` and the fields of the controller that the handlers use) to its next state, one
for each HCI command and each link layer packet, with the names of the code. `LeConnected` composes them
for two ends: `SetPhy`, `UpdateParameters`, `Subrate`, `Encryption`, `Exchange`, `Capable`, `Configure`,
`Classify` and `Procedure` are the hosts' commands, `StartTick` and `RunTask` a Tick, which hands each
packet to the peer's `IncomingPacket` at once. A command the code refuses changes nothing; its conditions are operators
(`ValidPhys`, `ValidSubrate`, `MayCreateConfig`, ...) that guard the command. What a receiver refuses is
sent back as in the code. `awaiting` is the history of what a host was promised an event for.

**Abstractions.** PHYs, intervals, latencies, timeouts and subrate factors keep their values, since
the checks compute with them. A key is a model value and a channel map its number of channels;
antennas, timings and tables are left out. `failed` is a `value()` on a missing optional.

**Run.** `connected`: thirteen kinds of hosts, from both ends changing PHYs at once to channel sounding set up
from both sides with a refused configuration, an end without host support that refuses configurations 0 and 1, and hosts that give different keys.
`MaxTasks` and `MaxData` are 2: two tasks in each queue are the least that let requests, answers and data
cross. CHECK_DEADLOCK FALSE: hosts send a bounded number of packets and some have nothing else to do.

* `LinkAgrees`: when nothing is under way each end sends on the PHY on which the other receives and its host knows; both
  record the same, valid parameters; both are encrypted or none; no data is lost.
* `AllAnswered`: no command is left without its event; of the channel sounding commands for hosts that
  coordinate, both support it and remove no configuration.
* `SoundingAgrees`: a configuration is at both ends with the same parameters and opposite roles, or at none,
  for hosts that coordinate; with a peer without host support only configuration 0 (below).
* `StartedIsReady`: a procedure is reported started only with everything in place at both ends, for hosts that
  coordinate. Where only the peripheral starts procedures (the hosts `Pulling`) nobody has to coordinate: what
  `IncomingLlCsReq` checks guarantees that the central is ready, and on an encrypted link that the peripheral is secured.

The conditions in these properties are where the code does not keep them:

* The central's LE Connection Update does not change its own record of the parameters
  (`le_controller.cc:6398`), against which later requests are checked.
* A subrate request that crosses a parameter reply is checked against the old interval; the link
  then has parameters that the rule in `le_acl_connection.h` excludes. `tlc -config ConnectedUpdate.cfg MCLeConnected`
  shows it (`ParametersValid`).
* A CS procedure enabled by a central that has done its own part is reported started though the
  peripheral refused it: `IncomingLlCsRsp` does not look at the status (line 3825).
  `tlc -config ConnectedHasty.cfg MCLeConnected` shows it (`StartedEverReady`). Hosts that are `coordinated`
  enable a procedure when both have set it up, one at a time; `Coordinating` hosts also remove no configuration. Of
  hosts that do not, starts by the central are left out of the properties.
* A peer without host support refuses LL_CS_CONFIG_REQ with config id 0 (line 3363), whatever was asked for: the creator keeps a
  configuration other than 0 and its host gets no event for it.
* A removal that crosses LL_CS_REQ has the start refused with config id 0, and the event never comes.

**Seen while modelling** and outside what the run claims: refusals carry config id 0, so that a host is
told of another configuration or not at all; a removal request is refused by the peer, which keeps
the configuration; main mode 3 can be asked for and is never accepted; LL_CS_CHANNEL_MAP_IND reaches only
enabled configurations (3852); the key is not compared at the peripheral ("TODO: Check keys");
`requested_tx_phys_` and `requested_rx_phys_` are one per controller, not per connection; a peripheral whose subrate request
is valid at its own end may be refused by the test at line 2231, which is the opposite of the host command's.

**Proofs** (`LeConnected_proofs`), for any parameters, configuration ids, queue bound and hosts. Assumed are the type of `Usages`
(`UsagesAssumption`) and that `None` is not an end or a configuration (`NoneAssumption`).

* `AlwaysAnswered`: `AllAnswered` always holds. It speaks only of states in which nothing is
  queued and is far from inductive. `AnswersUnderWay` says why: for each command that a host awaits, its answer is `UnderWay`, as
  a task of its own controller that leads to it (`Leads`), an answer in the queue of the peer (`Answers`), or a question that the
  other host holds (`Held`). `Handles(s, t, u)` sums up what a handler does when it takes the packet t: it answers what asks,
  tells what answers, and loses nothing; `Commands(s, u)` the same of a host command. There is a lemma
  for each of the 28 packets and 24 commands.
* `AlwaysReady`: `StartedIsReady` for `Coordinating` hosts; the case of the peripheral that starts alone is only model-checked. The answer to a start also depends on it, since
  `IncomingLlCsReq` refuses what is not ready; so `SoundingInv` is part of one inductive invariant with `AnswersUnderWay`. It says of each end
  and its peer (`Sounds`): who is secured has an initialization vector; of one configuration at most one
  LL_CS_CONFIG packet is under way in both queues together, a request finds none at the peer and a
  refusal leaves none there (`Configured`); starts are awaited, under way or reported only of configurations
  for which both ends are ready (`Started`). `Ready` could only be lost through a refusing LL_CS_CONFIG_RSP, and by `Configured` its sender has no
  configuration.

Queues are reasoned about as the sets of their tasks (`Elems`), which suffices since an answer needs only to be somewhere in the queue;
only the uniqueness of configuration packets is positional. `LinkAgrees` and `SoundingAgrees` are only model-checked.

## Scanning, initiating and synchronizing: `LeScanner`, `LeObserver`

**What they model.** `LeScanner` is one controller's side of `le_controller.cc`: the filter accept
list and its checks (`CheckScannerFilter...`), the resolution of private addresses, legacy and extended
scanning with duration and period, duplicate filtering, fragmentation of extended reports, scan requests and responses,
the initiator of LE Extended Create Connection, and the periodic synchronizations with their list and handles. As in
`LeProcedures`, operators map the state of the controller to its next state and collect the events of
the step in `out`. `LeObserver` puts such a controller `O` beside an advertiser `A`, with A's answers to scan and
connect requests (`ProcessIncoming...ScanRequest`, `IncomingLeConnectPacket`). A Tick is one step here
(`TickO`, `TickA`): it runs the due tasks, hands each packet to the other side, and ends with `LeAdvertising`
or `LeScanning`; commands and the two kinds of expiry come in between. The history `host` has what O's host was
told: reports since scanning was enabled, handles of syncs, Create Sync commands not yet concluded.

**Abstractions.** An address is a device and a kind (public, random, resolvable). Data is its length, with the real
limit of 229 octets in a report. A timer is running or expired. A's sets are fixed by the
usage (`LeAdvertisingSets` has the commands that make them) and start and stop at any time.

**Run.** `observer`: eleven kinds of hosts (legacy scanning with resets and restarts; timed and periodic scanning of data
that need one, two and three reports; every filter policy with a list of one place; private addresses on
both sides; directed advertising; synchronizing by name and by list with two trains; initiating
with every filter policy and own address type, with and without a resolving list entry of the peer). `SyncHandles` and the lists have one or two places so that they fill.

* `ReportedOnce`: with duplicate filtering a PDU is reported once per period, advertising and scan response alike.
* `ReportsWhole`: the fragments of a report add up to the data, only the last is marked complete.
* `ReportsAsked`: a report passes the scanner's filter policy and list, and a response is reported
  only for a request, with the properties of the advertisement it answers.
* `SyncsKnown`: syncs, handles and the host's knowledge agree; each Create Sync is concluded once.
* `AddressChecked`: an `ASSERT` on the random address fails only for the initiators whose random
  address LE Extended Create Connection does not check (below); for scan requests none fails.
* `ScanningEnds`: a scan with a duration and no period ends unless the host restarts it, and an unanswered scan
  request does not block its address for ever. Fairness: `TickO` (the timer of `TestModel`) and the two expiries (time passes), all weak.

**Seen while modelling**, and the reason for conditions in the properties:

* LE Extended Create Connection with `RESOLVABLE_OR_RANDOM_ADDRESS` does not check the random address with the
  filter accept list, nor for a peer with a resolving list entry (`le_controller.cc:1862`), while line 5166
  asserts it in both cases and the comment above says it was checked; `USE_FILTER_ACCEPT_LIST_WITH_DECISION_PDUS`
  accepts no PDU and so never gets there. `tlc -config ObserverForgetful.cfg MCLeObserver` shows it
  (`NeverAborts`, which says what the comments say; `AddressChecked` excepts exactly these initiators).
* Requests pending for a response are found by address only (6163): of two sets with one address the response of one is
  reported with the properties of the other. Hence `DistinctAddresses`.
* Synchronizing by list may establish two syncs with one train, against the comment at 5295.
* `LeSynchronization` (6306), which would end a sync that is lost, is never called.
* LE Add Device to Filter Accept List appends an entry twice, and a removal erases one of them.
* A deferred Sync Established of a cancelled Create Sync survives HCI Reset.
* LE_CONNECT takes the parameters of the 1M PHY even if only others were asked for (5185).
* A directed scannable set whose target is a resolvable address answers no scan request (6086).
* A connect request that is not answered is never given up.

Nothing is proved about these modules.


## What is only model-checked, and what is not modelled

Liveness is only model-checked, and so is everything said of `LeIso`, `IsoParameters`, `LmpPairing`
and `LeObserver`. The proofs are about `LeLink`, `AsyncTaskManager`, `AsyncFdWatcher`,
`LeAdvertisingSets`, `LeBig`, `BrEdrLink` and `LeConnected`. Of these, `BrEdrLink.EndsAgree`, `LeConnected.LinkAgrees` and
`LeConnected.SoundingAgrees` are only model-checked: each compares the two ends when nothing is under way and needs an
invariant on what every packet in flight will make of the other end. A Tick of `LeObserver` is a fold over the
packets that a device has queued, and what a fold computes for every input is beyond the prover. `LmpPairing` and `LeIso` are programs of many awaits
or callbacks, whose invariants would be as long as the programs.

Not modelled:

* inquiry, remote name, features, version and clock requests of BR/EDR, sniff and hold mode: one request
  and one answer each, with a timer at most;
* the negotiation of SCO parameters, which is a choice of the acceptor in `BrEdrLink`;
* the H4 parser, the socket transports and the link layer sockets: sequential code over one stream of bytes. Its
  errors are in lengths and offsets, which tests reach better than a model that abstracts data;
* `TestModel`'s commands for devices and phys and the test channel: tables changed by the one thread that reads them;
* the advertising packet content filter and its own scanner (comparisons of bytes with masks);
* ISO data packets, and time: durations and intervals only run out or do not;
* the dispatch of HCI commands (`dual_mode_controller.cc`: a table from opcodes to the handlers, and formatting; the
  commands' entry points are mapped with the handlers they call), controller properties (constants), generated packet code and
  bindings, elliptic curve arithmetic, pcap filtering and address parsing (pure rewriting of bytes),
  sniffers and beacons (no protocol state), the desktop program (wiring and I/O).

The modules are checked on their own and meet in what they assume of each other: `LeConnected` starts from
a connection that `LeLink` makes, `LeObserver` and `LeLink` assume advertisements that
`LeAdvertisingSets` produces, `LmpPairing` runs over a connection of `BrEdrLink`. No run
composes them, since the product of their state spaces is out of TLC's reach.
