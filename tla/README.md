# A TLA+ model of ljfxznode

ljfxznode is a proxy node: it pulls its configuration and its users from a panel,
runs an embedded Xray core that serves them, enforces per-user device limits, counts
traffic and reports traffic and devices back. This directory models the parts of it
in which several goroutines, an unreliable network and a panel with a mind of its own
meet; the modules are translated from the code, line by line where `PROJECT.json`
("map") says so.

## The system

| Part | Code | State | Operations | Talks to |
|---|---|---|---|---|
| Device limiter | `limiter/limiter.go` | per-user limits, connection counts per address (sharded), cooldown list and its counter, global table and alive list of the panel, gate locks, throttles | `TryOpenConn`, `ConnOpened`, `ConnClosed`, `kickDevice`, `UpdateUser`, `UpdateGlobalDevices`, `SetAliveList`, `purgeExpiredCooldowns`, `LocalDeviceSnapshot` | called by the dispatcher, the controller and the WebSocket client; calls back into both to kick |
| Dispatcher | `core/xray/app/dispatcher` | link managers, traffic counters | `getLink`, `DispatchLink`, `routedDispatch`, `KickByUserIP`, `CloseAll`, `CloseByIP` | limiter, Xray |
| Speed limits and rules | `limiter/limiter.go`, `limiter/rule.go`, `common/rate` | token buckets per user, rules | `determineSpeedLimit`, `CheckLimit`, `CheckDomainRule` | called by the dispatcher |
| Periodic task | `common/task/task.go` | running, stop channel, in-flight mark | `Start`, `Close`, `executeWithTimeout` | runs the controller's tasks |
| Controller | `node/controller.go`, `node/task.go`, `node/user.go` | user list, node info, tag, last report's hash, pending traffic | `Start`, `Close`, `nodeInfoMonitor`, `reportUserTrafficTask`, `reportDevicesTask`, `removeUsersByIDs`, `addUsersByWS` | panel client, core, limiter |
| Panel client | `api/panel` | ETag, response hash, WebSocket connection and its queue | `GetNodeInfo`, `GetUserList`, `ReportUserTraffic`, `WSClient.Run`, `SendDeviceReport`, `SendKickReport` | the panel |
| Xray core | `core/xray` | inbounds, their users, uid map | `AddNode`, `DelNode`, `AddUsers`, `DelUsers`, `GetUserTrafficSlice` | dispatcher |
| Certificates | `node/cert.go`, `node/lego.go` | files of certificate, key and ACME account | `requestCert`, `renewCertTask` | the ACME server; the core reads the files |
| Process | `cmd/server.go`, `node/node.go`, `conf` | core, nodes, configuration, reload channel | start, reload, exit, `Conf.Watch` | everything |

What is hard here: the device gate is a check-then-act over three tables and two
locks with an asynchronous eviction; device changes are marked with one bit that a
report round reads and clears without a lock over both; the user list is changed by
two goroutines (poll and WebSocket) which each update list, core and limiter in
several steps that can fail; traffic is read and reset in two steps and retried over
a network that loses answers; tasks restart themselves from inside; a connection holds
its limiter, its bucket and its link manager while users, nodes and the whole core are
replaced under it; a reload replaces everything while the watcher keeps signalling;
certificate files are written in several steps that a crash may end. `PROJECT.json`
("hazards") lists these places one by one.

## The modules

Each component module is a state machine: one action for each stretch of code
between two points where another goroutine can interfere (a lock operation, an
atomic, a channel operation, a call over the network). Users, addresses,
connections and goroutines are model values. A definition whose name begins with
`Bug_` is not part of a model: it is a plausible fault of the definition after it,
used to see that a property notices it.

**DeviceGate** follows every connection (`pc`, `req`, `seen`) through `CheckLimit`,
`TryOpenConn` (gate lock), `checkDeviceGate` (`ReadGlobal`, `ReadLocal`,
`ReadAlive`), `ConnOpened`, `AddLink`, its end and `ConnClosed`, against the
evictions (`kicks`: first `KickDeviceLocal`, then `KickDeviceCooldown` under the
lock), purges, `sync.kick`, `sync.devices`, the alive list and the six steps of
deleting a user. `ref` is `refShards`, `cool` the cooldown list (an entry is active
until its time is over, then expired until purged), `coolCount` its atomic counter,
`global`/`fresh` and `alive` the panel's data, `gate` the holder of each shard lock,
`throttled` the shards that kicked within the last second. Time is an action
(`Tick`). UDP sessions are judged by the gate, and neither locked nor counted, as in the
code.

**DeviceLimit** is what the gate promises, in fifty lines: a set of devices per user,
which grows by one at a time, within a limit the panel gave, and never by a banned
device. `ImplementsDeviceLimit` in DeviceGate instantiates it: `devices` are the
addresses with a count, `banned` those whose cooldown is active. A user whose limit
may be 0 (unlimited) is promised nothing.

**Dispatch** is the way of a connection *around* the gate: the limiter is looked up,
the speed limit read, the gate passed (TCP is counted), the user's bucket taken from
the cache or made, the LinkManager loaded or stored, the link added, the payload
sniffed, the limiter looked up once more for the deferred `ConnClosed`, the handler
run. Beside it one controller deletes, adds or modifies the user (`Remove`,
`CloseAll`, `Unmap`, the steps of `UpdateUser`), removes and adds the node, or reloads
(new core, new limiter); kicks close links. The state keeps the tables that are
*reachable* (the limiter in the map, the newest core's LinkManager of the user); a
connection that holds an older one is marked `"old"`, since nobody reads what it
leaves there. Three history variables name the windows the code leaves open, and the
properties show that there are no others: `late` (connections on their way to their
LinkManager when their user was removed), `stale` (a bucket stored from a limit read
before an update), `strayed` (a user deleted under a TCP connection, or a limiter
replaced between `CheckLimit` and `routedDispatch`).

**Certificate** has the three files of a TLS node and everybody who writes them: the
request of `Controller.Start` and executions of the renewal task. A write is what
`os.WriteFile` does, truncate and then fill; nothing is undone when a later step fails.
Looking for the account, registering it and saving it are steps of their own, so two
writers may both find none. The e-mail address of the configuration is taken to stay the
same, so an account that can be read is used as it is.
**Host** composes Server and Certificate: `Controller.Start` cannot go on to `AddNode`
before `requestCert` has returned, `Controller.Close` stops the renewal task and leaves
an execution in flight to itself, `Crash` ends the process between any two steps, and
`Restart` (external) starts it again with the files as they are.

**Task** is one `task.Task`: loops by number of their Start, the channel each reads
(re-read at every select, since the code reads the field), Execute goroutines with
their result, timeouts, panics. `crashed` is the process after a double close.

**DeviceReport** is `reportDevicesTask` beside the writers of the tables it reports
and the WebSocket it reports over: tables and mark change in two steps, the snapshot
is taken shard by shard, the send reads `connected`, then the channel, then puts. The
panel (external) replaces the node's devices by each report and forgets them on
disconnect. `missed` records that a table changed behind the snapshot of a round.

**UserSync** is `nodeInfoMonitor` step by step beside the WebSocket's deltas and the
panel. A node configuration is a version number, a user is its limit; the core's
calls fail half way through their slice; `tainted` collects the users for which the
code gives no guarantee: those a WebSocket removal, a delta older than the panel's
list, a change the panel took back (the ETag is the old one again), an overlap of the two
goroutines or a failed core call concerned. `dropped` is set by the steps that lose a
configuration whose hash is stored, when they fail (decoding, the user list, `DelNode`,
rules or certificate, `AddNode` before its inbound is there), and cleared by an `AddNode`
that builds the inbound. Nothing else sets it: `ConfKept` and `ConfFollowed` notice any
other way to lose one.

**Traffic** counts bytes from the links' counters through `GetUserTrafficSlice`
(load, then reset), `pendingTraffic` and `ReportUserTraffic` to the panel's bill,
with users and node deleted on the way. `lost` books the ways in which the code
loses or repeats bytes under their names.

**Server** is the event loop with `Controller.Start` and `Close` inside it, and the
watcher with its ten-second window. Configurations are versions; a failure of file,
core, panel or certificate ends the process as the code does.

The components share the limiter and the controller's lists in the program. They are
kept apart where the code's only coupling is through values the module leaves
arbitrary: DeviceGate lets users come and go at any moment, as UserSync would do it;
DeviceReport lets the tables change at any moment, as DeviceGate would; Server leaves
out the polls; Dispatch leaves the gate's verdict open; Host leaves out the request of
a certificate in a poll's reload, which runs the same code.

## The runs

| Run | Properties | Bounds and why | Result |
|---|---|---|---|
| gate | DeviceCap, RefcountExact, CooldownRefuses, ImplementsDeviceLimit | two connections, two addresses, limit 1: the second address always finds the gate full, races and evictions follow | pass, 1.8 M states |
| gate_users | TypeOK, CoolCountExact, GateVerdict | one connection at a time, limits 0, 1, 2, deletion and re-addition at every point | pass, 1.6 M states |
| gate_liveness | AttemptDecided, EvictionLands | as gate, one connection slot, no symmetry | pass |
| task | OneExecution, RunningServed, LoopsStop, TicksResume | three Starts, two Execute goroutines: a leftover loop and execution beside the new one | pass |
| report | TypeOK, BaselineTrue, ChangeNoticed | two writers, two addresses, a queue of two (often full) | pass |
| sync | TypeOK, NothingLeftBehind, LimiterKnows, ConfKept, EventuallyFollows, ConfFollowed | two users, two limits, three changes of the panel, one failing request | pass |
| traffic | TypeOK, BooksBalance, TrafficReported | two users, two bytes each, two faults, two deletions | pass |
| server | TypeOK, InboundLimited, NodesAsConfigured, EditLoaded | four configurations over two nodes, two faults | pass |
| dispatch | TypeOK, RateFollowsLimit, LinksReachable, RemovedGone, CountPaired | two connections, TCP or UDP, of one user; own limit 0, 1 or 3 against a node limit of 2, so that each is the slower one once; any number of updates and reloads | pass, 2.1 M states |
| host | HostTypeOK, PairKept, ComesBack, PairAtStart | two configurations, one edit, one failure, one crash, two executions of the renewal: one that outlived its controller beside the next | pass, 0.8 M states |
| report_lost | NoChangeLost | | violated: finding |
| traffic_retry | FailedReportKept | one user, three bytes | violated: finding |

The two violated properties say what a comment of the repository says:

- `controller.go:243`, `limiter.go:471`: no device change is lost. One between a
  round's snapshot and its reset of the mark is. `ChangeNoticed` shows that this is
  the only leak.
- `node/user.go:18`: a failed report is retried and not lost. The body of the retry
  is a map by user; the list it is filled from has the new entries first and the pending
  ones behind them, so the old entry of a user overwrites the new. `BooksBalance` shows
  that, this aside, only the named ways lose or repeat bytes.

Three more comments say what the code does not do; the models follow the code, and the
properties name these cases as exceptions:

- `task.go:95`: after a panic the ticks go on. The panic's error ends the loop, unless
  it comes later than the timeout: the exception `~running` of `TicksResume`.
- `controller.go:312`: after a WebSocket removal the next poll repairs the list. Its
  `DelUsers` fails on the user who is gone already, and the poll stops before the list
  is replaced, every time: the exception `tainted` of `NothingLeftBehind` and
  `EventuallyFollows`.
- `conf/watch.go:35`: a panic of the reload must not take the process down. The recover
  is around the sending of the signal; the reload itself runs in the event loop, and its
  failure ends the process (`Down` in Server, followed by `Restart` in Host).

`CHECK_DEADLOCK FALSE` everywhere but in `dispatch`: bounded edits, changes and starts
run out, a process may be down, and a task may stay closed. Dispatch has no bound and
never stops.

Symmetry is used in the gate, gate_users, report and dispatch runs only, all safety:
addresses, connections and writers are told apart by no action.

### Fairness

- Goroutines that can run do (WF on the steps of a connection, a loop, the poll, the
  read loop, the reporter, the event loop). Nothing makes a client connect, a
  connection end, the panel change, an `Execute` return or a signal arrive.
- A goroutine that waits for a gate lock gets it (SF): Go's `sync.Mutex` hands a
  starving waiter the lock.
- The purge of expired cooldowns has no fairness: `DevicesDirty` calls it in a round of
  the device report only, which returns before that while the WebSocket is down
  (`controller.go:245`) and does not exist without one (`controller.go:175`). So nothing
  is claimed of when an expired entry goes; the gate ignores it anyway.
- Go's `select` takes a ready case at random, so a closed stop channel is seen in the
  end (SF on `StopSeen`).
- The service manager restarts a process that is down (WF on `~exiting /\ Restart`,
  outside of the repository: `cmd/action_linux.go` controls the program as a systemd
  service) unless it was told to exit. Crashes are bounded by
  `MaxCrashes`. An execution of the renewal has no fairness: the ACME server may hang.
- Failures are bounded by `MaxFaults`: liveness says that what failed is made good
  once failures cease.

`report` sets `SlowRounds = FALSE`: a round that has read the hash ends within the
pause of at least a second before the next connect. With `TRUE` the hash of a report
lost with the old connection can be saved after the reconnect has cleared it.

## The proofs

`tlapm` checks these for every value of the constants: any finite sets of users,
addresses and connections, any shards and limits, any number of starts.

`DeviceGateProofs` (from the assumptions DeviceGate names: finite sets, limits that
are natural numbers, alive counts likewise):

1. `TypeCorrect`, one lemma per group of actions.
2. `GateExclusion`: an attempt between verdict and count holds its shard's lock.
3. `CooldownCounted`: the counter is the cardinality of the list. A kick adds one
   exactly when the entry is new, purge and deletion subtract what they remove.
4. `NoCoolingInGate` rests on 2 and 3 (the fast path on a zero counter is right only
   if the counter is exact): a kick cannot write its entry while an attempt is inside.
5. `CooldownEnforced` is the action property that follows from 4.
6. `DeviceLimitHolds`: `DeviceCap` alone is not inductive, since an attempt about to
   count itself must find the room it saw. `GateRoom` says so; it survives
   the other actors because whoever adds a device of the same user needs the same lock.
7. `GateVerdictExact`: the constant-time bounds `checkDeviceGate` uses before it walks
   the tables never change its verdict.
8. `CountsExact`: the count of an address is the number of its connections between
   `ConnOpened` and the end of `ConnClosed`, for users who are never deleted.

`GateImplementsDeviceLimit`, in the same module, is the refinement. `InitAbstract` maps the
initial states; `ConnOpenedJoins` is the step that needs the invariants above (`DeviceCap`'s
room under the gate lock and no active cooldown), `ConnClosedLeaves` removes at most one
device, and `OtherStepsAllowed` shows that every other step changes the devices or the
bans of one user, as DeviceLimit allows, or neither.

`DispatchProofs`, for any finite set of connections and any limits. The inductive
invariant `IInv` consists of the types, of `Control` (what the controller's place says of
the tables: no limit while the user is deleted, no table without limiter), of `Holding`
for every connection (what its place says of the limiter, the LinkManager and the
deferred limiter it holds, and that a link outside of the reachable manager belongs to a
`late` connection), of `RateFollowsLimit` itself with `BucketKnown`
(a bucket outlives its user's limit only if it is stale or about to be deleted) and of
`Paired` (the count
is the number of admitted TCP connections of the limiter in the map). Four results
follow: `RateIsLimit` (with `DetermineSlowest`: the code's nested comparisons choose the
slowest positive limit), `LinksFound` with `RemovedIsGone`, and `CountsPaired`;
`DispatchTypes` is part of it.

`ServerProofs`, for any list of nodes in any version of the configuration (a tag twice
included): the inductive invariant says for each place of the event loop which prefix of
the list of tags has its limiter, its inbound and its tasks (`Starting`), and, on the way
down, that what is left belongs to controllers still to be closed (`Closing`); `AtNode`
keeps the loop within the list. `ServerTypes`, `NodesFollowConfig` and `InboundsLimited`
are read off it. All of it is about tasks that end when `Controller.Close` closes them: a
poll in flight at that moment, which may `Start` them again (`task.go:210-225`), is not in
the model.

`CertificateProofs`, for the whole process of Host, any finite number of executions of the
renewal and any number of crashes: every step of the process is one of Certificate's or
leaves the files alone (`StepsOnFiles`), and these keep `PairInv`: a writer marked `alone`
really is, and what it put into CertFile is still there (`AloneExact`). `PairHolds`
follows. `HostInv` adds what is needed of the rest:

- `ServerStep`: a crash and a restart keep the inductive invariant of `ServerProofs`, so
  what that module shows holds through them (`NodesFollowThroughCrashes`).
- `CertInv`: a writer has an issue exactly while it writes. The files and the other
  writers cannot hold all issues there are (`NewIssueExists`, by counting), so a new pair
  is a real one, and a file that is there never becomes absent (`PairStays`).
- `ReadyHolds`: the pair `requestCert` found or made is there until `AddNode`. With
  `PairHolds` this is the action property `PairIsThereAtStart`.
- `RenewalRuns`: no renewal task without its controller's tasks, part of `HostTypes`.

`DeviceReportProofs`, for any users, addresses, writers and queue. `DeviceReportTyped` needs
no further assumption; the other two are stated under `~SlowRounds`, as the run is, since
a round that outlasts a reconnect breaks them (see "Fairness"). `BaselineTrue` speaks of the
place between two rounds only; `Baseline` says for every place of connection and round what
the hash, the panel and the queue have in common, e.g. that a reconnect's callback finds no
round between its put and its save. The panel's future is the last report in the queue
(`PanelView`), so the lemmas about it (what an append, a take and a refused put do to
it) carry the step. `ChangeNoticed` needs `Snapped` besides: for each user, how far the
snapshot has come in the two passes over the shards says what it shares with the tables as
they are now, unless `missed`.

`UserSyncProofs`, for any users and limits, any number of changes and failures. For a user
that is not `tainted`, `Keeps` says at every place of the poll what list, inbound and limiter
hold, and what a delta under way still owes (`Adding`); `DiffFits` ties the computed
difference to the lists it was computed from, which is stale at once if a delta comes
between, and that is what `Overlap` books. `Fetched` ties the ETag to the list,
`Versions` the hash to the configuration: what was fetched last is built, is being built,
or was lost by a step that failed (`dropped`). `NothingIsLeftBehind`, `LimiterKnowsUsers` and
`ConfIsKept` are read off it; the last is the safety half of `ConfFollowed`.

`TrafficProofs`, for any users, threshold and amounts. The slices are sequences of any
length, and what a user has in one is a sum defined by recursion: `SumsExist`, `SumsAre`,
`BytesConcat`, `BytesAppend` and `BodyBound` (the body never bills more than the slice holds)
are proved by induction on sets of numbers (`LeastNat`, `InductionOnSets`). `BooksBalance`
is inductive with three facts: `OrphansSound` (orphan counters exist only during a walk that
a deleted node left), `LoadedSound` (between Load and Store(0) the counter only grows: what
is lost there is never negative) and `MergedSound` (nothing waits in `pendingTraffic`
while a report is posted, so a failed one may take its place). Each action is
a lemma about the books of one user.

`TaskProofs`: `TaskTypeCorrect`; `ExecutionsExclusive` from `InFlightExact` (the mark
covers the goroutine from before it starts until after it ends); `RunningIsServed`
from `WatchBounds` (a loop reads no channel older than its own Start's, and none
newer than the last).

Assumptions on `None` (UserSync, DeviceReport) say only that the value that stands for
Go's nil is no limit, list, snapshot or queue; the sets of connections, users of the gate
and renewals are finite; bounds are natural numbers. The runs of the module evaluate them.

Every invariant and every action property of the passing runs, and the refinement, is
stated by one of these theorems. Only model-checked are the liveness properties: fairness
and `ENABLED` are beyond the prover.

## Not modelled

The content of sniffing, routing and audit rules, the tokens of a bucket, the ACME
exchange, status readings, building of Xray configurations, JSON and HTTP, the command
line tools: data without concurrent state of their own, or I/O; their failures appear as
faults. Of the modelled parts: a change of a node's tag (treated as a reload), the length
of the reconnect's backoff, pings, the threshold of the traffic report between `DelNode`
and `AddNode` (0), deltas with several users (one at a time), two identical kicks at the
same moment (one element of a set), and several users of one dispatcher (they share
nothing). Left out because no module has both sides: a poll in flight when
`Controller.Close` stops the tasks; in Dispatch, a `DelNode` that fails at the outbound and
returns before it closes the links, and sub-connections of a multiplexed carrier that was
authenticated before its user was removed; in Traffic, what is in `pendingTraffic` when
the controller is closed; in Server, an edit that yields no event of fsnotify (a rename
over the file). `PROJECT.json` ("components", "hazards" with a note) has the details.

## Plan

1. Done: DeviceGate with the DeviceLimit it implements, Task, DeviceReport, UserSync,
   Traffic, Server, Dispatch, Certificate and Host, each with its proofs.
2. Open: a module for the WebSocket client (backoff, silence timeout, shutdown) with two
   controllers, for the process-wide kick reporter; Task composed with Controller.Close,
   for a poll in flight that restarts closed tasks; the alive report over REST.
3. Open proofs: abstract specifications of the report and of the traffic accounting and
   that DeviceReport and Traffic implement them; the safety part of `LoopsStop` (a closed
   channel is never read by a loop that goes on).
