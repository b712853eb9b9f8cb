# Verification of orbitproxy-go

orbitproxy-go is the Go SDK that connects a machine behind NAT to an OrbitProxy
edge: it keeps one control connection to the edge, receives endpoint
configurations over it, carries the traffic of those endpoints over further
yamux sessions, and runs MCP servers as child processes behind an HTTP bridge.
This directory holds TLA+ models of its parts, TLC runs that check them on small
instances, and TLAPS proofs of the invariants that matter most. `PROJECT.json`
maps every definition to the source lines it translates.

## 1. Inventory

Names in the table are files under `src/`.

| Part | State it keeps | Operations | Talks to | Module |
|---|---|---|---|---|
| **Service loop** `service/service.go`, `dial_gateway.go`, `internal/backoff` | `ctx`, `ctl`, `doneCh`, `err`, attempt counters | Start/login, loginWithBackoff, keepGatewayConnectionAlive, Close, hooks | dials the edge, owns one Control, shuts the exec pool down | `ServiceLoop` |
| **Control session** `internal/gateway_ctl/control*.go`, `dispatcher/` | yamux session, send queue, `doneCh`, permanent flag, manager | worker, readLoop, sendLoop, handlers | the edge; the endpoint manager | `ControlChannel` (and `ServiceLoop`) |
| **Data sessions** `gateway_ctl/data_session.go` | one goroutine per session | dial, hello/ack, accept loop | the edge, endpoint runtime | `ControlChannel` |
| **Endpoint manager, runtime, listener** `internal/endpoint`, `service/listen.go` | endpoint table, notify channel of capacity one, claimed listener, accept buffer, bridge | HandleNewEndpoint, HandleCloseEndpoint, Listen, Offer, Accept, Close, watchEndpoints | control handlers, application, exec pool | `Endpoints` |
| **Health** `internal/health`, `endpoint/runtime.go` | `statusOK`, `failedTimes`, one monitor per runtime | checkWorker, Stop, reportHealth | control session | `HealthReport` |
| **Exec session pool** `internal/mcp/mcpstdio/pool.go` | `sessions`, `creating`, `epCount`, `configs`, `globalCount`, `stopped` | GetOrCreate, Invalidate, RegisterEndpoint, UnregisterEndpoint, reapIdle, CloseAll | HTTP bridge, sessions | `ExecPool` |
| **stdio session** `mcpstdio/session.go`, `jsonrpc.go` | pending requests, closed flag, exit channel | NewSession, Call, readLoop, waitProc, Close | the child | `SessionCalls` |
| **Children and files** `mcpstdio/spawn.go`, `shutdown.go`, `internal/proclife` | child process, pid file, executable | Spawn, Shutdown, RecordPID, RemovePID, CleanOrphans, Update, Restart | the kernel | `ProcessLife` |
| **HTTP bridge** `mcpstdio/bridge.go` | none | HandleWorkConn | pool, session | `ExecPool` |
| **Discover, preflight, tool schema** `internal/mcp/...` | a request's listing | page through tools/list, check a command, sanitise schemas | control handlers, a temporary session | `ToolListing`, `ToolSchema` |
| **Diagnostics** `mcpstdio/diagnostic.go` | tail buffer, deduplicator | append, classify | session | - |
| **Wire, join** `wire/`, `internal/stream` | none | framing, signatures, byte copies | all sessions | - |
| **API, environment** `start.go`, `register.go`, `internal/userenv`, ... | files | register, paths, logging | machine API | - |

What is hard in it:

* The pool releases its mutex for the seconds a child takes to start, and again
  for each Close. Requests, reaper, CloseAll and configuration changes all act
  in those windows, and four of them move the same process counter.
* Waiters block on a flight's channel with no timeout, so every path of a
  creation has to end it.
* The service loop, Close (from any goroutine) and the worker, reader and writer
  of a control session act on the same fields; every read of `svr.ctl` or of the
  context can be stale one line later.
* Edge commands (Disconnect, Stop) race with the loss of the link that carried
  them; handlers that run as goroutines race with later messages, and all of them
  share one bounded queue.
* A response, the request's timer, Close, and the exit of the child race for a
  pending call; Dispatch sends on the call's channel outside the lock.
* A connection offered to a listener races with Accept, Close and the removal of
  the endpoint; one notify channel of capacity one has several receivers.
* A health monitor is stopped without being waited for.
* Crash recovery of children depends on a pid file written after the spawn, by
  truncate and write.

What makes each part correct: slots of the pool are neither lost nor given
twice and no child process is left without someone who will close it; a request
always returns; the client holds at most one control session, replaces a lost
one, stops when told to stop, and reports truthfully to its hooks; a pending
JSON-RPC call gets its own answer or an error, exactly once; a connection
offered to a listener is accepted or closed; health reports follow counted
failures; recorded orphans are found; a listing is complete or says it is not.
The hazards, each at its line and with the properties that would catch it, are
listed in `PROJECT.json`.

## 2. Modules

Each specification also holds a few operators commented `Fault:`, variants of the
definition below them with a plausible programming error. They are not used by
the specification; `PROJECT.json` pairs each with the property that must fail
when it takes the definition's place. `MC...` modules hold the instances for TLC.

Time is abstracted everywhere: a timer or a timeout is a step that may be taken
whenever the code would wait for it.

### ExecPool, SessionLife, ExecPoolProofs

One step is one critical section of `Pool.mu`, or one step outside it that other
goroutines can observe. The variables carry the names of the Go fields.
`creating` is a `createFlight`; a flight and the session it produces have the
same identity, `stage` says how far `NewSession` got (begun, handshake, settled)
and how it ended. `closer` records which code path has taken a session out of
the map and still has to call `Close` on it: in the source this is a local
variable of that path or the goroutine started for it.

| Action | Source |
|---|---|
| `Request`, `GetStopped`, `GetHit`, `GetMiss`, `GetWait`, `GetRefused`, `GetCreate` | `HandleWorkConn` up to the end of the first critical section of `GetOrCreate`: refusal when stopped, a live session, the removal of a dead one, then a flight to wait for, a refusal (limits, no configuration) or a new flight |
| `SpawnFails`, `Spawn`, `HandshakeFails`, `Settle` | `NewSession` |
| `CreateFailed`, `Install`, `FlightDone` | the critical section after `NewSession`, and the waiters it wakes |
| `AnswerLocally`, `StartCall`, `CallReturns`, `CallDies`, `Invalidate` | what the bridge does with the session, and `Pool.Invalidate` after a failed call |
| `RegisterEndpoint`, `UnregisterEndpoint` | with `closeEndpointSessionsLocked`, whose Closes run in goroutines |
| `CloseBegins`, `CloseEnds`, `ProcExits` | `Session.Close` and the child's exit, spontaneous or caused |
| `ReaperStep` | the two phases of `reapIdle`: collect under the lock, then remove and close one key after the other |
| `CloseAllStops`, `CloseAllStep` | `CloseAll` |

Sessions are numbered from a finite set `Sids`; when none is fresh no creation
starts. Configurations have the part that `configChanged` compares (`spawn`) and
the part it does not (`extra`).

`SessionLife` is what the pool promises about each session, without keys,
callers, configurations or closing goroutines: a session is started in a free
slot (or in the slot a dead one has just left), is opened at most once, leaves for
good, and is over only when its child has ended; a failed start leaves no child. A
session that leaves gives its slot back at once (`Drop`) or with its Close
(`Detach`), which is the difference between Invalidate or the reaper and a
configuration change or CloseAll. `ImplementsSessionLife` states the refinement:
`Life` is read off the map, the flights and `closer`, the slots are `Counted`.

### ServiceLoop, ServiceLoopProofs

`loop` is the position of the goroutine that runs `loginWithBackoff`, `login` and
`keepGatewayConnectionAlive`. Start runs the first login on its caller's
goroutine before the loop exists, so one position stands for both. Every
place where another goroutine can change something the loop has just read is a
step boundary: between dialling and `NewControl`, between `NewControl` and the
assignment of `svr.ctl`, between the test of the context and `getCtl`, and so on.
A control session has its yamux connection, its worker, its reader, its
dispatcher's done flag, its own `Done`, the permanent flag, and the sleep inside
`handleStop`. Close is three steps (cancel the context, `stopCtl`, `finish`), by
any number of goroutines.

The edge, dialling, sleeping and the link are the environment: a link may be lost
at any time, and the edge may send Disconnect or Stop on a session at any time.
Only the last session within the bound `MaxControls` keeps its link, so that a lost
one can always be replaced.

### Endpoints, EndpointsProofs

The endpoint manager with its runtimes and listeners, the read loop that installs
and removes endpoints, Listen calls of the application, work streams, and the
watcher and login that call `OnEndpoints`. A payload is what `ResolveDelivery`
and `ParseExecPayload` look at: the delivery it names, whether it has a command
and a local address. `upsert` and `delete` hold `m.mu` over several steps
(`reader.op`), because a runtime has a mutex of its own and Offer, Accept and
Close take none. A listener is identified with the Listen call that claimed it.
A connection walks from `StartWorkConn` over the routing by delivery to the
bridge, the local dial, or the three stages of Offer; `late` marks one that was
put into the buffer of a listener that was already closed. `Setups` are the
situations a behaviour may start from: whether the application set `OnEndpoints`
(`Hooked`), which connections and Listen calls take part, and how many messages the
edge sends. `excused` is history: a Listen has taken the token meant for the watcher,
or a login has shown an older snapshot, since the watcher last showed all there was.

### SessionCalls, CallReturn, SessionCallsProofs

One stdio session: the handshake is a call like those of the clients, with the id
1. `Call` is entered, registered, written and waited for in separate steps;
`Dispatch` takes the entry under the lock and sends after it (`reader.at =
"dispatch"`), so timers and `CloseAll` come between. The child is the
environment: it answers any request it has read, twice, late or never, writes
other lines and lines that are not JSON or too long, stops reading, and exits at
any time. When `Wait` returns it closes the pipe, and any suffix of what the child had
written may be lost.

`CallReturn` is what callers rely on: a call begins, the child may serve it, and
it ends once, with an answer only if it was served. `ImplementsCallReturn` states
the refinement: `idle`, `pending`, `answered` and `failed` are read off the
program counter and the result of each call, and `served` is the same set in both.

### ControlChannel, ControlChannelProofs

One control session after its hello: `readLoop` with the handlers it runs itself
(NewEndpoint, CloseEndpoint, Disconnect), the goroutines of the asynchronous
ones (discover, preflight, ExecPreflight, Stop, Restart, Update), the send queue
with its capacity, `sendLoop`, `worker`, and the runners of data sessions in
`backoff.Loop`. A script gives the kinds of the messages; their order is the
edge's choice. A `report` is a diagnostic or a health report sent by the client by
itself; `halt` is a Stop without a request id; `incomplete` is a message that is
dropped. The endpoint table is one flag, because what matters is whether a handler
finds the endpoint of an earlier message.

### HealthReport, HealthReportProofs

One endpoint: its runtimes, one monitor for each start of one, sessions that come
and go, and what the edge was told last (`view`). A monitor probes, judges,
reports and waits as `checkWorker` does; `reportHealth` looks its sender up in one
step and sends in another. `late` records that a monitor which was already
stopped sent the last report. Reports come from the monitors only: `ReportUnhealthy`,
for failed dials, is called by no code. `failed` is `failedTimes`, which runs on past the
threshold (up to the bound `MaxFailed`) while the endpoint is not healthy; the history
`missed` counts the failures since the monitor last turned healthy.

### ProcessLife, ProcessLifeProofs

The kernel's processes by pid, the pid file with its lock, sessions from Spawn to
the removal of their record, and updates of the executable. A write of the file
is two steps (truncate, content), and the program may end between any two steps
of anything; then children become orphans, and the next start runs
`CleanOrphans` before a new pool exists. A session of `Discoveries` may keep no pid
file. A pid that is free may be given to a stranger, or to the next child while a
session whose child had it (`gone`) is still to remove its record. Reads and writes of
the pid file may fail, with the error ignored as the code ignores it; `dropped` is
history: the sessions that lost their record by that, or by the `RemovePID` of an equal
pid. A kill by `CleanOrphans` may fail, or return before the process has ended
(`killed`: Wait does not wait for a process that is no child); the file is emptied all the
same. An orphan whose record is gone is `lost`. An update fetches the
archive, copies it to `<exe>.new` and renames that; `owed` says which parts of a
file are still to be written, by whom. Opening `<exe>.new` cuts it, so what an
update that is gone left there does no harm; `overlap` records that two updates
have been between opening and renaming it at once.

### ToolListing, ToolSchema, ToolListingProofs

One request of the edge (DiscoverTools, Preflight, ExecPreflight) under its
deadline: the command check with everything it may find, the environment file,
the temporary session or the HTTP handshake, and `ListToolsViaTransport` from
cursor to cursor. The server's pages are a book whose cursors may lead anywhere.
A tool is named by its page and its place there, so that the order and the
repetitions of a listing can be seen. `Facts` is what the command check may find on
the machine: of a package only where a directory of its name lies. Whether npx or uvx
would find it there is not modelled, so no property says that the check is right.

`ToolSchema` is the schema sanitiser on JSON values (null, scalar, list, map). The Go
code changes the maps in place and recursively; the model is the function from the
value before to the value after, `SanitizeJSONSchema`, with one operator for each Go
function, which has the results for smaller schemas as its argument `f`. `JSON` is the
set of values a server may send, closed under what is in them, and `Depth` says how deep
each is nested. `Twins` are the places where a schema is expected, each as the pair of
what is there before and after; `SchemaRepaired` speaks about these pairs.

## 3. Runs

"pass" runs end without an error; "violation" runs check one sentence of a
comment of the repository that the code does not keep, and the finding in
`PROJECT.json` quotes that sentence.

| Run | Instance | What holds |
|---|---|---|
| `pool` | 2 callers, 1 key, 2 sessions, 1 slot | `GlobalCountExact` (the counter is the number of slots held), `NoOrphanProcess`, `SingleOwner`, `EpCountNotOver`; `ImplementsSessionLife`, `RequestReturns`, `RemovedIsClosed` |
| `service` | 2 closers, 2 control sessions, 1 failed dial | `OneSession`, `EndIsTold`; `ReconnectCount`, `NoDialAfterMark`, `LossRepaired`, `CancelEnds` |
| `endpoints` | 1 endpoint, 4 payloads, buffer of 1, three setups: 2 connections and 1 listener over 3 messages; 2 Listen calls and 1 connection over 2; the watcher, a login and a Listen over 2 | `OneOwner`, `CloseDrains`, `ExecInSync`; `ConnSettles`, `ListenServed` |
| `session_calls` | the handshake and 2 calls with its id, 3 lines of the child | `AnswerIsOwn`, `SendIsSafe`; `ImplementsCallReturn`, `CallEnds` |
| `control_channel` | 6 scripts of up to 4 messages, queue of 1, 1 data session | `AnswerKept`, `SeesItsPrefix`; `ReaderGoesOn`, `TearsDown`, `RunnersEnd` |
| `health_report` | 3 configurations, 2 installs, 2 sessions, failures counted to 3 | `OneMonitor`; `UnhealthyEarned`, `UpShown`, `DownShown` |
| `process_life` | 2 pids, 2 sessions (1 may keep no pid file), 2 updates, 2 ends of the program, failing kills, reads and writes; pids are symmetric, and so are updates (`Alike`) | `ChildRecorded`, `OrphanFound`, `ExeWhole` |
| `tool_listing` | 23 books, 9 shapes of request, every finding of the command check, schemas of depth 3, limit of 3 tools | `ChildReturned`, `ListingComplete`, `SchemaRepaired`; `RequestEnds` |

Every specification has a type invariant, `TypeOK`. All eight are proved, so no run
repeats them.

| Violation run | What the code does |
|---|---|
| `pool_FreshConfig` | a creation begun before a configuration change installs a session of the old one |
| `service_CloseTearsDown` | Close during a login leaves the new control session open |
| `process_StrangersSpared` | CleanOrphans kills a program that was given a recorded pid: the start time is never compared |
| `endpoints_HookCurrent` | a waiting Listen takes the token that announced a change, and OnEndpoints is not called for it |

### Known deviations

Other behaviours the models have, which shape the properties that were chosen:

* `CloseAll` tests `stopped` only on entry of `GetOrCreate`: a creation in flight
  installs its session after the snapshot, and nobody closes it.
* `Invalidate` goes by key: a failed call may discard the live session that
  replaced its own. The reaper, too, does not look at a session again when it
  comes to close it. The request hit by either fails and returns
  (`RequestReturns`), and the session is closed (`RemovedIsClosed`).
* Invalidate, the removal of a dead session and the reaper give a slot back
  before the child has exited, so more children than `MaxGlobalProcesses` can run
  for the time of a Close. `GlobalCountExact` and `ImplementsSessionLife` speak of
  slots.
* `closeEndpointSessionsLocked` deletes the endpoint's counter under a creation in
  flight, so it can be lower than the number of sessions. `EpCountNotOver` says it
  is never higher: the drift admits too many and never blocks a request.
* A Stop or Disconnect is lost when the link drops before the mark is set: in
  `handleStop`'s 300 ms, or while a failed write ends the dispatcher before the
  reader reaches the message. What holds is `NoDialAfterMark`.
* A login that read the manager before Close brings it back: the next Close calls
  `CloseAll` on the same pool again, whose `close(p.stopCh)` panics.
* When Close ends a running loop, `Err` is nil as `Done` closes and becomes the
  context's error afterwards. A loop ended by its context calls no hook. During
  the first login the first attempt reported is 2; later outages count from one.
* An Offer that passed its check before Close may send after it: the connection
  is stranded in the buffer (`late` in `CloseDrains`). A listener the application
  closed stays claimed; a Listen may claim from a runtime that was just removed.
* OnEndpoints may also be shown an older snapshot last by a login; that and the
  Listen of `endpoints_HookCurrent` are the only ways to miss a change
  (`ChangesAnnounced`). `watchEndpoints` ends with the context alone, which a permanent
  disconnect does not cancel (`service.go:318-343`): OnEndpoints may be called after
  OnDisconnected. `EndIsTold` speaks of the other hooks and of Done and Err.
* `health/doc.go:6-9`, `health/probe.go:16-18` and `wire/endpoint_health.go:3-5` say that
  process death and failed dials mark an endpoint unhealthy too; `monitor.go:10`,
  `endpoint/runtime.go:107,112,147` say that only probes do, and so does the code. The
  model follows the code. An exec endpoint without a probe is never reported unhealthy.
* A stopped monitor may report last (`late` in `UpShown`, `DownShown`), and a
  monitor that has never seen its service up reports nothing when it is down:
  after an update the edge keeps the old verdict. Failures need not be
  consecutive to add up to the threshold while the service counts as healthy.
* A data session outlives its control session until the edge closes it.
* A line over 4 MB ends `readLoop` while `Alive` stays true; later calls end by
  their timeouts only. A child that stops reading stdin holds a writer, and those behind
  it, until Close or its exit: neither the call's timer nor its context ends the write,
  and every new request renews the session's activity. `RequestReturns` therefore
  excludes a call on a child that is alive.
* A crash between Spawn and RecordPID, or between the truncation of the pid file
  and its new content, leaves orphans nobody finds. So does a failed read in
  `RecordPID`, which writes the new record over all the others; its errors are ignored
  (`session.go:78`). `RemovePID` goes by pid: when a dead child's pid was given to the
  next one, it drops the record of the living. `CleanOrphans` empties the file even if
  a kill failed (`shutdown.go:150-160`), and does not wait for the end of what it
  killed. `ChildRecorded` and `OrphanFound` say what is left: no interleaving of
  sessions and no crash inside `CleanOrphans` loses a record. Two concurrent updates write
  the same `<exe>.new` and may leave a torn executable (`overlap` in `ExeWhole`).
* A missing `npx` is reported as `package_not_installed`, with CommandFound and
  CommandExecutable true. `command.go:57-59` names the global and the workDir
  `node_modules`; the code also looks in npx's own lib, the current directory and home.
* `{"items": {"properties": {}}}` becomes `{"items": {}}`: the empty `properties` is
  deleted after the place was looked at, and the `{}` stays. `sanitize.go:4,10,17,73-74`
  and `sanitize_test.go:45-46,219` rule such an object out. `SchemaRepaired` makes no claim
  about it: it says that every null and `{}` of the server is replaced.

**Bounds.** Two callers are one creator and one waiter, or two callers holding
different generations of a key; two sessions let one be replaced while the Close
of the other is pending, and a limit of one is in reach of every request. The
pool's invariants and its refinement are proved for every instance, so the run is as
large as its liveness needs. `pool_FreshConfig` has three sessions and a changing
configuration. Two control sessions are a session and its successor; two closers
meet each other in Close. Two messages install, change or remove an endpoint, three
go through every pair of changes of delivery; two connections fill a buffer of one. The
setups of `endpoints` keep apart what does not meet: connections meet one listener
each, and no connection meets the watcher.
Three lines let the child answer both calls and the handshake, or one of them
twice. A queue of one is full as soon as two handlers send. Two installs are a
runtime and the monitor of its update, or its successor; thresholds of 2 and of 0
(which the code reads as 1) are met exactly, and a count of 3 goes past them. Two pids
for two sessions and the strangers make reuse the normal case. Two ends of the program let a crash hit the
recovery from a crash. A limit of three tools is met inside a page, at a page's
end, and before a page without tools; schemas three levels deep have every keyword
inside every other, and their values are nested six deep at most (`MaxDepth`).

**Fairness.** Weak fairness only, and only of steps the program takes by itself:
goroutines that can run do, timers fire, a dial that is cancelled ends.
`Session.Close` ends in SIGKILL, so the exit of a child whose session is closed is
fair; a spontaneous exit is not. Requests, configuration changes, shutdown, lost
links, edge messages, Accept and Close calls of the application, answers of the
child and what the local service does are never forced. Neither is the return of a call
on a living child (`CallMayHang`: nothing bounds the write), the end of a stream the
bridge or the join serves, an error on an open connection, or what the
reaper finds, which is idleness. In `service` the bound on
failed dials stands for an edge that can be reached again; without it a client
may retry for ever, which is what the code means to do. `RunnersEnd` assumes that
the edge closes the data session, `UpShown` and `DownShown` that the service stays
as it is and the runtime watched. `ProcessLife` states no fairness: what it says is
safety across ends of the program at any point.

**Deadlock** is checked in `pool_FreshConfig` only. In the other instances the
system really may stop: a service that ended, a session whose child has exited, a
request that was answered, a pool whose finite supply of sessions is used up.

## 4. Proofs

The proofs hold for every value of the constants that satisfies the named
assumptions: any sets of callers, keys and endpoints, a finite set of sessions
and positive limits (`PoolAssumption`, `ConfigAssumption`); any number of control
sessions, failed dials and closers (`ServiceAssumption`); any configurations,
numbers of NewEndpoint messages and sessions, and any bound on the failures counted that
is above every threshold (`HealthAssumption`); any finite set
of calls with any client ids (`SessionAssumption`); any pids and sessions, a finite
set of updates, any number of ends of the program (`ProcessAssumption`); any
endpoints, payloads, connections, Listen calls and buffer size
(`EndpointsAssumption`); any finite set of messages and any capacity of the queue
(`ChannelAssumption`); any books, requests and limit of tools, and any findings of the
command check (`ListingAssumption`); any set of JSON values that has what is in them and is nested no
deeper than some number (`JSONAssumption`).

**`ExecPoolProofs`.** `GlobalCountExact` says that `globalCount` is the number of
sessions that hold a slot: those in the map, those being created, and those whose
slot is given back only after their Close (configuration changes and CloseAll;
Invalidate, the removal of a dead session and the reaper give it back before). By itself
it is not inductive. Removing key `k` lowers the count by one only if the
session under `k` is under no other key, and installing a session keeps it only
if the flight was not in the map already. `PoolInv` adds what that needs:

* `StageInv`: stage, process and closed flag of a session fit together, and only a
  finished session is owed a Close;
* `MapInv`: an installed session is ready, open, under one key, owed no Close,
  and its key has no flight;
* `FlightInv`: a flight is unfinished, belongs to one key and to one caller;
* `NoOrphanProcess` and `GlobalCountExact` themselves.

Theorems: `PoolInvariant` (`Spec => []PoolInv`), and from it `TypeCorrect` (which
includes `globalCount \in 0..MaxGlobalProcesses`: the limit holds for the
counter), `Accounting`, `NoOrphans`, `Ownership`, and `EpCounting`: until
CloseAll, the counter of an endpoint never exceeds its keys with a session or a flight. There is one
lemma per group of actions; the lemmas on cardinality cite `FiniteSetTheorems`.

`PoolRefinement` (`Spec => ImplementsSessionLife`) follows from `PoolInv` step by step.
`MapInv` and `FlightInv` make `Life` well defined, that is, an installed session is
neither in flight nor owed a Close; a removal is a `Drop` or, with the new
flight of the same critical section, a `Replace`; a configuration change or CloseAll is
a `Detach` of the sessions it takes; `GlobalCountExact` turns the test of the counter
into the free slot that `Create` asks for, so the limit is one on sessions and no
longer only on a number. Everything else is a stutter.

`WaitersHaveFlights` is the safety half of `RequestReturns`. `WaitInv`: every flight has
the caller that runs it, a waiter's flight is done or still under its key, and
the bridge holds established sessions only. A waiter blocks without a timeout, so
what remains for fairness is that the builder goes on.

**`ServiceLoopProofs`.** `OneSession` needs to know where the loop is when it
dials. `ServiceInv` adds

* `HeldInv`: only the session dialled last can be held, and none while the loop is
  on its way to a dial;
* `DoneInv`: a control that is done has closed its session, which is why the
  loop, waiting for Done, may go on to dial;
* `WatchInv`: the loop waits for the control dialled last, and its attempt counter
  is 0 outside an outage.

Theorems: `ServiceInvariant`, `ServiceTypeCorrect`, `SingleSession`. On top of it
`HookInv` relates the attempt shown to the counter of the loop (`AttemptsCounted`), `EndInv`
says why the loop is where it is: it is over only with a cancelled context or after
OnDisconnected, Err is permanent from then on, and Close acts after it cancelled the
context (`EndTold`); and `PastInv` says that every
session but the last is done, and the last one too while the loop is on its way to
a dial. A mark on a session that is not done is therefore on the last session
before the loop's check, a condition (`MarkHolds`) that every step keeps: the check
ends the loop. `MarkIsFinal` follows.

`LossIsNoticed` is the safety half of `LossRepaired`. `RunInv`: a control that runs has its
reader or a dispatcher that is done, one that ended is done, and the session dialled last
has a control when the loop comes to wait for it. So the loop waits only for a control
whose end somebody will report. `CancelIsFinal` does the same for `CancelEnds`: a
cancelled loop that is not dialling never dials again, so at most the session that was
being dialled follows a Close, which is the one `service_CloseTearsDown` shows.

**`HealthReportProofs`.** `OneMonitor` alone is inductive only once a monitor's
record is known to be well formed, and `UnhealthyEarned` says nothing about the
states between a verdict and its report. `HealthInv` adds `SessionOK` and `RuntimeOK`
(types) and, for each monitor, `MonitorOK`: its runtime exists, its counter is the
number of failures since it last turned healthy (`failed = missed`), it is healthy only
if it has seen the service up, and a verdict of unhealthy that is still to be sent has
its full count. A lemma
`OneMonitorMoves` carries every step of `checkWorker` and `reportHealth`; the
others are NewEndpoint, CloseEndpoint and the environment.

`ViewIsVerdict` is the safety half of `UpShown` and `DownShown`: while the endpoint is
watched, the edge shows the verdict of the present monitor whenever that monitor has
seen the service up and is not about to report, unless a stopped one had the last word
(`ViewTrue`). It rests on `HealthInv` and on `LiveInv`: the present monitor belongs to the
installed runtime and what it is about to send goes through that runtime's session, and
no runtime has a session later than the present one. A session that begins is
therefore watched by nobody until a NewEndpoint has started a monitor without a
verdict, a verdict changes only together with a report, and no other monitor can report
without being late (`OneMonitor`). What remains for fairness is that the monitor goes on.

Theorems: `HealthInvariant`, `HealthTypeCorrect`, `SingleMonitor`, `VerdictEarned`, the
action property `UnhealthyEarned`, and `ViewIsVerdict`.

**`SessionCallsProofs`.** An answer travels from the child over stdout, `readLoop`
and a channel to its call, and `AnswerIsOwn` speaks of the last station only.
`CallInv` follows it all the way: ids are given once (`IdInv`) and those in the
pending map or known to the child belong to calls (`KnownInv`); an answer on stdout
or in `Dispatch` carries the id of the call it is for, one the child has served
(`LineInv`, `ReaderInv`); a channel is empty while its entry is in the map, and an
answer in it is the call's own (`ChanInv`); so is a result (`ResultInv`). `SendIsSafe`
is the heart of `ReaderInv`: whoever takes an entry out of the map is the only one
to use its channel afterwards.

Theorems: `CallInvariant`, `OwnAnswer`, `SafeSend`, and `Refinement`:
`Spec => ImplementsCallReturn`, where every step of the session is a Begin, a Serve,
an Answer or a Fail of one call, or leaves the calls as they are. `CallsAwaited` is the
safety half of `CallEnds`: a call between Register and its return has an entry whose
timer runs, a message or a close in its channel, or a Dispatch on its way to it
(`NoCallStranded`), although three goroutines take entries away and one of them sends
after the lock. `SessionTypeCorrect` adds a count: `nextID` is one more than the calls that
registered (`CountInv`), so every id has a timer among `IDs`.

**`ProcessLifeProofs`.** Two invariants on disjoint state. `PidInv`: the session
between reading and writing the file is the holder of the lock, and the file is cut
for as long (`LockInv`); a session has a pid from Spawn to the end of Close, which
another session may have too but no orphan of an earlier life (`OwnPid`); there are
sessions only after CleanOrphans, which has every orphan still to come on its list and
has none left when it clears the file (`LifeInv`). `UpdateInv`: without an overlap there is at most one
update at `<exe>.new`, it owes what is missing of it, and the executable is another
file (`Alone`). That opening `<exe>.new` finds an unused file (`NewFileExists`) is a
pigeonhole argument from `FiniteSetTheorems`.

Theorems: `PidInvariant`, `RecordsKept`, `OrphansFound`, `UpdateInvariant`,
`ExecutableWhole`, `ProcessTypeCorrect`.

**`EndpointsProofs`.** Again two invariants. `ExecInv` weakens `ExecInSync` to what
holds while the reader has `m.mu`: registration and bridge of every endpoint but the
one the reader is `Busy` with are in order, and one that is being removed has neither
(`PoolInv`); runtimes are made once, each for one endpoint (`MgrInv`), so that
changing one leaves the configurations of the others alone. `OwnerInv`: a buffer
has no repetitions and holds exactly the connections that Offer put into it, and what
a closed listener still holds came late (`BufferInv`); a connection on its way to a
listener knows which (`ConnType`).

A third one follows the Listen calls. `AppInv`: a call that is about to claim knows its
endpoint and its runtime, it has a listener from its claim on, and no two runtimes hold
the same one; with it `ClosingIsDrained`, which a removal depends on: while the
reader waits in Runtime.Close, holding `m.mu` and the runtime's own mutex, the
listener it waits for is draining or closed, and neither needs those locks. It is also all
that `ConnSettles` needs besides fairness: a routed connection waits for nothing but
that lock, and the last select of Offer has a timer.

`ChangesAnnounced` says that the two ways `endpoints_HookCurrent` is about are the only
ones in which a change is lost. `SignalInv`: what the hook was shown,
or the watcher is about to show, is out of date only while the token lies in `notify` or
the reader is still to signal. The reader signals after it changed the table and the
watcher looks after it took the token, so a token that coalesces several changes is
enough; only a Listen that takes the token or a login that emits an old
snapshot breaks it, and `excused` records both.

Theorems: `ExecInvariant`, `PoolInSync`, `OwnerInvariant`, `SingleOwnerOfConn`,
`DrainedByClose`, `ListenInvariant`, `RemovalNotStuck`, `EndpointsTypeCorrect`,
`ChangesAnnounced`.

**`ControlChannelProofs`.** `SeesItsPrefix` needs the link between table and stream.
`ReadInv`: a message is read once and in order (`StreamInv`), a handler has started
only when `readLoop` was through with its message (`StartedInv`), and the table is
what the `Handled` messages left for as long as anybody may look at it (`TableInv`);
a goroutine that looks therefore sees the prefix of length `Handled`, which has its own
message. `QueueInv`: a message is at one place at most and at none before its Send
returned (`PlaceInv`), and at some place after, while the dispatcher runs
(`KeptInv`). `EndsTogether` is the safety half of `TearsDown`: a loop that ended has
closed `doneCh`, a worker that went on has closed the connection, and so has whoever
set the permanent flag.

Theorems: `ReadInvariant`, `PrefixSeen`, `QueueInvariant`, `AnswersKept`,
`SessionEndsTogether`, and `ChannelTypeCorrect`, with the capacity of the queue.

**`ToolListingProofs`.** `ListingInv` says what a request has done by each stage
(`StageInv`: no child, cursor or tool before the handshake, a child when Close is still
to come and none after).
`ListingComplete` speaks of the end of a listing only; `PagesInv` says what holds on the
way: between two pages the list has exactly the tools of the pages before the cursor's,
in order (`ListedBefore`), and a success is `Complete`. The one step that matters is
`AddPage`: appending a page keeps the order, because every tool there is
from an earlier page, and cutting it at the limit leaves an initial segment (`ListAfter`).

`SchemaRepaired` is about what a recursive function computes, and needs induction over
data. The library's induction rules take an operator, which the provers here cannot
instantiate; `Induction` has the property as a set of numbers instead, and follows from
the existence of a least element (`WFMin`, `NatLessThanWellFounded`). From it:

* `SanitizeIs` and `LevelsAre`: the recursive definitions are what they say. For every
  depth there is a function that satisfies the equation up to that depth, since what
  happens to a schema depends on smaller ones only (`KeywordLocal`, `ObjectLocal`);
* `LevelsBecome`, by levels and place by place: what stands where a schema was is a
  stand-in for it, that schema sanitised, or that schema itself (`Becomes`), which is
  `Repaired` in each case (`BecomesRepairs`);
* `CleanStays`, by depth: a schema with nothing blank in it is left as it is.

`RepairedSchema` puts them together for one value; that the listing shows what the
sanitiser made of the server's schema (`SchemaInv`) is a short invariant.

Theorems: `ListingInvariant`, `ListingTypeCorrect`, `ChildIsReturned`,
`ListingIsComplete`, `SchemaIsRepaired`, and `DeadlineBounds`, the safety half of
`RequestEnds`: after the deadline every step lowers a measure of what is left (`Left`), since
no page is asked for any more.

**Model-checked only.** Every `~>` and `<>` property is liveness under fairness,
which is outside what TLAPS 1.4.5 proves; `WaitersHaveFlights`, `CallsAwaited`,
`SessionEndsTogether`, `RemovalNotStuck` and `LossIsNoticed` prove that none of the waits
they depend on is a wait for nobody, `ViewIsVerdict` and `ChangesAnnounced` that what is
not shown is on its way, `CancelIsFinal` and `DeadlineBounds` that what has to end does
not start again. Every invariant, action property and refinement that a passing run checks is
proved.

## 5. Not modelled

Wording of errors and logs, HTTP and JSON syntax, paths, environment variables,
the machine API client, signatures and byte copies: no protocol state, or state
outside the program. The diagnostics' tail buffer and text classification feed
one message, which is a report of `ControlChannel`; the deduplicator and the two
MCP ping probes are used by no code of the repository. The Windows variants of
spawn, signals, update and restart are left out: the models follow the Unix
build. What an archive holds is not modelled either: `LimitReader` (`update.go:132,171`)
cuts an oversized binary without an error, and the update installs what is left. Where
npx and uvx would find a package is a matter of those programs.

## 6. Plan

A composition of `ExecPool` and `SessionCalls`: the pool's session life refined by the
session's, so that a call of the pool is a call of `CallReturn`.
