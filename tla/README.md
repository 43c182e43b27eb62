# Extreme QEMU Web Manager: specifications, model checking and proofs

TLA+ modules for the daemon (`src/src/*.c`), the browser's side of it (`api.js`,
`app.js` and `webusb.js` of `src/public`) and the C# launcher (`src/Program.cs`),
with the TLC configurations that check them on small instances and TLAPS proofs of what
matters most for every instance. Every definition is translated from the code;
`PROJECT.json` ("map") gives the lines each one stands for.

## 1. The system

A browser loads a dashboard from a C daemon and polls its HTTP API. The daemon
is one thread: it accepts a connection, reads from it once, runs a handler,
answers, closes, and only then accepts the next. Handlers fork a QEMU process,
signal it, talk to its monitor (QMP) over a Unix socket, or read `/proc`.
`Program.cs` is a second, C# implementation of the launcher and its API.

| Component | State it keeps | Operations | Talks to |
|---|---|---|---|
| VM lifecycle (`control.c`, `main.c`, `platform.c`) | the record `/tmp/qwm.pid`, its children, the listening socket | `ctl_start`, `write_pid`, `ctl_stop`, start-up | host process table, signals, other daemons through the record |
| QMP client (`qmp.c`, `ctl_qmp`, `ctl_snapshot`, `ctl_balloon`, `ctl_usb_hotplug`) | one socket and one response buffer per call | connect, policy, two sends, read loop, close | the machine's monitor |
| HTTP loop (`server.c`: `server_run`, `response`) | listening socket, accepted connection | accept, recv, handle, send, close | clients; inherits its socket to VMs |
| Request handling (`serve`, `handle_api`, `api.js`) | none beyond a request | routing, field scanning, calls, answers | lifecycle, QMP client, telemetry, files |
| argv builder (`cli_builder.c`) | the vector under construction | `add`, `addf`, `qwm_build_argv` | called in the forked child |
| Telemetry (`telemetry.c`) | none | `telemetry_sample` | `/proc`, `/sys` |
| C# supervisor (`Program.cs`) | dictionary id -> Process | `StartAsync`, `StopAsync`, the `Exited` handler | QEMU processes, the event stream |
| C# event stream | the handlers of a machine's event, a bounded channel per subscriber | `Publish`, `EventsAsync` | supervisor, browsers |
| C# registry, QMP stub, CLI | a dictionary of machines | create, look up, build a command line | supervisor |
| Dashboard (`app.js`, `telemetry.js`, `web/app.js`) | the badge, samples | poll, click | HTTP API |
| WebUSB bridge (`webusb.js`) | device, interface, socket, counters | select, reset, forward | browser USB, a WebSocket |
| Terminal and VNC adapters | a socket each | draw, send keys | external libraries |

What is hard in it: daemons, children and strangers of the host share pids and
a record file; a killed daemon leaves VMs that hold its port; TCP and the
monitor's stream split, stop and break wherever they like, without timeouts, and a
send waits for a client that does not read; routes are found by substrings in paths
made of names that are not encoded; C# calls, exit handlers and publishers run on any
threads; the browser's scripts read their state anew after every await.

What makes each part correct: a stop ends the VM that was started and nothing
else; a VM stays within reach; a call leaves no socket open and its outcome
means what it says; every waiting client is served or is behind one that holds
the loop; a request becomes the call it names with the names it gives; a command
line is complete or absent; a supervised process has one owner; a sample holds
what the files say, wherever their lines end; a request dies with the daemon it
was sent to; a subscriber gets its events in order and is forgotten when it
leaves; data of a USB device is sent only where the device was announced.

## 2. Modules

| Module | Models | State and actions |
|---|---|---|
| `ControlPlane` | the lifecycle, POSIX build | `stage`/`held`/`answer` are the place in a call, its local `pid` and the last answer; `pidfile` the record; `kind`, `parent`, `port`, `sigterm` the host's process table. One action per system call of `ctl_start` (`Fork`, `OpenRecord`, `WriteRecord`, ...) and `ctl_stop` (`StopReads`, `StopSignals`, `StopRemoves`), with the failing forms; `Boot`, `Die`; children and strangers that start and end. |
| `Launcher` | what `ControlPlane` promises | abstract: each machine is off, on (a stop can end it), stopping or lost. `ControlPlane!Machine(p)` is the mapping: on is a recorded VM, or one whose start or stop is under way. |
| `QmpSession` | one QMP call | `stage`, `fds`, `wire` (what was sent), `out`/`used` (the peer's stream and how much of it is in the buffer), `rc`, `answer`. `Recv` takes any number of the units that are there; the peer greets, reports, replies, ends lines and hangs up when it likes. |
| `HttpServer` | the loop, its clients and TCP | `phase` and `cur` are the place in the loop and the accepted client; in phase `full` a send of `response` waits, on a blocking socket, until the client has read enough (`Drained`) or has left (`SendBreaks`); `port` says who holds the listening socket; `backlog`, `conn`, `gone`, `asked`, `taken`, `seen` are the connections. |
| `ApiRoutes` | one request | The names of a call become segments as `api.js` and `fetch` make them: only a snapshot's device and tag and a command are encoded (`InPath`), other names are split at their slashes (`Spelt`), dots move to other directories and a fragment is not sent (`Fetched`), and the line may end in the middle (`Cut`). `path` is the sequence of segments the daemon reads; a segment keeps which words it begins with, whether it is too long, and whether a query or an `execute=` is in it. `RefusesMethod`, `ServesFile`, `Rejects`, `Dispatches`, `Returns` are the ways through `serve` and `handle_api`. |
| `ArgvBuilder` | `qwm_build_argv` | `Additions(c)` is what a configuration adds, in order; one step per `add`/`addf`; `n` and `v` as in the code. |
| `Supervisor` | `StartAsync`, `StopAsync`, `Exited` for one machine | `entry` is `processes[id]`; `start`, `stop`, `handler`, `proc` are the places of the calls; `taken` is what `TryRemove` gave a stop. The event is raised (`Raised`) before its handler acts, and a stop waits for the first only; `StopFails` is a `Kill` that throws. |
| `EventStream` | `Publish` and `EventsAsync` for one machine | `handlers` is the invocation list, `left` what of it a publisher has yet to call, `channel` and `place` the subscribers; `TryWrite` (`Offered`) drops what a full channel does not take. `received` and `tried` are histories. |
| `WebUsb` | `ClientUsbBridge` | `device`, `iface`, `eps`, `socket` are the fields of the bridge, `sock` the states of all sockets it ever made, `call` the await each overlapping `forwardUrb` is at. One action per stretch of code between two awaits. `probes` and `urb` are histories. |
| `Telemetry` | `telemetry_sample` | `files` is what the kernel's files hold, as lines of words; `loop` and `at` are the loop and the word or line it is at; `found`, `used`, `rss`, `cores`, `temp` are the results. One step per turn of a loop. |

`MC*` modules give the constants values. `*Proofs` modules hold the theorems.
Operators named `Bug_...` stand before the definition they falsify and are used
by nothing; each is a plausible slip in the code that one property detects
(`PROJECT.json`, "mutants").

`Daemon` composes. It instantiates `ControlPlane` for the calls and the process
table and `HttpServer` for the loop and its clients, and adds what neither has
alone: the loop stays in `handle` for all the steps of `ctl_start` and `ctl_stop`
(`Call`), a death ends both (`Die`), and what a client finds at the port
(`Listener`, which takes the place of `HttpServer.port`) follows from the process
table, where every child inherits the socket. On top of it are the polls of the
dashboard's `refreshHealth`, each a client of its own whose answer is rendered
some time after it has settled (`Renders`). `ImplementsParts` says that the
composition is still a behaviour of both parts.

The other modules meet at named places: `HttpServer`'s `Handle` and
`MonitorAnswers` stand for a run of `ApiRoutes`, whose `Dispatches` and `Returns`
stand for the calls of `ControlPlane` and `QmpSession`; `ControlPlane`'s `Exec`
and `ChildExits` cover a run of `ArgvBuilder` in the child; `Supervisor.shown` is
what the publishers of `EventStream` raise.

## 3. Runs

| Run | Checks | Instance |
|---|---|---|
| `restarts` | `TypeOK`; `RestartWaitsForVms`: a daemon that is up never coexists with a VM of an earlier life on its port; `NoStrangerBeforeDeath`: until the daemon dies, a stop signals only a process a start forked; `LostOnlyByStartOrDeath`: a VM falls out of reach only by a start or a death; `ImplementsLauncher`: the refinement of `Launcher`; `StopTakesEffect` | 1 daemon, 3 pids, 2 deaths |
| `shared_record` | `AnsweredPidStable`: the pid a start answered with denotes its child while the daemon is up, whatever another daemon does to the record | 2 daemons, 3 pids, 1 death, pids symmetric |
| `qmp_calls` | `TypeOK` (the buffer keeps its terminating zero); `NoFdLeak`; `WaitsOnlyMidLine`; `OutcomeExplained`: what a success and a failure can mean; `CallReturns` | buffer of 5 units, stream of 6 |
| `http_clients` | `TypeOK`; `QueueMatches`; `AnswerOnClose`: a client that stays and asked gets a whole answer, unless part of its request was never read; `WaitsOnlyBehindSilence`: a client waits for ever only behind one connection that is silent, whose monitor is, or that does not read its answer | 3 clients, backlog of 2, requests in up to 2 pieces |
| `api_requests` | `OtherCallOnlyIfNamed`: another call is carried out only when a segment of the names begins with its name; `ArgumentsArrive`: what a name holds up to its first slash arrives, in its place, if no name before it has a slash; `RejectsOnlyMalformed`: a GET is refused only when its names do not travel as they are, make a segment that is empty or too long, or spell an earlier route; `SendsOnlyText` | 22 names, every call, GET and POST, 8 pages |
| `api_posts` | **fails**: `PostsAreCarriedOut` | same |
| `argv_configs` | `AllOrNothing`; `RoomForNull` | 13 places, every option and device kind |
| `telemetry_files` | `TypeOK` (no more entries than the array holds); `MemoryByLines`, `RssBehindPairs`, `CoresBehindTotal`: what the loops find, against a reading line by line | every file of up to 3 lines of the kinds the kernel writes, sensors above, at and below zero, 2 cores, numbers modulo 8 |
| `supervisor_calls` | `TypeOK`; `TakenOnce`; `StopIsOver`; `LostOnlyToAnother`; `ExitReconciled` | 2 starts, 2 stops |
| `daemon_page` | `NoStaleRequest`: no request is carried out by a later life of the daemon than the one it was sent to; `ImplementsParts`; `PageNotices`: once the daemon is gone and no VM holds its port, the badge ends at OFFLINE, whatever older answers are still rendered | 1 user, 1 poll at a time, 2 pids, backlog of 2, 1 death |
| `usb_bridge` | `TypeOK` (every probe names a device); `UrbAfterProbe`: while one device is claimed at most, a URB reaches a socket only after a probe of its device there or, across a reset, on a socket before; `HangsOnlyOnDeadSocket`: a forward that waits for a socket still connecting comes back | 2 devices, 2 forwards, 1 reset |
| `event_stream` | `OldestKept`: events arrive in the order they were offered, none is offered twice, and the first ones arrive always; `Delivered`; `GoneIsForgotten`: no handler outlives its subscriber | 2 threads, 2 subscribers, channels of 1, 3 events |

### Bounds, and why they are enough

- *Pids, deaths.* Three pids give a recorded VM, a second one and a stranger at
  once; a pid must come free and be given again for the stale-pid cases, which
  two pids and one death already allow. `MaxDeaths` is the only bound on a
  counter; it stops daemons from being killed, not from anything else. Two
  daemons suffice for the shared record: every third one interferes in the same
  way.
- *Buffer 5, stream 6.* The stream exceeds the buffer, so that a full buffer
  happens at every kind of unit, and holds a greeting, an event and a reply with
  their newlines.
- *Three clients, backlog 2.* One accepted and a full queue; the third client is
  also the one that comes again.
- *22 names.* One of each class the code, `api.js` and `fetch` tell apart: ordinary,
  empty, to be encoded, too long for a field, too long for the line, beginning with a
  route's word, the words of the routes themselves, and names that are several
  segments: with a slash, with dots that lead up, with a query that holds an
  `execute=`, with a fragment, and two that spell a whole route ("api/v1/snapshot",
  "api/v1/machines"). The request line may end inside a name, not inside what is put
  behind it. Left out: a backslash, "%2e" and "?" directly behind dots, which `fetch`
  treats as kinds of slashes and dots, and a command whose `&` is in another segment
  than its `execute=`.
- *13 places.* A plain configuration takes 9 arguments: some configurations just
  fit and some do not. The code's 256 are never exhausted by what it builds.
- *Three lines, two cores, modulo 8.* A line that shifts the words after it, the
  line looked for and one more; a total and two cores, which is one line more than
  there is room for; a difference that wraps, and a sensor below zero, which does too.
  Longer files repeat these.
- *Two starts, two stops.* Every conflict of `Supervisor` is between two
  processes, or two stops of one.

- *One user, one poll, two pids, one death* (`Daemon`). A second poll may be
  refused (`Refused`) while the first waits, so that a late answer is rendered
  after a newer failure. Two pids are a VM and another, or a VM and a stranger;
  one death is enough for requests to be left behind by one life and met by the
  next. Requests come whole: split ones are `HttpServer`'s.
- *Two devices, two forwards, one reset* (`WebUsb`). One forward each side of an
  await, and one of each kind of event between: another selection, a reset (which
  makes a second socket), another forward.
- *Channels of one, three events* (`EventStream`). One event is sent, one waits,
  one is dropped; 64 places only put that off. Two threads are what it takes to
  interleave one list.

Deadlock is checked in `ControlPlane`, `QmpSession`, `HttpServer`, `Daemon` and
`WebUsb`, whose daemon and page never stop for good. `ArgvBuilder`, `ApiRoutes`,
`Supervisor` and `Telemetry` describe calls that end, and `EventStream` ends with
its last event.

### Fairness

- `ControlPlane`: a call that has begun goes on, since none of its steps can
  block, and a child acts on the SIGTERM it has. Nobody owes a request, a restart
  or a VM's end.
- `QmpSession`, `HttpServer`: the daemon's own steps are taken when they can be;
  monitors and clients owe nothing, which is what the liveness properties are
  about. A send that waits for a full connection is none of those steps: there is no
  fairness on `Drained`, and only the client's leaving brings the send back
  (`SendBreaks`). `accept` is assumed not to fail for ever; one that fails
  (`server.c:130`) changes nothing and is a stutter.
- `Supervisor`: a pool thread gets on with a call or handler that has begun.
- `Daemon`: the page's timer polls again while nobody listens, and a poll that has
  settled is rendered. Nothing is asked of the daemon.
- `WebUsb`: the browser settles every connection it has begun and runs what is
  ready. Devices and users owe nothing.
- `EventStream`: a publisher goes through its list and the server's own steps are
  taken, the news of an aborted request among them. A send ends only if its client
  reads (there is no fairness on `Sent`), and nobody has to publish or to leave.

## 4. Proofs

The theorems hold for any daemons, pids, clients, backlog, buffer, stream,
processes, devices, threads, subscribers, names and configurations. They rest on
the assumptions about constants in the modules, which TLC evaluates in every run:
`ConstantsAssumption`, `SizesAssumption`, `ServerAssumption`, `NoneAssumption`,
`DaemonAssumption`, `BridgeAssumption`, `StreamAssumption`, `CapAssumption` and
`WidthAssumption` say that the special values are not pids, clients, devices or
processes and that sizes are numbers in range. `ConfigsAssumption` gives the types
of the configurations, `NamesAssumption` says that no word of the routes begins with
another one (so that nothing begins with two) and that encoding, splitting and cutting
a text gives texts, and `FilesAssumption` how the kernel writes its files: a line begins
with a label that is no number, nothing else in it reads like one of the labels
looked for, and a line of meminfo goes on with one number and at most a unit.

- `ControlPlaneProofs`. The properties are not inductive: that a stop signals no
  stranger depends on the record naming only children, and that on children not
  losing their pid while their daemon lives. The invariant `IInv` says where a
  pid held, answered or recorded can come from, that a child's parent is up, and
  who can hold a port. `Invariance` proves it action by action; `TypeCorrect`,
  `RestartSafety`, `AnswerSafety`, `StopSafety` follow from it, and `ReachSafety`
  proves the action property from the same invariant. `LauncherRefinement` shows
  that a lone daemon implements `Launcher` for any pids and any number of deaths:
  each step leaves the abstract machines alone (`SameMachines`) or changes one of
  them (`OneMachine`). It needs one more invariant, `SignalledInv`: only what runs
  has a SIGTERM, for otherwise a fresh child would be born stopping.
- `QmpSessionProofs`. The invariant ties `fds` and `wire` to the place in the
  call and says what the buffer ends with between two reads: `TypeCorrect`,
  `FdSafety`, `LoopSafety`, `OutcomeSafety`.
- `HttpServerProofs`. `QueueSafety` needs the queue to be without duplicates and
  each place of the loop to agree with the accepted client; `AnswerSafety` needs
  that a client at `close` that asked has been answered. `TypeCorrect` as usual.
- `SupervisorProofs`. `TakeSafety` and `StopSafety` need that the entry and what
  stops have taken are disjoint and name registered processes (`RegisteredInv`),
  that a stop at work has a process (`StopInv`), and that a handler runs only for
  one that has ended (`HandlerInv`); `OwnerSafety` is the action property.
- `DaemonProofs`. `Composition`: every step of `Daemon` is a step of `ControlPlane`
  or none (`LifeStep`), and, given that the loop is in a request only while the
  daemon is up (`PhaseInv`), a step of `HttpServer` or none (`LoopStep`); where a
  child dies or a daemon boots this is about who is left holding the socket. The
  invariant proved in `HttpServerProofs` therefore holds of the composition, and
  with `HereInv` (whoever waits for a running daemon connected to this one) it
  gives `RequestSafety`.
- `WebUsbProofs`. A forward sends to the socket it finds after its await, and the
  device may have been replaced meanwhile. `ProbeSafety` needs that only the socket
  of the bridge connects or is open (`SocketInv`), that a forward the open socket
  has made ready still finds it so (`CallInv`), and that a forward which polls a
  device no socket made so far was told of is not alone with it: another device is
  claimed (`PollInv`). It covers any number of resets, but says no more of a URB sent
  after one than that its device was announced on some socket, and nothing of two
  devices claimed by overlapping claims: there the code fails. `TypeCorrect`
  includes that a probe names a device.
- `EventStreamProofs`. `OrderSafety`: what a subscriber was offered, what waits in
  its channel and what it received are each a part of the one before, in its order
  (`PartOf`), and the first `Capacity` offers are never dropped. That nothing is
  offered twice needs an invariant on the threads: no event is still to be
  published that somebody was already offered.
- `TextProofs`, for `ApiRoutes`, `ArgvBuilder` and `Telemetry`: each is one thread
  that goes through a text once, and they share the induction below.
  - Requests. `UrlIs` says of every call that its path is its own words (`Lead`) and
    then what its names spell, however many segments that is; `FetchedElements` and
    `CutIs` that what `fetch` and the request line do to it adds no word, and
    `TravelsIs` that names without dots, a fragment or too much text go through as
    they are. `SpelledIs` finds every other route such a path can be taken for within
    the names. The four theorems are then a matter of comparing segments, and
    `RequestInv` says that the answer belongs to the call.
  - Command lines. `CountInv` bounds what a vector holds, `StoredInv` says that it
    holds the first `n` additions, and `BuildInv` adds that a failed builder has
    given all of it back: `CompleteSafety`, `RoomSafety`.
  - Files. `LineAt` says where a line's words stand among the words of the file.
    The loops know words, the properties lines, so the invariant `SampleInv` says at
    which line a loop is: `MemTurn` shows that a turn over meminfo passes one line of
    three words, finds what a reader of lines finds, or is stopped for good, also
    when it is one word off behind a line without a unit; `RssTurn` that a turn over
    status passes one pair. `BeforeIs` counts the lines of stat that count.
- Induction over data. The library's induction theorems take a predicate, which no
  prover here instantiates. `SetInduction` states induction for a set instead (a set
  of numbers that holds 0 and with each number the next one holds all of them), and
  is proved by counting: were one missing, "the number before" would map the
  missing ones one to one into fewer. With it `FlattenSteps` says what the fold
  behind `FlattenSeq` computes, for any list of lists.

Only model-checked: the liveness properties (`StopTakesEffect`, `CallReturns`,
`WaitsOnlyBehindSilence`, `ExitReconciled`, `PageNotices`, `HangsOnlyOnDeadSocket`,
`Delivered`, `GoneIsForgotten`), which the provers cannot do, and the run that fails.
Every other property of a run is a theorem.

## 5. Where the code and its documents disagree

Shown by a run: `api_posts` (see "findings" in `PROJECT.json`). Seen while
modelling, without a run of their own:

- `control.c:39` says "single-VM launcher/stopper". `ctl_start` forks without
  looking at the record: a second start leaves two VMs running and one recorded
  (`Launcher!Start` with a machine already on, which `Lose` then takes out of
  reach).
- `ARCHITECTURE.md:33` says a command is "read into a bounded response buffer".
  The greeting or an event may be all that is read (`OutcomeExplained` says what a
  success does mean). `control.h:9` says results are "plain bytes for HTTP body
  responses"; after a failed send `ctl_qmp` answers 200 with a buffer nobody has
  written.
- `ARCHITECTURE.md:39` says the launcher "owns process handles" and "reconciles
  unexpected exit". `ctl_stop` signals the recorded number, which after a restart
  may be anybody's (`NoStrangerBeforeDeath` holds only until the first death), and
  nothing in the C daemon notices that a VM has ended. In `Program.cs` two
  overlapping starts leave a live process without an entry (the only way, says
  `LostOnlyToAnother`, besides the handler of another process), and a process
  that ends before it is registered keeps its entry.
- `ARCHITECTURE.md:33`: commands are "written atomically". The text and its
  newline are two sends.
- `ARCHITECTURE.md:49`: the builder "validates ... device paths". A missing path
  becomes an empty one.
- `server.h:8`: `server_run` "returns 0 on clean shutdown". Its loop has no exit,
  and a client or monitor that leaves before a send ends the process by SIGPIPE.
- `README.md` lists `GET /api/v1/machines`, `events`, `serial` and `vnc`, which
  are answered 404, and says the project contains no C#.
- The lengths of the JSON error texts in `server.c:57-105` are one to three bytes
  short, so that the answers are not JSON (`SendsOnlyText` is the half that holds).
- The telemetry answer's `rss_mb`, which the dashboard shows, stays 0: the first
  line of `/proc/self/status` is a name and ends the loop (`RssBehindPairs`).
  `core_count` counts the line of the total as a core (`CoresBehindTotal`).
- The dashboard's snapshot button sends an empty device (`app.js:58`), whose path
  is always refused. `webusb.js` opens `/api/v1/usb/urb`, which is answered 400: the
  first forward fails, and every later one keeps the closed socket and waits for
  ever (`HangsOnlyOnDeadSocket` holds for sockets that still connect only). A claim
  that fails leaves the interface number set, so that the next forward skips it.
- The badge shows RUNNING for a daemon without a VM, and keeps showing its last
  text while a VM holds the port of a dead daemon: the poll then waits for ever
  and never fails (`PageNotices` asks that nobody listens).
- `Program.cs:149`: a slow subscriber loses the newest events, the last state
  among them, and one that subscribes late is never told the state it missed.
  `Publish` from two threads may reach two subscribers in different orders, and
  "running" may come after "stopped". A `qmp.command` event carries the command in
  its `State`. The events are serialised with capital letters, and `web/app.js`
  reads `event.state`.
- `api.js:14-23` puts ids, numbers, vendors and products into the path as they are.
  `api.qmp("a/stop", "query-status")` is a GET that runs `ctl_stop`
  (`OtherCallOnlyIfNamed` names the exception); `api.balloon("a/b", 5)` balloons the
  machine "a" by "b", and an id with "?execute=quit&" replaces the command of a qmp
  call (`ArgumentsArrive`); `api.usbHotplug("api/v1/snapshot", v, p)` is taken for a
  snapshot and refused for its fields, and names with dots, a fragment or an empty
  segment, or that do not fit on the line, may be (`RejectsOnlyMalformed`).
- `telemetry.c:60` reads the sensor with `%lu` into an unsigned number: a reading below
  zero becomes a huge temperature (`Zone`, `Width`).
- A client that keeps its connection and does not read a file larger than the buffers
  holds the daemon for good (`Holds`).
- `handle_api` never decodes what `encodeURIComponent` encoded (`ArgumentsArrive`
  states it); `ctl_start` and `ctl_stop` ignore the machine's id.
- `Program.cs` does not compile as committed: line 33 reads a property that
  `ManagedMachine` does not have. The supervisor is modelled as written.

## 6. Not modelled

- Windows branches (they answer an error), MIME types, wording and layout.
- Terminal and VNC adapters: a socket each, to libraries outside the repository.
- The poll of `telemetry.js` and `web/app.js`, which draw what they get; the buttons
  of `app.js`, which are the calls `ApiRoutes` enumerates.
- Of `Program.cs`, the registry (a dictionary that only grows), the QMP client
  (which opens no socket), `QemuCli` (a shorter `cli_builder.c`) and `SerialAsync`.
- A child also inherits the connection its daemon has accepted, so that a client
  may see its end only when the child is gone; the model ends it with the daemon.
- `qwm_proc_spawn`, `qwm_proc_stop`, `qwm_exe_suffix`, `qwm_free_argv` and three of the
  QMP helpers, which nothing calls.
- Build files, workflow, schema: used as the statement of what is promised.
- Files are taken as unchanging while they are served; sockets to monitors fail
  only by being absent, closed or out of buffers. An answer's header always fits into
  the connection's buffers.

## 7. Plan

Done: all eleven modules, with proofs of every safety and action property and of both
refinements. Next, in this order:

1. The balloon conversion modulo 2^64 (`qmp.c:72`).
2. Abstract specifications for `Supervisor` (one owner of each process) and for
   `EventStream` (a lossy queue), and their refinement.
3. What is left of `Program.cs`: the registry and the QMP stub.
