# anApp in TLA+

anApp captures the traffic of a machine with a TUN device, ends every TCP
connection and UDP flow in a user-space network stack (gvisor), and opens a
socket of its own for each of them on the default interface.  These modules
model the parts of the program that keep state between two events, check them
with TLC on small instances and prove the safety properties that matter most
with TLAPS.  The reference is the Go source; comments in the modules name the
functions, and `PROJECT.json` maps each definition to its lines.

## 1. The system

```
  applications ── TUN device ── endpoint ── gvisor stack ──┬── TCP relay ──┐
                      ▲             │                      └── UDP relay ──┤
                      └─ WriteNotify┘                                      ▼
  parent process ⇄ daemon: InitRoute, NewDevice, Config, …    sockets bound to the route
                        │                                     model.FindContainRoute picks
                        ├─ Linux: ip rules, link watcher           ▲
                        └─ Windows: change notifications ──────────┘ model.Routes
```

| Component | State | Operations | What is hard | What makes it correct |
|---|---|---|---|---|
| **UDP relay** `udp/forwardUdp.go`, `forwardState.go`, `dns/dohTools.go` | the table `connections` from an identity string to a connected socket, a package lock, one writeLock per connection, the enforced-DNS switch | HandlePacket, readRemoteDate, attachConnect, run, SendDoh | a goroutine per datagram; the table is read without the lock; dials of 5 s under the lock; a reader per socket that deletes its entry without the lock | one socket per flow, never visible undialled; datagrams leave towards their own destination; answers go back to who asked; dead connections leave the table; every goroutine ends |
| **UDP reverse NAT** `udp/forwardUtil.go` | `connections` by client address, per record a channel `available`, a socket, a time | Forward, run, handle, janitor, Close | the janitor and the readers delete entries that other goroutines are about to use; entries exist before their socket | nobody writes to a nil socket; an entry names its socket until that is closed; nobody waits for ever; inactive clients are disconnected |
| **TCP relay** `tcp/buildSocket.go` | an endpoint and a socket per connection, two copying goroutines; the forwarder's slots | HandleStream, TcpHandle | the directions end independently, either side may reset or stop draining | a clean end means a complete stream; nothing is left open or running; no slot is lost |
| **Routing on Linux** `device/device_linux.go`, `device_dns_linux.go`, `model/route_linux.go` | `ruleList`, the kernel's rules, `model.Routes`, an unbuffered channel, the DNS switch and its two channels | Config, Close, InitRoute, updateDefaultRules, the DNS monitor | each step may fail, some without anybody looking; a killed run leaves its rules to the next one; three goroutines on one error variable and one channel | Close undoes Config as far as the kernel lets it, over any number of killed runs; Routes follows what is reported; DNS requests are answered |
| **Route choice** `model/route.go`, `route_windows.go` | `model.Routes` | FindContainRoute, FindRoutes, countBits, SortRoutes | unstable sort, 32-bit sums, an unusual order of bits, snapshots that overtake each other | never take the tunnel; while the default route can be read, leave no dial to the system's table |
| **Change notifications** `winipcfg/*_change_handler.go` | a table of callbacks, a system handle, two mutexes, a WaitGroup per callback | Register, Unregister, routeChanged | system threads call in while a thread cancels and waits for them | Unregister is a barrier and returns; handle, table and subscription agree |
| **Processes** `app/v2/main.go`, `client.go`, `tool/procTool`, `tool/log` | two processes, a pipe, two signal channels | CreatChildProcess, ManageDaemonMonitor, InitDaemonMonitor, Close | either may be killed at any point, the platforms differ | no orphan where the other's end can be noticed; nobody leaves without cause |
| **TUN endpoint** `endpoint/endpoint.go` | outwards the stack's queue, one buffer, a mutex; inwards a buffer per packet | WriteNotify, Attach's reading loop | any goroutine writes; the packet read need not be the caller's; the stack may answer from within the reading loop | whole packets, once each, none forgotten; reading goes on |
| **Stack set-up** `gv/gv.go` | options of the stack | NewGv, Start | an error is only printed | a stack that failed is closed; the forwarder's limit |
| **Socket dialers** `protocol/socket` | none | NewTcpDialer, NewUdpDialer, bind4 | the look-up reads `model.Routes` while it is assigned; the control function panics | a socket leaves on the interface of its route, never on the tunnel |
| **TUN devices** `device/tun.go`, `device_tun_linux.go` | descriptors, address, link state | NewDevice, InitGateway, Activate, Read, Write | errors that nobody looks at; the first error of Read is final | parts of the endpoint's and of Linux routing's |
| **Windows configuration** `device/device_windows.go`, `winsys`, `winipcfg/luid.go`, `netsh.go` | addresses, route and DNS of the tunnel; a session of the filtering engine; the DNS switch and its two channels | InitGateway, configFwp, monitorEnforceDns, Close, LUID methods | a dozen system calls, each of which may fail; filters added one by one; the switch is flipped while they change; Close and the monitor share a handle | only foreign DNS is ever blocked; filters follow the switch, as far as sessions can be closed; every request is answered |
| **DLL loader** `bin/memmod` | mapped image, blocked memory, libraries; process-wide ranges, their lock, the hook | LoadLibrary, Free, hookRtlPcToFileHeader | an error at any of twenty steps; loads in parallel; one attempt at the hook for all | what failed leaves nothing; DLL code runs hooked; no load waits for ever |
| **Windows structures** `winipcfg/types*.go`, `zwinipcfg_windows.go`, `winsys/*` | layouts | – | – | – |
| **Helpers, configuration** `tool/tool.go`, `ioutil`, `model/*Config.go` | plain data | Checksum, splitting of addresses, a copy loop | boundaries | results against a reference |

Interactions: the stack calls the relays and `WriteNotify` from its own
goroutines; the relays read `model.Routes` at every flow; the platform's
watcher or callbacks write it; the configuration of the device decides whether
any of this receives traffic; the parent and the daemon only share a pipe,
signals and each other's end.

## 2. Modules

`MC*` modules only give the constants values that a cfg cannot write.  Modules
whose constants are plain sets are checked directly.

**UdpForward.** One member of `Packets` is a datagram, its goroutine and the
`connectionState` allocated for it.  `Check`, `Lock`, `RecheckHit`,
`RecheckMiss`, `DialFails`, `DialSucceeds`, `BeginInsert`, `EndInsert`,
`FirstWrite` and `Write` are the steps of `attachConnect` between which other
goroutines can run.  `Identify` is the identity the code computes, with the
egress address of the route and without a separator between address and port
(`IpPortText` may map two pairs to one text).  Go's map is not
safe for concurrent use: an access that falls into an insertion or a deletion
may stop the process (`ConcurrentMapAccess`) or not, and both are explored.
`run` deletes the empty key, so `EndDelete` leaves the table alone.
**FlowTable** is what the relay promises: a flow gets one connection for good, a
datagram leaves on it while it is open or is dropped, an answer comes through the
connection of its question.  The mapping is the identity on what both have; `Via`
is the connection of a datagram that has left.

**NatForwarder.** One member of `Datagrams` is a datagram, its goroutine, and
the record and socket it may create.  Datagrams are numbered in the order in which
their goroutines first get the mutex (`Earlier`), which is no restriction: until then
the goroutines do not differ.  The sections under `connectionsMutex`
are single steps; the janitor's two sections are two steps.  Panics
(`PublishPanics`, `JanitorPanics`, `ClosePanics`) and the unlocked delete
(`Drop`, `ConcurrentMapAccess`) end the process.

**TcpRelay.** `at` is where the handler of a connection is, `tcp` and `socket` are
its two descriptors.  A stream is the number of bytes that have passed each point:
sent by a peer, read by a copy, written by it.  Each peer may send, end its stream,
reset, or stop draining what is sent to it (`full`) at any time; the copy towards it
then blocks in its write, without a deadline.  The stack's forwarder, with its limit on pending requests,
and the stack's rule that a close with unread bytes is a reset, are external.

**LinuxRoutes.** Main goroutine (`Config`, wait, `Close`), watcher and updater.
The kernel's rules are sets; `ConfigRule` covers success and `EEXIST`, and
`ConfigFails` any other error of a base rule, the link or the source rule.  `MayFail`
names the calls that may fail: `RuleDel`, whose error Close ignores (`CloseBase`,
`CloseSrc`), `LinkSubscribe`, after whose failure the watcher hears nothing (`Subscribe`),
and the look at the routes, which panics (`Find`).  A change of the default route
(`RouteChange`) and a report about a link (`LinkUpdate`) are separate steps, as the
program subscribes to links alone: an address or a route may change before its report,
after it, or without any.  `src` is the source of `rule99`, which the updater computes
from the route captured by `Config`.  The histories `kept` and `late` record the rules
that could not be deleted and an update that came after Close, `reported` whether a
report has come since the route last changed.

**LinuxDevice** extends it with what surrounds it in the daemon: the device is
created, addressed and activated before `Config`, with the errors the code loses
(`InitGateway`, `AddTunnelRoute`); `monitorEnforceDns` runs beside it (`Receives`,
`Enforce`, `Revert`, `Answer`); and `Kill` at any point, which stands for a panic,
SIGKILL and a signal before `signal.Notify` alike, leaves the rules in the kernel
for the run that `Restart` begins.  A step of LinuxRoutes is taken together with
its effect on device and resolver.  The events of the world, among them a restart
but not a kill, are counted up to `MaxEvents`.

**RouteSelect** has the pure part of the choice as operators.  An address is the
set of positions of its 1 bits, so every prefix length and every bit order of the
code is explicit; `Visited` is the order in which `countBits` looks at bits.
`FindRoutes` makes routes of rows: `unknown` are the interfaces whose entry cannot be
got, so that their rows are skipped (`UsesRow`), `unread` those whose address is not
known, because the adapters or an address of one could not be read (`AdapterAddress`);
no bits of such a route's address match.
**WinRoutes** extends it with the table, which changes with or without a notification
(`Change`, `Notify`), and the callbacks' goroutines, which read the table in one step
(`Find`) and assign `model.Routes` in another (`Store`).  When the table cannot be read
they assign nil (`FindFails`); when the metric of an interface cannot be, its error is
ignored and the nil pointer ends the process (`FindPanics`).  **WinDialer** adds the dials
of the relays.  `model.Routes` is a slice without a lock: a look-up that falls into
an assignment may see one slice's array with the other's length (`LookUpTorn`,
`LookUpOverruns`), and a panic of the look-up or of `bind4` ends in the handler's
`recover`.

**ChangeCallback.** One member of `Callbacks` is a callback structure and the
thread that registers and unregisters it; `Notifiers` are system threads.
`Cancel` ends the subscription and `CancelReturns` waits for the notifications
under way, as the system's documentation says of `CancelMibChangeNotify2`.
**CallBarrier** is the promise: a callback is registered, being unregistered or
not, and a call of it begins only before Unregister has returned and ends before
it returns.  `Status` maps the place of the registering thread to these.

**Daemon.** Parent, daemon and the daemon's monitor.  The platform is a variable
that never changes.  Logging is a step (`LogAndGoto`) since on Linux a write to a
standard output whose reader has gone kills the writer.  That takes a pipe, which the
parent may fail to create (`Spawn`), and a log that goes to it, which it does only if
the log file could be opened (`CreatLog`): `LogsToPipe`.

**WinDevice.** The main goroutine runs `InitGateway`, `StartStack`, waits and
closes; the monitor carries out requests to flip the switch; both may run
`ConfigFwp`, whose session and three filters are single steps.  A filter names
whom it matches and its weight, and `Blocked` is the engine's arbitration over
all open sessions; all filters are on the IPv4 layer, so nothing over IPv6 matches.
`EngineClose` may fail; the device forgets the session all the same, which the
history `unclosed` keeps.  `configFwp` and `InitGateway` panic on most errors
(`EndProcess`), and the session, which is dynamic, goes with the process.

**DllLoader.** One member of `Loads` is a call of LoadLibrary and its Module.
An address is a slot for one image; images must not lie on a slot of
`Crossing`.  What the image contains is input: every check of it may fail, and
`Fail` leads to the deferred `Free`.  `LockRanges`, `AppendRange`, `ReadRanges`
and `ReadDone` are the two sides of the mutex that guards the ranges, `Once` and
`Hook` the single attempt at replacing RtlPcToFileHeader.  **ImageStore** is the
promise: a load takes slots and libraries that are free, gives back only its own,
and ends in an image off the boundaries, which stays reserved until it is freed, or
in nothing at all.  `Status` maps the steps of a load to these stages; memory,
references and attachment are the same in both.

**TunEndpoint.** One member of `Packets` is a packet and the goroutine that sends
it.  The buffer is a pair of owners, of header and of data.  **TunDevice** adds the
way in: the loop of `Attach` reads a packet into a buffer of its own, and
`InjectInbound` may have the stack answer at once (`ReplyInline`), in which case
the loop itself goes through WriteNotify.  **TunWire** is the promise of both ways: a
packet accepted leaves whole and once or is lost, packets of the device are heard
in order and unchanged.  `Out` reads a packet off the device, and is none when
header and data are of two; `Heard` reads the buffers the stack holds, now.

## 3. Runs

| Run | Instance | Shows |
|---|---|---|
| UdpForward | four datagrams: two hosts with one source port and one destination, one DNS question, one IPv6 destination | no datagram is written to a socket of another destination; the relay implements the flow table: one connection per identity for good, published open; all goroutines end unless the DoH server keeps one |
| UdpForwardReplyToSender | same | **violated**: the answer to one host is sent to the other one |
| NatForwarder | four datagrams of one client, one expiry | waiters find a socket; the entry names a socket until it is closed, but for two deletions that may hit a newer record; waiting ends unless the record is forgotten; inactive clients are disconnected |
| TcpRelay | two connections for one slot, one byte each way on the first, ends that may stop draining | TcpHandle leaves no socket open; complete streams; no copier or slot is left; the end of the remote's stream reaches a client that drains |
| LinuxRoutes | LinuxDevice: two addresses and none, two of the three base rules, three events out of route changes, link updates, DNS requests and restarts, kills at any point, failures of the calls in `MayFail` | an exit leaves of the run's rules only what the kernel would not delete or the updater added after Close, a complete run removes the base rules of killed ones; no report about a link is lost and Routes catches up with it; requests are answered |
| LinuxRoutesSrcRule | LinuxRoutes alone, two addresses and none, without failures | **violated**: no rule for the new address |
| WinRoutes | WinDialer: five rows and all their subsets, two destinations, two callbacks, one change, readings that fail as a whole or for one interface, one dial | no dial is bound to the tunnel; while the default route is there and can be read, a dial is unbound only before the first callback or in a torn look-up |
| ChangeCallback | three callbacks, two notification threads, up to three calls of one callback | the code implements the barrier; handle, table and subscription agree; Unregister returns; no deadlock |
| Daemon | both platforms, with and without pipe and log file | no orphan on Windows, none that an interrupt has reached, and none on Linux that logs to the pipe; on Windows the daemon leaves by itself |
| TunEndpoint | TunDevice: three packets out, one of them an answer given inline, queue of two, two packets in | the device implements the wire; all packets leave; the reading loop is never held up for ever |
| WinDevice | two sessions, three requests; each call of InitGateway and configFwp and the close of a session may fail | only DNS of other programs outside the tunnel is blocked, at every step; the filters, which are for IPv4, follow the switch but for sessions that could not be closed; requests are answered |
| DllLoader | two loads, three slots of which one crosses, two libraries, one reader, failure of every step that returns an error | the loader implements the store of images, so that a failed load and a freed module hold nothing; DLL code runs with its range known and the hook in place; LoadLibrary and Free return |

Bounds.  `Packets`, `Datagrams`, `Callbacks` and the like are the actors; three
or four are enough for two of them to race and a further one to come late.
`MaxAges` = 1 lets the janitor delete an entry while further datagrams arrive, and
four of these are what it takes for the reader of a closed socket to delete a newer
record under its dial or after it; with one address, every datagram competes for one entry, and
entries of other clients are independent but for the mutex.  `MaxBytes` is one
byte: the properties only tell "all" from "not all", and zero bytes occur on the
second connection.  `MaxInFlight` = 1 makes the connections wait for each other.
On Linux `MaxChanges` = 3 gives a change to nothing, one back and a report, and
`MaxEvents` = 3 shares three events between changes, reports, requests and restarts, so
that a change may precede a kill and another follow the restart, or several runs be
killed in a row; kills are not counted.  Two base rules are enough for Config to fail
between them; the third one is treated alike.  In WinRoutes one change lets a callback
read the table before it and another one after it, and they may store in either order;
the first table is any set of rows.  One interface that cannot be read, with one
of the two default routes on it, is next to those that can.
Dials do not touch each other, so one of them meets every state of the table.
Addresses of two octets of two bits keep both the order of octets and the order
of bits within them; `MetricMod` = 4 makes the sums of two metrics wrap.
`QueueSize` = 2 with three packets makes the queue refuse one, and two packets in
let a buffer still be held by the stack when the next one is read.  Two sessions are
what a second `configFwp` needs before the first session is gone, and three
requests allow on, off and on again, or a repetition.  Three slots give a load one
on a boundary and then another, with one left for the second load, or none.  The
instances are small enough to be searched completely, and no symmetry is used, as
they are checked for liveness too.

`CHECK_DEADLOCK FALSE` is set where the modelled part may really stop: all
datagrams handled, the process ended.  ChangeCallback never stops and is checked
for deadlock.  In the other runs the properties of liveness say that nobody is
left waiting.

Fairness is weak and given to goroutines and threads that can move, which the Go
scheduler and the system guarantee; `Dial` returns within 5 s and a closed socket's
read returns.  No peer, user, link or signal is ever obliged to do anything, neither end of a TCP
connection has to drain what it is sent (`RemoteEndReachesClient` is about a client that
in the end goes on draining), an
open socket never has to fail, nobody has to load or free a DLL, and the DoH
request, which has no timeout, never has to return.  The device need not have
another packet, and the daemon, once killed, need not be started again.  The
program that flips the DNS switch takes its answers (`TakeAnswer`, both platforms):
it is not in the repository, and without this the monitor blocks by design.

### What the violated properties mean

* `ReplyToSender`: the identity of a UDP flow holds the address of the egress
  route where the source address should be (`forwardUdp.go:206`).  Two local
  hosts with equal ports and destination share the socket and the first one gets
  all answers.
* `SrcRuleCurrent`: the updater uses the route captured at start-up
  (`device_linux.go:114`).

## 4. Proofs

The theorems hold for every value of the constants that satisfies the named
assumptions (`UdpAssumption`, `NatAssumption`, `TcpAssumption`, `ChangeAssumption`,
`TunAssumption`, `DeviceAssumption`, `RouteAssumption`, `WinAssumption`,
`DialAssumption`, `LinuxAssumption`, `EventsAssumption`, `NoneAssumption`,
`MaxRequestsAssumption`, `LoaderAssumption`): the constants are functions and
sets of the right shape, metrics and masks are naturals, `None` is none of the
others, and the base rules are not named
like a stage of the main goroutine.  TLC evaluates each
assumption in the corresponding run.

Every invariant that a passing run checks is a theorem, and so are the action property
`EntryNamesUntilClosed`, the conditional `DialsBound` and the four refinements.

**UdpForwardProofs**: `TypeCorrect`, `OneSocket`, `Published`, `RemoteIsRight`,
`TableStable`, `LockIsGivenBack`.  That no socket is dialled twice is not inductive.
`IInv` adds: a goroutine past `readRemoteDate` has the identity of its own header
(`IdentInv`); exactly one goroutine is between lock and unlock (`LockIsReturned`);
while one dials, the table has no entry for its identity (`DialInv`); a dialled
socket is either in the table under its identity or its goroutine is just inserting
it (`SockInv`); entries are dialled and stand under their own identity (`TableInv`),
and so is a connection a goroutine has picked up (`StateInv`).  `RelayIsFlowTable`,
the refinement, follows step by step from it: an insertion by its second half is
`FlowTable`'s step, and the unlocked look at the table a stutter.

**RelayProofs**, the two other relays.  NatForwarder: `TypeCorrect`,
`WaitersAreSafe`, `DeletedIsClosed`.  The first needs that a record whose channel is
closed has a socket (`AvailableHasSocket`), and that a goroutine past the wait saw it
closed (`SeenAvailable`); a channel is never opened again.  `DeletedIsClosed` is that an
entry goes on naming its open socket until that is closed, but for the two deletions
named in `EntryNamesUntilClosed`; it needs that a record with a socket is available, so
that nobody publishes into it again (`SocketIsPublished`).  `WaitersAreNotAlone` and
`ForgottenIsFinal` say exactly for whom a goroutine may wait in vain: a record that
left the table before it had a socket never comes back.  `TableInv` is what they
rest on: an entry is a record of its own address that somebody has made, and a record
without a socket that is still in the table is being dialled or dropped.
TcpRelay: `TcpTypes`, `CleanEndIsComplete`, `CopiesAreFaithful`, `NothingStaysOpen`,
`SlotsAreGivenBack`.  That the client's clean end means a complete stream needs to
know which places go with which descriptors (`PlaceInv`), that the copy towards the
client has ended by a reset or after writing everything (`DownInv`), and that bytes
are passed on in full (`StreamsFaithful`); `SlotInv` says which requests hold a slot,
and `NothingStaysOpen` follows from `PlaceInv`.

**ChangeCallbackProofs**: `TypeCorrect`, `UnregisteredIsQuiet`, `HandleIsRight`,
`WaitGroupRule`, `UnregisterIsNotBlocked`, and the refinement `Barrier`.
`IInv` says who holds which mutex where (`MutexInv`), which places in Register and
Unregister go with an entry in the table (`TableInv`), when the counter is zero
(`WaitInv`), and what handle and subscription are in each place under the first
mutex (`HandleInv`).

**TunDeviceProofs**: `AlwaysFinds`, `BufferIsSafe`, `AtMostOnce` of the way out, and
`DeviceTypes` and the refinement `DeviceIsWire` of both.  The queue is as
long as the number of goroutines about to call `Read` (`Counted`); only the holder
of the mutex is between `header` and `unlock`, and the buffer holds its packet
(`Mutex`); every packet is in at most one of the queue, a goroutine and the past
(`OnePlace`).  `NothingLeftBehind` is the other half: it is in at least one
(`Attended`).  No step of the reading loop disturbs these, and each buffer holds the
packet it was made for, given to the stack once and in order (`InboundInv`).

**DaemonProofs**, the daemon on Linux and the two processes.  LinuxDevice:
`LinuxTypes`, `NoRuleIsLeft`, `LinuxRequestsAreKept`, `NoReportIsLost`.  The kernel has
no base rules but those listed and those from before the run, and once Close has passed,
of those listed only what it could not delete (`RuleInv`); for the source rule the
same, with the update that may come after Close (`SrcInv`).  `NoReportIsLost` says that
once a report has come after the last change of the route, `Routes` is right or a look
at the routes is still to come.  `RouteInv` and `DnsInv` bound what the goroutines
hold and count the requests.  Daemon: `ProcTypes`, `SignsAreTrue`, and
`NobodyLeavesUnasked` of both processes: what each flag says of the other process
(`ProcInv`) is what a signal, a broken pipe or the end of `Wait` can be trusted for.

**WinRoutesProofs**: `LessIsStrictWeakOrder`, `CountBitsMonotone` (any width and any
address); `RouteIsFound`, that a look-up has an answer and which one, for any set of
routes (the least number of missing bits, then the least metric, by the
well-foundedness of the naturals); `DialTypes`, `TunnelNeverChosen`, by the invariant that neither
Routes nor a callback's snapshot has a row of the tunnel, so that even a torn look-up
finds none; and `DialsAreBound`, for tables that always have a default route and can be
read: then every snapshot has one, however the callbacks overlap (`DefaultInv`).

**WinDeviceProofs**: `TypeCorrect`, `OnlyForeignDns`, `FiltersFollowSwitch`,
`WinRequestsAreKept`.  Each place in `configFwp` goes with the filters added so far
(`Progress`), so a session with the block has both permits (`BlockGuarded`), even
while Close and the monitor race for it.  Up to Close, the switch, the field and the
open sessions agree wherever neither goroutine is at work (`BeforeClose`), except for
the sessions that could not be closed, which have all their filters (`Leftover`).
`RequestsKept` places each unanswered request in a channel or with the monitor,
which bounds the counter.

**DllLoaderProofs**: `TypeCorrect`, `FailureLeavesNothing`, `CodeIsHooked`,
`NobodyHoldsAndLeaves` and the refinement `LoaderIsStore`, for any number of loads.
The memory of a load is exactly its base and its blocked slots (`Memory`), its
references exactly its modules and the library being resolved (`Libraries`), and
`Hooked` says how far range, `sync.Once` and result are at each step.  In the
refinement a slot taken, a library loaded, the success of a load, its failure and
each piece given back are steps of the store; locking, the hook and the checks of
the image are stutters.

Proved and not repeated by a run: `TypeCorrect` of the UDP relay and `TcpTypes`;
`OneSocket`, `Published`, `TableStable`, `UnregisteredIsQuiet`, `WaitGroupRule`,
`AlwaysFinds`, `BufferIsSafe`, `AtMostOnce` and `FailureLeavesNothing`, most of
which follow from the refinement of their module or are what it rests on;
`CopiesAreFaithful`, `SlotsAreGivenBack`, `SignsAreTrue` and `NobodyLeavesUnasked`; the
facts about operators `LessIsStrictWeakOrder`, `CountBitsMonotone` and `RouteIsFound`;
and what the table below lists, but for the theorems that state a property of a run.

Only model-checked: the liveness properties, as TLAPS has no proof rules for
fairness here.  For most of them what they rest on is proved: that whoever is waited
for is at a step that does not wait in turn, or that what is waited for is not lost.

| Liveness, by TLC | Safety it rests on, by TLAPS |
|---|---|
| `HandlersFinish` | `LockIsGivenBack` |
| `HandlersServed` | `WaitersAreNotAlone`, `ForgottenIsFinal` |
| `CopierEnds`, `RequestsServed` | `NothingStaysOpen`, `SlotsAreGivenBack` |
| `UnregisterReturns` | `UnregisterIsNotBlocked`, `WaitGroupRule` |
| `RoutesFollow`, `DnsAnswered` | `NoReportIsLost`, `LinuxRequestsAreKept` |
| `PacketsLeave` | `NothingLeftBehind`, `AlwaysFinds` |
| `RequestsAnswered` | `WinRequestsAreKept` |
| `LoadReturns` | `NobodyHoldsAndLeaves` |

`NoOrphan` and `WindowsNotices` rest on `SignsAreTrue` only in that no sign is false;
that a sign comes is fairness.  `InactiveDisconnected`, `RemoteEndReachesClient` and
`ReadingGoesOn` are model-checked as a whole.

## 5. What the models say beyond the properties

Behaviours that are in the models and that no property forbids, since nothing in
the repository promises otherwise:

* `run` deletes `connState.identify`, a field never assigned (`forwardState.go:93`):
  no entry ever leaves the table (`TableStable`), and a flow whose socket has failed
  once is dead for the life of the process.
* On Linux `Process.Wait` on the parent, which is not a child, fails at once and
  the loop repeats (`procTool_linux.go:24`): a daemon whose parent has gone without
  a signal does not leave by itself but dies of SIGPIPE at its next line in the
  log, with the device configured.  Without the log file (`logTool.go:11`) or without
  the pipe (`procTool.go:60`) there is no SIGPIPE, and it lives on.  `WindowsNotices` is `DaemonNotices` for the
  other platform.
* WinDevice: the error of SetIPAddresses is overwritten, that of `gv.Start` only
  printed; a switch turned on later adds the filters but does not set the servers
  of the tunnel; Close may close a session twice, or let the monitor panic on a
  closed one, in a process that is ending.  The error of FwpmEngineClose0 is dropped
  and the handle zeroed (`device_windows.go:113`): such a session goes on blocking with
  the switch off, until the process ends.  The filters are on the IPv4 layer alone
  (`device_windows.go:195`, `:221`, `:246`): DNS over IPv6 is never blocked.
* DllLoader: ranges and function tables stay after `Free`; an image that needs
  relocation and has none is loaded as it is.
* `RecheckHit`: of two datagrams racing to open a flow one is lost, since
  `attachConnect` has no else branch at the second look.
* `DialFails` of TcpRelay leaves an accepted client open; `UpEnds` tells the remote
  nothing of the client's end or reset.  A write to an end that does not drain blocks
  without a deadline (`buildSocket.go:114`): a client that never drains keeps TcpHandle
  and both sockets for as long as it likes.
* LinuxRoutes: when Config has failed before it started the updater, the watcher
  blocks in its first send for ever (`RoutesFollow` is therefore conditional on
  the updater); an empty route list ends the process; an update under way while
  Close runs adds the source rule again.  A rule that RuleDel does not delete
  (`device_linux.go:400`) stays after a clean exit.  A route that changes without a
  link update, or after it, as when DHCP answers late, is not seen before the next
  update, and none is after a failed LinkSubscribe (`route_linux.go:59`).
* WinRoutes: of two overlapping callbacks the one with the older snapshot may store
  last, which then stays until the next notification.  The bits counted are those of
  the interface's address, not of the subnet, so a longer prefix need not be
  preferred: on equal bits the metric decides, and where the address could not be read
  no bits count.  Rows of an interface whose entry cannot be got are silently missing
  (`route_windows.go:59`); one whose metric cannot be read is a nil pointer
  (`route_windows.go:78`) in a goroutine whose recover is commented out.
* WinDialer: a look-up that falls into an assignment of `model.Routes` may miss
  routes, panic (the dial is dropped) or read past an array, which may end the
  process.  Until the first callback has run, and after one whose reading failed,
  Routes is nil and dials are left to the system's table, whose best route is the
  tunnel.
* TunDevice: the first error of Read ends the way in for the life of the process
  (`ReadFails`), while the way out goes on.
* LinuxDevice: errors of the address, of the activation and of the route into the
  tunnel are lost, so a run may look healthy and capture nothing; a run killed
  before a change of address leaves a source rule that no later run removes.
* NatForwarder: waiters of a record whose dial failed wait for ever, and so do those
  of a record that the reader of an older socket of the same client deletes while it
  is being dialled (`Forgotten`; it takes four datagrams).  When that reader comes
  later (`forwardUtil.go:162`), or the dropping after a failed dial does (`:137`), the
  newer record already has its socket, which then stays open in no entry, beyond the
  janitor's reach, until it fails; so does a socket dialled while Close runs.

Seen while reading and outside the models: the loop at `endpoint.go:96` would
repeat for ever on a packet longer than its 2048 bytes, which an MTU of 1500
excludes; the sum of two metrics wraps at 2^32 (`route_windows.go:78`; RouteSelect
has it, with `MetricMod`); CreateTUN leaves its descriptor open on an error, in a
process that then ends.

## 6. Not modelled, and why

The layouts and generated bindings of Windows system calls, constants and plain
data have no behaviour.  The network stack itself, the kernel and the peers
are external: the modules say what the code uses of them.  Payloads, formatting and
logging texts are left out.  The set-up of the stack and the socket options are
sequential calls whose failure is a failed dial or a failed start; on Linux the one
option of a dial (`SO_BINDTODEVICE`) is only logged when it fails, and such a dial
is not told apart from others.  The lookups of exported functions in `memmod`, the
LUID methods, and the IPv6 and route helpers of the Linux device that nobody calls
are left out, as are the checksum, address splitting and copy loop of `tool` and
`ioutil`: straight-line functions, mostly without callers, for which unit tests
serve better.  The code under
`src/test` tries libraries out and is not part of the program.

## 7. Plan

Done, in this order: the UDP relay and its proofs, the notifications, the endpoint,
the reverse NAT, the TCP relay, Linux routing, the choice of routes, the processes,
the Windows device and the DLL loader with their proofs; then the abstract
specifications of flow table, barrier and wire with their refinements, the way in
of the endpoint, the Linux daemon over killed runs with its DNS monitor, and the
dials on Windows; then the abstract store of images with its refinement, and the
safety of the TCP relay and of the two processes; last, the calls whose failure the
program does not look at, in routing and filters of both platforms, and ends of TCP
connections that do not drain.  Next:

1. Composition: the callbacks of WinDialer as those of ChangeCallback, so that
   Unregister and the writer of `model.Routes` are checked together; LinuxDevice
   inside the daemon of Daemon, whose parent then causes the kills.
2. Proofs: the composition's invariants; the safety under `InactiveDisconnected`
   (an expired record that the janitor has seen is its own to close).
3. The lookups of exported functions (`ProcAddress`), against the table a load has
   built.
