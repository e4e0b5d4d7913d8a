# BeaconDesk: TLA+ models, model checking and proofs

BeaconDesk is a remote-assistance system: a relay server (Go, `internal/relay`)
to which devices connect over TCP or WebSocket, a Windows client
(`internal/client` and `cmd/client-windows`) that is helper or helped device,
and web visitors that follow a link generated by a helped device. This
directory models the code, checks the models with TLC on small instances, and
proves the safety properties among what is checked with TLAPS for every instance.

Paths are relative to `src/internal/` unless they start otherwise.

## 1. Inventory

### 1.1 The relay's registry (`relay/hub.go`, `relay/session.go`)

State, all guarded by `Server.mu`: `clients` (device id to connection),
`webPeers`, `sessions`, `pending` (controller and controlled device to the
requested mode), `shares` (token to web link).

Operations, each one critical section: `register`, `unregister`, `getClient`,
`getWebPeer`, `createSession`, `storePendingRequest`, `consumePendingRequest`,
`getSession`, `unregisterWebPeer`, the section of `handleSessionClose`, and the
sections of the web links.

Hard: no handler holds the lock from its first lookup to its last effect, so
every handler acts on what may have changed; a connection is removed by
identity but its sessions, requests and links are removed by device id; an
evicted connection is closed by the goroutine that replaces it.

Correct when: a place in the registry passes only from a connection to its
replacement or is given up by its own `close()`; a session in the table has both
its parties; the number of devices is bounded; the end of a session is queued for
whoever was told that it is ready and is still there. (A connection that was dead
when it registered stays until its device registers again, and a ready may be
queued after the end: section 5.2.)

### 1.2 Connections and handlers (`relay/client.go`, `relay/server.go`)

State per connection: the socket, `closed` and `closeOnce`, the device id, the
temporary code and its expiry, the send queue, the time of the last message.

Goroutines: a reader that runs the handlers, a writer, the reaper of the server
and, through `close()`, any of them for another connection.

Operations: register (with eviction), publish a code, request a session,
confirm or decline one, forward input, stream control and frames, close a
session, heartbeat, close the connection, reap idle connections. A message may
come before the registration.

Hard: two lookups of a session for one message, a code that several requesters
present, `close()` called by reader, writer, reaper and evicting register at
once, messages that were buffered before a close and handled after it.

Correct when: input reaches a device only under a grant; a code admits one
request; an idle connection is closed; no handler waits for ever for another.

### 1.3 Web control (`relay/webshare.go`, `relay/webpeer.go`, `relay/webui.go`)

State: links (active, expired, revoked, removed), visitors.

Operations: create, list, revoke and expire links, the page, the WebSocket of a
visitor, its admission (four critical sections and a send), its messages, its end.

Hard: the link may be revoked and the device may leave between the sections of
an admission; admission may fail after the visitor was registered.

Correct when: a visitor only controls the device of its link, with the same
rules for input, and leaves nothing behind.

### 1.4 Send queue and limiter (`relay/client.go`, `relay/limiter.go`)

State: a channel of 128 messages, the write goroutine, the token bucket.

Hard: a full queue drops messages silently; the limiter waits inside the ten
seconds a message may take; whoever ends the writer must close the connection;
reader and writer take turns with the transport's mutex, and the reader's direct
answers have no deadline.

Correct when: never more than the bandwidth passes; an open connection has a
writer; a full queue of a registered connection does not stay full.

### 1.5 The client runtime (`client/client.go`, `client/options.go`, `client/state.go`)

Three groups of goroutines over one `State` and one connection:

- *connection*: `connect`, `readLoop`, `reconnect` with back-off,
  `heartbeatLoop`, `telemetryLoop`, `Close`, and everyone who writes. Hard: a
  dial that races `Close`; a loop that ends at its first error while the
  connection is replaced; a write that is given up and takes the connection's
  write side with it; one lock around writes that may block. Correct when: a
  client that is not closed is connected again, a connection that does not work
  any more is replaced once the relay has registered it, and a closed client's
  goroutines end.
- *stream*: one frame loop at a time, restarted by `session.ready`,
  `stream.control` and option changes, stopped by `session.close`, with a wait
  of two seconds; quality and FPS follow bitrate, loss and round-trip time.
  Hard: the wait expires; a stop races a start; a cancelled loop still writes; the
  detector has noted a frame whose write fails or which the relay drops. Correct
  when: a frame loop runs only for the current session, quality and FPS stay within
  the options, and the controller ends with the picture that is on the screen.
- *approval*: one slot for a pending request, answered from the GUI, by trust or
  by auto-accept. Hard: a second request arrives while the first is answered;
  peer, mode and input are read one after the other; the answer fails. Correct
  when: what is confirmed is what was asked, and nobody gets in unasked.

### 1.6 The window and the rest

| Part | Source | State and operations | Hard | Correct when |
|---|---|---|---|---|
| Window of the Windows client | `cmd/client-windows/app.go` | installed client, settings, jobs with flags, remote window | jobs on goroutines meet in `a.mu`; a job acts on what it read before it waited | no client or window is left over, flags come down, settings reach the client |
| Remote window | `cmd/client-windows/remote.go` | picture size, pointer | letterboxing; a goroutine per event | an event names the pixel that the user points at (it does not: section 5.1) |
| Trusted devices | `trust/store.go` | one JSON file: load, change, save | no lock between GUI and read loop; a crash in a save | an unreadable file trusts nobody; saves are not lost |
| Audit log | `audit/store.go` | one JSON file: load, append, cut, save | the same | entries are neither lost nor reordered |
| Change detection | `desktop/change_detector.go` | last hash, time of last frame | what it takes for sent may not have been | what was lost on the way is made good by the static interval |
| Capture | `desktop/capture*.go` | GDI handles, size and quality of frames | quality limits, rounding | sizes keep their shape |
| Input injection | `input/*` | none | coordinate arithmetic with a division; `SendInput` may take only some of its inputs | no property: section 5.2 |
| Transport, protocol | `transport/*`, `protocol/*` | socket, write mutex | cancelled reads and writes | outcomes appear in the models |
| Identity, token, code | `auth/*` | one file written once | none | not modelled |
| Configuration | `config/*` | none | none | not modelled: gives the constants |
| Update check | `updatecheck/checker.go` | none | version comparison | not modelled: it words a notice |
| Relay command, install | `cmd/relay-server`, `scripts/*`, `tools/*` | none | none | not modelled |

### 1.7 How the parts interact

A client writes envelopes to its connection; the relay's reader of that
connection handles one at a time, changes the registry, and puts envelopes in
the send queues of other connections and visitors; their writers put them on
the wire. Goroutines of the relay share the registry under `Server.mu`, the
code of a connection under `authMu`, and call `close()` of each other's
connections. The client runtime's loops share one connection under `connMu` and
`writeMu` and one `State` under `stateMu`; the GUI calls into it from its own
goroutine.

## 2. Modules

| Module | Models |
|---|---|
| `RelayHub` | the maps of `Server` and every critical section that changes them |
| `RelayConn` | connections: reader and handlers, close, reaper |
| `RelayWeb` | links and visitors |
| `Relay` | the three composed, with fairness and the properties |
| `SessionAuthority` | what the relay promises about sessions, without locks and handlers, and the properties a relay inherits with that promise |
| `RelayInvariant` | the inductive invariant of `Relay`, and what its steps may not undo |
| `MCRelay` | instances of `Relay` for TLC |
| `SendPath` | send queue, writer and limiter of one connection |
| `ClientLink` | a client's connection to the relay: `connect`, `readLoop`, `reconnect`, `heartbeatLoop`, `Close`, and the writes of the others |
| `StreamLoops` | who starts, stops and restarts the loop that sends the screen |
| `CaptureControl` | what one such loop captures, sends and adjusts |
| `RemoteScreen` | `CaptureControl` composed with the controller's read loop and window |
| `Approval` | requests to the helped device, their answers, and the trust file |
| `DesktopApp` | the window: clients, settings, jobs, the remote window |
| `PictureGeometry` | the arithmetic from screen to frame to window to injected position |
| `RemoteInput` | the way of a mouse event, over `PictureGeometry` |
| `MCStreamLoops`, `MCApproval`, `MCRemoteScreen`, `MCRemoteInput` | instances for TLC |
| `Relay_proofs` | `RelayInvariant!IInv`, and with it every safety property of `Relay`, its step properties and the refinement of `SessionAuthority` |
| `SendPath_proofs` | types, bandwidth and `OpenHasWriter` of `SendPath` |
| `ClientLink_proofs` | `NoStraySocket`, and what no step of the client undoes |
| `StreamLoops_proofs` | `NoLostLoop`, `OneStream`, `StreamFollowsSession` |
| `Approval_proofs` | types, `NobodyUnasked`, `AnswerFitsRequest`, `SlotHoldsRequest`, `TrustIsAsSaved` |
| `DesktopApp_proofs` | `NothingStray`, `FlagsMeanJobs`, `SettingsReachClient` |
| `RemoteScreen_proofs` | `TunedWithinOptions` |

`RelayWeb` EXTENDS `RelayConn` EXTENDS `RelayHub`: handlers are the operators of
the registry with program counters around them. A few operators named "faulty
variant" are not part of any specification: they are plausible mistakes, and
each property has been seen to fail when one of them takes the place of the
right definition (`mutants` in `PROJECT.json`).

### 2.1 How the relay's state and actions correspond to the code

*Critical sections.* Everything one goroutine does between `Lock` and `Unlock`
of `Server.mu` is one action; a handler with several sections is several
actions, `pc[x]` says which one comes next in the goroutine that reads for `x`,
and `arg[x]` holds the handler's locals (the connection it has looked up, the
mode, the session id, the kind of message, the code it has used up). What a
handler does after its last section and that others can see (a send into a
queue) is an action too.

*Connections* (`connState`): "open", "quiet" when nothing was read for
`HeartbeatTimeout`, "closing" from the moment `closeOnce` is entered, "closed" when
`unregister` has returned. `sync.Once` makes later callers wait for the first;
`EvictReturn` is that wait. The reader may handle buffered messages after the
close until its read fails (`ReadError`): a registration among them, so that a
connection may register when its `unregister` has already run, without an id.
The id is a field that the reader writes and `close()` reads without a lock, a
data race; the value read is the old or the new one.

*Queues.* Only what parties end up believing about a session matters: `told[x][s]`
is the last `session.ready` or `session.close` of `s` queued for `x`. With
`QueueMayFill` any send may be dropped. What is queued for a connection that is
being closed, or a visitor that is leaving (`Deaf`), may be lost too (Go's `select`
picks either ready case) and is not counted, whether it is lost or not.

*Identifiers.* Device ids, visitors, sessions and tokens are model values;
ids drawn at random never repeat. A temporary code that is published is not one
in use. A session keeps its record after its deletion: `live` is the set of
keys of `s.sessions`.

*Environment.* The clients are the repository's own: they register once, but
their first message may be another one, since `c.conn` is published before the
registration is written (`client/client.go:512-528`); `Early` are the connections
that do so in an instance. The relay answers such a message or queues an error, and
that write may fail. A device confirms only requests that were sent to it, maybe
over an earlier connection of it. Who asks whom is the constant `Asks`. Tokens
are valid: a refused token changes nothing.

*Left out.* Server shutdown, logging, names, timestamps nothing decides on,
ping and telemetry (they only touch the last-message time, which `Read` does).

### 2.2 The send path

Time is counted in ticks in which the limiter gains one token, sizes in tokens;
the code computes with floating-point numbers, whose rounding is left out. A
timer fires on time or up to `Late` ticks late. `closed` is `close()`'s channel
and socket. `reader` is the goroutine of `run`: registration, heartbeats, codes and
links are answered by a direct `Write` with the server's context, which takes the
transport's mutex and then has no deadline. The writer waits for the same mutex,
whether or not its ten seconds are over (`WriterLocks`). `Reap` is the reaper that
finds a registered connection silent because its reader is stuck so;
an evicting register and a silent peer are `OtherCloses`. `excess` is a history
variable: it grows by the size of what is let through and falls by one per tick,
so a bound on it bounds what passes in any stretch of time. Shutdown is left out.

### 2.3 The client's connection

`conn` is `c.conn`, `local` the socket that `connect` has dialled or `readLoop`
reads, `reader` where the goroutine is that runs `Start` and then `readLoop`:
each critical section of `connMu`, each blocking call and each wait is an
action. `cancelled` is the context of `Start`, done through `Close` or by the
application (`ContextDone`). Where a `select` has two ready cases either is taken: a
write with a context that is done may succeed or fail, a heartbeat may be tried
once more. `closing` is `Close`, called by the user's goroutine or by `readLoop`
itself when reconnecting is disabled; `sync.Once` makes the second caller wait
(`ReaderClosed`). Sockets are used again once closed.

Everyone writes under `writeMu`. `writing` is the socket of the write in
progress: a ping (`heartbeat = "ping"`) or one of `OtherWrite`, which stands for
the stream loop, telemetry and presses. The read loop's registration and answers
are one action each, taken when `writeMu` is free. The socket becomes "mute" when
a write is given up: `Write` of `transport/conn.go` sets the write deadline to now
and nothing sets it back, so all later writes fail while reads go on. `accepted`
are the sockets whose registration the relay has accepted: its reaper sees no
others (`Reaped`).

The `State` shown to the user, the contents of messages and the values of the
back-off are left out; `stopStreamLoop`, a wait of two seconds at most, belongs
to `StreamLoops`.

### 2.4 Stream loops

`current` is the slot `streamCancel`, `streamDone`; `loop`, `cancelled` and
`streams` describe each loop that was made, `step`, `after`, `wanted`, `old` and
`new` are the locals of the goroutine that works on the slot: the read loop
(`session.ready`, `session.close`, `stream.control`, a lost link), goroutines of the
window (`UpdateOptions`) and `Close`. The swap under `streamCancelMu`, the call of
the old loop's cancel function, the wait and the start of the new loop are an
action each. A wait ends at any time, which covers both the end of the old loop
and the two seconds. Events begin at any time when their goroutine is free.
`alone` is a history variable: whoever last set the stream right had the slot
for itself.

### 2.5 Requests and trust

`pending` is the one slot for a request, `waiting` what the relay waits for an
answer to, `disk` the trust file. `handleSessionRequest` looks the device up, then
stores the request, then maybe answers: three actions, because presses of the
user (`Users`) and the window (`Revoke`) run in between. `approveSession` reads the
peer, the mode and the input in separate critical sections and clears the slot
after its write: an action each. `Remember`, `Touch` and `Revoke` are load,
truncate and write; a program that ends in between (`Crash`) leaves an empty
file, and two saves at once may leave a torn one. `LinkLost` and `Reconnect` are
the read loop's part of a lost link: the relay forgets the requests at once, the
slot is cleared only when the client reconnects. `remembered`, `meant`, `orderly`
and `alone` are history variables for the properties.

### 2.6 The window

`client` is `a.client`, `taken` the one that `disconnect` or `shutdown` has taken out and
is closing, `connect` the goroutines of `connect` (auto-connect and presses) between
reading the settings, `Start`, installing the client and, when another was
faster, closing it. `shown` is whose `State` is in `a.state`, `picture` whose last
frame is in `a.lastFrameImage`, `frames` the clients whose `State` has a frame:
`Decode` leaves the old image when there is none. `forwards` are the clients whose
`forwardEvents` goroutine goes on, for as long as the program does: an event of a
closed client puts its `State` and picture back. Settings are versions;
`applies` are the calls of `UpdateOptions` that a save has yet to make. `busy` are
the flags that refuse presses, `jobs` the goroutines that are to take them down.
`settled` is a history variable: no save or connect overlapped the last save.

### 2.7 The remote screen

`CaptureControl` is `screenFrameLoop` with `ChangeDetector` and the capturer's
quality. A picture is a model value; the detector keeps a picture at a quality
(hashes differ when one of them does), and takes it for sent before it is written.
Each tick that sends also adjusts quality and rate by a load and a line state
chosen freely among the ranges the code tells apart. That the static interval has
passed is a flag; that five seconds have passed since the last report of a failure
is free. `passes` says whether the relay passes frames on: when it does not
(queue full, connection closing, or a limited writer that has ended) what is
written is lost, which neither end hears of. `Restart` begins the new loop; the old one
may still hold a picture, or fail its next capture because its context is done,
and write that afterwards (`late`, `LateWrite`), for startStreamLoop waits two
seconds only. `RemoteScreen` adds the controller's `handleMessage`, the window's
decoding, and sessions that follow each other.

### 2.8 The mouse

`PictureGeometry` has the integer arithmetic of `scaleImage`, `fitRect`, the
pointer's mapping and `normalizeAbsolute` as operators. `RemoteInput` runs events
through it. `Local` is where Gio says the pointer is: relative to the offset in
force where the tag was added (`cmd/client-windows/remote.go:140`); `Delivered` is the
clip rectangle, in the same coordinates, and Gio's grab after a press. A goroutine
each carries the events, which may overtake one another, fail or be refused, and
the helped device injects them on a screen whose size may have changed since:
all that is asked, only the first of the two inputs, or nothing (`Inject`), and a
picture of one pixel makes it divide by zero and ends its read loop. `under` of an
event is history: the pixel under the pointer. Keys, the wheel and the other
buttons are not sent by the window.

## 3. Runs

`tlc -config <cfg> <module>`; the instances of passing runs are explored completely.

| Run (`cfg`) | Instance | Checks | Shows |
|---|---|---|---|
| `relay_reconnect` | helper once, maybe with a message before it registers, helped device twice, 1 session, input and frames | `TypeOK`, `SessionPartiesOnline`, `EndIsAnnounced`, `MessagesStayInSession`, `SessionAuthoritySpec` | eviction, confirmation, three lookups per message and unregister in every order; refinement |
| `relay_web` | one device once, another twice, 1 visitor, 1 link | `WebSessionBoundToShare`, `VisitorLeavesNothing`, `InputInFlightGranted`, `SessionAuthoritySpec` | admission and visitor's input in the middle of revocation, loss, departure and replacement |
| `relay_codes` | two helpers, 1 code, queues may overflow | `OneRequestPerCode` | two requesters with one code |
| `relay_idle` | four connections of three devices, room for two, one device may fall silent, and send before it registers on one of its two connections, fairness | `WithinCapacity`, `PlacesPassOn`, `QuietIsReaped`, `HandlersReturn` | refusals; reaper against eviction; dead connections that register; a late close() takes no place from a successor; no handler waits for ever |
| `send_path` | limited or not, queue 2, burst 4, sizes 0, 1, 3, 5, deadline 7, late 1 | `WithinBandwidth`, `OpenHasWriter`, `FullQueueMoves` | late timers and expired waits never exceed the bandwidth; failing and slow writes, and a reader stuck with the mutex, never leave a registered connection's queue full |
| `client_link` | 3 sockets, reconnecting may be disabled, fairness | `NoStraySocket`, `CloseEnds`, `MuteIsReplaced`, `Recovers` | losses, failures, blocked and abandoned writes and `Close` in every order; a lost link comes back, a registered one that takes no writes is replaced |
| `client_stream` | 2 sessions, 3 loops, one goroutine that saves | `NoLostLoop`, `OneStream`, `StreamFollowsSession` | waits that expire, restarts that meet: no running loop is forgotten, two never go on |
| `client_session` | 2 devices, 1 user's goroutine, crashes | `SlotHoldsRequest`, `TrustIsAsSaved`, `NobodyUnasked`, `AnswerFitsRequest` | requests, presses, trust, failing answers and saves in every order |
| `client_confirm` | the same | `ExplicitlyConfirmed` violated | the first finding of section 5 |
| `client_window` | 2 clients, 2 connectors, 2 remote windows, 2 saves, 1 other job, fairness | `NothingStray`, `FlagsMeanJobs`, `SettingsReachClient`, `DisplayCatchesUp` | jobs of the window, frames and late events of closed clients in every order |
| `remote_screen` | 2 pictures, 3 option sets, 1 frame on the wire, 1 change of options or a second session, quality lowered once, fairness | `TunedWithinOptions`, `PictureArrives` | what failures, locks, restarts, cancelled loops and the relay lose is made good once the relay passes frames |
| `remote_pointer` | 4 screens, every point of a small window, 2 events under way | `PointedPixel` violated | the second finding of section 5 |

`StreamFollowsSession`, `SlotHoldsRequest`, `AnswerFitsRequest`,
`TrustIsAsSaved` and `SettingsReachClient` hold for behaviours in which certain
events did not overlap (`alone`, `orderly`, `settled`); the code does not
promise more, and section 5.2 says what happens otherwise. What holds without
any such condition is in `NoLostLoop`, `OneStream`, `NobodyUnasked`,
`NothingStray` and `FlagsMeanJobs`.

One type invariant is checked, by `relay_reconnect`.
Those of the other modules are theorems, or conjuncts of the invariants proved for
these modules; `RemoteInput` has none.

Deadlock checking is off in `send_path`, `client_link` and `client_window`: a closed
send path, client or program has nothing to do. Elsewhere it is on; in the relay it
says little, since the reaper's ticker never stops.

### 3.1 Bounds, and why they are enough

`relay_reconnect` and `relay_web` take the two connections of the helped device as
interchangeable (`SYMMETRY`): no definition tells them apart, and all their
properties are safety properties. Every bound is a constant: the connections
ever accepted (`Conns`), visitors, sessions ever created, links, codes; `RoomForSession` keeps a handler from
starting to confirm when no session id is left. A hazard of the relay is a race
of at most three goroutines: one that acts on an old lookup, one that
invalidates it, and one that takes its place. So the helped device gets two
connections where replacement matters (`relay_reconnect`, `relay_web`,
`relay_idle`), and a third device exists where capacity or a second requester
matters. With three connections only one session fits the time: each race is
about one session, and that several sessions, links or codes of one device do
nothing to each other is proved (section 4, any number of all of them). In the
send path the sizes are two below the burst (one passes at once, two of the
other do not), one above it, and the empty message; the deadline is longer than the longest single wait, so
that expiry is due to repetition. A client has at most two sockets at a time,
`c.conn` and the one just dialled (`NoStraySocket`, which is proved for any
number); three leave room for a stray one.

In `client_stream` a hazard is a goroutine that works on the slot while two
others do: the read loop, one that saves and `Close`; three loops are the one in
the slot, one that is slow to end and one about to start, and an id is used again
when nothing knows it, so runs are not limited in length. In `client_session` two
devices are what it takes for one request to take another's slot, and the user's
goroutine, the read loop and the window are the three that save. In
`client_window` two connectors race for one place, two saves are what it takes for
one to overtake the other, and two windows what it takes for one to be left over;
`MaxJobs` bounds the presses of the other buttons at a time. In `remote_screen`
the option sets have a quality at the encoder's lower limit of 20, one above the
25 from which it is lowered, and one at the upper limit of 90, where encoder and
loop part; `MaxDrop` bounds how far quality is lowered and `MaxChanges` the changes
of options and new sessions, while the proof of `TunedWithinOptions` covers all others.
In `remote_pointer` the screens are too wide, too tall and small enough for a
frame, and so wide that the frame is one pixel high.
Devices, sessions and loops are interchangeable in the safety runs
`client_stream` and `client_session` (`SYMMETRY`).

### 3.2 Fairness

Safety is checked on `Spec`, without fairness. `FairSpec` of `Relay` assumes what
the Go runtime gives: a handler's next section runs (weak), a `close()` that has
begun unregisters (weak), the reaper's ticker ticks (weak), and reads of a closed
socket fail eventually (strong: buffered messages, finitely many, are handled
first). No message, silence, failure or confirmation is assumed to happen.
`FairSpec` of `SendPath` assumes that the writer runs, that it gets the mutex if that
is free again and again (strong: Go's mutex hands itself over to a waiter that
starves), that time passes, and that the reaper closes a registered connection
whose reader is stuck (weak). Nothing is assumed of the reader: its write to a peer that
does not read may never return, which is why the ten seconds of the write
goroutine bound nothing there.
`FairSpec` of `ClientLink` assumes that goroutines run, also when they wait for
`writeMu` again and again (strong: Go's mutex hands itself over to a waiter that
starves), that another goroutine's write ends (weak: it has a deadline or fails
with the socket), that the relay's reaper closes a registered connection on which
nothing is heard any more (weak: `closeIdleClients`, which sees no others), and that a `select` which finds the
context done again and again takes that case some time (strong: it picks at
random). `Recovers` needs the environment as well: dials succeed again and again
(`DialsSucceed`), and links stop being lost or muted (`LinksLast`); both are
premises of the property.
`FairSpec` of `DesktopApp` assumes that a client taken out is closed (weak), and that
frames are drawn (weak: a ticker asks for one every second). No press and no event
is assumed, nor that any job ends.
`Fairness` of `RemoteScreen` assumes that the loop ticks, that the static interval
passes, that a cancelled loop ends (its context is done), and that frames are
received and drawn (all weak). `PictureArrives` has the rest as its premise: the
screen stays, can be captured, the loop runs, and the relay passes frames from
some time on.

## 4. Proofs

Every safety property that a passing run checks, action properties and the
refinement included, is also a theorem. All theorems hold for every value of the constants
that satisfies the named assumptions `ConstantsAssumption`, `EnvironmentAssumption`,
`SendPathAssumption`, `ClientAssumption`, `StreamAssumption`, `ApprovalAssumption`,
`AppAssumption` and `CaptureAssumption`; TLC
evaluates these on every run. The sets of connections, devices, visitors,
sessions, clients, loops, pictures and so on may have any size.

| Theorem | States |
|---|---|
| `Relay_proofs!TypeCorrect` | `Spec => []TypeOK` |
| `Relay_proofs!CapacityKept` | `Spec => []WithinCapacity` |
| `Relay_proofs!SessionsHaveBothParties` | `Spec => []SessionPartiesOnline` |
| `Relay_proofs!VisitorsKeepToTheirLink` | `Spec => []WebSessionBoundToShare` |
| `Relay_proofs!InputOnlyAsGranted` | `Spec => []InputInFlightGranted` |
| `Relay_proofs!MessagesKeepToTheirSession` | `Spec => []MessagesStayInSession` |
| `Relay_proofs!ReplacementIsSafe` | `Spec => PlacesPassOn` |
| `Relay_proofs!ConnectionsCloseOnce` | `Spec => CloseIsFinal` |
| `Relay_proofs!HandlersOnlyAdvance` | `Spec => HandlersAdvance` |
| `Relay_proofs!RelayKeepsPromise` | `Spec => []SA!Promise` |
| `Relay_proofs!SessionsEndForGood` | `Spec => SA!EndedForGood` |
| `Relay_proofs!CodeAdmitsOne` | `Spec => []OneRequestPerCode` |
| `Relay_proofs!GoneVisitorsLeaveNothing` | `Spec => []VisitorLeavesNothing` |
| `Relay_proofs!EndsAreAnnounced` | `Spec => EndIsAnnounced` |
| `Relay_proofs!RelayImplementsAuthority` | `Spec => SessionAuthoritySpec` |
| `Relay_proofs!RelayRelies` | `Spec => []IInv` |
| `SendPath_proofs!SendPathTypes` | `Spec => []TypeOK` |
| `SendPath_proofs!BandwidthHolds` | `Spec => []WithinBandwidth` |
| `SendPath_proofs!OpenConnectionsAreServed` | `Spec => []OpenHasWriter` |
| `ClientLink_proofs!NoSocketIsLost` | `Spec => []NoStraySocket` |
| `ClientLink_proofs!TwoSocketsOnlyInConnect` | `Spec => []SecondSocketIsDialled` |
| `ClientLink_proofs!ClosingIsFinal` | `Spec => ClosedForGood` |
| `StreamLoops_proofs!LoopsAreCancelled` | `Spec => []NoLostLoop` |
| `StreamLoops_proofs!StreamsAreOne` | `Spec => []OneStream` |
| `StreamLoops_proofs!LoopFollowsSession` | `Spec => []StreamFollowsSession` |
| `Approval_proofs!ApprovalTypes` | `Spec => []TypeOK` |
| `Approval_proofs!NobodyComesUnasked` | `Spec => NobodyUnasked` |
| `Approval_proofs!AnswersFitTheirRequest` | `Spec => AnswerFitsRequest` |
| `Approval_proofs!SlotAndRelayAgree` | `Spec => []SlotHoldsRequest` |
| `Approval_proofs!TrustFileIsAsSaved` | `Spec => []TrustIsAsSaved` |
| `DesktopApp_proofs!NoClientIsLost` | `Spec => []NothingStray` |
| `DesktopApp_proofs!JobsTakeTheirFlags` | `Spec => []FlagsMeanJobs` |
| `DesktopApp_proofs!SavedSettingsApply` | `Spec => []SettingsReachClient` |
| `RemoteScreen_proofs!TuningKeepsToOptions` | `Spec => []TunedWithinOptions` |

Each strengthened invariant below was checked with TLC on the instances of
section 3, or smaller ones, before it was proved.

### 4.1 The relay

*Types.* `TypeOK` alone is not inductive: `handleSessionConfirm` indexes `pending`
with the controller in its locals, `unregister` with the device id of a
connection, and a visitor's admission with its link. `Typed` adds what these
indices rely on: `Places` (which goroutine is where, and that a connection has its
device id wherever a handler uses it), `Locals` and `Links`. The proof has one lemma
per action and a few about the helpers they share (`GotoType`, `NotifyType`).

*Registry.* `Registry` is inductive relative to `Typed`: the map has a connection
under the id it registered with, and neither the map nor an evicting handler holds
one whose registration is not decided yet. That no connection in the map is
closed is not part of it, because the code does not give that (section 5.2).

*Capacity.* A step puts at most one device into the map, and only when it was
there before or there is room (`EveryRegistration`). `Devices` may be infinite,
so the invariant also says that the set of registered devices is finite.

*Sessions.* Every step is one of five kinds for the sessions (`AuthorityStep`):
nothing, a device or visitor joins, one leaves and takes its sessions with it, a
session is granted to two registered parties, or a session ends.
`SessionPartiesOnline` is inductive over these kinds.

*What handlers hold.* Most races of the relay are about a handler that looks
something up in one section and uses it in a later one. `Held` says what its
locals still mean wherever it is: a request goes to a connection of the device
it names (`RequestHeld`), a confirmation is for a controller that asked this
device, then for the session made for the two (`ConfirmHeld`), and a message still
has the grant it was checked against (`MessageHeld`). It survives the sections of
the others because all it rests on never changes again once it is there: the id
of a connection, the terms of a session, the device of a link, the link of a
visitor, who has asked whom (`Fixed`, a fact about every step); and because at
most one goroutine's place and locals change in a step (`AtMostOneMoves`), so
that only the section of the one that moves needs a proof of its own.
`WebSessionBoundToShare`, `InputInFlightGranted` and `MessagesStayInSession` follow:
whoever is found at the third lookup, of the target, is a connection of the other
party of the session as it was looked up at the second.

*Codes.* A step may publish a new code at a connection, hand a waiting one to a
request, or do nothing new (`CodeStep`); in each case a code is held at one place
at most (`OneHolderStep`).

*Visitors.* `VisitorLeavesNothing` is inductive with `Admission`: a visitor is
registered or has a request pending only at certain places, none of which
follows its departure. That its sessions are gone is `SessionPartiesOnline`.

*Announcements.* `EndIsAnnounced` needs to know that who was told that a session is
ready is a party to it, and who was told of its end was told so of a session that
is over (`Announcements`). A step tells nobody, announces one session to one party, or
ends sessions and tells those of their parties that are registered afterwards and
can hear it (`ToldStep`). The proof says nothing of a ready that follows the end.

*Refinement.* Two things are needed of each step: the kinds above, which are the
actions of `SessionAuthority`, and what happens to the messages on their way,
which are a set of notes there and locals of handlers here. A step that neither
enters nor leaves "deliver" keeps the notes (`EveryPass`); entering it is `Pass`,
whose guard `MessageHeld` gives although the session may be over by then
(`TargetPasses`), and leaving it is `Passed`, unless another goroutine is passing on
the same note (`DeliverPasses`).

What holds of `SessionAuthority` is then inherited. `SA!Promise` and
`SA!EndedForGood` are proved from its steps alone, with its types, and need one
fact about the relay: that no terms anybody can be granted equal `NoSession`.

*What a step may not do.* The connection of a device changes only by
`RegisterInsert` and `CloseUnregister` (`EveryPlace`); `PlacesPassOn` follows from the
comparison in `unregister`, from `Registry`, by which a connection that has a place
unregisters that place, and from the fact that a replaced connection is in the locals
of its successor. `CloseIsFinal` and `HandlersAdvance` go through all steps:
`SectionsLeft` gives each place of a handler the number of sections that may
follow, and every section lowers it. They are the parts of `HandlersReturn` that
need no fairness: a handler can only fail to return by never being run, or by
waiting in `old.close()`, and `CloseIsFinal` says that what it waits for cannot be
undone. That it does end is checked by TLC under the fairness of `FairSpec`.

### 4.2 Send queue and client

*Bandwidth.* `excess + Available <= Burst` is inductive with the types: letting a
message through moves its size from the second summand to the first, a failed
reservation only loses tokens, and a tick takes one from `excess` for the one it
gives to the bucket. `OpenHasWriter` is inductive with the fact that a writer without
a limit never waits for tokens.

*Client.* `NoStraySocket` needs to know when the goroutine holds a socket in a
local variable: only between a dial and its assignment, and during a read, where
it is `c.conn` unless somebody has closed it (`LocalUse`). `closeConn` then
removes exactly `c.conn` from the sockets held (`CloseConnHolds`).

A write that is given up changes a socket but closes none (`FailsHolds`), so the
writers do not matter for it. Both together give `SecondSocketIsDialled`: outside
connect a socket in the reader's hand is `c.conn` or closed. `ClosedForGood` needs
no invariant: no action leaves an end.

*Stream loops.* `NoLostLoop` needs to know that a goroutine about to start a loop
has made it and still holds it alone (`Maker`, `OwnLoop`): otherwise starting one
could bring back to life a loop that another goroutine has already cancelled.
`OneStream` follows: a loop that runs uncancelled, with nobody about to cancel
one, is the one in the slot, and there is one slot. Before `Close` has ended the
context its goroutine does nothing (`CloserWaits`), so no loop is dropped.

`StreamFollowsSession` adds what the one goroutine that sets the stream right has
done so far, at each of its places, while the others are idle (`Follows`): from
the stop to the swap the slot is empty and the session it wants a loop for is
that of State; from the swap on the slot has a loop for this session.

*Requests.* `NobodyUnasked` is about one moment, the read loop's message, and rests
on what each goroutine holds before it (`Sound`): devices loaded from the file
were remembered, whatever another goroutine has revoked or overwritten since,
apart from the one that a user's goroutine is about to remember; and from the
check of the trust file on, the read loop's slot has the device that passed it,
or nothing. The file may be cut short by a crash; that only removes devices.
It is proved with the types, since `pendingPeer` may find the slot cleared.

The other three hold while requests, answers and saves come one at a time, and
their invariants say what the one goroutine that is not idle holds then. For
`TrustIsAsSaved` (`FileInv`) it is the list that was loaded and what is to become of
it; between truncating and writing the file has nothing, and the list is in the
goroutine's hands. For `AnswerFitsRequest` and `SlotHoldsRequest` (`AnswerInv`) each
thing that it has read of the request (peer, mode, input) is that of the request
the relay waits for, and the slot has it until the answer is sent (`Fits`).

*Window.* A client goes from the connector that starts it into `a.client` or
back to be closed. `NothingStray` is inductive with who has it: a connector has
one exactly between its start and its end (`Hands`), nobody starts it twice
(`Started`), and one in a connector's hands is in nobody else's, not installed
and not about to get settings (`Apart`). `SettingsReachClient` needs that a client
which is about to be installed has the settings its connector read (`AsRead`),
and that settings on their way are the last and meant for the installed client
(`Meant`); the latter is what fails when saves and connects overlap.

*Remote screen.* `TunedWithinOptions` is inductive with the types, for options of any
quality and rate. It needs the bounds of `adjustCaptureQuality` and
`adjustCaptureFPS` as lemmas (`QualityBounds`, `FPSBounds`): quality is lowered from
above 25 only and raised from below `CaptureQuality` only, so it never goes to 20 or
below unless it began there, and stays within one of what was asked for. Where
the loop's quality goes above 90, which `-capture-quality` (any positive number) and
`UpdateMediaOptions` (up to 90, and the loop one past it) allow, the encoder's clamp
keeps it at 90: from there on the two differ, and the theorem says so.

### 4.3 What is only model-checked

The eight liveness properties (`QuietIsReaped`, `HandlersReturn`, `FullQueueMoves`,
`CloseEnds`, `MuteIsReplaced`, `Recovers`, `DisplayCatchesUp`, `PictureArrives`): fairness is about when an action is enabled, and ENABLED is
beyond the installed provers. TLC checks them on the instances of section 3.
`ExplicitlyConfirmed` and `PointedPixel` are false (section 5.1).

## 5. Findings and known behaviours

### 5.1 Findings

*A press may confirm another device than the one shown*
(`client/client.go:397`, run `client_confirm`). `approveSession` reads the pending
peer when its goroutine gets to it; there is one slot, and a request that arrives
between the drawing of the window and that moment takes it. The user presses
"allow" for one device, and the other gets the session, although `README.md:299`
of the repository wants every control confirmed explicitly. `AnswerFitsRequest` holds
only when requests and answers do not overlap.

*A mouse event names a pixel beside the one pointed at*
(`cmd/client-windows/remote.go:140`, run `remote_pointer`). With a picture, `screen`
pushes the offset of its corner and pops it only when it returns, so the positions
that `handleRemoteInput` gets are relative to that corner; it subtracts the
corner again (180-181), and its clip rectangle is displaced in the same way. An event
is off by the margin around the picture, at least 18 dp in each direction, and
the strip of the picture along its left and upper edge takes none. `README.md:28`
promises mouse input.

### 5.2 Behaviours of the models that a reader should know

The documents of the repository do not go into these cases; they limit what the
properties can say.

1. The reaper walks `s.clients` (`relay/server.go:212`): a connection that was
   refused or has never registered is not cleaned up, and a client whose write
   side is gone before its registration is accepted keeps it. `QuietIsReaped`,
   `FullQueueMoves` and `MuteIsReplaced` speak of registered ones.
2. A request that fails after its code was accepted has spent it
   (`relay/server.go:377`).
3. A reservation that fails empties the token bucket and waits only for what was
   missing (`relay/limiter.go:68`): with 3 tokens a message of 4 waits for 1, has
   1, waits for 3, and so on until ten seconds are over. `writeLoop` then returns
   without closing the connection (`relay/client.go:74`); `OpenHasWriter` is
   therefore stated without a limit. A message larger than the burst does so at
   once.
4. `heartbeatLoop` returns at its first failed write (`client/client.go:667`) and
   only `Start` starts it: after a reconnect nothing pings, and the relay reaps a
   client that is otherwise silent.
5. A dial that succeeds while `Close` runs is assigned afterwards
   (`client/client.go:512`); `readLoop` may then end without closing it. The socket
   stays in `c.conn`, which `NoStraySocket` allows.
6. A write that is given up ends the connection's write side
   (`transport/conn.go:133`): a press whose deadline passes, or a stream loop that
   is cancelled while it captures or writes (saved settings, a new session, the
   end of one). Heartbeats fail with it; the relay reaps the connection, and the client
   connects again with its session lost. `MuteIsReplaced` is what remains.
7. The pending request of a lost link stays in the slot until `reconnect`
   (`client/client.go:554`), and `clearPending` empties the slot whatever is in it by
   then (416).
8. Saving settings, `session.close` and `Close` may overlap on the stream's slot: a
   loop may go on for a session that is over, or none for one that is there,
   until the next event. There is never a second one (`OneStream`).
9. `Touch` may undo a `Revoke` and two `Remember`s may lose one (`trust/store.go:44`).
   Nobody is let in who was never remembered (`NobodyUnasked`).
10. Overlapping saves of the settings may leave the client with the older ones
    (`cmd/client-windows/app.go:1593`), and so may a save during a connect.
11. Mouse events may overtake each other or get lost, a release outside the
    picture is not sent, `SendInput` may inject the movement without the button, and
    input that ends with the button down leaves it down on the helped device
    (`cmd/client-windows/remote.go:176`, `client/client.go:451`,
    `input/input_windows.go:136`). An event of a picture one pixel wide or high makes
    the helped device divide by zero and ends its read loop
    (`input/input_windows.go:163-169`).
12. A visitor whose write fails stays open until its reads fail
    (`relay/webpeer.go:126`), and revoking a link ends none of the sessions that
    visitors already have (`relay/webshare.go:99`).
13. A connection whose reply to an early message cannot be written is closed
    before it has an id, so its `unregister` does nothing (`relay/hub.go:47`); a
    buffered registration then inserts it, and nothing removes it but the next
    connection of the device: the reaper calls `close()` on it, which has been
    entered already. `PlacesPassOn` says that only such a connection stays behind.
14. `session.ready` is queued without the lock (`relay/server.go:494`): when the
    session ends in between, the party is told ready after closed and believes in a
    session that is over until it ends it itself. Sessions of one party may
    be live at once, and the client compares no ids (`client/client.go:867`), so the
    end of one ends the other for it.
15. A late event of a client that was disconnected puts its `State` and last
    picture back into the window, where they stay until another client is
    installed, the picture until that one has its own
    (`cmd/client-windows/app.go:805-811`, 870, 917-930).
16. The detector takes a frame for sent that the relay drops (`relay/client.go:97`),
    or that fails after a restart, so an unchanged screen is shown late, with the
    static interval. A controller whose limited write goroutine has ended (item
    3) gets no picture at all; `PictureArrives` has that in its premise. A loop
    that is cancelled may report "context canceled" to the controller as an error of
    the screen (`client/client.go:1029-1046`), until the next frame comes.
17. The relay's reader answers by writes without a deadline (`relay/server.go:316`, 347,
    359) and holds the transport's mutex meanwhile: a peer that does not read
    keeps both goroutines of its connection until it is reaped.

## 6. Not modelled, and why

Pixels, JPEG, GDI and SendInput (system calls); framing, JSON, certificates and
message fields (formats, without state); identity and configuration (read once);
the audit log (the trust store's pattern, but no other state depends on it); the
update check and the lists of the settings pages (they word what is shown); the page
and JavaScript of `relay/webui.go`, which run in the visitor's browser (what it draws, and how
it computes the position of an event: line 108 rounds `x*w`, which may be `w` itself); the
headless command, the relay's command line and the scripts (they call what is
modelled). On the client's side, temporary codes and web links are messages of
the relay's models. The client's `State` is modelled where it decides something:
session, pending request and last frame.

## 7. Plan

1. More of the safety part of the liveness arguments. `CloseIsFinal` and
   `HandlersAdvance` do it for the relay; what is left is the same for `writeMu` of
   the client and for the transport's mutex of the send path: the holder of what others wait for is at
   a place it can leave.
2. `Assistance`: relay queues and two clients composed, for the late
   `session.close` and the beliefs of both ends, with the proofs about the parts
   as its lemmas.
