# A TLA+ model of hyper-server (`postel`)

`postel` serves hyper connections from a stream of incoming ones: an accept loop
that spawns a task per connection, TLS handshakes on the blocking pool of the
runtime, an optional age limit per connection, and a graceful shutdown that
waits until every connection is done. This directory holds TLA+ modules that
model that code, its transports, its loaders, its examples and its tests, TLC
configurations that check them on small instances, and proofs checked by TLAPS.
Paths below are relative to the repository.

## 1. Inventory

| component | source | state | operations |
|---|---|---|---|
| HTTP server | `src/http.rs:144-463` | the accept loop's place, the shutdown future, a tokio `watch` channel whose receivers stand for the running tasks | accept, spawn a task, leave the loop, broadcast, drop its own receiver, await `closed()`, return; being dropped |
| TLS handshake offload | `src/http.rs:40-64` | the queue and threads of the blocking pool | `spawn_blocking` of a `block_on(accept)`; success, failure |
| Connection loop | `src/http.rs:24-38, 66-142` | hyper's connection, a sleep, the fused signal | poll each of three branches; on age or signal call `graceful_shutdown`; break when the connection is done |
| Fuse | `src/fuse.rs` | the inner future, until it completed | `poll` |
| TCP incoming stream | `src/tcp.rs` | a generator over the listener's stream | pull, skip, yield, end |
| Accept error policy | `src/error.rs` | none | `handle_accept_error` |
| TLS incoming stream | `src/tls.rs:69-124` | a generator that also shakes hands | pull, skip, handshake, yield, end |
| Transport | `src/io.rs` | one of two streams | six poll functions, dispatched |
| PEM loaders | `src/tls.rs:126-170` | none | read certificates, read the first private key |
| Example applications | `examples/` | a signal channel, a server task, a timer task | bind, load files, configure TLS, spawn the server, wait for Ctrl+C, signal, await |
| Tests | `src/http.rs:465-938`, `tests/main.rs` | clients, a signal channel | connect, ask, signal, sleep, assert |
| Benchmark | `benches/` | none | measures throughput and latency |
| Crate surface, test helper | `src/lib.rs`, `src/test.rs` | none | exports |

How they interact. The caller gives the server a stream of connections
(usually `serve_tcp_incoming` of a listener), a service, an optional TLS
configuration and an optional shutdown future. The accept loop pulls the stream
and spawns a task for each item. The task first offloads its handshake to the
blocking pool, if there is TLS, then runs the connection loop. Server and tasks
share only the watch channel: the server writes one version into it when the
shutdown future is ready; each task waits for the change through a `Fuse`; and
since each task owns a clone of the receiver, `signal_tx.closed()` tells the
server when the last of them is gone. hyper reads and writes a connection
through a `Transport`, which is a socket or a TLS session over one. An
application puts a listener, the files for TLS, a signal channel and the
runtime around all this: its `main` has to outlive the server's task, since the
runtime drops what is left when `main` returns.

What is hard in it, and what makes each part correct:

* **HTTP server.** The number of receivers has to equal the number of running
  tasks at every moment, on every path out of a task, or the server returns
  early or hangs. A connection accepted before the broadcast may look at its
  receiver long after it, and must not have missed it. The signal competes with
  a listener that always has more. The future may be dropped at any await.
* **Handshakes.** They hold threads of a bounded pool for as long as a peer
  likes; the accept loop must not wait for them.
* **Connection loop.** Its three futures are polled in a random order, some are
  `async fn`s that panic when polled after completion, and
  `graceful_shutdown()` gives hyper work without waking anybody: the loop is
  correct because it polls again before it sleeps. Shutdown and age must reach
  hyper, and must not cut a request.
* **Incoming streams.** Non-fatal errors are skipped, others yielded; nothing
  may be lost when `select!` drops the future that was waiting for an item.
* **Transport.** What a TLS stream has accepted it may not have sent: a flush or
  a shutdown that is not passed on, or not repeated until it is ready, leaves
  bytes in the session. A peer that was cut off must not be taken for one that
  closed, and the peer must be able to tell the same of us.
* **Example applications.** The listener is bound before the files are read;
  there are two channels of the same name; Ctrl+C can fail; the end of the
  runtime races the drain.
* **Tests.** They sleep instead of waiting for what they need, and their clients
  run beside the server: whether they pass depends on the order of the tasks.

The full list of hazards, each at its line with the properties that cover it,
is in `PROJECT.json`.

## 2. Modules

| module | models | uses |
|---|---|---|
| `WatchChannel` | tokio's `watch` with one sender (external) | |
| `HyperConn` | hyper-util's auto connection as `http.rs` uses it (external) | |
| `GracefulShutdown` | abstract specification of what the server promises | |
| `Server` | `serve_http_with_shutdown`, its tasks, the pool | `WatchChannel`, `HyperConn`; implements `GracefulShutdown` |
| `MCServer` | symmetry of connections for TLC | `Server` |
| `ServerProofs` | theorems about `Server` | `Server` |
| `Fuse` | `Fuse::poll`, and the polling of an `async fn` | |
| `ConnectionLoop` | `serve_http_connection`, poll by poll | `Fuse`, `HyperConn` |
| `ConnectionLoopProofs` | theorems about `ConnectionLoop` | `ConnectionLoop` |
| `ConnectionSteps` | the mapping from `ConnectionLoop` to a connection of `Server` | `ConnectionLoop`, `Server` |
| `ConnectionStepsProofs` | that mapping proved | `ConnectionSteps`, `ConnectionLoopProofs` |
| `AcceptErrors` | `handle_accept_error` | |
| `TcpIncoming` | `serve_tcp_incoming` | `AcceptErrors` |
| `MCTcpIncoming` | a set of accept errors of every kind | `TcpIncoming` |
| `TcpIncomingProofs` | theorems about `TcpIncoming` | `TcpIncoming` |
| `TlsIncoming` | `serve_tls_incoming` | `AcceptErrors` |
| `MCTlsIncoming` | errors of accept and of handshakes, fatal and not | `TlsIncoming` |
| `TlsIncomingProofs` | theorems about `TlsIncoming` | `TlsIncoming` |
| `ByteStream` | abstract specification of one direction of a connection | |
| `Transport` | `Transport` over a socket or a TLS session | implements `ByteStream`, twice |
| `TransportProofs` | theorems about `Transport` | `Transport` |
| `PemFiles` | `load_certs`, `load_private_key` | |
| `Application` | the `main` of both examples | extends `Server` and `PemFiles` |
| `MCApplication` | a file for each way in which one can be wrong | `Application` |
| `ApplicationProofs` | theorems about `Application` | `Application`, `ServerProofs` |
| `HttpTests` | the tests of `http.rs` and `tests/main.rs` | extends `Server` |
| `HttpTestsProofs` | theorems about `HttpTests` | `HttpTests`, `ServerProofs` |

A definition marked `Mutant:` stands before the definition it is a broken form
of. No specification uses one; putting it in place of the original has to
violate the property that `PROJECT.json` lists with it, which shows that the
property depends on that piece of the code.

### Server

| `Server` | `src/http.rs` |
|---|---|
| `pc = "select"` | in the `select!` of the accept loop (391-447) |
| `signal` | the future in `Fuse` (379), `"none"` if none was given |
| `incoming`, `ended` | what the pinned stream (385-388) has ready, and that it will give no more |
| `SkipNonFatal`, `Spawn` | the `incoming.next()` branch (401-445), with the error policy of the stream |
| `LeaveLoop` | the signal branch (396-400) |
| `Broadcast`, `ReleaseReceiver`, `Return` | `send` (452), `drop(signal_rx)` (454), `closed().await` and `Ok(())` (459-462) |
| `Abort` | the caller drops the future, at either await |
| `stage[c]` | where the task spawned at 407 is |
| `DropFailedAccept`, `ServePlain`, `OffloadHandshake` | the head of the task (407-435) |
| `StartHandshake`, `HandshakeSucceeds`, `HandshakeFails` | `accept_tls_connection` (40-64) |
| `ObserveShutdown`, `ConnEnds`, `Upgrade`, `TaskPanics`, `FinishUnwinding` | how `serve_http_connection` (86-142) meets the shutdown and ends |
| `http[c]` | hyper's connection: its phase and how far it is closing |
| `version`, `senderAlive`, `holders`, `seen` | the watch channel (372-373) |

Its actions are one await point, one observable call or one move of a peer
each, and interleave freely, since the tasks run on the threads of the runtime.
`ImplementsGracefulShutdown` maps `phase` to `pc` and `live` to the running
tasks; `GracefulShutdown` then says: tasks are admitted only while the server
is open, draining ends only with no task left, a task that left does not come
back.

### ConnectionLoop

One connection in finer grain. `round` lists the branches that the `select!` of
line 120 has yet to poll; `wakers` the branches that hold the task's waker;
`woken` that the runtime will poll the task again. A branch that is ready runs
its arm and the loop enters `select!` anew (`SelectAgain`); a round in which
all are pending parks the task. `age` is the future of `sleep_or_pending`,
`sig` the fused `changed()`, both values of `Fuse`: a completed `async fn` that
is polled again panics, a completed fuse is empty.

`Server`'s steps on a served connection are the coarse form of this loop, and
`ConnectionSteps` says so: `StepsOfServer` maps the loop to a `Server` with one
connection, and has it that every poll is a step of that connection, or the
broadcast, or shows nothing. The mapping makes an age limit a shutdown of that
connection's own, since the server never gives one (441).

### TcpIncoming

`gen` is the generator's place and `pulled` how many items it has taken from
the listener. `arrived` is all that the listener gave and `delivered` the
numbers of the items that the consumer got, both history variables. A consumer
that drops its `Next` future loses nothing because the generator, not the
future, holds the place: polling is the only thing a consumer does to it.

### TlsIncoming

The same for a generator that also awaits a handshake (`place = "accepting"`)
before it pulls again. `tcp_stream` is any stream of connections and errors.
`result[n]` is what item `n` came to, written by whoever decides it: the stream
for an error, the peer (`PeerActs`) for a handshake, which is `Pending` until
then and may stay so for ever. `yielded` is what the code made of it. `polled`
is set by the consumer and reset when a poll ends, so that consumers that come
and go are part of every behaviour. Both `match handle_accept_error` of the code
are `Judge`.

### Transport

| `Transport` | `src/io.rs` |
|---|---|
| `transport` | the variant (14-21), chosen in `new_plain` or `new_tls` (33-50) |
| `PollRead` | `poll_read` (72-82) |
| `PollWrite`, `PollWriteVectored`, `IsWriteVectored` | 104-114, 163-173, 180-186 |
| `PollFlush`, `PollShutdown` | 126-132, 144-150 |
| `DropTransport` | hyper drops it without a shutdown |

`io.rs` only dispatches; what it dispatches to decides whether that is right.
`accepted` bytes were taken by a write, `sent` ones have left for the socket,
`received` ones were read by the peer: on a plain socket the first two are
equal, and on TLS their difference is in the session. `hyper` polls a flush or
a shutdown until it is ready, as its `AsyncWrite` contract has it.
`ImplementsByteStreams` maps each direction to a `ByteStream`, in which a reader
sees the end of a closed stream after all of its bytes, and never the end of a
broken one.

### Application and PemFiles

`Application` extends `Server` with the `main` of an example. `main` is the
place in it, from the bind to the exit of the process; `oneshot` the two
channels, of which the one made at `tower_service_fn.rs:155` is `"first"`
and the one at 165, under the same names, `"second"`; the tonic example has only
the second. `SignalArrives` is the `.await.ok()` of the server's signal:
ready when the sender sent, and also when it is gone. The server's steps are
taken while its task lives (`ServerTakes`); a `main` that leaves because it
failed drops it (`RuntimeDrops`). Before the spawn, `main` owns the listener,
so that its backlog is `Server`'s; a failure there closes the listener, which is
`Abort`. `PemFiles` are the loaders, on a file that is missing or a sequence of
sections.

### HttpTests

A scenario for each test says whether there is TLS, how many clients it has,
whether they are tasks of their own, what they ask for, what the test tries
last, when the server should be gone, and whether its sleeps are long enough.
`driver` is the test's main task, `client[c]`
the client of a connection. The server is `Server` with its peers' steps taken
by these clients.

## 3. What is abstracted

* Requests, bodies, responses and headers: a connection is between requests or
  busy (HTTP/2 streams of a connection count as one).
* hyper's version detection, its preface and its GOAWAY and ping: `HyperConn`
  keeps what `graceful_shutdown` can do to a connection in each phase. It is
  external code, and its module states what is assumed of it.
* The watch channel carries a version and who holds a receiver; its value is
  `()`.
* The end of a handshake and the resumption of its task are one step: between
  the two, nothing that others see changes but the thread being free, and a
  free thread is only ever late. The blocking pool runs handshakes only.
* After a skipped accept error the accept loop gets back to its `select!`. The
  generator pulls again in the same poll; with a `TcpListener`, tokio's
  cooperative budget makes that poll pending before long.
* `if graceful` (451) always holds where it stands: the loop is only left
  through the signal's branch, whose future is empty without a signal.
* Peers that leave while they are in the backlog: the server learns of it only
  after `accept`, as any other disconnect.
* Bytes are counted, not named; a `close_notify` has no size; a TLS record is
  not a unit. The sizes of the buffers are parameters.
* The services of the examples answer with a constant or belong to tonic; they
  and the settings of the connection builder are left out. The stream of the
  examples is a `TcpListenerStream`, which has no end.
* How a section of a PEM file is encoded. A key that rustls cannot use is a
  failure of the configuration that may happen.
* The length of a test's sleeps is a parameter of its scenario
  (`sleepsOutlast`): either they end when nothing else can happen, which is what
  the tests assume, or at any moment (`SleepMayEnd`). The bodies that the tests
  compare are not modelled, the number of answers is.
* Logging, formatting, socket options, addresses, and the `Error` type beyond
  the fact that it hides its source from `downcast_ref`.

## 4. Runs

| run | instance | distinct states | shows |
|---|---|---|---|
| `server_safety` | 4 connections, 2 threads, symmetry | 330 000 | `IInv`, `DrainedAtReturn`, `NoMissedShutdown`, `DrainNeverStuck`, `RequestsNotCut`, `ImplementsGracefulShutdown` |
| `server_liveness` | 2 connections, 1 thread | 12 400 | `ShutdownCompletes`, `EveryHandshakeStarts` |
| `server_scheduler` | 2 connections, 1 thread | 12 400 | `DrainOnlyDescends`, `ServedConnectionsTold`, `AcceptProgress` |
| `server_listener` | 2 connections, 1 thread | | `NoConnectWhileDraining` fails |
| `connection_loop` | no parameter | 6 100 | all properties of `ConnectionLoop`, `StepsOfServer` |
| `tcp_incoming` | 3 items, every kind of error | 9 600 | `IInv`, `NothingLostOrReordered` |
| `tls_incoming` | 4 items, 3 kinds of error, 3 of failed handshake | 19 700 | `IInv`, `Accounted`, `EndsOnlyWithSource`, `OnlyHandshakesHoldUp` |
| `transport` | 4 bytes each way, socket of 1, session of 2 | 34 000 | `IInv`, `OutputNeverStuck`, `ImplementsByteStreams`, `OutputDelivered`, `OrderlyEnd` |
| `application` | 2 connections, 4 files of either kind | 27 000 | `AppInv`, `ServesUntilInterrupted`, `ExitsDrained`, `StartupExact`, `OnlyFailureCuts`, `InterruptEndsProcess` |
| `application_timer` | 1 connection | | `TimerShutsDown` fails |
| `http_tests` | 12 tests, each with either kind of sleep, 4 connections, 2 threads | 84 000 | `TestInv`, `EveryTestPasses` |
| `tcp_incoming_fatal` | as `tcp_incoming` | | `NothingAfterFatal` fails |

Each `IInv` (`AppInv`, `TestInv`) is the inductive invariant of its module and has
the type invariant as a conjunct; `server_listener`, `application_timer` and
`tcp_incoming_fatal` are the runs whose property fails, see the findings.

Bounds. A name of `Conn` is used again when its connection is gone, so that the
number bounds only how many exist at once: executions are not bounded. Two
connections are enough to have one connection's task in any stage while the
other is accepted, drains or waits for the only thread; four with two
threads let two handshakes run while two others wait. The proofs cover any
number. The watch version is sent once and needs no bound. `MaxItems = 3` puts
an item before and one after each error, and `MCError` has one I/O error of
each kind the policy names, one it does not name, one that is wrapped and one
that is no I/O error. `tls_incoming` has four items, since a handshake may also
stand between two items that are decided; its errors are fewer, the policy being
covered by `tcp_incoming`. `transport` writes more bytes than socket and session
hold together, so that each is empty, in between and full, and a write is cut
short by both. `application` has a usable file of either kind, with sections
that the loader passes over, and one for each way to fail. `ServesUntilInterrupted`
looks at the tower example only until its timer is done: what the timer should
do then is the question of `application_timer`. `http_tests` cuts the
five clients of `test_tls_concurrent_connections` to four, which still queue for
two threads. Symmetry is used in `server_safety` only, whose properties are all
safety properties that treat connections alike: invariants, an action property,
and a refinement without fairness.

Deadlock is checked in every run. A server with a signal that returned stops
with `Terminated`; a server without one never stops by itself.

### Fairness

`SchedulerFairness` (and `TaskFairness` in `ConnectionLoop`) is what the runtime
gives: a task that was woken is polled, a free thread takes the next closure of
the queue. `select!` without `biased` starts each time with a random branch; a
signal that stays ready is therefore not passed over for ever, which is
`WF(LeaveLoop)`, and so is an item that stays ready. In `ConnectionLoop`, hyper
may return from a poll with work left, after waking its task; that it gets to
each piece of work in the end, polled again and again, is `SF` of taking an
event and of flushing.

`PeerFairness` is what only peers and services can give: handshakes end, requests
are answered, HTTP/2 peers acknowledge a GOAWAY. No timeout in the code forces
any of it, and `ShutdownCompletes` needs each; a caller who wants a bounded
shutdown has to put a timeout around the server's future. `server_scheduler`
checks what holds without it: whatever peers do, the loop accepts,
the served connections are told, and no step undoes what a drain has done.

`TlsIncoming` asks for a consumer that keeps polling and a generator that runs
while it is polled, and for nothing of peers: `OnlyHandshakesHoldUp` says that an
item is pulled in the end, or some peer is silent for ever in its handshake.
That such a peer does hold up everyone behind it is what the code does; a server
given a `tls_config` shakes hands in the tasks instead (`AcceptProgress`).

`Transport`'s `FairSpec` has hyper poll again what was not ready, once the
socket has room, and a peer that reads; a peer that stops reading holds up its
own connection for ever, which no timeout of the code prevents.

`AppFairness` is that of `Server` inside a process: the runtime runs `main`, the
timer and the tasks, and peers play along. Nobody has to press Ctrl+C.

`HttpTests` needs only that the runtime does not stop (`WF` of the whole
next-state relation): a test does nothing twice, and so comes to its end in
whatever order its tasks run.

Connections that are open may stay open for ever, with no assumption that
peers leave: that the shutdown ends them is the point of `ShutdownCompletes`.

## 5. Findings

* **The listener outlives the accept loop.** `serve_http_with_shutdown` awaits
  `closed()` (459) while the pinned stream is still a live local, so the
  listener stays bound. While a connection drains, a client can connect, waits
  in the backlog, and is reset when the function returns. The test
  `test_shutdown_rejects_new_connections` (652-664) and the comment at 453
  expect the attempt to fail; the test has no open connection, so that the
  function returns at once. Run `server_listener`.
* **A fatal accept error does not end the stream.** The `Break` arm of
  `serve_tcp_incoming` (79-82) yields the error and goes on, against its
  documentation (10-12) and its comment (79-80). The server relies on it: were
  the stream to end there, one `EMFILE` would stop a server for good. Run
  `tcp_incoming_fatal`.

* **The timer of the tower example shuts nothing down.** The task spawned at
  `examples/tower_service_fn.rs:157` signals the channel made at 155, "to send
  the shutdown signal after 1 second"; line 165 makes a second channel under the
  same names, and that is the one the server is given. The receiver of the first
  is never awaited. Run `application_timer`.

Met on the way, with no line of documentation against it: an upgraded
connection leaves its task, so that the drain does not wait for it; a server
whose stream ends and that has no signal waits for ever; a second Ctrl+C during
the drain of an example is swallowed; a file without a certificate loads as an
empty list, which only rustls refuses. The changelog of 0.4.0
(`CHANGELOG.md:52`) mentions a TLS handshake timeout of 10 seconds; this code
has none, and a silent handshake keeps a drain waiting.

What the tests of the repository would notice: with the mutants of `Server` put
in its place, `EveryTestPasses` fails when the main future keeps its receiver
(`KeepReceiver`), when a connection breaks on the shutdown (`BreakOnShutdown`) or
does not pass it on (`ObserveAndForget`), and when a task has no receiver (`SubscribeNobody`). It holds with a server that
returns at once, leaks the receivers of its tasks, subscribes late,
tells only idle connections, shakes hands in the accept loop or starts the newest
handshake first: those need the runs of `Server`.

## 6. Proofs

`ServerProofs`, for any set of connections and any number of blocking threads,
from `MainAssumption` (the main future is not a connection) and
`PoolAssumption` (the pool has a thread):

* `TypeCorrect`: `Spec => []TypeOK`.
* `Inductive`: `Spec => []IInv`. `DrainedAtReturn` and `NoMissedShutdown` are not
  inductive: the first rests on the receivers being exactly those of the
  running tasks and, before its release, of the main future (`HoldersExact`),
  so that `closed()` with no holder means no task; the second on no task that has
  not told hyper having seen a later version than the first (`UntoldUnseen`), a
  clone being made of a receiver that never saw one, and on the place of
  the main future telling whether the version was sent (`ChannelFollowsMain`).
  `QueuesExact` says that what waits and what is queued are the same, each once:
  a task that starts must not have been running already, and a task that waits
  for a thread must be somewhere in the queue. `NonFatalSkipped` and
  `ToldAreSettled` are about the drain, see below. `IInv` is the conjunction;
  the step theorem has one case per action.
* `Drained`, `ShutdownNotMissed`: the two invariants, from `IInv`.
* `DrainGoesOn`: `DrainNeverStuck`, which is as much of `ShutdownCompletes` as can
  be said without fairness. A server that waits in `closed()` waits for a running
  task, and each of these can take its next step or stands in the queue of the
  pool while another can: the drain has no state in which everyone waits for
  everyone. It states the guards of those steps itself (`CanGoOn`), since `ENABLED`
  is beyond the prover. The queue has a head (`WaitingHasHead`); if no thread is
  free, the threads are held by handshakes, of which there is then one, the pool
  having a thread (`PoolAssumption`); a task that hyper has been told for is busy,
  over, or owes an acknowledgement, since `graceful_shutdown` ends an idle
  connection at once (`ToldAreSettled`); and no item of a task is one that the
  stream should have skipped (`NonFatalSkipped`).
* `DrainDescends`: `DrainOnlyDescends`, the other half of that argument. `LeftOf(c)`
  is how far the task of `c` still has to go, at most 8. Once the accept loop is
  left nobody's grows, and every step of a task makes its own smaller, except a
  request on a connection that has not been told, or whose HTTP/2 peer
  has yet to acknowledge, and the response to it. A drain of `n` tasks is therefore over
  after at most `8 * n` other steps; by `DrainGoesOn` one of these can always be
  taken, `NoMissedShutdown` giving it to a connection that was not told. What
  is left to fairness is that it is. `HttpDescends` says it of hyper's connection,
  `TaskDescends` of a step of the task itself.
* `RequestsKept`: `RequestsNotCut`; only the four actions it names take a
  connection out of a request.
* `Refinement`: `Spec => Abstract!Spec`, one case per action, with `Return`
  resting on `HoldersExact`.

`ConnectionLoopProofs`:

* `TypeCorrect`, `Inductive`, and from it `NeverPolledAfterCompletion`,
  `WakeupsKept`, `LoopEndsWithConnection`. The strengthening is `PolledAreQuiet`:
  a branch that has had its turn in the current round is pending and holds the
  waker, unless the task is to be polled again anyway; when the round is over,
  that is `NoLostWakeup` for all three.

`ConnectionStepsProofs`: `ImplementsStepsOfServer`, one lemma for each kind of step
that `Server` can see (`EventShows`, `ToldShows`, `CallShows`, `EndShows`), and
nothing of the rest (`NothingShows`).

`TlsIncomingProofs`, for any sets of errors and any number of items:

* `TypeCorrect`, `Inductive`, and from it `EveryItemAccountedFor` and
  `EndsWithItsSource`. `Accounted` needs that a result is pending only for the item
  the generator is accepting; yielding and skipping are lemmas of their own
  (`YieldAccounts`, `SkipAccounts`), used for both places that judge an error.

`TcpIncomingProofs`, for any set of accept errors and any number of items:

* `Inductive`, and from it `TypeCorrect` and `Complete` (`NothingLostOrReordered`).
  Stated over positions, the property is inductive together with
  `pulled <= Len(arrived)`. `IInv` also has it that a non-fatal error does not end
  the stream (`NonFatalNeverEnds`); of a fatal one it says nothing, code and
  documentation being at odds about it.

`TransportProofs`, for any number of bytes and any buffers, empty ones included:

* `Inductive`: `Counted` (no counter overtakes the next, no buffer overflows)
  and `OutputOrder` (a completed flush means everything was sent, a
  `close_notify` is sent last and exactly by an orderly close, an end is seen
  only after all that was sent).
* `Implements`: both directions are `ByteStream`s, one case per action; that the
  peer reads a clean end only after every accepted byte rests on `OutputOrder`.
* `CleanEndComplete`: what that means for the bytes, over the whole connection. A
  peer that reads a clean end has read all that a write took; if hyper closed in
  order, all that hyper had to say.
* `OutputGoesOn`: `OutputNeverStuck`. While the peer lacks a byte and hyper has not
  dropped the transport, there is something for the peer to read, or the call that
  hyper makes next moves a byte. It needs a socket that can hold a byte, which is
  its hypothesis, and no session buffer at all.

`ApplicationProofs`, for any connections, threads and files:

* `ImplementsServer`: `AppSpec => Spec`. A step of the process is a step of
  `Server` or leaves it alone, so that every theorem of `ServerProofs` holds in
  an example.
* `AppInductive`: `AppInv`. `MainAndServer` ties the place of `main` to how far
  the server may be, `Backlog` says what exists before the spawn and after the
  end, `Loaded` what the loaders answered on the way to each place.
* `Serves`, `StartsExactly` from `AppInv`; the latter turns what `load_private_key`
  decides by the first section of its kind into what a reader expects of a
  file, which takes the least position (the order on `Nat` is well founded).
* `ExitDrained` from `AppInv` and `Drained` of the server.
* `RequestsOutliveMain`: `OnlyFailureCuts`. `ImplementsServer` alone does not say
  it: the end of the process (`Exit`) leaves `Server`'s variables as they are, so
  that no property of `Server` sees what ends with it. `Alive` counts the process
  in. The server's own steps cut no request (`RequestStep`); a `main` that
  returns `Ok` has waited for a drain (`Drained`); one whose start failed never
  served (`Loaded`). What is left is a `main` that could not wait for Ctrl+C: it
  returns at once, and the end of the runtime races the drain.

`HttpTestsProofs`, for any finite set of connections (`FiniteAssumption`: a test
chooses its clients among them) and any number of threads:

* `ImplementsServer`: `TestSpec => Spec`, and so everything proved of `Server`
  holds under each test; `TestsDrain` cites the refinement. That the items a test
  brings are possible for `Server` needs `ClientsConnect`.
* `TestsInStep`: `TestInv`. `ClientsAgree` ties each client to the stage of its
  connection and to hyper's phase, `KeptUntilSignal` has no connection told or
  lost before the signal, `AnswersCounted` and `DoneAtSignal` count. The step has
  one lemma per group of actions, the server's steps being grouped by what they do to the
  one connection they touch (`TaskMoves`, `WorksSuit`). From it,
  `OnlySleepsCanFail`: no order of the tasks fails a test that does not sleep, and
  each of the three that do can fail in one way:
  `test_graceful_shutdown_with_active_requests` if its slow request has not
  reached the server when it signals, `test_shutdown_rejects_new_connections` if
  the server still listens at its last connect, `test_tls_graceful_shutdown` if
  its second request is answered, the connection not having been told yet. The
  proof never looks into `SleepMayEnd`, so that this holds for sleeps of any length.

Only model-checked: liveness, since the prover does neither fairness nor
`ENABLED`: `ShutdownCompletes`, `EveryHandshakeStarts`, `ServedConnectionsTold`,
`AcceptProgress`, `CallsReachHyper`, `ToldConnectionEnds`,
`OnlyHandshakesHoldUp`, `OutputDelivered`, `OrderlyEnd`, `InterruptEndsProcess` and
`EveryTestPasses`. What is proved towards them is that there is always a step to
take, not that it is taken: `DrainNeverStuck` and `DrainOnlyDescends` for
`ShutdownCompletes`, `NoLostWakeup` for `ToldConnectionEnds`, `OutputNeverStuck` for
`OutputDelivered`. Every invariant and every
action property of a passing run, and every refinement, is a theorem.
The `PolledAreQuiet` argument covers the model's wakers, and so rests on
`HyperConn` and on hyper waking its task as assumed there.

## 7. Not modelled

* The crate surface (`lib.rs`) and the test helper (`test.rs`): exports, and the
  installation of a crypto provider that happens once. Nothing changes state.
* The benchmark measures; the models have no time.
* The tests of `tcp.rs`, `tls.rs` and `fuse.rs` are not runs of their own: what
  they assert is used in the properties of those modules and in the findings.
* The `Error` type beyond its opacity to `downcast_ref`: conversions and texts.
* The services and settings of the examples, see above.
* The pace of accept errors: a server out of file descriptors spins, with a task
  for each failure, which a model without time does not show.

## 8. Plan

1. A composition of `TlsIncoming` over the items of `TcpIncoming`, in front of
   the `select!` of the server, and an abstract stream that both implement.
2. `Transport` under `ConnectionLoop`, with one or two bytes each way, so that
   what wakes the task is the socket.
