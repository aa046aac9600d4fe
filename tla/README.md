# A TLA+ model of the websocket examples

This directory holds TLA+ modules that model the programs of this repository,
the TLC configurations that check them, and TLAPS proofs. The repository is a
set of small Boost.Asio/Beast programs. Each is a few state machines that share
one `io_context` thread; what is hard about them is not what a handler does but
*when* it runs.

## 1. The system

| part | state it keeps | operations | talks to |
|---|---|---|---|
| `pre-cxx20/echo_server` connection | `state_`, `sending_state_`, `tx_queue_`, `time_remaining_`, `ec_`, five asynchronous operations | run, send, stop; handlers for accept, read, write, close, timer | Beast stream, session timer; owned by its own handlers |
| `pre-cxx20/echo_server` server, app | `ec_`, the accept, `connections_` (weak pointers by endpoint), the signal wait | run, stop, handle_accept, signal handler | makes and stops connections |
| `lib/util` `async_queue` | atomic `state_`, `handler_`, `values_`, `ec_` | push, stop, async_pop, maybe_complete | producers, one consumer, default executor, each on its thread |
| `cxx20` connection | `state`, `ec`, coroutines run / tx / stop, `txqueue` | run, send, stop | Beast stream, async_queue |
| `cxx20` server, app | `ec_`, accept coroutine, `connections_` | run, stop | makes and stops connections |
| `blog-2020-09` transport | `state_`, send queue, connect operation, reader, ping cycle | start, handlers | resolver, TCP, TLS, websocket |
| `blog-2020-09` sigint_state, application | dialogue state, slots, signal and timer waits | start, add_slot, handlers | calls the slots |
| `fmex_client` | connect operation, stop register, send queue, ping region, `signals_` | start, stop, handlers | resolver, TCP, TLS, websocket |
| `chatterbox` connection | `state_`, `sending_state_`, `tx_queue_`, `ec_`, five asynchronous operations | run, stop; handlers for connect, handshake, read, write, close | Beast stream; owned by its own handlers |
| `chatterbox` console | the running `run_op_`, its `ec_`, the read of standard input | async_run, cancel | `async_read_until`, the app |
| `chatterbox` pool, app | `ec_`, `connections_` (weak pointers), the signal wait | run, stop, signal handler, handle_console | stops the connection, cancels the console |
| `lib/util/st` `stop_token` | `next_id_`, `slots_` by id | connect, disconnect, stop | calls the slots on the caller's stack |
| `lib/util` `poly_handler` | `kind_`, and a union with a callable or a pointer to one | construct, move, assign, call, destroy | keeps `handler_` of `async_queue_impl` |
| `mime_reader` | `work_store`, the body parser, `first_part` | the loop of `test()` | http parser, test stream |
| `memory-test`, build scripts | - | - | not modelled |

What is hard: an operation completes before a stop and its handler runs after
it (the "crossing case" of `echo_server/connection.cpp:63`); memory handed to
`async_write` while other handlers run; one operation of several failing; a
session that nobody would end but its timer; a queue shared by two threads
without a lock; coroutines that wait for each other's messages during shutdown;
errors reported by several operations; callbacks that re-enter the object that
calls them; lifetimes kept by hand; buffer arithmetic over reads of any size.
`PROJECT.json` lists these hazards at
their lines, with the property that would catch each.

## 2. How programs are modelled

* **A handler is one step.** All programs but the queue run one thread in
  `ioc.run()`. `net::dispatch` on that thread runs its function at once, so what a
  handler dispatches is part of the handler. `net::post` and `co_spawn` queue.
* **An operation** is `"idle"`, `"pending"`, or completed (`"ok"`, `"err"`) with
  its handler still to run. Cancelling or closing fails pending operations
  only; a completed one keeps its result. That gap is where crossings live.
* **Order of handlers.** Ready handlers run in any order. Asio runs them first
  in, first out; the models allow more, except where the order matters
  (`ChatState!StopStarts` uses that `run` was posted before `stop`).
* **Asserts.** A failing assert is recorded, or seen in the step that meets it, and
  execution goes on, as with `NDEBUG`. A debug build has the same behaviours cut short at the failure.
* **Data.** A message is told by its origin and number, an endpoint or slot is a
  model value, an error code is "there is one".
* **Re-entrancy.** `StopSource` and `PolyHandler` have no thread of their own: they
  keep the call stack, and whatever runs on top of it may call the object again.
* **Environment.** Peers, network, clock and operating system are actions of
  their own; in `PROJECT.json` they are marked external.

| module | models |
|---|---|
| `Session` | abstract: what one echo session promises |
| `EchoConnection` | `echo_server/connection.cpp`; implements `Session` |
| `EchoConnectionProofs` | theorems about `EchoConnection` |
| `EchoServer` | `echo_server/server.cpp`, `app.cpp`, over connections seen as sessions |
| `EchoServerProofs` | theorems about `EchoServer` |
| `AsyncChannel` | abstract: what the queue promises its one consumer |
| `AsyncQueue` | `async_queue.hpp`, `async_queue_impl.hpp`; implements `AsyncChannel` |
| `AsyncQueueProofs` | theorems about `AsyncQueue`, the refinement included |
| `ChatState` | `cxx20/states.hpp`, `connection.cpp`, its `txqueue` an `AsyncChannel` |
| `CoroServer` | `cxx20/server.cpp`, `app.cpp`, composed with `ChatState` |
| `CoroServerProofs` | theorems about `CoroServer` and the `ChatState` in it |
| `SigintState` | `blog-2020-09/sigint_state.cpp` |
| `WssTransport` | `blog-2020-09/wss_transport.cpp` with `fmex_connection.cpp` |
| `BlogApp` | `blog-2020-09/application.cpp`, composing the two |
| `BlogAppProofs` | theorems about `BlogApp`, `WssTransport` and `SigintState` |
| `FmexClient` | `fmex_client`: connection, connect operation, stop register, app |
| `FmexClientProofs` | theorems about `FmexClient` |
| `ChatterClient` | `chatterbox/connection.cpp` |
| `Console` | `chatterbox/console.hpp`: `console` and `run_op` |
| `Chatterbox` | `chatterbox/connection_pool.cpp`, `app.cpp`, composed with the two |
| `ChatterboxProofs` | theorems about `Chatterbox` and the `ChatterClient` in it |
| `StopSource` | `lib/util/st/stop_token.hpp` and its `detail` |
| `CallSlot` | abstract: a slot for one callable that is called once |
| `PolyHandler` | `lib/util/poly_handler.hpp`; implements `CallSlot` |
| `UtilProofs` | theorems about `PolyHandler`, the refinement included, and about `StopSource` |
| `MimeReader` | `mime_reader/main.cpp`: `mimeify`, `chunkify`, `test` |

A definition whose comment begins with "Mutant" is a faulty variant of the one
after it. No specification uses it; `PROJECT.json` names the property that
breaks when it takes the place of the original.

## 3. What is checked

**echo_connection** (Ticks = 3, MaxRx = 2, Greeting = 1; 20k states). Three
periods give a first, an inner and a last one; two messages let an echo be
queued behind a write; one greeting line makes the queue non-empty on accept.
Shown: operations never overlap (`ContractsKept`); what was sent followed by
the queue is all that was posted (`QueueIsUnsentSuffix`); the buffer of a
running write is the queue's front (`BufferStable`); a crossing handshake does
not revive a stopped session (`NoChatAfterStop`); the timer runs until the stop
(`DeadlineArmed`); nothing begins after it (`QuietAfterStop`) nor after a failed
write (`FrozenAfterFailedWrite`); every session ends (`SessionEnds`); and the
connection is a `Session` (`Implements`).

**echo_connection_asserts** finds that the asserts of `initiate_rx` fail when a
read crosses a stop.

**echo_server** (two endpoints, three connections; 8k states, so that a port is
used again). `StopReachesAll`, `NoAcceptAfterStop`, `ShutdownDrains`. A peer that
resets before `handle_accept` runs makes `remote_endpoint()` throw out of
`ioc.run()`; the model follows that (`bombed`) and stops there.

**async_queue** (3 pushes, 2 stops, 3 pops; 36k states). The handler is never
touched while it is assigned (`HandlerIsSafe`), every pop has exactly one answer
on its way (`OneAnswer`), when a pop waits and there is something for it a task
that will answer it runs or is queued (`NoLostWakeup`), so that it is answered
(`PopIsServed`), and the queue is an `AsyncChannel` (`Implements`): in order, once each, one refusal per stop (or
one for several stops in a row). **async_queue_stop** finds that the
documentation of `stop()` promises more.

**coro_server** (2 messages, 1 greeting line, 2 accepts; 17k states). A write that
tx begins behind the stop's `async_close` is never sent: it fails, at the latest
when the close is over. Order,
the crossing handshake, the end of all coroutines after a stop
(`StopReleases`), and that a shutdown fails to drain only in two situations,
`Orphan` and `Leaked` (`ShutdownDrainsOrLeaks`). Both do happen. `Orphan`: a socket
accepted just before the signal makes `handle_run` create a connection after
`handle_stop` has run (`server.cpp:35-40`). `Leaked`: the peer closes first, and
neither the end of `run_state` (`states.hpp:161`) nor `notify_error` in
`exit_state` (`states.hpp:117`) wakes the tx coroutine.

**blog_app** (3 ctrl-c, 2 frames, 2 pings; 91k states). Order of frames, one
ping at a time (`KeepAlive`), one error report and no revival (`ErrorOnce`), the
transport comes to rest (`WindsDown`), and the ctrl-c dialogue (`Attentive`,
`QuestionCloses`). `connect_op::operator()` calls `self.complete(ec)` on an error
without returning (`wss_transport.cpp:104-105`), so its handler is called once more
for every stage after the one that failed; `completions` counts them, and
`ErrorOnce` shows that `event_transport_error` keeps it from the derived class.

**fmex_client** (2 frames, 2 pings; 37k states). Order of frames
(`FramesInOrder`), a failed stream brings everything to rest
(`FailureWindsDown`), and a ctrl-c ends the program unless the stop register
forgot it (`StopEndsOrForgotten`). It does forget a ctrl-c that crosses a stage
of the connect (`connect_transport_op.hpp:100-107`). A ping timer that has expired
when `ping_stop` cancels it revives the ping region, other than the comment at
`fmex_connection.hpp:118` says; `FailureWindsDown` shows that the pings end
with the stream all the same. Beyond
`MaxPings` the ping timer expires only when the stream has failed and nothing
else is outstanding: time passes slower than ready handlers run.

**chatterbox** (2 messages, 2 inputs; 9k states: a piece of a line and the rest
of it, or two lines). However often and by whom the pool is stopped, nothing is
closed twice and the echoes leave in order (`ClientContracts`); a stopped client
does not come up or write, although `handle_connect` does not look at `ec_` and
begins a handshake after the stop (`QuietAfterStop`); ctrl-c and "quit", handled
in either order, end the program (`ShutdownDrainsOrDeaf`). The one exception is
`Deaf`: `fdin_.cancel()` between two reads of one line cancels nothing. The end of
the input ends the console and not the program. `initiate_timer` of the pool has
no caller and the `post` in `run_op` cannot be reached, so neither is an action.
As in the echo server, a message handled after the stop fails `assert(!ec_)` of
`initiate_rx` (`connection.cpp:99`): with `PROPERTY RxAssertsHold` added to this
configuration TLC shows it in nine steps, a ctrl-c and then a message that comes
before the server has answered the close.

**mime_reader** (up to 2 documents of up to two characters, letters or lone CRs;
whole or in up to 8 chunks, behind headers of four sizes; 39k states). Reads are
cut at the end of a chunk and wherever `rxbuf` is full: Beast takes at most 512
characters from the stream at once into the `multi_buffer`, header and chunk lines
included, and parses what it has. So where a read ends depends on the size of the
header, and no read yields more than `grow(512)` made room for. `Grow = RxSize = 40`
stands for 512: one document fits half of it, two fill `rxbuf` up to twice when whole
and up to three times in chunks; with the four headers, cuts by `rxbuf` fall within
boundaries, line ends, header lines and documents. `shrink(512 - body().size)` takes off
as many characters as were *read* (`body().size` is the room left), so small reads
are padded and large ones cut. `ReadsKept`: while no read fills more than half of
the buffer, nothing is lost. `PartsAreDocs`: if besides no read ends within a
boundary or a line end, or before a boundary or an empty line, the parts are the documents,
each behind the CRLF that ended its headers, which `test()` does not erase.
`Finishes`: the loop ends on every input, on well-cut input with success; after a
boundary was lost it ends because a second read on the stream throws, past
`test()`'s handler for `system_error`.

**stop_source** (4 slots, 3 ids, 2 stops; 119k states: the ids run out, and
`stop()` is called within itself). `OneShot`: no slot twice, none that was
disconnected in time, none early. `NoneForgotten`: every other slot, also one
connected by a slot or disconnected while `stop()` runs; if a slot throws, those
after it are lost. With 64 bits the ids do not run out; the code's answer, to act
as if stopped, is followed all the same.

**poly_handler** (3 handlers, 2 big callables and a small one; 28k states: two
to move between and a temporary). `OneOwner`: each callable is in one handler, or
running, or destroyed once, and no heap block is lost; a callable that throws when
it is moved leaks. `ImplementsCallSlot`: `kind_` and the union together are a
one-shot slot, which is what `AsyncQueue` takes `handler_` for. The shell left by
a move (`move_construct`) or in a freed block (`invoke`, big) is never destroyed:
harmless for callables whose moved-from state owns nothing.

Each module also states a type invariant, `TypeOK` (`SourceTypeOK` in `StopSource`,
whose definitions carry that prefix because its proofs share a module with those
of `PolyHandler`). The configurations do not list it: it is proved for every
module that has proofs (section 4); that of `MimeReader` holds on the instance
above, with `TypeOK` added to the configuration. Three more invariants are stated in the modules and proved, and not
listed in a configuration either: a stop reaches the tx coroutine wherever it is
between pop and write (`StopReachesTx`, `ChatState`); a connected stream has a slot
that will close it or is being closed (`UpIsStoppable`, `FmexClient`); whichever of
ctrl-c and "quit" comes first, the stop is told to the client, the signal wait and
the console (`StopTellsAll`, `Chatterbox`).

Deadlock is not checked (`CHECK_DEADLOCK FALSE`): these programs are meant to
run out of work, and the bounds on the environment stop it too. That they run
out only when they should is what the liveness properties say.

**Fairness.** Weak fairness of each handler, timer and of the failing of
operations on a broken stream: the `io_context` runs what is ready. Weak
fairness of the peer (it takes what is written, answers a close, in cxx20 and
the blog also ends its handshake) is an *assumption on the environment*; no
websocket timeout is set in the code, so a peer that goes silent after the
handshake keeps its session for ever. `EchoConnection` needs no assumption on
the handshake: there the session timer closes the socket. `FmexClient` needs none
on the answer to a close: the websocket timeout option bounds it. `KeepAlive` assumes
that the peer answers each ping once and sends no answer of its own accord.
The blog's connect stages end within their 15 seconds. `Chatterbox` assumes that
its server answers connect, handshake and close, and that nobody has to type.
`MimeReader` is a loop: weak fairness of `Next` says only that it runs.

## 4. What is proved

TLC checks the instances above. The theorems hold for every value of the
constants, under the assumptions the modules name. Almost all of these say that
a bound is a natural number. The others: a session has at least one period
(`EchoConnection`); the application has one slot, because `application::start`
calls `add_slot` once (`OneSlotAssumption` of `BlogApp`); an empty and a
moved-from storage, and the marks for both, are told apart from the callables
(`PolyHandlerAssumption`).

| proofs | `Spec => []P` | other theorems |
|---|---|---|
| `EchoConnectionProofs` | `TypeOK`, `QueueIsUnsentSuffix`, `BufferStable`, `ContractsKept`, `NoChatAfterStop`, `DeadlineArmed` | action properties `QuietAfterStop`, `FrozenAfterFailedWrite`; it is a `Session` |
| `EchoServerProofs` | `TypeOK`, `StopReachesAll` | action property `NoAcceptAfterStop` |
| `AsyncQueueProofs` | `TypeOK`, `HandlerIsSafe`, `OneAnswer`, `NoLostWakeup` | it is an `AsyncChannel` |
| `CoroServerProofs` | `TypeOK`, `SentInOrder`, `StopReachesTx` | action property `NoChatAfterStop` |
| `BlogAppProofs` | `TypeOK`, `FramesInOrder`, `KeepAlive`, `ErrorOnce`, `Attentive` | |
| `FmexClientProofs` | `TypeOK`, `FramesInOrder`, `UpIsStoppable` | |
| `ChatterboxProofs` | `TypeOK`, `ClientContracts`, `StopTellsAll` | action property `QuietAfterStop` |
| `UtilProofs`, `PolyHandler` | `TypeOK`, `OneOwner` | it is a `CallSlot` |
| `UtilProofs`, `StopSource` | `SourceTypeOK`, `OneShot`, `NoneForgotten` | |

Each of these modules defines an inductive invariant `IInv` (`SourceIInv` for
`StopSource`), and has one lemma per handler, which says that the handler keeps it. `IInv` contains more than the
properties, because none of them is inductive. What each `IInv` adds, and why:

* **EchoConnection**: `Slots` ties the fields to the operations: which may be
  outstanding in which state of the connection and of the stream, that `ec_` is
  set exactly in `closing`, and that `sending_state_` is `sending` while a write is
  outstanding. Without it a read could be initiated over another, or a second
  close.
* **EchoServer**: `CachedOrDisplaced`, that until the stop each connection is in
  the cache or was displaced, is what makes the one loop of `handle_stop` reach
  all. It rests on `CacheIsTrue` (an entry is for its connection's endpoint), on
  `FreshSocket` (TCP gives no port to two connections that are up, also while
  the accept waits for its handler) and on `StopsOnce` (`handle_run`, which
  clears `ec_`, comes before the stop).
* **AsyncQueue**: `Handover`. `handler_` is set while `state_` is `waiting`, so the
  thread whose exchange finds it there may take it; and a completion that has been
  decided on still has a value or an error to complete with. That also carries
  `NoLostWakeup` over `Tidy`, where the queue is used up after the pop is answered.
* **CoroServer**: `Coroutines` ties the three coroutines to their operations,
  `Pushed` counts what was read against what was pushed. `Numbered` says that the
  channel holds what was pushed and not handed out (`InStep`) or will hand out
  nothing more (`Drained`), and by how much the peer is behind (`Lag`): a stop
  clears the queue between any two of these, and order must survive that.
  `DrainedStays` is a lemma of its own: only tx takes the refusal, and it ends tx.
  With it, and since a stop never runs before the run coroutine (`Stopped`),
  `StopReachesTx` follows.
* **BlogApp**, the transport: `Connecting` and `Fresh` (`connect_op` has completed
  before anything is read, written or waited for, and does not bring up a
  transport that has failed), `InStep` (a write carries the front of the queue),
  `OneAtMost` (also after a failure at most one wait, ping or answer is under
  way, or a late timer would start a second ping). The dialogue: `Asking` (the
  time-out runs while the question is open) and `Heard` (a SIGINT that is queued
  was a press of its own).
* **FmexClient**: `FailsForAReason` and `Connecting` (no write fails but on a stream
  that failed or is being closed, and neither happens before the connect is over),
  and `InStep`, as above. `on_write` drops the queue after an error, so without
  `FailsForAReason` a frame could be dropped on a stream that works. `Stoppable` adds
  that a connect which fails has brought no stream up, since its end takes the slot
  away.
* **Chatterbox**: `OneStop` (the pool lets go of the connection it stops, so it
  does not stop it twice), `Phases` (which operations go together), and
  `Numbered` (sent and queued echoes number the messages handled). For
  `StopTellsAll`, `Entered`: until its stop the pool has the entry through which it
  reaches the client, and a read between two pieces of a line has missed the stop.
* **PolyHandler**: `KindTells` (`kind_` and the union agree), `Unique` (no two
  handlers hold one callable), and `Destructed` and `Allocated`, which say for
  every callable how often it was destroyed and whether it has a block, from who
  holds it.
* **StopSource**: `Once` says of a slot that is kept in `slots_`, or still due in the
  local map of a `stop()` on the call stack, that it was not called, and is in one such
  place only; it speaks of every frame, because a slot that is being called may call
  `stop()` or `connect()` again. `Emptied`: a `stop()` leaves nothing in `slots_`, and
  nothing comes in after it, so a nested `stop()` has no slots of its own. `Accounted`:
  unless a slot threw, every connected slot is kept, due, or was called, or was
  disconnected. `Named` (an id names its slot) and `Counted` (ids run out only when as
  many slots were connected) are for the clause on slots that are called early.

Facts that several steps need are lemmas: about sequences (what `Append` and `Tail`
do to order and length), about counting the pings of a queue (`CountAppend`,
`CountTail`), about storage (`Storage`, `HeldObject`), about the call stack
(`FrameKinds`, `Pushed`, `Popped`, `TakenOff`), and about the functions of the
code that several handlers call. `AsyncQueueProofs` and `UtilProofs` prove
their refinements step by step: each action is mapped to the step of the abstract
specification that it takes, or to none, and the invariant is used where
the mapping reads state that only it ties together.

**Only model-checked.**

* Liveness under fairness is out of the prover's reach: `SessionEnds`,
  `ShutdownDrains`, `PopIsServed`, `StopReleases`, `ShutdownDrainsOrLeaks`,
  `WindsDown`, `QuestionCloses`, `FailureWindsDown`, `StopEndsOrForgotten`,
  `ShutdownDrainsOrDeaf`, `Finishes`. What each of them needs of safety, that the
  thing which must happen is on its way, is proved where it can be said of a state:
  `DeadlineArmed`, `StopReachesAll`, `NoLostWakeup`, `StopReachesTx`, `KeepAlive`,
  `Attentive`, `UpIsStoppable`, `StopTellsAll`. The three
  abstract specifications promise safety only, so the refinements are proved whole.
* `ReadsKept` and `PartsAreDocs` of `MimeReader` say what recursively defined text
  functions compute (`SelectSeq`, `FlattenSeq`), which needs induction over data.
* The two runs that expect a violation refute what a comment or an assert says.

## 5. What is not modelled

Text of messages, logging, TLS and HTTP details, resolver results; moving an
`async_queue` handle; `sigint_state::stop()` and fmex_client's `app::stop()`, which
nothing calls;
`wss_transport::stop()` and `initiate_close()`, which are empty in the code. In
`CoroServer` one connection is followed and others are only counted, because
connections share nothing but the loop and the cache entry. The destructors at
the end of `main` are not modelled: all models end with `ioc.run()`.
The regular expressions of `mime_reader`'s `deduce_boundary` are a choice. A
callable whose destructor uses the `poly_handler` that is destroying it, and a
`poly_handler` moved to itself, are undefined and left out. `memory-test` is Beast's
example server and a load generator for it: one read and one write in turn, with
nothing of the other programs' state; the build scripts have no behaviour.

## 6. State and plan

Modelled: all programs and library parts but `memory-test`. Proved: every state
property but those of `MimeReader`, all action properties, and the three
refinements. What is left needs a prover that does liveness (the temporal
properties, from the state properties listed with them above) and induction over
sequences (`MimeReader`).
