# nbsdk in TLA+

Specifications of [nbsdk](../src), a small C++ SDK of nbaiot: a websocket
messenger that reconnects, an event loop, byte buffers, HTTP value classes and
some signal processing.  The modules below model the parts that keep state and
run concurrently, TLC checks them on small instances, and TLAPS proves their
invariants and refinements for every instance.

## 1. The system

| Component | Source | State | Operations | Status |
|---|---|---|---|---|
| WebsocketSession | `net/messenger/websocket_session.{h,cc}` | `state_` (atomic), `send_msg_queue_`, `buffer_`, the Beast stream and the operations outstanding on it | `Connect`, `Disconnect`, `SendData` on any thread; `OnResolve`, `OnConnect`, `OnHandshake`, `OnClosed`, `OnWrite`, `OnRead`, `SendDataInner` on the strand | modelled |
| WebsocketMessenger | `net/messenger/websocket_messenger.{h,cc}` | `state_`, `try_to_recovery_` (atomics), `recovery_timer_` | `Open`, `Close`, `SendMessage`; four callbacks from the session; the handler of the timer | modelled |
| FifoBuffer | `memery/fifo_buffer.{h,cc}` | a ring of bytes under a mutex | `Write`, `Read`, `GetDataLen`, `SetCapacity` | modelled |
| EventLoop | `base/event_loop.{h,cc}` | `running_` (atomic), `threads_`, the `io_context` | `Loop`, `SyncLoop`, `Exit` | modelled |
| BufferT | `memery/include/buffer.h` | size and capacity of 32 bits, data | constructors, moves, `swap`, `SetData`, `AppendData`, `SetSize`, `EnsureCapacity`, `Clear` | modelled |
| HttpUrl | `net/http/http_url.cc` | scheme, host, port, path segments, query, fragment | the Builder's functions, `Parse`, `ToString`, the accessors that take the text apart | modelled |
| FFTW, IFFTW, factory | `math` | FFTW plan and arrays | creation, `Init`, `Execute`, `Terminate`, destruction | modelled, but for the numbers |
| GCCPhat | `math/gcc_phat.cc` | its FFT and IFFT | constructor, destructor, `Execute`: a peak search over a correlation | modelled, but for the numbers |
| HttpRequest | `net/http/http_request.cc` | URL, method, body, headers | assign fields | not modelled: nothing to get wrong between two calls |
| CriticalSection, Nlog, platform | `base` | a mutex; output | | not modelled: wrappers and logging |
| HttpClient, HttpCall, HttpResponse | `net/http` | | | not modelled: empty classes |
| test/main.cc, third/ | | | | not modelled: demo, vendored code |

**How the parts interact.**  `WebsocketMessenger` owns an `EventLoop`, whose
threads run the `io_context`, and one `WebsocketSession`.  Applications call
the messenger on their own threads or from the listener's callbacks, and the
messenger calls the session directly on that thread.  The session's
asynchronous operations complete on its strand, one handler at a time, on any
thread of the loop; a handler ends by calling back into the messenger, which
records its own state, tells the listener, and for some errors sets a timer of
five seconds.  The timer's handler runs on any thread of the loop and *not* on
the strand, and calls `Connect` again.  The callback lends the listener a
reference to the messenger, so that the last one may be given up on a thread of
the loop, in the middle of a handler; the destructor closes, stops the loop,
joins its threads and destroys first the timer, then the loop, then the session.
`GCCPhat` uses an FFT and an IFFT, which own plans of the FFTW library.
`FifoBuffer`, `BufferT` and the HTTP classes stand alone.

**What is hard.**  `Connect` tests and sets an atomic in two steps while other
threads do the same; handlers of an older attempt or connection run after a
newer one has begun; `async_close` is refused while connecting and its answer
overwrites the state; the send queue outlives connections; the timer's handler
runs on expiry as well as on cancellation; `Close` and the recovery race for
`try_to_recovery_` and the timer; the messenger may be destroyed while all of
that is under way, by one of the threads that have to end first; the loop can
be stopped and started with handlers waiting and with a `SyncLoop` caller still
on its way out.  `PROJECT.json` lists the hazards with their lines.

**What makes each component correct.**

* WebsocketSession: it tells the truth about its connection; an attempt ends
  unless the peer never answers the handshake; there is one read on an open
  connection, and one write at a time; accepted messages leave in order, once,
  none lost, and all of them on a connection that stays and whose peer reads; a
  queued message is written after a reconnection, too (does not hold).
* WebsocketMessenger: its state agrees with the session's; a recovery that was
  decided on happens; after Close it does not stay open unless the peer never
  answers the close; Close stops recovery (does not hold); errors are recovered
  from while recovery is on (does not hold); giving it up leaves no handler
  behind (that it ends in defined behaviour does not hold, see Teardown).
* EventLoop: `running_` tells the truth about the threads; a handler runs once,
  and only between Loop and Exit; Exit returns and releases everybody who runs
  the loop; what it leaves over runs later.
* FifoBuffer: a bounded queue of bytes, across wrap-arounds and reallocation.
* BufferT: a sequence of values, across moves and growth; size never exceeds
  capacity; growth is cheap in the long run.
* HttpUrl: editing keeps the path normal; printing and parsing are inverse;
  what is read back from the text is what was put in; a URL is taken apart
  where its parts are, its port is in range, its segments are counted (none of
  the three holds).
* FFT, GCCPhat: each plan has one owner, and one that is gone is not used, as
  long as nobody terminates or initialises again what should not be; the window
  of the search stays in the correlation, and the best lag within it is
  returned (for an odd number of samples, one less than it).

## 2. Modules

| Module | What it is |
|---|---|
| `Outbox` | what a session promises about the messages it has accepted |
| `WebsocketSession` | the session, with the stream it uses |
| `WebsocketMessenger` | the messenger composed with its session (EXTENDS it): the session's actions, each joined with the callback it makes |
| `ByteFifo` | what a FifoBuffer promises |
| `FifoBuffer` | the ring |
| `Executor` | what an EventLoop promises about handlers |
| `EventLoop` | the loop, with its `io_context` |
| `Teardown` | the end of a messenger: EXTENDS `WebsocketMessenger` and INSTANCEs `EventLoop` |
| `Vectors` | what the objects of BufferT promise |
| `Buffer` | BufferT |
| `Text` | `std::string` over tokens |
| `HttpUrl` | the Builder, `Parse` and `ToString` |
| `FftPlans` | FFTW and IFFTW as owners of plans, under any client |
| `GccPhat` | GCCPhat as their user (EXTENDS `FftPlans`), and its search |
| `MC...` | the constants of the small instances; `MCClasses` composes the classes that stand alone |
| `WebsocketSession_proofs`, `WebsocketMessenger_proofs`, `EventLoop_proofs`, `Teardown_proofs` | theorems about what runs concurrently |
| `FifoBuffer_proofs`, `Buffer_proofs`, `HttpUrl_proofs`, `GccPhat_proofs` | theorems about the classes of one user |

Definitions carry the names of the functions they model.  A definition whose
comment begins with "Mutant" is a wrong variant of the one after it; nothing
uses it, and it documents which mistake a property would notice.

### WebsocketSession

`state` is `state_`, `queue` is `send_msg_queue_`, `posted` the posts of
`SendDataInner` that have not run.  `leftover` says that `buffer_` holds part
of a message that never completed.  `wire` is history: messages whose
`async_write` succeeded.

The Beast stream and the Asio objects are external, and modelled by what the
code relies on.  `live[op]` counts the operations of a kind that can still
succeed and `dead[op]` those that can only complete with an error; every
operation started completes exactly once.

* An operation started on a stream that is not open (before the handshake is
  done, after a close or a failure) is dead.  `async_close` while connecting
  and `async_write` while connecting are of this kind.
* The first failure of a connection goes to one operation, whichever; all
  others of the same connection complete with `operation_aborted` (`Sever`).
  So does everything when a close succeeds.
* `async_connect` closes the socket before it opens it again, so it severs
  what a previous attempt or connection has outstanding.
* A read that was cut off completes with `operation_aborted`, which `OnRead`
  ignores; one that meets a close frame, the peer's own or its answer to ours,
  completes with `closed` (`CloseFrame`).
* Connecting tries one endpoint.  Which one of several succeeds makes no
  difference to the session.

What is one step and what is not:

* `Connect` is three steps: the comparison with kDisconnected (`Connect`), the
  comparison with kError, which loads `state_` again (`ReloadInConnect`), and
  the store with the start of the resolve (`StartResolve`).  The two loads may
  see different states, and both may be out of date at the store.
* `SendData` loads `state_` in the same two steps; the second one posts.
* `Disconnect` is one step, although the close is started after the load of
  `state_`: if the state became kDisconnected in between, a close succeeded and
  severed the stream, and the late close fails like one started before it; if
  a later connection is open by then, it is like a call made at that moment.
* `caller[t]` is how far a thread is in `Connect` or `SendData`.
* A handler is one step with the callback it makes, since handlers of one
  session do not overlap: it stores the session's `state_`, then the
  messenger's, and no function of another thread reads them in that order.
  What is said of both states is therefore said of the time outside handlers.
  A call that a listener makes from inside a callback is covered as the same
  call right after the handler.
* `DoRead` is part of `OnHandshake` and `OnRead`.

Calls do not choose their budget in the action itself: `SessionNext` joins
each call with `Spend`, so that the messenger can reuse the actions.

### WebsocketMessenger

`mstate` is the messenger's `state_` (the session has the other one),
`tryRecovery` is `try_to_recovery_`.  The timer is `armed` (a wait is pending)
and `ready` (handlers of waits that have ended, by expiry or by cancellation:
the code does not distinguish them, so one counter does).  Functions that
touch several atomics take several steps, and `at[t]` is where a thread is:
`Open` stores, then calls `Connect`; `Close` stores, cancels the timer, calls
`Disconnect`; `OnErrorCallback` records the state and calls the listener, then
reads `try_to_recovery_`, then sets the timer; the timer's handler reads the
state, then calls `Connect`.  The last two hold a thread of the loop, and
`OnErrorCallback` holds the strand; every handler needs a free thread.

`cancel` and `expires_from_now` may be called at once from two threads on one
timer object, which Asio does not allow.  The model takes them one after the
other.  The only field at risk tells whether a wait may be pending, and
missing it has the outcome of a cancel that came before the wait.

### FifoBuffer

Each operation holds the mutex throughout and is one step.  `buffer` is
indexed from 0 as in the code; bytes not yet written are `Garbage`, a value no
byte has, so handing one out would show.  `out` and `result` are what the last
operation stored and returned; `seen` what `GetDataLen` told the one reader
since its last `Read`.  The private functions' `offset` is always 0 and is
left out.  The refinement maps `contents` to the bytes from `read_position` on,
modulo the length.

### EventLoop

`running` is `running_`, `threads` what of `threads_` can be joined, `stopped`
what `ioc_.stopped()` says, `run[t]` whether a thread is in `ioc_.run()`,
waiting there or in a handler.  `call[t]` is how far a thread is in `Loop`,
`SyncLoop` or `Exit`: every access to `running_` or the `io_context` is a step,
and the threads of the loop move in between.  Starting a thread and its entry
into `run` are one step; nothing happens to the thread before.

`threads_` is a plain vector, so two calls at one moment are outside what the
class supports: `MayCall` lets one call be under way, from a thread that is not
waiting in `run`.  It may be a handler, which then joins itself, and
`std::thread::join` ends the program (`crashed`).  A `SyncLoop` caller inside
`run` does not count as calling.  `SyncLoop` starts one thread less; which one
is left out makes no difference.

### Teardown

The messenger lives as long as somebody has a reference: application threads
(`owners`) and threads inside a listener's call (`holding`).  `Release` and
`ListenerReturns` give one up; the last one runs the destructor on its thread.
`life` is how far that is: the rest of Close (`Proceed` of the messenger does
its steps), `Exit` with the steps of `EventLoop`, then the members.  The
`EventLoop` of the instance is one that runs and is never started again; where
its threads are is computed from the messenger's variables and `ended`.

What the code does not handle is an outcome of the model.  A callback of the
session calls `shared_from_this` while the destructor is under way and throws;
a handler that drops the last reference makes its thread join itself, which
throws; and `~WebsocketSession`, which runs last, calls `Disconnect`, whose
`shared_from_this` throws unless `state_` is kDisconnected.  Each ends the
program (`crashed`).

No release does better than undefined behaviour.  The messenger declares
`websocket_` before `loop_` (`websocket_messenger.h:54-55`), so the loop and
its `io_context` are destroyed first, and the strand, the resolver and the
stream of the session when their `io_context` is gone: `life` ends as
"undefined", there is no other end but an exception.  `QuietThrowsNothing` says
what can be relied on up to there: who closes first, waits for the close, and
gives the messenger up outside a callback meets no exception.  `DestructorEnds`
says that the destructor does not hang, and counts both as an end.

### Buffer

An object is a record of size, capacity and array, with one field of history:
`copied` counts the elements copied by `EnsureCapacityWithHeadroom` with
headroom.  (`EnsureCapacity` grows to what it is told and is not counted.)
Elements of a new array are `Garbage`.  A size is computed modulo `Limit`, and
`overrun` remembers a `memcpy` that left its array.  A self-assignment keeps
the array and forgets it, as the code does.  `operator==` and the iterators
change nothing; `SetData(const T&)` cannot be instantiated, since a byte has no
`data()`.

`AppendData` adds two lengths in 32 bits.  Whoever lets the sum wrap around
makes the array shorter than what is copied into it, and nothing the class
promises holds any longer; so `MaxLength` bounds the length a caller makes an
object, and `BufferAssumption` says that it is represented.  The wrap-around
itself is a hazard that no property covers.

### HttpUrl

A text is a sequence of tokens: delimiters and blanks one each, and a name, a
number or a scheme one each; a token is a string (`UrlAssumption`).  `Digits`
is what prints a port and `Number` is `atoi`, over the numbers of `Ports`;
`DigitsAssumption` says that two numbers print differently, and none prints as
a delimiter.  A blank is not a scheme: in the code blanks are characters.
`Text` holds the functions of `std::string`, with 0 for npos (the code adds 1
to npos in two places, and relies on 0) and with the unsigned wrap-around of a
length that would be negative.  Every function of the Builder maps the fields
to the fields; `Parse` yields the fields and whether it answered true, false or
threw.

`Host` is worth a look: it clears `host_` and then transforms the new name into
the memory of the empty string, so that `host_` stays empty.  Only `Parse` sets
a host.  (A name longer than the string's own memory is undefined behaviour;
the instances have short ones.)  `PathSize` takes one off the number of
segments for an empty one that `Push` never lets in.  `QueryParameter`, which
returns an empty set, and the accessors that return a field are not in the
model.

Encoding is still to be written, so that a delimiter can be data, and a URL
with one cannot be taken apart again.  `Readable` says which can: it has a
scheme, a host and a path, and no delimiter where it would be taken for the end
of a part.  Builders that are not readable are in the model and meet the other
properties, `RoundTrip` and `GettersAgree` are not claimed for them.  Nor is
`RoundTrip` for a text with a blank at the end, which `Parse` trims.

### FftPlans and GccPhat

The two objects of `FftPlans` are used as the interfaces let them be: `Init`,
`Execute`, `Terminate` and the destructor in any order, of an object that
exists.  Plans have names that are never used again, so that a use after the
end shows, as `misuse`; the model stops there.  `overwritten` are the plans
that a second `Init` of the FFT has forgotten: `FFTW::Init` looks at nothing an
earlier one has left, and plan and arrays leak.  `use[k]` is history: whether
an object can be expected to work.  A count of 0 stands for all for which the
library makes no plan.

`Terminate` leaves `plan_` and the size as they are.  The destructor then
destroys the plan a second time, and an `Execute` before it uses what is gone.
Only an FFT can be revived, since its `Init` sets everything; an `Init` of the
IFFT with another size destroys the plan again, and one with the same size does
nothing.  `ReadyIsUsable` says that this is the only way to a misuse, but for
an `Execute` without a plan.

A `GCCPhat` creates and initialises an FFT, then an IFFT, and destroys them in
the reverse order; `stage` is how far that is.  `Execute` returns -1 for a
signal that is a null pointer, which is also a lag; a count other than the
object's ends the program or, where a failed CHECK only logs (`_exit` is there
for `OS_UNIX`), goes on with vectors of another length; otherwise both
transforms are executed, and the correlation is searched.  It is any function
to a few levels: only the order of its values matters to the search.  The
margin is any int.

`WindowInBounds` says when the range of `max_element` is one: for two samples
and more, and a margin that is not negative.  Neither is checked by the code;
with less, the range has a negative length, and the outcome is "undefined".
`LagIsBest` says what the lag means.  `half` is rounded up, so for an odd
number of samples the middle of the window, which is counted as lag 0, belongs
to lag 1: two equal signals of 7 samples have the lag -1.  For an even number
the lag returned is the best of those in the window.

## 3. Runs

| Run | Shows | Instance |
|---|---|---|
| `Session.cfg` | types, one write of a queued message, one read, truthful state, Outbox; an attempt ends and the queue drains if the peer answers | 2 threads, 2 messages, 2 connects, 2 disconnects, 2 sends, 2 faults: 80 300 states |
| `SessionQueuedIsWritten.cfg` | violation: sending is stuck after a failed write | 1 thread, 2 connects, 2 sends |
| `Messenger.cfg` | types, agreement of the two states; recovery happens, Close is answered if the peer answers | 1 application thread, 2 loop threads, 2 opens, 1 close, 1 send, 2 faults: 51 100 states |
| `MessengerRecoveryStopped.cfg` | violation: Close's own cancel starts a connection | 1 + 1 threads |
| `MessengerErrorIsLeft.cfg` | violation: a send error is not recovered from | 1 + 1 threads |
| `Loop.cfg` | types, truthful flag, Executor; Exit returns, SyncLoop returns, handlers run | 2 threads of the loop, 2 outside, 1 handler that calls, 6 calls, 4 posts: 12 300 states |
| `Teardown.cfg` | types, no handler outlives the messenger, a quiet release meets no exception; the destructor ends | 2 application threads, 2 loop threads, 1 open, 1 close, 1 send, 2 faults: 132 100 states |
| `Buffer.cfg` | types, consistency, cost of growth, Vectors | 2 objects, sizes asked to 2, up to 7 elements in an object: 87 600 states |
| `Classes.cfg` | ring: types, bounds, a reader is never short, ByteFifo; URL: types, normal path, round trip, getters; transforms: plans are owned, who is ready misuses none; GCCPhat: keeps its plans, window and lag | lengths to 5, blocks to 3, two byte values; 11 URLs, 2 names, 2 values, 2 segments; counts 0, 1, 2, 6 and 7, 4 plans, two levels, 6 margins from -9 to 7: 123 300 states |
| `UrlFollowsDiagram.cfg` | violation: path and host are mixed up | the same URLs |
| `UrlPortInRange.cfg` | violation: `Parse` accepts a port out of range | the same URLs |
| `UrlPathSizeCounts.cfg` | violation: `PathSize` is one short | the same URLs |

The classes that stand alone share a run: no step of one touches what another
has, so a behaviour of `MCClasses` uses one, which `part` names (18 200
states of the ring, 19 200 of a URL, the rest of GCCPhat and the transforms).

**Bounds.**  `Budget` limits the calls of each kind and the failures of the
network; it is in the guards, nothing is cut by a state constraint.  Two
connects and two failures are enough for a connection to be lost and replaced
while another attempt is racing; what more attempts could do to the safety
properties is settled by the proofs, which hold for any budget.  Two
disconnects meet each other and the attempts; two messages are enough to see a
reordering, a loss or a second write, since the code treats all messages alike.
Two threads suffice for the race in `Connect`.  With two loop threads the
timer's handler overlaps a handler on the strand; with one, the default of the
code, it cannot.  The timer's own Connects are not counted: failures bound
them.

Six calls of a loop are a SyncLoop, an Exit, and a Loop and its Exit before the
first caller has left `run`, and one such pair more. Ring lengths up to 5 with
blocks up to 3 bytes reach every alignment of data and array, an array of
length 0, and every change of length. Seven elements are the first number at
which growing by what is asked costs more than `Amortised` allows. The URLs of
`MCHttpUrl` are one for each case of `Parse`: its comment lists them. Four
plans are an FFT and an IFFT twice; the counts are one without a plan, the
first two for which there is one, and six and seven. Six and seven samples are
the smallest numbers, even and odd, of which a window has more than three lags;
two levels tell any two indices apart; the margins lie below the negative of
the count, around 0, and beyond the count.

**Fairness.**  An `io_context` that has threads runs every handler that is
ready: weak fairness on what the strand has been posted, on the timer and its
handler, on a thread that is in the middle of a call, and on the completion of
every operation that cannot wait for the peer, which are resolving, connecting,
and whatever was cut off or started on a stream that is not open.  Nothing is
assumed of the applications, nor of the peer: the handshake waits for its
answer, a close for its close frame, a write for it to read and a read for it
to send, and `websocket_session.cc` sets no timeout on the stream.  A peer that
falls silent leaves the session in kConnecting, or the messenger open after
Close, for ever.  So `AttemptsEnd`, `QueueDrains` and `CloseIsAnswered` have
the peer's part as their condition (`PeerAnswers` of the handshake and of the
write, `PeerCloses`): the code adds no other way to hang.  Without the
condition TLC finds each of them violated, by the silent peer.

The network fails finitely often, because of the budget.  Weak fairness is
enough although a handler needs a free thread: with finitely many calls and
failures the threads come to rest.  In `EventLoop` and `Teardown` fairness is
that of the threads: one that can go on does, and handlers and listeners
return.  No operation of the network needs to complete for the destructor to
end.

**Deadlock.**  The session, the messenger, the loop and the teardown stop when
the budget is used up, nothing is outstanding or the program has ended;
transforms and a GCCPhat after a misuse, an outcome that is undefined or an
exit, or for want of plans; their runs say `CHECK_DEADLOCK FALSE`.  Buffers
never stop.

### What the violations say

1. *QueuedIsWritten.*  After a failed write the message stays at the front of
   the queue; a write is only started for a queue that was empty.  After the
   reconnection everything is queued and nothing is sent.
2. *RecoveryStopped.*  `Close` clears `try_to_recovery_` and cancels the timer;
   the cancelled wait's handler looks at neither and connects at once.  With
   one loop thread: an error, `Close` and `ArmRecovery` race, `CancelTimer`,
   `TimerHandler`, `Connect`.
3. *ErrorIsLeft.*  If a write is the first to see the connection fail, the
   messenger gets kSendError, for which it sets no timer, and the read is
   ignored as cancelled.
4. *FollowsDiagram.*  A URL without a path gets its host and port as the one
   segment of its path; a colon in the path is taken for the one before the
   port, and the path up to it for the host.
5. *PortInRange.*  The header says of the port that it is in range; `Parse`
   stores what `atoi` makes of the text, also 0 and 65536, and answers true.
6. *PathSizeCounts.*  Comments say that the path always has an empty segment at
   its end.  It never has (`SegmentsNormal`), and `PathSize` takes one off.

What the models show besides, without a run of its own: two attempts can be
under way at once, since `Connect` tests and stores in two steps and a close
that fails overwrites kConnecting; a connection can start with bytes of the
previous one in `buffer_` (`leftover`); `Host` sets no host; with a "#" in
front of the "?" `Parse` takes the length of the query for negative and the
query for the rest of the text, so that a value can hold a "#" that ends the
query once it is printed (a URL of `MCHttpUrl` has one, and `Readable` excludes
the outcome); `EncodedPath` throws for a URL without a path; Close followed by
Open before the close is answered ends closed; every release of a messenger
ends in undefined behaviour or an exception; beyond `Limit`, `AppendData`
writes behind its array; a transform that was terminated is destroyed twice.

### Not modelled

Most lines of the repository are other projects': `third/json` is nlohmann's
header, which no file here includes, and `third/webrtc` holds headers and a
library that only the demo is linked with.  They have no state of this
program's, and the SDK's own code is about a tenth of the lines.  Of that, left
out are the HTTP client classes, which are empty; HttpRequest, whose functions
assign fields; CriticalSection, which wraps a mutex; logging, platform and the
demo; in FFT and GCCPhat the numbers.  The calls of clients that the classes do
not provide for are left out, too: two threads in `Loop` or `Exit` at once, a
buffer that is given its own data.

## 4. Proofs

Every safety property of a passing run is a theorem, and so are the four
refinements.

| Theorems | Properties | Assumptions |
|---|---|---|
| `WebsocketSession_proofs` | `SessionTypeOK`, `OneWriteOfQueued`, `OpenIsRead`, `StateIsTruthful`, `IsOutbox` | `BudgetAssumption` |
| `WebsocketMessenger_proofs` | `MessengerTypeOK`, `MessengerAgrees`, and the session's inside it: `StateIsTruthful`, `OneWriteOfQueued`, `OpenIsRead`, `IsOutbox` | and `ThreadsAssumption` |
| `EventLoop_proofs` | `LoopTypeOK`, `PoolMatchesFlag`, `IsExecutor` | `LoopAssumption` |
| `Teardown_proofs` | `TeardownTypeOK`, `NoneOutlives`, `QuietThrowsNothing`, and all of the messenger's and the session's to the end | the messenger's |
| `FifoBuffer_proofs` | `FifoTypeOK`, `RingInBounds`, `ReaderNotShort`, `IsByteFifo` | `FifoAssumption` |
| `Buffer_proofs` | `BufferTypeOK`, `Consistent`, `IsVectors`; `Amortised` | `BufferAssumption`; and `RoomToGrow` |
| `GccPhat_proofs` | `PlansOwned`, `ReadyIsUsable`, `GccKeepsPlans`, `WindowInBounds`, `LagIsBest` | `PlansAssumption`, `GccAssumption` |
| `HttpUrl_proofs` | `UrlTypeOK`, `SegmentsNormal`, `GettersAgree`, `RoundTrip` | `UrlAssumption`; and `DigitsAssumption` |

In each module the properties follow from one inductive invariant, whose parts
have a comment; TLC has checked every one of them on the run of its module.  A
module has a lemma for each action, and the lemmas about operators come first.

**WebsocketSession.**  The invariants are not inductive as they stand: that a
handshake finds no read outstanding depends on there being no handshake while a
connection is open, which `OneSocket` says: only one of all attempts has a live
socket.  That an operation may be taken away from a stream that is closed
depends on `ClosedIsQuiet`.  `SessionInv` is the conjunction.  The proof first
states what the operators on counts return, then what every way of completing
keeps (`Kept`), then has one lemma per handler.  The refinement maps
`queue \o posted` to `pending`: `ReloadInSendData` is `Accept` when it posts,
a successful `OnWrite` is `Transmit` (which needs `OneWriteOfQueued`, for there
to be a message at the front), and every other step stutters, also
`SendDataInner`, which moves a message from one sequence to the other.

**WebsocketMessenger.**  The session's lemmas, one per action, are reused for
the messenger, whose steps are not all steps of `SessionSpec` (the timer's
Connect is not taken from the budget of calls).  `SessionStep` is a step of the
session that nobody counts; every step of the messenger is one, and so is every
step of the teardown, from which `IsOutbox` follows for both.

**EventLoop.**  `PoolMatchesFlag` speaks of the time between calls.
`CallStages` says what holds at each step of a call: how far `running_`, the
`io_context` and the threads are apart.  It rests on `OneCall`, and on
`CallerPlaced`, which says where a thread that calls can be: a Loop or an Exit
may be called by a handler, a `SyncLoop` not.  For `IsExecutor` two facts more
are invariant: a thread is still inside `run` only when `running_` is set or the
`io_context` is stopped (`InRunIsOn`), so that nobody takes a handler before the
loop is on; and a handler is queued or on one thread, not both
(`OncePerTask`).

**Teardown.** `TeardownInv` adds to the invariant of the messenger where the
destructor is (`OneDestroyer`, `ExitStages`) and that a thread that has left
`run` is in no handler (`EndedIsOut`), from which `NoneOutlives` follows: the
members come after the joins. Nothing of `QuietThrowsNothing` can be seen from
the moment it speaks of; `StaysQuiet` carries what was true at the release
through the destructor: all that can still run is the handler of a read that
was cut off, which calls nobody.

**FifoBuffer.**  `FifoInv` adds to the three properties that what is held was
written (`Held`), without which a `Read` could hand out what `new char[n]`
left. The lemmas are about the modulus, which wraps around once at most
(`Slot`), and about copying a block in two parts: where they go (`Placed`), and
that they spare what is held (`Appended`).  With them the bytes from
`read_position` on are the `contents` of `ByteFifo`, across `Write`, `Read` and
the reallocation.

**Buffer.**  `BufferInv` is that every object is `Good`: its array is at least
as long as it believes, and growth is paid for; and that objects which do not
exist are empty.  That growth stays paid for rests on the size never exceeding
the capacity, since the size is what a growth copies, and on the capacity
growing by half.  It needs `RoomToGrow`, that one and a half times the lengths
asked for is represented: with 32 bits, lengths up to two thirds of
2^32.  Above, the growth by half wraps around, the buffer grows by no more than
what is asked for, and `Amortised` is not claimed; the other theorems do not
depend on it.

**FftPlans and GccPhat.**  `PlansInv` adds to `PlansOwned` that an object
without a plan has none to hand over, and that one which was terminated has a
name that is gone and, since names are counted up, will not be given again.
Every step either takes the plan of one object away (`LosesStep`) or gives it a
new one (`GainsStep`); `Current` are the plans that somebody should have, so
that an `Init` that forgets a plan and one that destroys it are the same step
of it.  `MathInv` adds `StageInv`, which says at each stage of the constructor
and the destructor what both transforms have, and `CallInv`, that what a call
returned is `ArgMax` of what it was given.

`max_element` is a search for the first largest of finitely many values:
`FirstLargestExists` shows that there is one, for any correlation and window.
`InBoundsFacts` has the window inside the correlation exactly for two samples
and a margin that is not negative; `ArgMaxFacts` finds the best lag on the
circle, as `True`, the lag to which an element of the window belongs, and
`TrueFacts` says that it is the lag returned, or that plus one.

**HttpUrl.**  `UrlInv` is a set of records, `Builders`: the types and a normal
path.  What needs proof is that every function of the Builder and `Parse`, on
whatever text, stay in it, and thus that each fold of the model (trimming,
taking apart, pushing segments, reading parameters) stays in a set that its
step stays in.

`GettersAgree` and `RoundTrip` follow from `UrlInv`, but they speak of what the
functions compute, for a `Builder` of any length.  The argument has three
parts.  First, where a delimiter is: behind a text that lacks it, the first one
of a concatenation is the one put there (`FirstBehind`), so that `UpTo` and
`After` return what is on both sides of it (`UpToAndAfter`).  Second, what was
joined is taken apart into the same pieces: `Pieces` is followed position by
position (`IsCut`), a piece put behind a separator is added to those before
(`PieceAtEnd`), and by induction over the pieces the whole is cut into what it
was joined from (`JoinedPieces`).  Third, `ToText` is a chain of such
concatenations, and `Parse` finds each part of it: nothing is trimmed, since
the text begins with a scheme and does not end in a blank; it is long enough
and has a scheme `Parse` knows; host and port come back (`HostRebuilt`), since
numbers are told apart by their digits; the segments are pushed one by one and
none is dropped, because the path is normal (`PushedAll`); and the parameters,
whatever order they were printed in, are the map of names to values again
(`QueryRebuilt`).

That proof found three things the properties had left unsaid, and one of them
TLC could show on a URL that had not been among the instances: the "#" in a
value, above.  The other two are that blanks must not be schemes and that a
text may end in a blank.

**Induction.**  The induction theorems of the library take an operator, which
the provers here cannot instantiate.  Where a proof needs induction over data
it takes the least number of a set of numbers for which something fails
(`LeastNat`, from the library's theorem on minimal elements of a well-founded
relation).  A fold is, by its definition, a function on the sets of positions
that a `CHOOSE` picks; `IsFold` states that function's equation, `FoldExists`
shows that there is one, `FoldMember` that its values stay in a set.  What they
show has the step as a function, and so each fold of the model has a lemma.
For what a fold computes, `IsRun` has its values from one position to the next,
and `YieldReaches` shows where they arrive, from what can be reached after each.

**Only model-checked.**  Liveness under fairness is out of the prover's reach:
`AttemptsEnd`, `QueueDrains`, `Recovers`, `CloseIsAnswered`, `ExitReturns`,
`SyncLoopReturns`, `TaskRuns`, `DestructorEnds`.  That `FollowsDiagram`,
`PortInRange`, `PathSizeCounts` and the three claims about recovery and the
queue do not hold is shown by TLC as well, with a counterexample each.

## 5. Plan

1. Encoding, once the code has it: the alphabet of a part then excludes its
   delimiters, and `Readable` becomes a theorem instead of a hypothesis.
2. What the provers cannot reach stays with TLC: the liveness properties, on
   larger budgets.
3. Shorter proofs where two lemmas say nearly the same.
