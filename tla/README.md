# Verification of node-framed-msgpack-rpc

TLA+ modules for the RPC library in `src/`, TLC configurations that check them on
small instances, and TLAPS proofs for every value of the constants.

What is modelled is `src/lib/*.js`, which is what the package runs
(`package.json`: `main` is `./lib/main`); it is compiled from `src/src/*.iced`,
which reads better and has the comments. Lines quoted without a path are of `lib/`.

## 1. Inventory of the system

One inheritance chain carries the protocol: `Packetizer` (frames on a byte
stream) < `Dispatch` (calls and replies) < `Transport` (a TCP stream) <
`RobustTransport` (reconnects, queues calls). A `Listener` makes one
`Transport` for each accepted connection. Everything runs in one Node.js
process: code runs to completion between events, `await` of IcedCoffeeScript
returns to the event loop, and a callback runs inside its caller's turn.

| Component | State | Operations | Interacts with |
|---|---|---|---|
| `Dispatch` (dispatch.js) | `_invocations`, `_seqid`, `_handlers` | `invoke`, `cancel`, `_dispatch`, `_dispatch_reset`, `_serve`, `respond` | `send` of the packetizer below; user callbacks above |
| `StreamWrapper` (transport.js) | `_net_stream`, `_generation` | `close` (idempotent), `write` | fails all calls and resets the packetizer when it closes |
| `Transport` | `_netw`, `_generation`, `_explicit_close`, `_lock` | `connect`, `reset`, `close`, socket events `error`, `close`, `data` | user hooks `connected`, `after_connect`, `eof`; `parent.close_child` |
| `RobustTransport` | `_waiters` | `_connect_loop`, `_flush_queue`, `invoke`, `_timed_invoke` | the lock, two timers, `Dispatch.invoke` |
| `Packetizer` | `_state`, `_next_msg_len`, `_ring` | `send`, `packetize_data`, `_packetizer_reset` | `_dispatch` above, `_raw_write` below |
| `Ring` | `_bufs`, `_len` | `buffer`, `grab`, `consume` | the packetizer |
| `Listener`, `List` | `_net_server`, `_children` (an intrusive linked list) | `listen`, `listen_retry`, `close`, `close_child`, `walk_children` | `net`/`tls` servers, child transports |
| `Server`, `SimpleServer`, `ContextualServer` (server.js) | programs, one object per program and connection | `got_new_connection`, `get_handler_this` | fill the handler table of each new transport |
| `Client` | program name | `invoke`, `invoke_compressed`, `notify` | `Transport.invoke` |
| `Lock` | held or not, waiters | `acquire`, `release` (FIFO) | external package iced-lock |
| `Debugger`, `Timer`, `Log`, errors, `at_version` | - | pure or output only | - |

What makes each correct, and what is hard:

- **Dispatch, the caller**: a callback fires once, with the outcome of its own
  call; the EOF sweep runs user code, which calls `invoke`, `cancel` and `close`
  while the sweep is under way.
- **Dispatch, both ends**: replies that are late or go out on another stream than
  their request came in on; numbers that go on when the client's stream is
  replaced, and start again at the server; hooks found by name.
- **Transport**: one stream at a time; socket events arrive twice and late
  (`error` then `close`, possibly after a reconnect); a pending call is always
  on a stream whose loss ends it.
- **RobustTransport**: a lost stream is replaced; `connect` and the loops
  compete for a lock across awaits; the queue conserves calls and their order
  when the stream is lost in the hook or in the flush; `close` in the middle of
  anything; a timer per call against answer and EOF.
- **Packetizer, Ring**: arbitrary chunking of the bytes, empty chunks, frame and
  message boundaries, a reset from inside a callback.
- **Listener, List**: `listen`, the timer of `listen_retry`, `close` and errors of
  the server share one field; connections end in any order.

`PROJECT.json` lists the hazards at their lines, each with the properties that
cover it or a note why none does.

## 2. Structure

| Modules | What | Proofs |
|---|---|---|
| `CallTable`, `Dispatch` | the caller's side of dispatch.js and what it promises | `DispatchProofs` |
| `Transport` | both classes of transport.js on top of `Dispatch` | `TransportProofs`, `TransportStepProofs` |
| `ByteQueue`, `Ring`, `Packetizer` | the ring buffer implements a byte queue; framing on top of it | `PacketizerProofs` |
| `MessageChannel`, `FrameLink` | two packetizers implement a message channel | `FrameLinkProofs` |
| `Handlers`, `Rpc` | two ends: requests, hooks, answers, compression, timers, over streams that are replaced | `RpcProofs` |
| `List`, `Listener` | one port, its servers, and the list of its connections | `ListenerProofs` |
| `MCDispatch`, `MCTransport`, `MCPacketizer`, `MCFrameLink`, `MCRpc`, `MCListener` | constants and symmetry of the runs | - |
| `SequenceLemmas` | facts about numbers, sequences and recursive functions | of its own; used by `PacketizerProofs`, `FrameLinkProofs`, `ListenerProofs` |

`Transport` extends `Dispatch`, `Packetizer` extends `Ring`, `FrameLink` joins two
packetizers, `Rpc` extends `Handlers`, `Listener` extends `List`. The layers meet at
abstract specifications: `Transport` is shown to use `Dispatch` as `DispatchSpec`
says (`UsesDispatch`), `Dispatch` implements `CallTable`, `Ring` implements
`ByteQueue`, and `FrameLink` implements `MessageChannel`, which is why `Rpc` may
take a message as a whole and in order within a direction of a stream (it
even allows any order).

What could come next: data of a half-closed stream in the ring of the new one as
one model of streams and bytes (today `BadFrame` and `Packetizer`'s resets are the
two halves of it).

## 3. The modules

### CallTable: what a table of outstanding calls promises

A call is idle, pending, doomed (outstanding when the stream was lost) or done,
and becomes done once, with one outcome: its reply or "cancelled" while pending,
"eof" once doomed. It is the abstract specification that `Dispatch` implements
(`KeepsPromise`).

### Dispatch: dispatch.js, the side of the caller

`invocations` is `@_invocations` as a set of entries, `requests` what has
ever been written to a stream (the wire keeps it: a response may be late,
duplicated, or come after its call was cancelled), `outcome[c]` the sequence of
outcomes handed to the callback of `c`, `resetting` the table that a running
`_dispatch_reset` iterates over. Actions: `DispatchInvoke`, `DispatchNotify`,
`HandleResponse`, `DispatchCancel`, `DispatchReset` (swaps the table) and
`ResetNext` (one EOF callback); between two `ResetNext` steps the callbacks may do
all the others. The guards "not inside another sweep" and "a call is invoked
once" are in `DispatchNext` only, so that modules that use the actions have to
earn them; `UsesDispatch` checks, and `TransportRefinesDispatch` proves, that
`Transport` does.

### Transport: transport.js

Extends `Dispatch`. A stream is its generation number; `open` are the wrappers
that are not closed, `live` the sockets whose 'close' event is still to come: a
locally closed socket stays half open and its late events and data are part of
the model. The lock is `holder` (who, and where it is) and `lockq`. Three histories
serve the properties: `handed`, the calls handed to `invoke`; `troubled`, the streams
that an event of their own, data that is no frame or `reset` has hit; and `loops`, how many
reconnect loops lost streams have started. With them `CallsConserved` says that a
call was handed to `invoke` exactly if it is queued, being flushed, sent, refused or
dropped, and in one of these only, and `OneLoopPerLoss` that the 'error' and the
'close' of one socket start one loop together, however late, and none for the stream
that has taken its place. A transport starts without a stream (a client) or with an accepted one (a Listener's child). Code that
runs without returning to the event loop is cut only where it calls user code:

| Code | Model |
|---|---|
| `connect` | `Connect`, `LockRuns`, `DialWorks`/`DialFails`, ..., `RetryConnect` |
| `_connect_loop` | `Reconnect`, `LockRuns`, `DelayOver`, the same dial steps |
| `_connect_critical_section` | `DialWorks` .. `CriticalSectionWorks`/`Fails` |
| `hooks.connected`, `hooks.after_connect` | user steps at `up`, steps at `hook` and `await` |
| `_flush_queue` | `FlushNext` for each element of `tmp`, `FlushEnds` |
| `invoke` of both classes | `TransportInvoke` |
| `StreamWrapper.close` | `WrapperClose`, `SweepNext`, `Unwind` (what it returns to) |
| `close`, `reset`, `w.close()` | `Close`, `Reset`, `UserWrapperClose` |
| socket events | `StreamError`, `StreamClosed`, `BadFrame`, `Response` |

Abstractions: chdir around long socket paths, TLS and the four-way rendezvous of a
dial are the choice between `DialWorks` and `DialFails`; the `eof` hook and
user code in hooks are user steps just before or after; user code in the
callbacks of calls refused during a flush is not interleaved with that flush;
`parent.close_child` belongs to the Listener. A notification is queued and
written like a call, so only `Dispatch` has an action of its own for it.

### Ring and ByteQueue: ring.js

`bufs` and `len` are `@_bufs` and `@_len`. A grab that finds enough bytes is
`Grabbed`: the fast path, or the join of as few buffers as hold `n` bytes. A
consume is `Consumed`, and `Underflow` says when it throws. The buffers put
together implement `ByteQueue` (`KeepsBytes`).

### Packetizer: packetizer.js

Extends `Ring`. `Data` is packetize_data up to its loop, `GetFrame` and `GetMsg`
are its iterations, with every return of `WAIT`, `ERR` and `OK`; `loop` says
whether the loop runs, and whether it has just called user code in `_dispatch`,
which may close the stream and so reset the packetizer under the loop
(`UserCloses`). `PacketizeError` resets the packetizer if the stream was still open
and leaves the wrong bytes in the ring if it was not. `unpack` is external:
`Number` reads a big-endian number, `IsArray` decides by the first byte.
`received` and `dispatched` are history. `MessagesAfter` is the reference definition of
what a string of bytes means to somebody who sees all of it: `CompleteAt(s, p)` says that
a whole frame with an array begins after the first `p` bytes, `NextAt` where it ends, and
the messages after `p` are that one and those after its end. `Parse` starts at 0.

### FrameLink and MessageChannel: one direction of a stream

`Send` is `Packetizer.send` with `pack` external (a peer may choose any form of the
length that fits, for any length V8 can make a string of: `MaxLength`), `wire` the bytes in flight, `Arrive` a 'data' event of any
size. The two ends implement `MessageChannel`: order, once, whole, and, with the
fairness that turns end and bytes arrive, eventually.

### Handlers: names and hooks

dispatch.js finds a hook by `program.method`; server.js fills the table from
`programs` or from the `h_` methods of classes, and a `ContextualServer` finds `this`
by cutting the last part off the name. A name is the sequence of the parts between
its dots. A method's name has no dots (`MethodAssumption`), a program's may have
any number (the README's own example is `prog.1`).

### Rpc: two programs that call each other

End 0 is the client's `RobustTransport`, one object for all streams; end `g` is the
server's `Transport` for stream `g`. `seqid`, `invocations` and `requests` are
per end; `wire` is what is under way on each stream, delivered in any order;
`serving` are the hooks that have been called and hold a `Response`.

| Code | Model |
|---|---|
| `Client.invoke`, `invoke_compressed`, `Dispatch.invoke`, `_timed_invoke` | `Invoke`, `TimerFires` |
| `_dispatch`, `_serve`, `get_handler_pair` | `Deliver`, `Serve`, `ServeNotify` |
| `_dispatch_handle_response`, `_call_cb`, `uncompress` | `HandleResponse` |
| `Response.result`, `Response.error`, `respond` | `Answer` |
| `_close`, `_dispatch_reset` | `Lost` |
| a new stream at both ends | `Redial` |

A closed wrapper's stream still delivers until it `Dies`, in both directions, as a
socket that has only sent its FIN does. `Answer` writes on the stream that the
transport has by then: `respond` keeps the transport, not the stream. Here an EOF
sweep is one step and there are no queue and no lock: they are the subject of
`Dispatch` and `Transport`. A notification is asked of the transport (`transport_notify`:
`invoke` with `notify`), because `Client.notify` throws. What it looks like to the code
that receives it is modelled as it is: no hook is found.

### Listener and List

`server` is `@_net_server`; the servers themselves are external: one holds the port
from `listen` until it is closed, reports 'listening' or 'error' in a later turn,
emits no 'listening' after a close, and calls back from close when its connections
are gone. `children` is the linked list with the fields `__list_next` and
`__list_prev` of each child; 0 is null. `closers` counts the closes of a server
that have not called back. Its 'close' event calls them all, one after the other,
before any other event (`emitting`); each nulls `@_net_server`, whatever is there.

Users close at any moment, also several times, and also before 'listening': then
nothing is left that could call the listen back, and `call` is "lost". They do not
listen while another listen is under way or while a server is open that nobody has
closed (`Idle`), but they need not wait until a close has called back: a server that is
made before that is `hasty`, because the callback of the close may take it out of
`@_net_server`. An accept may fail (`ServerError`), after which a server holds the port
although `@_net_server` is null (`dropped`). `OwnedServer` says that these are the only
two ways in which the server that holds the port is not known, and `RetryEnds` that
a `listen_retry` is called back unless such a server keeps the port or a close cuts it
off between the binding of its server and 'listening'. `closed` remembers that a close has
called back and nobody has listened since, for `CloseGivesPortBack`.

## 4. The runs

| Run | Instance | What it shows |
|---|---|---|
| `dispatch` | four calls | each callback once, with its own outcome, no call forgotten, a sweep ends, `Dispatch` implements `CallTable` |
| `base` | three calls, one of the hook; two losses | the base class, dialled or accepted, every user operation, a hook that calls under the lock and may fail: one stream, no call on a dead stream, `Dispatch` used as specified |
| `robust` | three calls, a queue of two, two losses | safety of reconnection and of the queue, with `connect`, `close` and `reset` at any moment: no call is lost, a stream starts one loop |
| `robust_live` | two calls, two losses, fairness | a lost stream is replaced, a queued call leaves the queue |
| `packetizer` | every string of five bytes, every cut | what is dispatched depends on the bytes only, consume never throws, the ring keeps the bytes, the loop ends |
| `frame_link` | up to three of the messages [] and [1], all forms of lengths | framing implements the message channel |
| `rpc` | three calls of the client, one of the server, two streams | the client's callbacks get their own replies, hooks of the right program serve, waiting calls can end and do, timers stop |
| `listener` | three servers, two closes of each, four connections | the list is that of the live connections, walks find all of them, the port's holder is known, retries end |
| `close_during_dial`, `hook_awaits_queue`, `cross_reply`, `closed_listener_retries` | the smallest that show it | disagreements, section 5 |

**Bounds.** `MaxGen` of `Transport` is the generation from which on streams are no
longer lost or closed: 3 gives two losses, so a late event of a stream meets its
successor and the successor's successor. `MaxWaiting` bounds the user's `connect`
calls by the length of the lock's queue; loops queue without bound of their own but
each needs a loss or a failed connect. `QueueMax` is 1 or 2, below the number of
calls, so that overflow happens. Three calls give one queued, one pending and one
issued from a callback. Runs with liveness use no symmetry. In `packetizer` a
frame of any form but the five-byte one fits into `MaxBytes` = 5, as do two short
frames and the start of a third; `frame_link` has the five-byte form, three
frames in flight at once, and `MaxChunk` = 3 cuts heads and messages anywhere.
In `rpc` each call is of another kind (deflated; compressed form without
compression, to a method no class has as a hook; a notification; back by the
server), the two programs share a method name, and `MaxGen` = 2 streams is one
replacement: answers, requests and hooks of the first stream meet the second.
In `listener` `MaxServers` = 3 is one that waits for its connections, one that an
accept error has orphaned and a new one; `MaxCloses` = 2 closes of one server that
have not called back are enough for the second callback to come after a listen in the
first; with `MaxAccept` = 4 connections the list
loses its first, its last, its only and an inner element.

**Deadlock** is checked in `dispatch`, `packetizer` and `listener`. `frame_link`
stops when all is sent and delivered, `rpc` when every call and stream is spent. A
transport may stop: a base transport that is down waits for its user, and a
connected one for the network. Those cfgs turn the check off, and liveness is
stated explicitly.

**Fairness.** `Transport` (`FairSpec`): a turn runs to its end (`WF` on `Turn`: there
is no await inside), timers fire and a hook calls back once it can (`SF`: the event
loop is busy in between, again and again), a server that is dialled again and
again answers in the end (`SF_vars(DialWorks)`: without it nobody can promise a
reconnection). `Rpc` (`FairRpcSpec`): weak fairness of `System` as a whole: messages
arrive, hooks answer, a half-closed stream dies and an end notices a dead one. `Listener`
(`FairListenerSpec`): queued events and timers come, and so does the 'close' of a server
without connections (weak fairness of each of the two, as only one listen is under way). Users,
errors, losses of healthy streams and redials get no fairness anywhere.

## 5. What the code does not do

Four runs end in a violation of a sentence in the repository.

1. `close_during_dial`, `CloseIsFinal`: `close` during a dial does not stop the new
   stream; the closed RobustTransport is connected (README.md:230-231,
   src/transport.iced:374).
2. `hook_awaits_queue`, `Reconnects`: `after_connect` awaits a call that was queued
   because its stream is gone again; the hook's connect holds the lock the
   reconnect loop needs (README.md:177).
3. `cross_reply`, `OwnRepliesOfServer`: a hook of the client that answers after a
   reconnect answers to the server's new transport, whose numbers started at 1
   again, and another call's callback is given its result (README.md:358-360).
   The other direction holds: `OwnReplies`, also proved.
4. `closed_listener_retries`, `CloseGivesPortBack`: the timer of `listen_retry` survives
   `close` and takes the port afterwards (README.md:524).

The passing runs check the same properties where the cause is absent or in the
form that holds (`StaysClosed`, `OwnReplies`, `OwnedServer`, `RetryEnds`).

Met while modelling, and part of the models, but without a run of their own:

- A hook that fails on a stream that is up ends the loop without a flush: queued
  calls stay queued while the transport is connected (transport.js:449, README.md:178
  promises a queue, not its flush). `ConnectedQueueIsFlushed` is proved for hooks that
  cannot fail.
- After a user's `w.close()` on the wrapper nobody reconnects; `LostStreamIsReplaced` is
  proved for users who do not do that.
- Late data of a half-closed socket goes into the ring of the new stream, and a
  framing error in it closes the new stream (transport.js:284).
- README.md:380-382 says that `this` of a hook of a `Server` is the server; the code
  leaves `get_handler_this` of `Dispatch` in place, which gives the transport
  (dispatch.js:355). Only `SimpleServer` replaces it (server.js:72).
- `Client.notify` calls a method `Client` does not have and throws. A notification
  made on the transport is written as [type, number, method, argument] and read as
  [type, method, argument], so it reaches no hook (dispatch.js:240 and 136-143). With
  an error threshold it is entered in the table like a call, and the EOF sweep
  then applies the callback its caller did not give.
- `close` nulls `@_net_server` when it calls back, whatever server a listen has put there
  since (listener.js:158). That server goes on listening, and the next `close` calls back at
  once without closing it; if it was not listening yet, `_set_hooks` throws. Two closes
  of one server and a listen in the first one's callback do the same. `OwnedServer` has
  the exception `hasty` for it.
- A `close` before 'listening' leaves nobody to call `listen` or `listen_retry` back
  (listener.js:147), although README.md:506-507 and 518-520 say that they are called back:
  `call` is "lost", the exception in `RetryEnds`.
- After a failed accept `@_net_server` is null although the port is held: `close` calls
  back at once and the port stays taken (listener.js:168-171).

## 6. What is proved

For all values of the constants under the named `ASSUME`s of the modules: any
calls, any hooks, queue sizes, programs, numbers of streams, servers and
connections.

`DispatchProofs`: the inductive invariant `Inv` adds to the checked properties
that sequence numbers of requests are below the next one and unique, that
entries and the sweep are requests whose callbacks have not fired, and are
disjoint: without it a late response could meet a table entry of another call,
and "at most once" is not inductive. From it `TypeCorrect`,
`CallbackAtMostOnce`, `CallbackOwnReply`, `CallNotForgotten`, and `Refinement`:
every step of `Dispatch` is a step of `CallTable` or a stutter.

`TransportProofs`: `TInv` joins the shape of the streams (the open one is
`@_netw`; generations grow), of the lock (only its holder dials; nobody dials
next to an open stream), of the queue (`TmpInv`: only a flush has calls in `tmp`), of
the table, and of the losses: `LossInv` says that the loops started so far and the one
that an unfinished `_close` owes (`Owed`) are at most as many as the troubled streams
that are no longer open. What troubles an open stream closes it, so the next event of
that stream finds it closed and owes nothing. Each action is treated
once for each part: `StepShape`, `StepDispatch`, `StepCalls`, `StepPending`,
`StepTmp`, `StepLosses`.
From it `TransportTypeCorrect`, `OneStreamAtATime`, `PendingCallsCanEnd`,
`QueueConservesCalls`, `LossStartsOneLoop`, `TransportRefinesDispatch` and, with the theorems about
`Dispatch`, `TransportCallbacks`. `LostStreamIsReplaced` proves
`SomeoneReconnects` under the hypothesis that users do not close wrappers;
its invariant `RInv` adds that only `close` and `_close` are ever returned to.
`ConnectedQueueIsFlushed` proves `QueueDrained` for hooks that cannot fail; its
invariant `QInv` says that while calls wait on a connected transport the holder
of the lock is between the dial and the flush.

`TransportStepProofs`: the action properties. `FInv` says that a flush that writes leaves the queue empty, and that queue and
flush together fit into `@queue_max`: that is why a call that is queued again
cannot overflow. `StepLine` shows what one step does to the line `waiters \o tmp`
(nothing, a new call at the end, or the first one leaves), which gives
`QueueKeepsOrder` and `AcceptedCallsStay`. `StepClosed` gives `ClosedStaysClosed`: every step
of a closed transport that hands on the lock hands it to a loop, which looks at
`@_explicit_close` and lets go.

`RpcProofs`: `RInv` adds to the checked properties that numbers of an end are unique
and belong to its requests (`NumberInv`), that a message under way is a request
of its sender as it was made, or an answer about the request with that number
(`WireInv`), that a hook at work was called for such a request (`ServingInv`), and that an
end without a stream has an empty table (`TableInv`). For end 0 the numbers never start
again, so an answer from any stream finds its own call or none: `RepliesAreOwn`.
`ServedByProgram` rests on names being equal only if program and method are,
because a method's name has no dots. `TimersAreOfWaitingCalls` and `WaitingCallsEnd` come from
the same invariant.

`ListenerProofs`: `PushLinks` and `RemoveLinks` show that push and remove keep the
list that of an ordered set, without recursion: every element's fields are the next
and the previous live one. With the types this is `LInv`.
`ServerInv` adds to `OwnedServer` that one server at the most holds the port and that a
server which was refused is no other than `@_net_server` (`PortInv`), that what is queued
is for the listen under way and that nothing is queued while a retry sleeps (`CallInv`),
and that a server which is being closed has no port and shares `@_net_server` only with a
hasty one (`CloseInv`). From them `ListenerType`, `ListIsOfLive` and `ServerIsOwned`, for
all users. For the walk, a recursive function
of the number of steps, `WalkSteps` shows that it goes from each child to the next live
one, `WalkRises` that it never comes back, `WalkIsFar` that it has made fewer steps
than the number of the child it is at, so that it cannot run out of steps, and `WalkMeets`
that it has met every child older than the one it is at: `WalkIsComplete`.

`SequenceLemmas`: what a recursive definition computes needs induction. The
library states induction for predicates, which the provers cannot instantiate, but
`WFMin` is about sets: from it `LeastNumber` (a set of numbers has a least one) and
`Induction` (a set with 0 and every successor has all numbers). With these every
recursive function of the models is shown to exist and to satisfy its equation
(`FlatteningExists`, `ValuingExists`, `MessagesAfterExists`, `WalkingExists`), and
flattening to distribute over `\o`, `Append` and cuts.

`PacketizerProofs`, for byte strings of any length, cut in any way, with resets
anywhere. `GrabbedKeeps` and `ConsumedDrops` give what a grab and a consume do to the
bytes, joins included. The inductive invariant `PacketizerInv` says that there is a
place `q` in `received` such that what was dispatched is what is found before `q`
*whatever bytes come next* (`Finds`), and the ring holds exactly the bytes from there
on, or from behind the head that was read if the state is DATA (`AtFrame`); an idle
packetizer has no complete message at `q`. Quantifying over the bytes to come is what
makes it inductive: a 'data' event then changes nothing about what was found.
From it `PacketizerTypeCorrect`, `ChunkingMakesNoDifference`, `ConsumeNeverThrows`
and `RingIsByteQueue`. `LoopProgress` is the safety half of `LoopEnds`: an iteration after
which the loop goes on has made the ring shorter (`LoopTakesBytes`). The
assumptions are that bytes are below 256 (`BytesAssumption`) and that the bound on a
'data' event is a number (`MaxChunkAssumption`).

`FrameLinkProofs`: `Digits` and `PackedIsHead` show that `Number` reads back each form of
a length. `LinkInv` adds to `PacketizerInv` that `received \o wire` consists of the
frames of `sent`. What was dispatched was found in the first of these bytes, so it
is a prefix of `sent` (`FoundWasSent`). The reader never meets an error
(`NoError`): bytes that are wrong at `q` stay wrong whatever comes (`StaysWrong`), yet
one more message can always be sent and found behind them (`NeverWrong`). Without this
the refinement fails, because an error resets the packetizer.
`LinkIsSafeChannel` is `IsMessageChannel` without its fairness. It assumes that
messages are packed arrays shorter than `MaxLength` (`MessagesAssumption`); an
arriving message that is no array is the subject of `Packetizer`.

Only model-checked: liveness (`SweepCompletes`, `Reconnects`, `QueueMovesOn`, `LoopEnds`,
`EveryCallEnds`, `RetryEnds`, and that of `IsMessageChannel`), because fairness and `ENABLED` are
beyond the provers. Every invariant and every action property of a passing run is
also a theorem.

## 7. Not modelled

- `pack`/`unpack`: an adapter of the msgpack library without state; external.
- `Debugger`, `Timer`, `Log`: they decide what is traced, measure a time and write it;
  no other component reads their state. The debugger's hooks in `_serve` and
  `Response` are left out with it.
- errors, version and main: classes, constants and re-exports.
- `set_generic_handler` and `get_hook_wrapper`: replace the lookup of hooks by code of
  the application. `SimpleServer` is a `Server` with one program.
- `process.chdir` around the dial of a long socket path, TLS options, and the
  socket of a dial that timed out and connects later: they touch nothing that a
  transport keeps.
- Exceptions out of an event handler (a hook that throws, an argument that does
  not inflate): what follows is the application's choice.
- The lock and the IcedCoffeeScript runtime are external packages: a FIFO lock and
  synchronous continuations.
