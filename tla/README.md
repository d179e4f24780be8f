# Nakama C++ SDK in TLA+

A verification project for the Nakama C++ client SDK: what its clients and
transports keep in memory, who changes it from which thread, and what an
application may rely on. Modules are checked with TLC on small instances; their
invariants, and that each component implements its abstract specification, are
proved with TLAPS for every value of the constants.

## The system

The SDK is a library "designed to use in one thread only" (src/README.md,
"Threading model"). The application creates a client, makes requests with
callbacks, and calls `tick()` periodically; callbacks run inside `tick()` on
the application's thread (src/README.md, "Tick"). Below the clients, transports
use the bundled C++ REST SDK, which has threads of its own: an IO thread per
websocket client and a pool that runs task continuations.

| Component | State | Operations | Talks to |
|---|---|---|---|
| `NRtClient` | `_reqContexts`, `_nextCid`, `_protocol` | request methods, `sendMatchData`, `connect`, `disconnect`, `tick` | a transport, by its four callbacks |
| `NWebsocketCppRest` | `_connected`, `_disconnectInitiated`, `_wsClient`, `_userThreadFuncs`, `_mutex` | `connect`, `disconnect`, `send`, `tick`, destructor; handlers `onOpened`, `onClosed`, `onSocketMessage`, `addErrorEvent` | a websocket client of the C++ REST SDK |
| `wspp_callback_client` (bundled) | `m_state`, connect and close completion events, IO thread | `connect`, `send`, `close`, shutdown task, destructor | the transport's handlers, on its own threads |
| `RestClient` | `_reqContexts` | about 75 API methods, `tick`, `disconnect`, destructor, `onResponse` | an HTTP transport, by a callback per request |
| `NHttpClientCppRest` | `_pendingRequests`, `_finishedRequests`, shared context with `mutex` and `alive` | `request`, `tick`, `cancelAllRequests`, destructor; completions | tasks of the C++ REST SDK |
| `GrpcClient` | completion queue, `_reqContexts` | as `RestClient` (off by default) | gRPC |
| `DefaultSession` | token, expiry, variables | parse, `isExpired` | - |
| C API (`src/src/nakama-c`) | tables of clients, realtime clients and sessions, keyed by handle | one function per method, `NSession_destroy`, `destroyNakamaClient` | the clients, by callbacks that carry `reqData` |
| C++ wrapper of the C API | callback maps by request number, the user data pointer, session wrappers | one method per method | the C API, by static functions |
| protocols, factories, data conversion, string utilities, logging, Android, generated code | none that matters here | | |

What is hard about it:

* **A mutex held while callbacks run.** `NWebsocketCppRest::tick` and
  `NHttpClientCppRest::cancelAllRequests` call the application while they hold a
  non-recursive mutex. Destroying a websocket client waits for its close handler,
  which needs that mutex.
* **Two sources of one event order.** Events of a connection are queued by
  different threads; those of an old connection race with those of the next.
* **State read early and used late**: `_disconnectInitiated`, `_connected`.
* **Reentrance.** Contexts are erased after callbacks which may call the client
  again; callbacks may throw.
* **Names used again.** `NRtClient` restarts its numbering; the wrapper's numbers
  wrap around; handles of sessions are addresses.
* **Late completions** for requests that were cancelled, or clients deleted.
* **A clock read by two threads**, and subtracted without a sign.

What makes each component correct: a connection's life is told once and in
order (transport); a reply reaches the request it answers, once (all clients, and
the wrapper on top of them); contexts outlive the callbacks that use them and
nothing else; a handle leads to its own session; calls return; nothing is touched
after its destructor. `PROJECT.json` lists every hazard with
its line and the properties aimed at it.

## Modules

| Module | Models |
|---|---|
| `WsppClient` | the websocket client objects, as actions on a record per client |
| `NWebsocketCppRest` | the transport, the application's thread, and the composition with `WsppClient`: which thread takes the lock, and what a client's steps do to the transport |
| `MCNWebsocketCppRest` | values of `CallbackCalls` for TLC |
| `NWebsocketCppRest_proofs` | theorems about the two: types, and the mutex |
| `NWebsocketOrder_proofs` | ... the order of events, and what is left of the clients |
| `NWebsocketRefinement_proofs` | ... that they implement `RtTransport` |
| `ActivityTimeout` | the clock of the transport's activity timeout, which `NWebsocketCppRest` abstracts |
| `RtTransport` | the abstract specification of a realtime transport; `NWebsocketCppRest` implements it |
| `RequestPromise` | the abstract specification of a client: each request is told at most one outcome, success just if the server answered it |
| `NRtClient` | the realtime client, composed with `RtTransport`; implements `RequestPromise` |
| `NHttpClientCppRest` | the HTTP transport's two lists and the tasks of the C++ REST SDK |
| `RestClient` | the REST client, the application's thread, and the composition with `NHttpClientCppRest`; implements `RequestPromise` |
| `GrpcClient` | the gRPC client over gRPC's completion queue; implements `RequestPromise` |
| `NClientWrapper` | the C++ wrapper and the C API below it, over any client that keeps `RequestPromise` |
| `NRtClient_proofs`, `RestClient_proofs`, `GrpcClient_proofs`, `NClientWrapper_proofs` | theorems about each |
| `SequenceLemmas` | what appending, popping and removing do to a sequence, for all the proofs |

So the layers meet in two abstract specifications:

    NClientWrapper
          |  calls a client that keeps
    RequestPromise  <-- NRtClient, RestClient, GrpcClient implement it
                            |  is composed with
                        RtTransport  <-- NWebsocketCppRest implements it
                                             |  is composed with
                                         WsppClient

Definitions beginning with the name of another and an underscore
(`LetGo_InBackground`) are mutants: variants with a plausible bug, used to see
that each property notices. They are not part of the specifications.

### NWebsocketCppRest and WsppClient

The application's thread is `pc` (between ticks, in the loop, in a callback,
gone), `op` (the call it is blocked in) and `victim` (the client whose
destructor it waits for). A call that destroys a websocket client takes two
steps: it lets go (`LetGo`), and returns when the client is destroyed
(`VictimGone`). `_mutex` needs no variable: it is held exactly while `tick()`
runs its loop (`MutexHeld`), and every other holder only appends to the queue
in one step. What the application calls is a parameter, `UserCalls` between
ticks and `CallbackCalls` per type of event; `ReconnectLatestOnly` restricts
`connect()` in callbacks to replacing the connection whose end is reported.

Each client object moves through `CREATED`, `CONNECTING`, `CONNECTED`, `CLOSING`,
`CLOSED`, `DESTROYED`. `shutdown` follows the pool task that joins the IO thread,
runs `onClosed` and signals the close event; the destructor waits for the connect
event and then the close event (`dtor`). A send in flight holds a reference, so
that `_wsClient.reset()` need not be the destruction.

Abstracted: message bodies, close codes, log lines; the clock of the activity
timeout (`TickTimeout` may find it expired at any time it is set); the order of
sends; proxies and TLS. A disconnect's own continuation never fails and does
nothing. Continuations of `connect` and `send` that are due when the transport is
destroyed have no step any more: the code lets them run on a freed object, which
is listed as a hazard and not modelled. `send()` with `_connected` and no
`_wsClient` dereferences a null pointer and is no step either (see "Other
disagreements").

### RtTransport

What a client of the transport may rely on, without sockets, threads and locks:
a set of attempts, which of them are still to be answered and which still to end,
and a queue of events. `ImplementsTransport` maps the transport to it: an attempt
is a client that was told to connect (`Attempts`), it lives until its `onClosed`
has queued the disconnect (`Live`), and the events are those a callback is called
for, so not pings (`Delivery`). The two steps of a call that destroys a client map
to one step of `RtTransport` and a stutter; that the call has returned is
`Returned`: what it let go of has ended, unless a send in flight keeps it.

### ActivityTimeout

The two operands of `getUnixTimestampMs() - _lastReceivedMessageTimeMs` are read
in either order (the language leaves it open), and the IO thread may write the
second between them. The difference is taken modulo `TimeMod`, 2^64 in the code.

### NRtClient

`stack` is the chain of callbacks in progress. A request is made in one step up
to the first callback: sent (`Request`), or refused (`RequestFails`), in which
case `reqInternalError` calls back and erases the context when the callback has
returned (`FailReturns`), and a refusal by the transport then disconnects.
`Deliver` hands over the first event of the transport and runs the callback;
`DeliverReturns` erases the context and pops the event. `sendMatchData` throws
through everything in progress if it cannot be sent, and the event whose callback
it threw through is delivered again. A message in another format than
`_protocol` does not parse.

Every step that calls the transport, or that it calls, is conjoined with the
action of `RtTransport`, so that what `NWebsocketCppRest` allows is what the
client meets: an opened event after the closed one, events of an old connection
between those of the next. As the transport's discipline demands (see Proofs), a
callback does not let go of a living connection (`MayLetGo`). The server is
external: what is sent on a dead link is lost, and it answers in any order.
`ResetAbove` is 9 in the code.

### NHttpClientCppRest and RestClient

`stack` holds the calls and the callbacks in progress: `tick`, `disconnect`,
the destructor, and callbacks in between. The mutex is held while `disconnect`
or the destructor is on the stack; any call from there blocks for good
(`CallBlocks`). A request that throws after its context was made leaves it
pending without a task. Completions (`Continue`) take the mutex, and drop the
response if the request is not pending or the transport not alive. A callback may
throw (`CallbackThrows`): out of `tick()` its context stays; out of a cancellation
the request stays first in the pending list, and will be told again, which is
`Untell` of `RequestPromise`. Not modelled: requests without callback and an empty
base address, which `RestClient` never passes; whether `_client` exists, which is
observable only by throwing. A response is `ok` if it has status 200 and its body
parses.

### GrpcClient

`tick()` takes finished operations off the completion queue until there are none,
and deletes each context after its callback, which may call `tick()` again. gRPC
is external: `Finish` ends an operation in any order, with success or not.
`disconnect()` shuts the queue down. That cancels nothing, though the header says
it "kills all outgoing exchanges immediately" (NClientInterface.h:83): what is in
flight is delivered by later calls of `tick()`. A request after `disconnect()`
aborts in gRPC and is no step. The destructor deletes the contexts of operations
that go on and still write into them; `TagsAreContexts` says so by excluding it.

### NClientWrapper

The wrapper enters callbacks in maps by a request number, passes the number as
`reqData` through the C API, and is found again by the user data of the client.
Sessions are handed out as addresses, and kept alive in a table until their
wrapper is destroyed. The client below is external but keeps `RequestPromise`: it
tells an outcome in `tick`, `disconnect`, its destructor (errors only) or in the
request itself (`RequestRefused`), and again if a callback threw. All `std::map`s
of callbacks of one outcome are one map here: a number is in one of them only.
`Asks` are the sets of callbacks a request may be given: none, an error callback
only, or both. `IdMod` stands for 2^32 or 2^64 and is assumed to be
larger than the number of requests: an entry of the outcome that did not happen is
never erased, and would be found under its number when that is given again.
`SessionsAreHeld` excepts sessions that arrive for a request without success
callback: nobody destroys those, and the code leaks them.

## Runs

Passing:

| Run | Question | Instance |
|---|---|---|
| `ws_reconnect` | Does disconnecting and reconnecting, between ticks and in the disconnect callback, deadlock, lose or mix up connections, with activity timeouts too? | 3 clients: one old, one being replaced, one new |
| `ws_events` | Do sends, messages, bad addresses and the destructor race with each other safely, are handlers quiet after the destructor, and is `RtTransport` implemented? | 2 clients, 1 send, 1 message |
| `ws_live` | Do calls return, are attempts and ends reported also when a callback throws, and is `RtTransport` implemented? | 2 clients, 1 message, 1 exception |
| `rt_requests` | Does every reply find its request, whatever is refused, lost or nested, is `RequestPromise` kept, and is what the server received answered while the connection lasts? | 2 requests, numbering restarting at once (`ResetAbove = 0`), depth 3, 1 connect, 1 push, 1 match data |
| `rt_throw` | ... also when callbacks throw and reconnect, and messages of two formats are queued? | 2 requests, depth 2, 2 connects, 2 formats |
| `rest_requests` | Is each request answered, and once, with cancellation racing completion, calls nested, callbacks throwing and the client deleted at any time? | 3 requests, depth 5, 1 exception |
| `grpc_requests` | The same for the gRPC client, whose operations end in any order and survive `disconnect()`. | 3 requests, depth 6, 1 exception |
| `wrapper` | Does each outcome reach the callback given for it, do entries outlast callbacks, and do handles lead to their own sessions though addresses are used again? | 3 requests, 1 restored session, 2 addresses, depth 3, 1 exception |

Runs that show where the code does not do what the documentation says (each checks
one property, named after the sentence it states, and TLC finds it violated):

| Run | Statement | What happens |
|---|---|---|
| `ws_stale_connected` | `isConnected()`: "True if connected to server." | the opened event is queued after the closed event |
| `ws_disconnect_in_callback` | "Close the connection with the server." | the call never returns |
| `ws_activity_timeout` | "if no any message received from server during "Activity timeout" then connection will be closed" | a message that arrives while `tick()` compares makes the difference wrap, and the connection that just received is closed |
| `rest_retry` | "kills all outgoing exchanges immediately without waiting" | a retry in the error callback blocks `disconnect()` for good |

### Other disagreements

These were met while modelling and have no run of their own.

* A send in flight keeps the old client beyond `disconnect()`; its disconnect event
  then comes after the next connection opened and marks that one disconnected,
  and its handlers are bound to a transport that may be freed: `SocketOrder` and
  `QuietAfterDestructor` say so by excluding the case.
* `connect()` over a live connection closes it without setting
  `_disconnectInitiated`, so that the event says `remote = true` although this side
  closed; `LocalCloseIsUnowned` states the direction that does hold.
* `connect()` over an open connection, `disconnect()` and then `tick()` may leave
  `_connected` set without `_wsClient`; `send()` tests the first and uses the second
  (NWebsocketCppRest.cpp:167).
* After `connect()` over an open connection the activity timeout of the new one is
  measured by what the old one received last; and a system clock that is set back
  makes the difference wrap.
* An RPC id that gives no valid address only yields a log line
  (NHttpClientCppRest.cpp:119), though the error callback "will be called if a
  request fails" (NClientInterface.h:60).
* The wrapper passes an error function with every request, so the C API's default
  error callback is never reached through it (NClientInterface.h:60).
* `NRtClientWrapper::setUserData` overwrites the pointer by which its callbacks find
  it (NRtClientWrapperImpl.h:64), and its `updateStatus` calls `NRtClient_leaveChat`.
* `NSession_getVariable` returns what its first call returned (NSessionC.cpp:112);
  `NStringMap_getSize` cuts the size to 16 bits (NStringMapC.cpp:94); a char above
  0x7F is printed sign-extended (StrUtil.cpp:58).

### Bounds

`MaxClients`, `MaxSends`, `MaxFrames`, `MaxThrows`, `MaxRequests`,
`MaxConnects`, `MaxPushes`, `MaxData`, `MaxRestored`, `MaxTime` and `MaxDepth`
bound how often the environment acts; no bound cuts the code itself. Two clients
show every race between an old connection and its successor; the third shows that
what is left of two old ones does not interfere. Two requests let one be pending
while the other's number would be given again; three let requests be made in the
callback of a request made in a callback. Two `Handles` let one address be reused while another
session lives. `TimeMod` is larger than any difference that is not negative.
Queues need no bound, as what fills them is bounded. Frames are
messages in all runs: a ping takes the same path but calls nobody.
`CHECK_DEADLOCK FALSE` is used in the runs where a thread blocks on a mutex it
holds and thus the system stops: `ws_disconnect_in_callback`, `rest_retry` and
`rest_requests`. Everywhere else deadlock is checked.

## Fairness

* The application calls `tick()` again and again, whatever else it calls
  ("You must call it periodically", src/README.md), and callbacks return. In
  `NWebsocketCppRest` this is weak fairness of the steps of the application's
  thread together: it runs. In `RestClient` and `GrpcClient`, starting a `tick`
  between calls and returning from a callback are strongly fair, as other calls may
  come in between. Calls other than `tick` are never forced.
* The pool runs its tasks, a closing handshake ends and a connection attempt is
  decided (websocketpp times both out), an HTTP exchange completes (the C++ REST
  SDK has a timeout), gRPC finishes an operation: weak fairness of a websocket
  client's steps together, of which it has finitely many, and fairness per request.
* A thread that waits for a mutex which is free again and again gets it: strong
  fairness of the steps that take `_mutex`, and of completions in `RestClient`.
  Between ticks it is free for most of a frame (50 ms are recommended).
* The server answers a request it received while the link is open, and a connection
  that was let go of ends (`rt_requests`). It is never forced to send, close or
  accept anything.

## Proofs

Every invariant that a run checks is a theorem, and so are the four refinements.
The theorems hold for all values of the constants that the modules' named
assumptions allow: any number of clients, requests, sends, frames, exceptions and
addresses, any depth of nested calls, and any set of calls the application makes.
Two need more, and say so: `NoSelfDeadlock` (below), and `NoContextIsLeft` of
`NRtClient`, which assumes that callbacks do not call `sendMatchData`: what it
throws leaves through the callback, and the code erases no context on the way.

Each proof has the same outline. A conjunction `Inv` of named parts is shown to
hold initially and to be kept by each action, one lemma per action or per group
of actions that change the same state; the properties follow from it. `Inv` was
checked with TLC, as an invariant of the runs, before it was proved. The modules'
assumptions say what kind of value each constant is, and three things more: that a
ping has no callback of the application, that a callback does not delete the object
that calls it, and that `IdMod` exceeds the number of requests (see NClientWrapper
above).

### The transport

`NWebsocketCppRest_proofs`: `TypeCorrect`, and `NoSelfDeadlock`: `Discipline`
implies `Spec => []NoHoldAndWait`. `Discipline` is a condition on the
application's callbacks: they may send; they may connect only to replace the
connection whose disconnect they are told of, to an address that parses; they may
not disconnect. `ws_disconnect_in_callback` shows that the last is needed, and
`ConnectBadUrl` the one on addresses. `NoHoldAndWait` is not inductive: that a
callback may connect is safe only because the disconnect event it runs for was
queued by the `onClosed` of the very client that is destroyed. `Inv` therefore
adds to `TypeOK` two facts: `CallOK`, how far each blocking call is, and
`ClosedArePast`, that the client of every queued disconnect event is past the
step of its shutdown task that takes the mutex.

`NWebsocketOrder_proofs`: `OneDisconnectEach`, `ConnectionsDoNotMix`,
`LocalCloseNeverOwned`, `NoSendAfterDestroy`, `QuietWhenGone`. They are about
what threads did long before an event is delivered, and need a second invariant,
`OrderInv`: the life of one client (`Life`: which task-completion events are set,
and what its threads may still do, in each state), who may have a client
(`Owned`: the transport owns the latest, a call waits for the one it let go of,
and all others are destroyed or kept by a send), what a set `_disconnectInitiated`
means (`Flagged`), and what every event on the timeline says of its client
(`History`, `Ended`). That connections do not mix follows as only the latest client
that connected can still report anything (`LatestMayReport`), unless something
was sent. An exception changes `fired` and not the timeline (`TimelineStays`).

`NWebsocketRefinement_proofs`: `TransportKept`, that `Spec` implies
`ImplementsTransport`. What a client's thread does (`Goes`) leaves `Attempts`,
`Live`, `Unanswered` and `Sending` alone but for the one step each that answers,
ends or sends; what a call lets go of is either `kept`, by a send that `Sending`
counts, or waited for by `victim`; and a destroyed victim is not `Live`
(`VictimEnded`), which is `Returned`. The queue of `RtTransport` is `Delivery(queue)`,
which leaves out the pings, a recursive function of the queue's length. The
library's induction theorems cannot be used here, as they take an operator; instead
the least counterexample is taken (`Least`, `UpTo`), which exists as the strict subset
ordering of a finite set is well founded: a theorem about sets.

### The clients and the wrapper

* `GrpcClient`: `TagsAreAlwaysContexts`, `NoRequestIsLost`, `PromiseKept`. An
  operation is told of once because its request is pending until then, is not twice
  in the queue, and not both in the queue and in flight.
* `RestClient`: `ContextIsFound`, `NoRequestIsLost`, `NeverTouchedAfterFree`,
  `PromiseKept`. A request is in one of the two lists, once, but for the one that is
  being cancelled: it is pending until its callback returns and has an outcome
  already. That is safe as `cancelAllRequests` has the mutex: nothing but its
  callback runs above it, and the request stays the first of the list (`StackOK`).
* `NRtClient`: `RepliesFindTheirRequests`, `FramesKeepTheirContexts`,
  `NoContextIsLeft`, `PromiseKept`. A cid in flight stands for one request: the cids
  of contexts lie below `_nextCid`, so a new one is fresh even after the numbering
  starts over, and a request is in flight once.
* `NClientWrapper`: `CallbackIsReached`, `IteratorsAreValid`, `HandlesStayValid`,
  `TableHoldsTheHeld`. Numbers do not repeat, an entry stays until its callback
  returned, and a session has one owner at a time, a callback or the application.

`PromiseKept` says that the client implements `RequestPromise`: each action is
mapped to telling an outcome, to the server's reply, to a new request, or to a
stutter, using that `outcome` is never `"twice"` and that what the queue says of a
request is what the server said.

### Only model-checked

Liveness: `CallsReturn`, `ConnectAnswered`, `DisconnectDelivered`,
`AnsweredWhileConnected`, `Answered`. They hold under fairness, which the prover
cannot handle, nor `ENABLED`. The four statements that fail are counterexamples of
TLC; `ActivityTimeout` has no other properties and no proofs.

## Not modelled

* Sessions (`DefaultSession`), data conversion, string utilities, the two realtime
  protocols, factories, logging: functions of one value without state of their own,
  or output. The 75 API methods of `RestClient` and `GrpcClient`, and those of
  `NRtClient`, differ in the message they build and in the callback's type; each
  client has one action for them.
* Generated protobuf and gRPC code, which is most of the repository's lines, and the
  bundled libraries but for the websocket client.
* Of the C API: string maps, the table of realtime clients, the copies of
  structures. `g_clients` is changed by a callback that makes a client while
  `destroyNakamaClient` erases another (ClientFactoryC.cpp:74). Of the wrapper: the
  listener of the realtime client.
* Undefined behaviour after a freed object is used: the models stop there, or exclude
  the call that leads to it, and say so above.

## Plan

Done: the transport, the three clients, the HTTP transport, the wrapper, the
abstract specifications between them, the invariants of all of them and the
refinements proved. Next, in this order:

1. Pure modules: session expiry, URL encoding; the handle tables of the C API.
2. The listener of the realtime client through the wrapper, and proofs about it.
3. What bounds the steps to the liveness properties (a decreasing number of steps a
   client has left, which `Life` suggests), as invariants or action properties.
