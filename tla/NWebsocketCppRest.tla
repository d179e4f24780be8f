-------------------------- MODULE NWebsocketCppRest --------------------------
(***************************************************************************)
(* The realtime transport: the application's thread, which calls the       *)
(* transport and runs its callbacks in tick(), and the websocket clients'  *)
(* threads, which hand events to it through _userThreadFuncs under _mutex. *)
(*                                                                         *)
(* tick() holds _mutex, which is not recursive, while it runs the queued   *)
(* callbacks; a websocket client's destructor waits for onClosed, which    *)
(* takes _mutex.  What the application may call, and from where, is        *)
(* therefore a parameter: UserCalls between ticks, CallbackCalls in the    *)
(* callback for each type of event.                                        *)
(***************************************************************************)
EXTENDS Sequences, WsppClient

CONSTANTS
  UserCalls,           (* calls the application makes between ticks        *)
  CallbackCalls,       (* ... and in the callback for each type of event   *)
  ReconnectLatestOnly, (* a callback connects only in answer to the        *)
                       (* disconnect of its latest connection              *)
  BadUrls,             (* connect() may be given an address that is no URI *)
  ActivityTimeout,     (* an activity timeout is set                       *)
  MaxFrames,           (* frames the servers send                          *)
  MaxThrows            (* callbacks that end with an exception             *)

Calls == {"connect", "disconnect", "send", "destroy"}
EventTypes == {"opened", "closed", "error", "message", "ping"}

ASSUME NWebsocketAssumption ==
  /\ UserCalls \subseteq Calls
  /\ CallbackCalls \in [EventTypes -> SUBSET (Calls \ {"destroy"})]
  /\ CallbackCalls["ping"] = {}    \* no callback of the application
  /\ ReconnectLatestOnly \in BOOLEAN
  /\ BadUrls \in BOOLEAN
  /\ ActivityTimeout \in BOOLEAN
  /\ MaxFrames \in Nat
  /\ MaxThrows \in Nat

VARIABLES
  pc,                  \* the application's thread: between ticks, in tick's
                       \* loop, in a callback, or done with the transport
  op,                  \* the call it is blocked in
  victim,              \* the client whose destructor it waits for
  connected,           \* _connected
  disconnectInitiated, \* _disconnectInitiated
  wsClient,            \* _wsClient
  queue,               \* _userThreadFuncs
  created,             \* auxiliary: how many clients connect() has made
  fired,               \* auxiliary: the events handed to callbacks so far
  frames, sends, throws \* auxiliary: how many of each so far

user == <<pc, op, victim>>
transport == <<connected, disconnectInitiated, wsClient, queue>>
counters == <<frames, sends, throws>>
vars == <<ws, pc, op, victim, connected, disconnectInitiated, wsClient, queue,
          created, fired, frames, sends, throws>>

Event(type, c) == [type |-> type, client |-> c, remote |-> FALSE]
EventType == [type : EventTypes, client : Clients, remote : BOOLEAN]

Init ==
  /\ WsInit
  /\ pc = "idle" /\ op = "none" /\ victim = NoClient
  /\ connected = FALSE /\ disconnectInitiated = FALSE
  /\ wsClient = NoClient /\ queue = <<>>
  /\ created = 0 /\ fired = <<>> /\ frames = 0 /\ sends = 0 /\ throws = 0

-----------------------------------------------------------------------------
\* The application's thread holds _mutex exactly while tick() runs its loop.
MutexHeld == pc \in {"drain", "callback"}

\* executeInUserThread: the caller waits for _mutex.
ExecuteInUserThread(e) ==
  ~MutexHeld /\ pc # "gone" /\ queue' = Append(queue, e)

\* The application may make call a now.
MayCall(a) ==
  /\ op = "none"
  /\ \/ pc = "idle" /\ a \in UserCalls
     \/ pc = "callback" /\ a \in CallbackCalls[Head(queue).type]

\* The client whose destructor the call waits for is gone.
VictimGone == victim # NoClient => ws[victim].state = "DESTROYED"

\* Mutant: the old client is destroyed in the background.
LetGo_InBackground(w, c) ==
  ws' = [w EXCEPT ![c] = Release(@)] /\ victim' = NoClient

\* What _wsClient.reset() does to the client it let go of: if no send holds
\* a reference the destructor starts here and the thread waits for it.
LetGo(w, c) ==
  /\ ws' = [w EXCEPT ![c] = Release(@)]
  /\ victim' = IF w[c].inFlight = 0 THEN c ELSE NoClient

-----------------------------------------------------------------------------
(* The application's thread: tick                                          *)

\* Mutant: disconnect() closes the client but keeps it.
Disconnecting_KeepsClient(o) ==
  /\ wsClient # NoClient
  /\ disconnectInitiated' = TRUE /\ connected' = FALSE
  /\ ws' = [ws EXCEPT ![wsClient] = Close(@)]
  /\ op' = o
  /\ UNCHANGED <<pc, victim, wsClient, queue, created, fired, counters>>

\* disconnect(status, reason): a no-op without a client.
Disconnecting(o) ==
  /\ wsClient # NoClient
  /\ disconnectInitiated' = TRUE
  /\ connected' = FALSE
  /\ wsClient' = NoClient
  /\ LetGo([ws EXCEPT ![wsClient] = Close(@)], wsClient)
  /\ op' = o
  /\ UNCHANGED <<pc, queue, created, fired, counters>>

\* tick() finds that nothing arrived for too long.  It reads two clocks on
\* two threads, so the model lets it find that at any time.
TickTimeout ==
  /\ pc = "idle" /\ op = "none" /\ ActivityTimeout /\ connected
  /\ Disconnecting("tick")

\* ... then takes _mutex.
TickLock ==
  /\ pc = "idle"
  /\ op = "none" \/ (op = "tick" /\ VictimGone)
  /\ pc' = "drain" /\ op' = "none" /\ victim' = NoClient
  /\ UNCHANGED <<ws, transport, created, fired, counters>>

\* Mutant: the function is popped before it runs.
Fire_PopsFirst ==
  /\ pc = "drain" /\ queue # <<>>
  /\ pc' = "callback" /\ queue' = Tail(queue)
  /\ connected' = CASE Head(queue).type = "opened" -> TRUE
                    [] Head(queue).type = "closed" -> FALSE
                    [] OTHER -> connected
  /\ fired' = Append(fired, Head(queue))
  /\ UNCHANGED <<ws, op, victim, disconnectInitiated, wsClient, created, counters>>

\* The function at the front of the queue: fireOnConnected, fireOnDisconnected,
\* fireOnError or fireOnMessage, up to the application's callback.
Fire ==
  /\ pc = "drain" /\ queue # <<>>
  /\ pc' = "callback"
  /\ connected' = CASE Head(queue).type = "opened" -> TRUE
                    [] Head(queue).type = "closed" -> FALSE
                    [] OTHER -> connected
  /\ fired' = Append(fired, Head(queue))
  /\ UNCHANGED <<ws, op, victim, disconnectInitiated, wsClient, queue, created, counters>>

\* The callback returns, and only then is the function popped.
CallbackReturns ==
  /\ pc = "callback" /\ op = "none"
  /\ pc' = "drain" /\ queue' = Tail(queue)
  /\ UNCHANGED <<ws, op, victim, connected, disconnectInitiated, wsClient,
                 created, fired, counters>>

\* The callback throws: tick() unlocks and lets the exception out; the
\* function stays at the front of the queue.
CallbackThrows ==
  /\ pc = "callback" /\ op = "none" /\ throws < MaxThrows
  /\ Head(queue).type # "ping"
  /\ pc' = "idle" /\ throws' = throws + 1
  /\ fired' = SubSeq(fired, 1, Len(fired) - 1)   \* it will be delivered again
  /\ UNCHANGED <<ws, op, victim, transport, created, frames, sends>>

TickUnlock ==
  /\ pc = "drain" /\ queue = <<>>
  /\ pc' = "idle"
  /\ UNCHANGED <<ws, op, victim, transport, created, fired, counters>>

-----------------------------------------------------------------------------
(* The application's thread: connect, disconnect, send, the destructor     *)

\* With ReconnectLatestOnly, a callback that connects either has no client
\* any more or is the disconnect callback of the client it replaces.
MayReplace ==
  (ReconnectLatestOnly /\ pc = "callback")
    => \/ wsClient = NoClient
       \/ Head(queue).type = "closed" /\ Head(queue).client = wsClient

\* _wsClient.reset(new WsClient): the old client, if any, is destroyed first.
ConnectStart ==
  /\ MayCall("connect") /\ MayReplace /\ created < MaxClients
  /\ created' = created + 1
  /\ wsClient' = created + 1
  /\ IF wsClient = NoClient
     THEN ws' = Create(created + 1) /\ victim' = NoClient
     ELSE LetGo(Create(created + 1), wsClient)
  /\ op' = "connect"
  /\ UNCHANGED <<pc, connected, disconnectInitiated, queue, fired, counters>>

\* Mutant: connect() does not reset _disconnectInitiated.
ConnectGo_KeepsFlag ==
  /\ op = "connect" /\ VictimGone
  /\ ws' = Connect(wsClient)
  /\ op' = "none" /\ victim' = NoClient
  /\ UNCHANGED <<pc, connected, disconnectInitiated, wsClient, queue, created,
                 fired, counters>>

ConnectGo ==
  /\ op = "connect" /\ VictimGone
  /\ disconnectInitiated' = FALSE
  /\ ws' = Connect(wsClient)
  /\ op' = "none" /\ victim' = NoClient
  /\ UNCHANGED <<pc, connected, wsClient, queue, created, fired, counters>>

\* The address does not parse: addErrorEvent on the application's own thread.
ConnectBadUrl ==
  /\ op = "connect" /\ VictimGone /\ BadUrls
  /\ disconnectInitiated' = FALSE
  /\ victim' = NoClient
  /\ IF ~MutexHeld
     THEN queue' = Append(queue, Event("error", wsClient)) /\ op' = "none"
     ELSE op' = "lock" /\ UNCHANGED queue   \* it waits for itself
  /\ UNCHANGED <<ws, pc, connected, wsClient, created, fired, counters>>

Disconnect == MayCall("disconnect") /\ Disconnecting("disconnect")

DisconnectReturns ==
  /\ op = "disconnect" /\ VictimGone
  /\ op' = "none" /\ victim' = NoClient
  /\ UNCHANGED <<ws, pc, transport, created, fired, counters>>

\* send() returns FALSE and does nothing unless _connected.  If that is stale
\* (ConnectedIsTrue) and there is no client, it would use a null pointer, which
\* has no step here.
SendData ==
  /\ MayCall("send") /\ connected /\ wsClient # NoClient
  /\ sends < MaxSends
  /\ sends' = sends + 1
  /\ ws' = Send(wsClient)
  /\ UNCHANGED <<user, transport, created, fired, frames, throws>>

\* ~NWebsocketCppRest is disconnect(), after which the object is no more.
Destroy ==
  /\ MayCall("destroy")
  /\ IF wsClient = NoClient
     THEN op' = "destroy" /\ UNCHANGED <<ws, pc, victim, transport, created, fired, counters>>
     ELSE Disconnecting("destroy")

DestroyReturns ==
  /\ op = "destroy" /\ VictimGone
  /\ pc' = "gone" /\ op' = "none" /\ victim' = NoClient
  /\ UNCHANGED <<ws, transport, created, fired, counters>>

Gone == pc = "gone" /\ UNCHANGED vars

UserStep ==
  \/ TickTimeout \/ TickLock \/ Fire \/ CallbackReturns \/ CallbackThrows
  \/ TickUnlock \/ ConnectStart \/ ConnectGo \/ ConnectBadUrl
  \/ Disconnect \/ DisconnectReturns \/ SendData \/ Destroy \/ DestroyReturns
  \/ Gone

-----------------------------------------------------------------------------
(* The clients' threads.                                                   *)

notQueue == <<user, connected, disconnectInitiated, wsClient, created, fired,
              sends, throws>>

\* Steps of a client that do not enter the transport.
ClientStep(c) ==
  /\ \/ Opened(c) \/ Failed(c) \/ RemoteClosed(c) \/ HandshakeDone(c)
     \/ ShutdownJoin(c, ~disconnectInitiated)  \* onClosed reads the flag ...
     \/ ShutdownSignal(c)
     \/ DtorConnect(c) \/ DtorClose(c)
     \/ SendRuns(c, wsClient = c)
  /\ UNCHANGED <<notQueue, queue, frames>>

FrameStep(c) ==
  /\ frames < MaxFrames
  /\ \E f \in Frames : FrameArrives(c, f)
  /\ frames' = frames + 1
  /\ UNCHANGED <<notQueue, queue>>

\* onSocketMessage, on the IO thread.
OnSocketMessage(c) ==
  /\ FrameHandled(c)
  /\ ExecuteInUserThread(Event(ws[c].io, c))
  /\ UNCHANGED <<notQueue, frames>>

\* Mutant: a failed connect is reported as a disconnect.
OnOpened_FailureIsClosed(c) ==
  /\ ConnectContinues(c)
  /\ ExecuteInUserThread(
       IF ws[c].connectTce = "set" THEN Event("opened", c)
       ELSE [type |-> "closed", client |-> c, remote |-> TRUE])
  /\ UNCHANGED <<notQueue, frames>>

\* Mutant: a failed connect is not reported.
OnOpened_IgnoresFailure(c) ==
  /\ ConnectContinues(c)
  /\ IF ws[c].connectTce = "set"
     THEN ExecuteInUserThread(Event("opened", c)) ELSE UNCHANGED queue
  /\ UNCHANGED <<notQueue, frames>>

\* onOpened, or addErrorEvent("connect failed"), on the pool.
OnOpened(c) ==
  /\ ConnectContinues(c)
  /\ ExecuteInUserThread(
       Event(IF ws[c].connectTce = "set" THEN "opened" ELSE "error", c))
  /\ UNCHANGED <<notQueue, frames>>

\* Mutant: only what the server closed is reported.
OnClosed_RemoteOnly(c) ==
  /\ ShutdownHandler(c)
  /\ IF ws[c].remote
     THEN ExecuteInUserThread([type |-> "closed", client |-> c, remote |-> TRUE])
     ELSE UNCHANGED queue
  /\ UNCHANGED <<notQueue, frames>>

\* ... onClosed then waits for _mutex.
OnClosed(c) ==
  /\ ShutdownHandler(c)
  /\ ExecuteInUserThread(
       [type |-> "closed", client |-> c, remote |-> ws[c].remote])
  /\ UNCHANGED <<notQueue, frames>>

\* addErrorEvent of a failed send.
OnSendFailed(c) ==
  /\ SendContinues(c)
  /\ ExecuteInUserThread(Event("error", c))
  /\ UNCHANGED <<notQueue, frames>>

WsStep(c) ==
  \/ ClientStep(c) \/ FrameStep(c)
  \/ OnSocketMessage(c) \/ OnOpened(c) \/ OnClosed(c) \/ OnSendFailed(c)

Next == UserStep \/ \E c \in Clients : WsStep(c)

Spec == Init /\ [][Next]_vars

(***************************************************************************)
(* Fairness.  The application's thread runs, calls tick() again and again  *)
(* (README, "Tick") and its callbacks return.  A connect attempt is decided*)
(* and a closing handshake ends, websocketpp timing both out.  The pool    *)
(* runs its tasks.  A thread that waits for _mutex gets it if it is free   *)
(* again and again: between two ticks it is free for a whole frame.  A     *)
(* client has finitely many steps to take, so it is enough to be fair to   *)
(* all of its steps together.                                              *)
(* Nothing makes the application call anything else, the server send or    *)
(* close, or a callback throw.                                             *)
(***************************************************************************)
Fairness ==
  /\ WF_vars(\/ TickLock \/ Fire \/ CallbackReturns \/ TickUnlock
             \/ ConnectGo \/ DisconnectReturns \/ DestroyReturns)
  /\ \A c \in Clients :
       /\ WF_vars(/\ \/ Opened(c) \/ Failed(c) \/ HandshakeDone(c)
                     \/ ShutdownJoin(c, ~disconnectInitiated)
                     \/ ShutdownSignal(c) \/ DtorConnect(c) \/ DtorClose(c)
                     \/ SendRuns(c, wsClient = c)
                  /\ ClientStep(c))
       /\ SF_vars(OnSocketMessage(c) \/ OnOpened(c) \/ OnClosed(c) \/ OnSendFailed(c))

FairSpec == Spec /\ Fairness

-----------------------------------------------------------------------------
(* Properties                                                              *)

\* Every variable stays in its type, and the queue and the call in progress
\* are consistent with where the application's thread is.
TypeOK ==
  /\ ws \in [Clients -> WsType]
  /\ \A c \in Clients : Outstanding(c) <= sends
  /\ pc \in {"idle", "drain", "callback", "gone"}
  /\ op \in {"none", "tick", "connect", "disconnect", "destroy", "lock"}
  /\ victim \in Clients \cup {NoClient}
  /\ connected \in BOOLEAN /\ disconnectInitiated \in BOOLEAN
  /\ wsClient \in 0..created
  /\ queue \in Seq(EventType) /\ (pc = "callback" => queue # <<>>)
  /\ fired \in Seq(EventType)
  /\ created \in 0..MaxClients /\ frames \in 0..MaxFrames
  /\ sends \in 0..MaxSends /\ throws \in 0..MaxThrows
  /\ \A c \in Clients :
       IF c > created THEN ws[c] = FreshWs ELSE ws[c].state # "free"

\* The calls that are safe in a callback.  A callback may send; it may connect
\* only to replace the connection whose disconnect it is told of, and only
\* to an address that parses; it may not disconnect.
Discipline ==
  /\ ReconnectLatestOnly
  /\ \A t \in EventTypes :
       /\ "disconnect" \notin CallbackCalls[t]
       /\ BadUrls => "connect" \notin CallbackCalls[t]

\* The application's thread never waits, holding _mutex, for something that
\* needs _mutex: if a call made in a callback waits for a client's destructor
\* then that client's onClosed is already past its lock (connect, disconnect
\* and onClosed in NWebsocketCppRest.cpp), and it never locks _mutex twice.
NoHoldAndWait ==
  /\ op # "lock"
  /\ MutexHeld /\ victim # NoClient => ws[victim].shutdown \in {"signal", "done"}

\* All events so far, those handed to callbacks and those still queued.
Timeline == fired \o (IF pc = "callback" THEN Tail(queue) ELSE queue)

Reported(type, c) ==
  {i \in DOMAIN Timeline : Timeline[i].type = type /\ Timeline[i].client = c}

\* A client that was told to connect has reported its end exactly once when
\* its destructor returns - so when connect() or disconnect() returns the
\* disconnect event of the old connection is queued or delivered - and a
\* client that never got to connect reports none.
DisconnectReportedOnce ==
  \A c \in Clients : ws[c].state = "DESTROYED" =>
    IF ws[c].connectTce = "unset"
    THEN Reported("closed", c) = {}
    ELSE \E i \in DOMAIN Timeline : Reported("closed", c) = {i}

\* Connections do not mix: no message or disconnect event of a connection
\* comes after its own disconnect, or after anything a later connection
\* opened, received or closed.  A send in flight would keep the old client
\* beyond the call that lets it go, and this fails.
SocketOrder ==
  sends = 0 => \A i, j \in DOMAIN Timeline :
    (/\ i < j
     /\ Timeline[i].type \in {"opened", "message", "ping", "closed"}
     /\ Timeline[j].type \in {"message", "ping", "closed"})
      => \/ Timeline[i].client < Timeline[j].client
         \/ /\ Timeline[i].client = Timeline[j].client
            /\ Timeline[i].type = "closed" => Timeline[j].type = "closed"

\* An application told of a disconnect with remote = FALSE knows that the
\* transport has let go of that connection: onClosed computes remote from
\* _disconnectInitiated long before the event is delivered.
LocalCloseIsUnowned ==
  \A i \in DOMAIN Timeline :
    Timeline[i].type = "closed" /\ ~Timeline[i].remote
      => wsClient # Timeline[i].client

\* A send never runs on a destroyed client: what was in flight when the
\* transport let go of it is waited for.
NoSendOnDestroyed ==
  \A c \in Clients : ws[c].state = "DESTROYED" => ws[c].inFlight = 0

\* When the transport's destructor has returned, no client it waited for can
\* call its close or message handler any more (the handlers are bound to
\* `this').  Only a client that a send in flight keeps is not waited for.
QuietAfterDestructor ==
  pc = "gone" =>
    \A c \in Clients :
      \/ ws[c].io = "idle" /\ ws[c].shutdown \in {"none", "done"}
      \/ ws[c].state # "DESTROYED" /\ sends > 0

\* Every call the application makes returns.
CallsReturn == op # "none" ~> op = "none"

\* Every connection attempt is answered, by onConnect or by an error, unless
\* the transport is destroyed first.
ConnectAnswered ==
  \A c \in Clients :
    ws[c].state = "CONNECTING"
      ~> \/ pc = "gone"
         \/ \E i \in DOMAIN fired :
              fired[i].client = c /\ fired[i].type \in {"opened", "error"}

\* Every connection that ends is reported to the application.
DisconnectDelivered ==
  \A c \in Clients :
    ws[c].state = "CLOSED"
      ~> \/ pc = "gone"
         \/ \E i \in DOMAIN fired : fired[i].client = c /\ fired[i].type = "closed"

-----------------------------------------------------------------------------
(* The transport as its client sees it.                                    *)

\* The clients that were told to connect; the others never were a connection.
Attempts ==
  {c \in Clients : \/ ws[c].connectTce # "unset"
                   \/ ws[c].state \notin {"free", "CREATED", "DESTROYED"}}

\* ... and of these, those whose onClosed has not queued the disconnect.
Live == {c \in Attempts : ws[c].shutdown \notin {"signal", "done"}}

\* An event as the callbacks of the application see it.
Seen(e) ==
  [type |-> e.type, conn |-> e.client,
   msg |-> [type |-> IF e.type = "message" THEN "message" ELSE "none"]]

\* The events of q that a callback of the application will be called for: a
\* ping calls none.
Delivery(q) ==
  LET told[n \in 0..Len(q)] ==
        IF n = 0 THEN <<>>
        ELSE IF q[n].type = "ping" THEN told[n - 1]
        ELSE Append(told[n - 1], Seen(q[n]))
  IN  told[Len(q)]

Current == IF wsClient \in Attempts THEN wsClient ELSE NoClient
Delivering == pc = "callback" /\ Head(queue).type # "ping"
Unanswered == {c \in Clients : ws[c].opening}
Kept == {c \in Live : c # wsClient /\ c # victim}
Sending == [c \in Clients |-> Outstanding(c)]

Transport == INSTANCE RtTransport WITH
  Conns <- Clients,
  Messages <- {[type |-> "message"]},
  connected <- connected,
  current <- Current,
  queue <- Delivery(queue),
  delivering <- Delivering,
  attempts <- Attempts,
  unanswered <- Unanswered,
  live <- Live,
  kept <- Kept,
  sending <- Sending

\* The transport keeps what its client relies on: whatever the threads do,
\* connect() and disconnect() return only when the end of the old connection
\* is queued (or a send keeps it), every attempt is answered once and ends
\* once, and nothing is queued behind a callback's back.
ImplementsTransport == Transport!Spec

-----------------------------------------------------------------------------
(* What the headers say and the code does not keep.                        *)

\* disconnect(): "Close the connection with the server."  The call returns.
DisconnectCloses == op = "disconnect" ~> op = "none"

\* isConnected(): "True if connected to server."  Once every event has been
\* delivered and nothing is under way, _connected says so.
Settled ==
  /\ pc = "idle" /\ op = "none" /\ queue = <<>>
  /\ \A c \in Clients : /\ ~ws[c].opening /\ ws[c].io = "idle"
                        /\ ws[c].shutdown \in {"none", "done"}

ConnectedIsTrue ==
  Settled /\ connected => wsClient # NoClient /\ ws[wsClient].state = "CONNECTED"

=============================================================================
