------------------------ MODULE NWebsocketOrder_proofs ------------------------
(***************************************************************************)
(* What holds of NWebsocketCppRest for any number of clients, frames and   *)
(* sends, and whatever the application calls and from where: in what order *)
(* the events of the clients reach it, that each disconnect is reported    *)
(* once, and what is left of the clients when the transport is gone.       *)
(***************************************************************************)
EXTENDS NWebsocketCppRest_proofs, SequenceLemmas

-----------------------------------------------------------------------------
(* The inductive invariant.                                                *)

\* The life of one client object: what its state says of its threads, its
\* task-completion events and its destructor.
Life(r) ==
  /\ r.state \in {"free", "CREATED", "CONNECTING"} =>
       r.connectTce = "unset" /\ r.shutdown = "none" /\ r.io = "idle" /\ ~r.closeTce
  /\ r.state = "CONNECTING" => r.opening
  /\ r.state \in {"free", "CREATED"} => ~r.opening
  /\ r.state \in {"CONNECTED", "CLOSING"} =>
       r.connectTce = "set" /\ r.shutdown = "none" /\ ~r.closeTce
  /\ r.state = "CLOSED" =>
       /\ r.io = "idle" /\ r.shutdown # "none"
       /\ r.connectTce = "unset" => r.shutdown = "join" /\ r.opening
       /\ r.closeTce => r.shutdown = "done"
  /\ r.state = "DESTROYED" =>
       /\ r.dtor = "none" /\ r.inFlight = 0 /\ r.io = "idle"
       /\ IF r.connectTce = "unset" THEN r.shutdown = "none" /\ ~r.opening
          ELSE r.shutdown = "done"
  /\ r.connectTce = "unset" \/ r.dtor # "none" => r.inFlight = 0
  /\ r.dtor = "closeTce" => r.state \in {"CLOSING", "CLOSED"}

Lives == \A c \in Clients : Life(ws[c])

\* Who owns which client: connect() and disconnect() have at most the latest
\* one and the one they let go of to deal with; all others are destroyed or
\* kept by a send.
Owned ==
  /\ wsClient \in {NoClient, created}
  /\ wsClient # NoClient => ws[wsClient].dtor = "none" /\ ws[wsClient].state # "DESTROYED"
  /\ op \in {"none", "lock"} => victim = NoClient
  /\ op \in {"tick", "disconnect", "destroy"} =>
       wsClient = NoClient /\ victim \in {NoClient, created}
  /\ op = "connect" =>
       /\ wsClient # NoClient /\ ws[wsClient].state = "CREATED"
       /\ victim \in {NoClient, created - 1}
  /\ pc = "gone" => op = "none" /\ wsClient = NoClient
  /\ op = "destroy" => pc = "idle"
  /\ \A c \in Clients :
       c <= created /\ c # wsClient /\ c # victim => ws[c].state = "DESTROYED" \/ sends > 0

\* _disconnectInitiated is set only while there is no client, or connect() has
\* not got to start it; so an onClosed that found it set is not of wsClient.
Flagged ==
  /\ disconnectInitiated /\ wsClient # NoClient => op = "connect"
  /\ wsClient # NoClient /\ ws[wsClient].shutdown = "handler" => ws[wsClient].remote

\* The event whose callback runs is the first of the queue.
Firing == pc = "callback" => fired # <<>> /\ fired[Len(fired)] = Head(queue)

\* What event e, handed to the application or queued, says of its client: w are
\* the clients, own is wsClient, and n clients have been created.
Told(e, w, own, n) ==
  /\ e.client \in 1..n
  /\ e.type \in {"opened", "message", "ping", "closed"} => w[e.client].connectTce # "unset"
  /\ e.type = "closed" => w[e.client].shutdown \in Past /\ (~e.remote => own # e.client)

History == \A i \in DOMAIN Timeline : Told(Timeline[i], ws, wsClient, created)

\* The end of client c is reported once on timeline t.
ReportedOnce(t, c) ==
  \E i \in DOMAIN t : \A j \in DOMAIN t : (t[j].type = "closed" /\ t[j].client = c) <=> j = i

\* A client whose onClosed is past its lock has reported its end, once.
Ended == \A c \in Clients : ws[c].shutdown \in Past => ReportedOnce(Timeline, c)

OrderInv == Lives /\ Owned /\ Flagged /\ Firing /\ History /\ Ended /\ SocketOrder

-----------------------------------------------------------------------------
(* The clients' own threads.                                               *)

\* The client was told to connect: it has been a connection, or tried to be.
IsAttempt(r) ==
  r.connectTce # "unset" \/ r.state \notin {"free", "CREATED", "DESTROYED"}

\* What a step of its own threads makes of client r, which may be the one the
\* transport owns, when disconnect() has or has not been called.
Goes(r, q, owned, local) ==
  /\ Life(q) /\ (IsAttempt(q) <=> IsAttempt(r))
  /\ r.connectTce # "unset" => q.connectTce # "unset"
  /\ r.state = "DESTROYED" => q.state = "DESTROYED"
  /\ r.dtor = "none" => /\ r.state = "CREATED" => q.state = "CREATED"
                        /\ q.state = "DESTROYED" => r.state = "DESTROYED"
  /\ r.dtor = "none" /\ owned => q.dtor = "none"
  /\ q.shutdown = "handler" /\ ~q.remote => (r.shutdown = "handler" /\ ~r.remote) \/ local

Only(c) == \A d \in Clients : d # c => ws'[d] = ws[d]

Does(c) == Only(c) /\ Goes(ws[c], ws'[c], wsClient = c, disconnectInitiated)

SamePast(c) == ws'[c].shutdown \in Past <=> ws[c].shutdown \in Past
SameSends(c) == ws'[c].inFlight = ws[c].inFlight /\ ws'[c].failed = ws[c].failed
SameOpening(c) == ws'[c].opening = ws[c].opening

\* onClosed: the end of the client is reported.
LEMMA ClosedGoes ==
  ASSUME ws \in [Clients -> WsType], ws' \in [Clients -> WsType],
         Lives, NEW c \in Clients, ShutdownHandler(c)
  PROVE  /\ Does(c) /\ SameSends(c) /\ SameOpening(c)
         /\ ws[c].shutdown = "handler" /\ ws'[c].shutdown = "signal"
         /\ ws[c].state = "CLOSED" /\ ws[c].connectTce # "unset"
<1> DEFINE r == ws[c]
           q == ws'[c]
<1>0. r \in WsType /\ q \in WsType /\ Life(r)
  BY DEF Lives
<1>1. q = [r EXCEPT !.shutdown = "signal"] /\ r.shutdown = "handler" /\ Only(c)
  BY DEF ShutdownHandler, Only
<1>2. r.state = "CLOSED" /\ r.connectTce # "unset"
  BY <1>0, <1>1 DEF Life, WsType
<1> QED BY <1>0, <1>1, <1>2 DEF Does, SameSends, SameOpening, Goes, IsAttempt, Life, WsType

\* onOpened, or the error of a failed connect.
LEMMA OpenedGoes ==
  ASSUME ws \in [Clients -> WsType], ws' \in [Clients -> WsType],
         Lives, NEW c \in Clients, ConnectContinues(c)
  PROVE  Does(c) /\ SamePast(c) /\ SameSends(c) /\ ws[c].opening /\ ~ws'[c].opening
<1> DEFINE r == ws[c]
           q == ws'[c]
<1>0. r \in WsType /\ q \in WsType /\ Life(r)
  BY DEF Lives
<1>1. /\ q = [r EXCEPT !.opening = FALSE]
      /\ r.opening /\ r.connectTce # "unset" /\ Only(c)
  BY DEF ConnectContinues, Only
<1> QED BY <1>0, <1>1 DEF Does, SamePast, SameSends, Goes, IsAttempt, Life, WsType, Past

\* A send runs on the pool: it is done, or its failure is yet to be reported.
LEMMA SendRunsGoes ==
  ASSUME ws \in [Clients -> WsType], ws' \in [Clients -> WsType],
         Lives, NEW c \in Clients, SendRuns(c, wsClient = c)
  PROVE  /\ Does(c) /\ SamePast(c) /\ SameOpening(c)
         /\ Outstanding(c) \in Nat /\ Outstanding(c) > 0
         /\ Outstanding(c)' \in {Outstanding(c), Outstanding(c) - 1}
<1> DEFINE r == ws[c]
           q == ws'[c]
           own == wsClient = c
<1>0. r \in WsType /\ q \in WsType /\ Life(r) /\ own \in BOOLEAN
  BY DEF Lives
<1>1. PICK ok \in BOOLEAN :
        LET k == [r EXCEPT !.inFlight = @ - 1, !.failed = IF ok THEN @ ELSE @ + 1]
        IN  q = IF own THEN k ELSE Release(k)
  BY DEF SendRuns
<1>2. r.inFlight \in Nat /\ r.failed \in Nat /\ r.inFlight > 0 /\ Only(c)
  BY <1>0 DEF SendRuns, WsType, Only
<1>3. /\ q.state = r.state /\ q.connectTce = r.connectTce /\ q.closeTce = r.closeTce
      /\ q.io = r.io /\ q.shutdown = r.shutdown /\ q.remote = r.remote /\ q.opening = r.opening
      /\ q.inFlight = r.inFlight - 1 /\ q.failed = IF ok THEN r.failed ELSE r.failed + 1
      /\ q.dtor = IF ~own /\ q.inFlight = 0 THEN "connectTce" ELSE r.dtor
  BY <1>0, <1>1, <1>2 DEF WsType, Release
<1>4. r.dtor = "none" /\ r.connectTce # "unset" /\ r.state # "DESTROYED"
  BY <1>0, <1>2 DEF Life
<1>5. q.inFlight + q.failed \in {r.inFlight + r.failed, r.inFlight + r.failed - 1}
  BY <1>2, <1>3
<1>6. Does(c)
  BY <1>0, <1>2, <1>3, <1>4 DEF Does, Goes, IsAttempt, Life
<1> QED BY <1>2, <1>3, <1>5, <1>6 DEF SamePast, SameOpening, Outstanding, Past

\* The failure of a send is reported.
LEMMA SendEndsGoes ==
  ASSUME ws \in [Clients -> WsType], ws' \in [Clients -> WsType],
         Lives, NEW c \in Clients, SendContinues(c)
  PROVE  /\ Does(c) /\ SamePast(c) /\ SameOpening(c)
         /\ Outstanding(c) \in Nat /\ Outstanding(c) > 0
         /\ Outstanding(c)' = Outstanding(c) - 1
<1> DEFINE r == ws[c]
           q == ws'[c]
<1>0. r \in WsType /\ q \in WsType /\ Life(r)
  BY DEF Lives
<1>1. q = [r EXCEPT !.failed = @ - 1] /\ Only(c) /\ r.failed > 0
  BY DEF SendContinues, Only
<1>2. r.inFlight \in Nat /\ r.failed \in Nat /\ q.inFlight = r.inFlight /\ q.failed = r.failed - 1
  BY <1>0, <1>1 DEF WsType
<1>3. Does(c) /\ SamePast(c) /\ SameOpening(c)
  BY <1>0, <1>1 DEF Does, SamePast, SameOpening, Goes, IsAttempt, Life, WsType, Past
<1> QED BY <1>1, <1>2, <1>3 DEF Outstanding

\* All other steps.
Alone(c) ==
  \/ Opened(c) \/ Failed(c) \/ RemoteClosed(c) \/ HandshakeDone(c)
  \/ ShutdownJoin(c, ~disconnectInitiated) \/ ShutdownSignal(c)
  \/ DtorConnect(c) \/ DtorClose(c) \/ FrameHandled(c)
  \/ \E f \in Frames : FrameArrives(c, f)

LEMMA AloneGoes ==
  ASSUME WsppAssumption, ws \in [Clients -> WsType], ws' \in [Clients -> WsType],
         Lives, NEW c \in Clients, Alone(c)
  PROVE  Does(c) /\ SamePast(c) /\ SameSends(c) /\ SameOpening(c)
<1> DEFINE r == ws[c]
           q == ws'[c]
<1>0. r \in WsType /\ q \in WsType /\ Life(r)
  BY DEF Lives
<1>1. CASE Opened(c)
  <2>1. q = [r EXCEPT !.state = "CONNECTED", !.connectTce = "set"] /\ r.state = "CONNECTING" /\ Only(c)
    BY <1>1 DEF Opened, Only
  <2> QED BY <1>0, <2>1 DEF Does, SamePast, SameSends, SameOpening, Goes, IsAttempt, Life, WsType, Past
<1>2. CASE Failed(c)
  <2>1. /\ q = [r EXCEPT !.state = "CLOSED", !.shutdown = "join", !.closedBy = "failure"]
        /\ r.state = "CONNECTING" /\ Only(c)
    BY <1>2 DEF Failed, Shut, Only
  <2> QED BY <1>0, <2>1 DEF Does, SamePast, SameSends, SameOpening, Goes, IsAttempt, Life, WsType, Past
<1>3. CASE RemoteClosed(c)
  <2>1. /\ q = [r EXCEPT !.state = "CLOSED", !.shutdown = "join", !.closedBy = "server"]
        /\ r.state = "CONNECTED" /\ r.io = "idle" /\ Only(c)
    BY <1>3 DEF RemoteClosed, Shut, Only
  <2> QED BY <1>0, <2>1 DEF Does, SamePast, SameSends, SameOpening, Goes, IsAttempt, Life, WsType, Past
<1>4. CASE HandshakeDone(c)
  <2>1. /\ q = [r EXCEPT !.state = "CLOSED", !.shutdown = "join", !.closedBy = "local"]
        /\ r.state = "CLOSING" /\ r.io = "idle" /\ Only(c)
    BY <1>4 DEF HandshakeDone, Shut, Only
  <2> QED BY <1>0, <2>1 DEF Does, SamePast, SameSends, SameOpening, Goes, IsAttempt, Life, WsType, Past
<1>5. CASE ShutdownJoin(c, ~disconnectInitiated)
  <2>1. /\ q = [r EXCEPT !.shutdown = "handler", !.remote = ~disconnectInitiated,
                         !.connectTce = IF @ = "unset" THEN "exception" ELSE @]
        /\ r.shutdown = "join" /\ Only(c)
    BY <1>5 DEF ShutdownJoin, Only
  <2>2. r.state = "CLOSED"
    BY <1>0, <2>1 DEF Life, WsType
  <2>3. /\ q.state = "CLOSED" /\ q.closeTce = r.closeTce /\ q.io = r.io /\ q.shutdown = "handler"
        /\ q.remote = ~disconnectInitiated /\ q.opening = r.opening
        /\ q.inFlight = r.inFlight /\ q.failed = r.failed /\ q.dtor = r.dtor
        /\ q.connectTce = IF r.connectTce = "unset" THEN "exception" ELSE r.connectTce
    BY <1>0, <2>1, <2>2 DEF WsType
  <2>4. q.connectTce # "unset"
    BY <2>3
  <2>5. Life(q)
    BY <1>0, <2>1, <2>2, <2>3, <2>4 DEF Life
  <2> QED
    BY <2>1, <2>2, <2>3, <2>4, <2>5
    DEF Does, SamePast, SameSends, SameOpening, Goes, IsAttempt, Past
<1>6. CASE ShutdownSignal(c)
  <2>1. /\ q = [r EXCEPT !.shutdown = "done", !.closeTce = TRUE]
        /\ r.shutdown = "signal" /\ Only(c)
    BY <1>6 DEF ShutdownSignal, Only
  <2>2. r.state = "CLOSED"
    BY <1>0, <2>1 DEF Life, WsType
  <2> QED BY <1>0, <2>1, <2>2 DEF Does, SamePast, SameSends, SameOpening, Goes, IsAttempt, Life, WsType, Past
<1>7. CASE FrameHandled(c)
  <2>1. q = [r EXCEPT !.io = "idle"] /\ Only(c)
    BY <1>7 DEF FrameHandled, Only
  <2> QED BY <1>0, <2>1 DEF Does, SamePast, SameSends, SameOpening, Goes, IsAttempt, Life, WsType, Past
<1>8. CASE \E f \in Frames : FrameArrives(c, f)
  <2>1. PICK f \in Frames : /\ q = [r EXCEPT !.io = f]
                            /\ r.state = "CONNECTED" /\ Only(c)
    BY <1>8 DEF FrameArrives, Only
  <2> QED BY <1>0, <2>1 DEF Does, SamePast, SameSends, SameOpening, Goes, IsAttempt, Life, WsType, Past
<1>9. CASE DtorConnect(c)
  <2>1. CASE r.state = "CREATED"
    <3>1. /\ q = [r EXCEPT !.state = "DESTROYED", !.dtor = "none"]
          /\ r.dtor = "connectTce" /\ Only(c)
      BY <1>9, <2>1 DEF DtorConnect, Only
    <3> QED BY <1>0, <2>1, <3>1 DEF Does, SamePast, SameSends, SameOpening, Goes, IsAttempt, Life, WsType, Past
  <2>2. CASE r.state # "CREATED"
    <3>1. /\ q = [Close(r) EXCEPT !.dtor = "closeTce"] /\ r.connectTce # "unset"
          /\ r.dtor = "connectTce" /\ Only(c)
      BY <1>9, <2>2 DEF DtorConnect, Only
    <3> QED BY <1>0, <2>2, <3>1 DEF Does, SamePast, SameSends, SameOpening, Goes, IsAttempt, Life, WsType, Past, Close
  <2> QED BY <2>1, <2>2
<1>10. CASE DtorClose(c)
  <2>1. /\ q = [r EXCEPT !.state = "DESTROYED", !.dtor = "none"]
        /\ r.dtor = "closeTce" /\ r.closeTce /\ Only(c)
    BY <1>10 DEF DtorClose, Only
  <2> QED BY <1>0, <2>1 DEF Does, SamePast, SameSends, SameOpening, Goes, IsAttempt, Life, WsType, Past
<1> QED BY <1>1, <1>2, <1>3, <1>4, <1>5, <1>6, <1>7, <1>8, <1>9, <1>10 DEF Alone

-----------------------------------------------------------------------------
(* What the steps do to the timeline.                                      *)

LEMMA TimelineType ==
  ASSUME TypeOK
  PROVE  /\ Timeline \in Seq(EventType)
         /\ queue \in Seq(EventType) /\ fired \in Seq(EventType)
         /\ queue # <<>> => Head(queue) \in EventType /\ Tail(queue) \in Seq(EventType)
<1>1. queue \in Seq(EventType) /\ fired \in Seq(EventType) /\ (pc = "callback" => queue # <<>>)
  BY DEF TypeOK
<1>2. queue # <<>> => Head(queue) \in EventType /\ Tail(queue) \in Seq(EventType)
  BY <1>1, Handed
<1>3. Timeline = fired \o Tail(queue) \/ Timeline = fired \o queue
  BY DEF Timeline
<1>4. fired \o queue \in Seq(EventType)
  BY <1>1, ConcatProperties
<1>5. CASE pc = "callback"
  BY <1>1, <1>2, <1>5, ConcatProperties DEF Timeline
<1>6. CASE pc # "callback"
  BY <1>1, <1>4, <1>6 DEF Timeline
<1> QED BY <1>1, <1>2, <1>5, <1>6

\* An event is queued.
LEMMA TimelineGrows ==
  ASSUME TypeOK, ~MutexHeld, UNCHANGED <<pc, fired>>, NEW e \in EventType,
         queue' = Append(queue, e)
  PROVE  Timeline' = Append(Timeline, e)
<1>1. pc # "callback" /\ pc' # "callback"
  BY DEF MutexHeld
<1>2. Timeline = fired \o queue /\ Timeline' = fired \o Append(queue, e)
  BY <1>1 DEF Timeline
<1> QED BY <1>2, TimelineType, AddedLast

\* Delivering an event changes what is queued and what is handed out, and
\* leaves all of them as they were; so does an exception.
LEMMA TimelineStays ==
  ASSUME TypeOK, Firing,
         \/ Fire \/ CallbackReturns \/ CallbackThrows
         \/ UNCHANGED <<queue, fired>> /\ (pc = "callback" <=> pc' = "callback")
  PROVE  Timeline' = Timeline /\ Firing'
<1>0. fired \in Seq(EventType) /\ queue \in Seq(EventType) /\ Len(fired) \in Nat
  BY DEF TypeOK
<1>1. CASE Fire
  <2>1. /\ pc = "drain" /\ pc' = "callback" /\ queue # <<>> /\ queue' = queue
        /\ fired' = Append(fired, Head(queue)) /\ Head(queue) \in EventType
    BY <1>1, TimelineType DEF Fire
  <2>2. Timeline = fired \o queue /\ Timeline' = Append(fired, Head(queue)) \o Tail(queue)
    BY <2>1 DEF Timeline
  <2> DEFINE h == Head(queue)
             f == Append(fired, h)
  <2>3. Len(f) = Len(fired) + 1 /\ f # <<>> /\ f[Len(fired) + 1] = h
    <3> HIDE DEF h
    <3> QED BY <1>0, <2>1, AppendProperties DEF h
  <2>4. Firing'
    BY <2>1, <2>3 DEF Firing
  <2>5. Append(fired, Head(queue)) \o Tail(queue) = fired \o queue
    BY <1>0, <2>1, Handed
  <2> QED BY <2>2, <2>4, <2>5
<1>2. CASE CallbackReturns
  <2>1. pc = "callback" /\ pc' = "drain" /\ queue' = Tail(queue) /\ fired' = fired
    BY <1>2 DEF CallbackReturns
  <2> QED BY <2>1 DEF Timeline, Firing
<1>3. CASE CallbackThrows
  <2>1. /\ pc = "callback" /\ pc' = "idle" /\ queue' = queue /\ queue # <<>>
        /\ fired' = SubSeq(fired, 1, Len(fired) - 1)
    BY <1>3 DEF CallbackThrows, transport, TypeOK
  <2>2. fired # <<>> /\ fired[Len(fired)] = Head(queue)
    BY <2>1 DEF Firing
  <2>3. Timeline = fired \o Tail(queue) /\ Timeline' = SubSeq(fired, 1, Len(fired) - 1) \o queue
    BY <2>1 DEF Timeline
  <2>4. SubSeq(fired, 1, Len(fired) - 1) \o queue = fired \o Tail(queue)
    BY <1>0, <2>1, <2>2, PutBack
  <2> QED BY <2>1, <2>3, <2>4 DEF Firing
<1>4. CASE UNCHANGED <<queue, fired>> /\ (pc = "callback" <=> pc' = "callback")
  BY <1>4 DEF Timeline, Firing
<1> QED BY <1>1, <1>2, <1>3, <1>4

-----------------------------------------------------------------------------
(* What the timeline then says.                                            *)

\* Nothing is reported, and no client moves past its onClosed or back.
Unreported ==
  /\ Timeline' = Timeline
  /\ \A d \in Clients : /\ ws[d].connectTce # "unset" => ws'[d].connectTce # "unset"
                        /\ ws'[d].shutdown \in Past <=> ws[d].shutdown \in Past
  /\ created' \in Nat /\ created <= created'
  /\ wsClient' \in {wsClient, NoClient} \/ wsClient' > created
  /\ sends' = 0 => sends = 0

LEMMA UnreportedKeeps ==
  ASSUME WsppAssumption, TypeOK, History, Ended, SocketOrder, Unreported
  PROVE  History' /\ Ended' /\ SocketOrder'
<1>0. created \in Nat /\ MaxClients \in Nat /\ created <= MaxClients
  BY DEF TypeOK, WsppAssumption
<1>1. History'
  <2>1. ASSUME NEW e, Told(e, ws, wsClient, created)
        PROVE  Told(e, ws', wsClient', created')
    <3>1. e.client \in Clients /\ e.client \in 1..created' /\ e.client # NoClient
      BY <1>0, <2>1 DEF Told, Clients, Unreported, NoClient
    <3>2. wsClient # e.client => wsClient' # e.client
      BY <1>0, <2>1, <3>1 DEF Told, Unreported
    <3> QED BY <2>1, <3>1, <3>2 DEF Told, Unreported
  <2> QED BY <2>1 DEF History, Unreported
<1>2. Ended'
  BY DEF Ended, Unreported
<1>3. SocketOrder'
  BY DEF SocketOrder, Unreported
<1> QED BY <1>1, <1>2, <1>3

\* Event e may be queued: it comes after nothing that it must not follow.
MayFollow(e) ==
  sends = 0 /\ e.type \in {"message", "ping", "closed"} =>
    \A i \in DOMAIN Timeline : Timeline[i].type \in {"opened", "message", "ping", "closed"} =>
      \/ Timeline[i].client < e.client
      \/ Timeline[i].client = e.client /\ (Timeline[i].type = "closed" => e.type = "closed")

\* Event e is queued, and says what is so; only a "closed" takes its client
\* past its onClosed.
Reports(e) ==
  /\ Timeline' = Append(Timeline, e) /\ MayFollow(e)
  /\ UNCHANGED <<created, wsClient, sends>>
  /\ Told(e, ws', wsClient, created)
  /\ \A d \in Clients :
       /\ ws[d].connectTce # "unset" => ws'[d].connectTce # "unset"
       /\ ws'[d].shutdown \in Past <=>
            ws[d].shutdown \in Past \/ (e.type = "closed" /\ d = e.client)
  /\ e.type = "closed" => ws[e.client].shutdown \notin Past

LEMMA ReportsKeeps ==
  ASSUME WsppAssumption, TypeOK, History, Ended, SocketOrder, NEW e \in EventType, Reports(e)
  PROVE  History' /\ Ended' /\ SocketOrder'
<1> DEFINE t == Timeline
           u == Timeline'
           n == Len(Timeline) + 1
<1>0. created \in Nat /\ MaxClients \in Nat /\ created <= MaxClients
  BY DEF TypeOK, WsppAssumption
<1>1. /\ t \in Seq(EventType) /\ Len(t) \in Nat /\ u[n] = e /\ n \in DOMAIN u /\ n \notin DOMAIN t
      /\ \A i \in DOMAIN t : i \in DOMAIN u /\ u[i] = t[i] /\ i < n /\ i \in Nat
      /\ \A i \in DOMAIN u : i = n \/ i \in DOMAIN t
      /\ n \in Nat
  <2>1. t \in Seq(EventType) /\ u = Append(t, e)
    BY TimelineType DEF Reports
  <2>2. /\ Len(t) \in Nat /\ DOMAIN t = 1..Len(t)
        /\ \A i \in DOMAIN t : i \in DOMAIN u /\ u[i] = t[i]
        /\ \A i \in DOMAIN u : i = n \/ i \in DOMAIN t
        /\ u[n] = e /\ n \in DOMAIN u
    BY <2>1, Appended
  <2>3. n \in Nat /\ n \notin DOMAIN t /\ \A i \in DOMAIN t : i < n /\ i \in Nat
    BY <2>2
  <2> QED BY <2>1, <2>2, <2>3
<1> HIDE DEF n
<1>2. History'
  <2>1. ASSUME NEW i \in DOMAIN t  PROVE Told(t[i], ws', wsClient', created')
    <3>1. Told(t[i], ws, wsClient, created)
      BY DEF History
    <3>2. t[i].client \in Clients
      BY <1>0, <3>1 DEF Told, Clients
    <3> QED BY <3>1, <3>2 DEF Told, Reports
  <2>2. Told(e, ws', wsClient', created')
    BY DEF Reports
  <2>3. \A i \in DOMAIN u : Told(u[i], ws', wsClient', created')
    BY <1>1, <2>1, <2>2
  <2> QED BY <2>3 DEF History
<1>3. Ended'
  <2>1. ASSUME NEW c \in Clients, ws'[c].shutdown \in Past
        PROVE  ReportedOnce(u, c)
    <3>1. CASE e.type = "closed" /\ c = e.client
      <4>1. ws[c].shutdown \notin Past
        BY <3>1 DEF Reports
      <4>2. \A i \in DOMAIN t : ~(t[i].type = "closed" /\ t[i].client = c)
        BY <4>1 DEF History, Told
      <4> QED BY <1>1, <3>1, <4>2 DEF ReportedOnce
    <3>2. CASE ~(e.type = "closed" /\ c = e.client)
      <4>1. ReportedOnce(t, c)
        BY <2>1, <3>2 DEF Reports, Ended
      <4> QED BY <1>1, <3>2, <4>1 DEF ReportedOnce
    <3> QED BY <3>1, <3>2
  <2> QED BY <2>1 DEF Ended
<1>4. SocketOrder'
  <2> SUFFICES ASSUME sends = 0, NEW i \in DOMAIN u, NEW j \in DOMAIN u, i < j,
                      u[i].type \in {"opened", "message", "ping", "closed"},
                      u[j].type \in {"message", "ping", "closed"}
               PROVE  \/ u[i].client < u[j].client
                      \/ /\ u[i].client = u[j].client
                         /\ u[i].type = "closed" => u[j].type = "closed"
    BY DEF SocketOrder, Reports
  <2>0. i \in Nat /\ j \in Nat
    BY <1>1
  <2>1. i \in DOMAIN t
    <3>1. CASE j = n
      BY <1>1, <3>1, <2>0
    <3>2. CASE j \in DOMAIN t
      BY <1>1, <3>2, <2>0
    <3> QED BY <1>1, <3>1, <3>2
  <2>2. CASE j = n
    BY <1>1, <2>1, <2>2 DEF Reports, MayFollow
  <2>3. CASE j \in DOMAIN t
    BY <1>1, <2>1, <2>3 DEF SocketOrder
  <2> QED BY <1>1, <2>2, <2>3
<1> QED BY <1>2, <1>3, <1>4

-----------------------------------------------------------------------------
(* Steps of the clients' threads.                                          *)

\* While nothing was ever sent, no client but the latest that got to connect
\* has anything to report.
LEMMA LatestMayReport ==
  ASSUME WsppAssumption, TypeOK, Lives, Owned, History,
         NEW e \in EventType, e.client <= created,
         ws[e.client].state # "DESTROYED", ws[e.client].shutdown \notin Past
  PROVE  MayFollow(e)
<1> DEFINE c == e.client
<1>0. c \in Clients /\ created \in Nat /\ created <= MaxClients /\ MaxClients \in Nat
  BY DEF EventType, TypeOK, WsppAssumption
<1>1. SUFFICES ASSUME sends = 0, NEW i \in DOMAIN Timeline,
                      Timeline[i].type \in {"opened", "message", "ping", "closed"}
               PROVE  \/ Timeline[i].client < c
                      \/ Timeline[i].client = c /\ Timeline[i].type # "closed"
  BY DEF MayFollow
<1> DEFINE d == Timeline[i].client
<1>2. /\ d \in 1..created /\ d \in Clients /\ ws[d].connectTce # "unset"
      /\ Timeline[i].type = "closed" => ws[d].shutdown \in Past
  BY <1>0, <1>1 DEF History, Told, Clients
<1>3. c = wsClient \/ c = victim
  BY <1>0, <1>1 DEF Owned
<1> HIDE DEF d, c
<1>4. d <= c
  <2>1. CASE c = wsClient
    BY <1>0, <1>2, <2>1 DEF Owned, NoClient, Clients
  <2>2. CASE c = victim
    <3>1. victim # NoClient /\ op \in {"tick", "disconnect", "destroy", "connect"}
      BY <1>0, <2>2 DEF Owned, NoClient, Clients, TypeOK
    <3>2. CASE op # "connect"
      BY <1>0, <1>2, <2>2, <3>1, <3>2 DEF Owned
    <3>3. CASE op = "connect"
      <4>1. wsClient = created /\ wsClient \in Clients /\ ws[wsClient].state = "CREATED"
        BY <1>0, <3>3 DEF Owned, NoClient, Clients
      <4>2. ws[wsClient].connectTce = "unset"
        BY <4>1 DEF Lives, Life
      <4>3. d # created /\ c = created - 1
        BY <1>2, <2>2, <3>1, <3>3, <4>1, <4>2 DEF Owned
      <4> QED BY <1>0, <1>2, <4>3
    <3> QED BY <3>2, <3>3
  <2> QED BY <1>3, <2>1, <2>2
<1>5. c \in Nat /\ d \in Nat
  BY <1>0, <1>2 DEF Clients
<1>6. c = d => Timeline[i].type # "closed"
  BY <1>2 DEF c
<1> QED BY <1>4, <1>5, <1>6 DEF c, d

\* A step of client c keeps what is said of all the clients.
LEMMA DoesKeeps ==
  ASSUME WsppAssumption, TypeOK, Lives, Owned, Flagged, NEW c \in Clients, Does(c),
         UNCHANGED <<pc, op, victim, disconnectInitiated, wsClient, created, sends>>
  PROVE  Lives' /\ Owned' /\ Flagged'
<1>0. /\ \A d \in Clients : d # c => ws'[d] = ws[d]
      /\ Goes(ws[c], ws'[c], wsClient = c, disconnectInitiated)
      /\ wsClient # NoClient => wsClient \in Clients
  BY DEF Does, Only, TypeOK, WsppAssumption, Clients, NoClient
<1>1. Lives'
  BY <1>0 DEF Lives, Goes
<1>2. Owned'
  <2>1. wsClient # NoClient => ws'[wsClient].dtor = "none" /\ ws'[wsClient].state # "DESTROYED"
    BY <1>0 DEF Owned, Goes
  <2>2. op = "connect" => ws'[wsClient].state = "CREATED"
    BY <1>0 DEF Owned, Goes
  <2>3. \A d \in Clients : d <= created /\ d # wsClient /\ d # victim =>
          ws'[d].state = "DESTROYED" \/ sends > 0
    BY <1>0 DEF Owned, Goes
  <2> QED BY <2>1, <2>2, <2>3 DEF Owned
<1>3. Flagged'
  <2>1. ASSUME wsClient = c, ws'[c].shutdown = "handler", ~ws'[c].remote
        PROVE  FALSE
    <3>1. disconnectInitiated
      BY <1>0, <2>1 DEF Flagged, Goes, NoClient, Clients
    <3>2. op = "connect"
      BY <2>1, <3>1 DEF Flagged, NoClient, Clients
    <3>3. ws'[c].state = "CREATED"
      BY <1>0, <2>1, <3>2 DEF Owned, Goes
    <3> QED BY <1>0, <2>1, <3>3 DEF Goes, Life
  <2>2. wsClient # NoClient /\ ws'[wsClient].shutdown = "handler" => ws'[wsClient].remote
    BY <1>0, <2>1 DEF Flagged
  <2> QED BY <2>2 DEF Flagged
<1> QED BY <1>1, <1>2, <1>3

LEMMA WsStepOrder ==
  ASSUME WsppAssumption, NWebsocketAssumption, Inv, Inv', OrderInv, NEW c \in Clients, WsStep(c)
  PROVE  OrderInv'
<1>0. /\ TypeOK /\ ws \in [Clients -> WsType] /\ ws' \in [Clients -> WsType]
      /\ Lives /\ Owned /\ Flagged /\ Firing /\ History /\ Ended /\ SocketOrder
      /\ ws[c] \in WsType /\ Life(ws[c]) /\ created \in Nat /\ c \in Nat
  <2>1. TypeOK /\ Lives /\ Owned /\ Flagged /\ Firing /\ History /\ Ended /\ SocketOrder
    BY DEF Inv, OrderInv
  <2>2. ws \in [Clients -> WsType] /\ ws' \in [Clients -> WsType] /\ created \in Nat
    BY DEF Inv, TypeOK
  <2>3. ws[c] \in WsType /\ Life(ws[c]) /\ c \in Nat
    BY <2>1, <2>2 DEF Lives, Clients
  <2> QED BY <2>1, <2>2, <2>3
<1>1. UNCHANGED <<pc, op, victim, connected, disconnectInitiated, wsClient, created, fired, sends>>
  BY DEF WsStep, ClientStep, FrameStep, OnSocketMessage, OnOpened, OnClosed,
     OnSendFailed, notQueue, user
<1>2. /\ ClientStep(c) => Alone(c) \/ SendRuns(c, wsClient = c)
      /\ FrameStep(c) \/ OnSocketMessage(c) => Alone(c)
      /\ OnOpened(c) => ConnectContinues(c)
      /\ OnSendFailed(c) => SendContinues(c)
      /\ OnClosed(c) => ShutdownHandler(c)
  BY DEF ClientStep, FrameStep, OnSocketMessage, OnOpened, OnSendFailed, OnClosed, Alone
<1>3. Does(c) /\ (~OnClosed(c) => SamePast(c))
  BY <1>0, <1>2, AloneGoes, SendRunsGoes, OpenedGoes, SendEndsGoes, ClosedGoes DEF WsStep
<1>4. Lives' /\ Owned' /\ Flagged'
  BY <1>0, <1>1, <1>3, DoesKeeps
<1>5. \A d \in Clients : d # c => ws'[d] = ws[d]
  BY <1>3 DEF Does, Only
<1>6. ws[c].connectTce # "unset" => ws'[c].connectTce # "unset"
  BY <1>3 DEF Does, Goes
<1>7. created < c => ws[c] = FreshWs
  BY <1>0 DEF TypeOK
<1>8. ASSUME SamePast(c), UNCHANGED queue
      PROVE  OrderInv'
  <2>1. Timeline' = Timeline /\ Firing'
    BY <1>0, <1>1, <1>8, TimelineStays
  <2>2. Unreported
    BY <1>0, <1>1, <1>5, <1>6, <1>8, <2>1 DEF Unreported, SamePast
  <2> QED BY <1>0, <1>4, <2>1, <2>2, UnreportedKeeps DEF OrderInv
<1>9. ASSUME NEW e \in EventType, ExecuteInUserThread(e), e.client = c,
             Told(e, ws', wsClient, created), MayFollow(e),
             IF e.type = "closed"
             THEN ws[c].shutdown \notin Past /\ ws'[c].shutdown \in Past
             ELSE SamePast(c)
      PROVE  OrderInv'
  <2>1. ~MutexHeld /\ queue' = Append(queue, e) /\ pc # "callback"
    BY <1>9 DEF ExecuteInUserThread, MutexHeld
  <2>2. Timeline' = Append(Timeline, e)
    BY <1>0, <1>1, <2>1, TimelineGrows
  <2>3. Firing'
    BY <1>1, <2>1 DEF Firing
  <2>4. Reports(e)
    BY <1>1, <1>5, <1>6, <1>9, <2>2 DEF Reports, SamePast
  <2> QED BY <1>0, <1>4, <2>3, <2>4, ReportsKeeps DEF OrderInv
<1>10. CASE ClientStep(c) \/ FrameStep(c)
  <2>1. UNCHANGED queue
    BY <1>10 DEF ClientStep, FrameStep
  <2>2. SamePast(c)
    BY <1>0, <1>2, <1>10, AloneGoes, SendRunsGoes
  <2> QED BY <1>8, <2>1, <2>2
<1>11. CASE OnSocketMessage(c)
  <2> DEFINE e == Event(ws[c].io, c)
  <2>1. ws[c].io \in {"message", "ping"} /\ ExecuteInUserThread(e)
    BY <1>11 DEF OnSocketMessage, FrameHandled, WsppAssumption
  <2>2. e \in EventType /\ e.client = c /\ e.type = ws[c].io
    BY <2>1 DEF Event, EventType, EventTypes
  <2>3. /\ c \in 1..created /\ ws[c].connectTce # "unset"
        /\ ws[c].state # "DESTROYED" /\ ws[c].shutdown = "none"
    BY <1>0, <1>7, <2>1 DEF FreshWs, Clients, Life, WsType
  <2>4. SamePast(c)
    BY <1>0, <1>2, <1>11, AloneGoes
  <2> HIDE DEF e
  <2>5. MayFollow(e)
    BY <1>0, <2>2, <2>3, LatestMayReport DEF Past
  <2>6. Told(e, ws', wsClient, created)
    BY <1>6, <2>1, <2>2, <2>3 DEF Told
  <2> QED BY <1>9, <2>1, <2>2, <2>4, <2>5, <2>6
<1>12. CASE OnOpened(c)
  <2> DEFINE e == Event(IF ws[c].connectTce = "set" THEN "opened" ELSE "error", c)
  <2>1. ws[c].opening /\ ws[c].connectTce # "unset" /\ ExecuteInUserThread(e)
    BY <1>12 DEF OnOpened, ConnectContinues
  <2>2. e \in EventType /\ e.client = c /\ e.type \in {"opened", "error"}
    BY DEF Event, EventType, EventTypes
  <2>3. c \in 1..created
    BY <1>0, <1>7, <2>1 DEF FreshWs, Clients
  <2>4. SamePast(c)
    BY <1>0, <1>2, <1>12, OpenedGoes
  <2> HIDE DEF e
  <2>5. MayFollow(e) /\ Told(e, ws', wsClient, created)
    BY <1>6, <2>1, <2>2, <2>3 DEF MayFollow, Told
  <2> QED BY <1>9, <2>1, <2>2, <2>4, <2>5
<1>13. CASE OnSendFailed(c)
  <2> DEFINE e == Event("error", c)
  <2>1. ws[c].failed > 0 /\ ExecuteInUserThread(e)
    BY <1>13 DEF OnSendFailed, SendContinues
  <2>2. e \in EventType /\ e.client = c /\ e.type = "error"
    BY DEF Event, EventType, EventTypes
  <2>3. c \in 1..created
    BY <1>0, <1>7, <2>1 DEF FreshWs, Clients
  <2>4. SamePast(c)
    BY <1>0, <1>2, <1>13, SendEndsGoes
  <2> HIDE DEF e
  <2>5. MayFollow(e) /\ Told(e, ws', wsClient, created)
    BY <2>2, <2>3 DEF MayFollow, Told
  <2> QED BY <1>9, <2>1, <2>2, <2>4, <2>5
<1>14. CASE OnClosed(c)
  <2> DEFINE e == [type |-> "closed", client |-> c, remote |-> ws[c].remote]
  <2>1. ExecuteInUserThread(e) /\ ShutdownHandler(c)
    BY <1>14 DEF OnClosed
  <2>2. e \in EventType /\ e.client = c /\ e.type = "closed" /\ e.remote = ws[c].remote
    BY <1>0 DEF EventType, EventTypes, WsType
  <2>3. /\ ws[c].shutdown = "handler" /\ ws'[c].shutdown = "signal"
        /\ ws[c].state = "CLOSED" /\ ws[c].connectTce # "unset"
    BY <1>0, <2>1, ClosedGoes
  <2>4. c \in 1..created
    BY <1>0, <1>7, <2>3 DEF FreshWs, Clients
  <2> HIDE DEF e
  <2>5. MayFollow(e)
    BY <1>0, <2>2, <2>3, <2>4, LatestMayReport DEF Past
  <2>6. ~ws[c].remote => wsClient # c
    BY <1>0, <2>3 DEF Flagged, NoClient, Clients
  <2>7. Told(e, ws', wsClient, created)
    BY <1>6, <2>2, <2>3, <2>4, <2>6 DEF Told, Past
  <2> QED BY <1>9, <2>1, <2>2, <2>3, <2>5, <2>7 DEF Past
<1> QED BY <1>10, <1>11, <1>12, <1>13, <1>14 DEF WsStep

-----------------------------------------------------------------------------
(* Steps of the application's thread.                                      *)

LEMMA OrderFacts ==
  ASSUME WsppAssumption, Inv, OrderInv
  PROVE  /\ TypeOK /\ CallOK /\ ws \in [Clients -> WsType]
         /\ Lives /\ Owned /\ Flagged /\ Firing /\ History /\ Ended /\ SocketOrder
         /\ created \in Nat /\ created <= MaxClients /\ MaxClients \in Nat
         /\ wsClient # NoClient => wsClient \in Clients /\ wsClient = created
         /\ \A c \in Clients : c \in Nat /\ c # NoClient /\ ws[c] \in WsType /\ Life(ws[c])
BY DEF Inv, OrderInv, TypeOK, Lives, Owned, Clients, NoClient, WsppAssumption

\* The destructor does not run in a callback.
LEMMA DestroyIsNoCallback ==
  ASSUME NWebsocketAssumption, Inv, Destroy
  PROVE  pc = "idle"
<1>1. queue # <<>> => Head(queue) \in EventType
  BY DEF Inv, TypeOK
<1>2. pc = "callback" => Head(queue).type \in EventTypes
  BY <1>1 DEF Inv, TypeOK, EventType
<1> QED BY <1>2 DEF Destroy, MayCall, NWebsocketAssumption

\* Steps that leave the clients alone.
LEMMA QuietOrder ==
  ASSUME WsppAssumption, NWebsocketAssumption, Inv, Inv', OrderInv,
         \/ TickLock \/ Fire \/ CallbackReturns \/ CallbackThrows \/ TickUnlock
         \/ DisconnectReturns \/ DestroyReturns
         \/ wsClient = NoClient /\ Destroy
         \/ UNCHANGED vars
  PROVE  OrderInv'
<1>1. UNCHANGED <<ws, created, sends, wsClient, disconnectInitiated>>
  BY DEF TickLock, Fire, CallbackReturns, CallbackThrows, TickUnlock,
     DisconnectReturns, DestroyReturns, Destroy, counters, transport, vars
<1>2. Timeline' = Timeline /\ Firing'
  <2>1. \/ Fire \/ CallbackReturns \/ CallbackThrows
        \/ UNCHANGED <<queue, fired>> /\ (pc = "callback" <=> pc' = "callback")
    <3>1. op = "destroy" => pc = "idle"
      BY OrderFacts DEF Owned
    <3>2. CASE TickLock
      BY <3>2 DEF TickLock, transport
    <3>3. CASE TickUnlock
      BY <3>3 DEF TickUnlock, transport
    <3>4. CASE DisconnectReturns
      BY <3>4 DEF DisconnectReturns, transport
    <3>5. CASE DestroyReturns
      BY <3>1, <3>5 DEF DestroyReturns, transport
    <3>6. CASE wsClient = NoClient /\ Destroy
      BY <3>6 DEF Destroy, transport
    <3>7. CASE UNCHANGED vars
      BY <3>7 DEF vars
    <3> QED BY <3>2, <3>3, <3>4, <3>5, <3>6, <3>7
  <2> QED BY <2>1, OrderFacts, TimelineStays
<1>3. Unreported
  BY <1>1, <1>2, OrderFacts DEF Unreported
<1>4. Lives' /\ Flagged'
  <2>1. disconnectInitiated /\ wsClient # NoClient => op' = "connect"
    <3>1. disconnectInitiated /\ wsClient # NoClient => op = "connect"
      BY OrderFacts DEF Flagged
    <3>2. op = "connect" => op' = "connect"
      BY DEF TickLock, Fire, CallbackReturns, CallbackThrows, TickUnlock,
         DisconnectReturns, DestroyReturns, Destroy, MayCall, vars, Inv, CallOK
    <3> QED BY <3>1, <3>2
  <2> QED BY <1>1, <2>1, OrderFacts DEF Lives, Flagged
<1>5. Owned'
  <2> USE OrderFacts
  <2>1. /\ op' = "connect" => op = "connect" /\ victim' = victim
        /\ op' \in {"tick", "disconnect", "destroy"} => wsClient = NoClient /\ victim' \in {NoClient, created}
        /\ op' \in {"none", "lock"} => victim' = NoClient
        /\ pc' = "gone" => op' = "none" /\ wsClient = NoClient
        /\ op' = "destroy" => pc' = "idle"
        /\ victim' # victim => victim \in {NoClient} \cup {c \in Clients : ws[c].state = "DESTROYED"}
    <3>1. CASE TickLock
      BY <3>1 DEF TickLock, Owned, VictimGone, TypeOK
    <3>2. CASE Fire \/ CallbackReturns \/ CallbackThrows \/ TickUnlock
      BY <3>2 DEF Fire, CallbackReturns, CallbackThrows, TickUnlock, Owned
    <3>3. CASE DisconnectReturns
      BY <3>3 DEF DisconnectReturns, Owned, VictimGone, TypeOK
    <3>4. CASE DestroyReturns
      BY <3>4 DEF DestroyReturns, Owned, VictimGone, TypeOK
    <3>5. CASE wsClient = NoClient /\ Destroy
      BY <3>5, DestroyIsNoCallback DEF Destroy, Owned, MayCall
    <3>6. CASE UNCHANGED vars
      BY <3>6 DEF vars, Owned
    <3> QED BY <3>1, <3>2, <3>3, <3>4, <3>5, <3>6
  <2>2. \A c \in Clients : c <= created /\ c # wsClient /\ c # victim' =>
          ws[c].state = "DESTROYED" \/ sends > 0
    BY <2>1 DEF Owned
  <2> QED BY <1>1, <2>1, <2>2 DEF Owned
<1> QED BY <1>2, <1>3, <1>4, <1>5, OrderFacts, UnreportedKeeps DEF OrderInv

\* What is left of a client that is let go of.
LEMMA LetGoLife ==
  ASSUME NEW r \in WsType, Life(r), r.dtor = "none", r.state # "DESTROYED",
         NEW k, k = r \/ k = Close(r)
  PROVE  /\ Life(Release(k))
         /\ Release(k).connectTce = r.connectTce /\ Release(k).shutdown = r.shutdown
         /\ Release(k).inFlight = r.inFlight /\ k.inFlight = r.inFlight
<1>1. k \in WsType
  BY CloseType
<1>2. /\ k.connectTce = r.connectTce /\ k.shutdown = r.shutdown /\ k.inFlight = r.inFlight
      /\ k.dtor = r.dtor /\ k.state # "DESTROYED"
  BY DEF Close, WsType
<1>3. Life(k)
  BY DEF Close, WsType, Life
<1> QED BY <1>1, <1>2, <1>3 DEF Release, WsType, Life

LEMMA DisconnectingOrder ==
  ASSUME WsppAssumption, Inv, Inv', OrderInv, NEW o \in {"tick", "disconnect", "destroy"},
         pc \in {"idle", "callback"}, o = "destroy" => pc = "idle", op = "none", Disconnecting(o)
  PROVE  OrderInv'
<1> DEFINE c == wsClient
           k == Close(ws[c])
<1> USE OrderFacts
<1>1. /\ c \in Clients /\ c = created /\ ws[c].dtor = "none" /\ ws[c].state # "DESTROYED"
      /\ ws[c] \in WsType /\ Life(ws[c]) /\ victim = NoClient /\ ws[c].inFlight \in Nat
  <2>1. c \in Clients /\ c = created /\ ws[c] \in WsType /\ Life(ws[c])
    BY DEF Disconnecting
  <2>2. ws[c].dtor = "none" /\ ws[c].state # "DESTROYED" /\ victim = NoClient
    BY DEF Disconnecting, Owned
  <2> QED BY <2>1, <2>2 DEF WsType
<1>2. /\ ws' = [ws EXCEPT ![c] = Release(k)]
      /\ victim' = IF k.inFlight = 0 THEN c ELSE NoClient
  BY <1>1 DEF Disconnecting, LetGo
<1>3. /\ Life(Release(k))
      /\ Release(k).connectTce = ws[c].connectTce /\ Release(k).shutdown = ws[c].shutdown
      /\ k.inFlight = ws[c].inFlight
  BY <1>1, LetGoLife
<1> HIDE DEF k
<1>4. /\ UNCHANGED <<pc, queue, created, fired, sends>> /\ op' = o
      /\ wsClient' = NoClient
  BY DEF Disconnecting, counters
<1>5. \A d \in Clients : d # c => ws'[d] = ws[d]
  BY <1>2
<1>6. ws'[c] = Release(k)
  BY <1>1, <1>2
<1>7. Timeline' = Timeline /\ Firing'
  BY <1>4, TimelineStays
<1>8. Unreported
  BY <1>3, <1>4, <1>5, <1>6, <1>7 DEF Unreported
<1>9. Lives' /\ Flagged'
  BY <1>3, <1>4, <1>5, <1>6 DEF Lives, Flagged
<1>10. Owned'
  <2>1. k.inFlight # 0 => sends > 0
    <3>1. Outstanding(c) <= sends /\ sends \in Nat
      BY <1>1 DEF TypeOK, WsppAssumption
    <3>2. ws[c].failed \in Nat
      BY <1>1 DEF WsType
    <3> QED BY <1>1, <1>3, <3>1, <3>2 DEF Outstanding
  <2>2. \A d \in Clients : d <= created /\ d # victim' => ws'[d].state = "DESTROYED" \/ sends > 0
    BY <1>1, <1>2, <1>5, <2>1 DEF Owned
  <2> QED BY <1>1, <1>2, <1>4, <2>2 DEF Owned
<1> QED BY <1>7, <1>8, <1>9, <1>10, UnreportedKeeps DEF OrderInv

LEMMA ConnectStartOrder ==
  ASSUME WsppAssumption, Inv, Inv', OrderInv, ConnectStart
  PROVE  OrderInv'
<1> DEFINE n == created + 1
           c == wsClient
<1> USE OrderFacts
<1>1. /\ n \in Clients /\ n \in Nat /\ created < n /\ c # n /\ ws[n] = FreshWs
      /\ op = "none" /\ victim = NoClient /\ pc \in {"idle", "callback"}
  <2>1. n \in Clients /\ n \in Nat /\ created < n /\ c # n
    BY DEF ConnectStart, Clients, NoClient
  <2>2. ws[n] = FreshWs
    BY <2>1 DEF TypeOK
  <2> QED BY <2>1, <2>2 DEF ConnectStart, MayCall, CallOK
<1>2. /\ UNCHANGED <<pc, queue, fired, sends>> /\ op' = "connect" /\ created' = n
      /\ wsClient' = n
  BY DEF ConnectStart, counters
<1>3. ws'[n] = [FreshWs EXCEPT !.state = "CREATED"]
  <2>1. CASE c = NoClient
    BY <1>1, <2>1 DEF ConnectStart, Create
  <2>2. CASE c # NoClient
    BY <1>1, <2>2 DEF ConnectStart, Create, LetGo
  <2> QED BY <2>1, <2>2
<1>4. \A d \in Clients : d # n /\ d # c => ws'[d] = ws[d]
  <2>1. CASE c = NoClient
    BY <1>1, <2>1 DEF ConnectStart, Create
  <2>2. CASE c # NoClient
    BY <1>1, <2>2 DEF ConnectStart, Create, LetGo
  <2> QED BY <2>1, <2>2
<1>5. /\ Life(ws'[n]) /\ ws'[n].dtor = "none" /\ ws'[n].state = "CREATED"
      /\ ws'[n].shutdown = "none" /\ ws[n].shutdown = "none" /\ ws[n].connectTce = "unset"
  BY <1>1, <1>3 DEF Life, FreshWs
<1>6. ASSUME c # NoClient
      PROVE  /\ c \in Clients /\ ws'[c] = Release(ws[c]) /\ c = created
             /\ victim' = IF ws[c].inFlight = 0 THEN c ELSE NoClient
             /\ Life(ws'[c]) /\ ws'[c].connectTce = ws[c].connectTce
             /\ ws'[c].shutdown = ws[c].shutdown
  <2>1. c \in Clients /\ c = created /\ ws[c].dtor = "none" /\ ws[c].state # "DESTROYED"
    BY <1>6 DEF Owned
  <2>2. /\ ws' = [Create(n) EXCEPT ![c] = Release(@)]
        /\ victim' = IF Create(n)[c].inFlight = 0 THEN c ELSE NoClient
    BY <1>6 DEF ConnectStart, LetGo
  <2>3. Create(n)[c] = ws[c]
    BY <1>1, <2>1 DEF Create
  <2>4. ws'[c] = Release(ws[c])
    BY <1>1, <2>1, <2>2, <2>3 DEF Create
  <2> QED BY <2>1, <2>2, <2>3, <2>4, LetGoLife
<1>7. c = NoClient => victim' = NoClient
  BY DEF ConnectStart
<1>8. Timeline' = Timeline /\ Firing'
  BY <1>2, TimelineStays
<1>9. ASSUME NEW d \in Clients
      PROVE  /\ Life(ws'[d])
             /\ ws[d].connectTce # "unset" => ws'[d].connectTce # "unset"
             /\ ws'[d].shutdown \in Past <=> ws[d].shutdown \in Past
  BY <1>4, <1>5, <1>6
<1>10. Unreported
  BY <1>1, <1>2, <1>8, <1>9 DEF Unreported
<1>11. Lives' /\ Flagged'
  BY <1>2, <1>5, <1>9 DEF Lives, Flagged
<1>12. Owned'
  <2>1. victim' \in {NoClient, created} /\ created = n - 1
    BY <1>6, <1>7
  <2>2. ASSUME NEW d \in Clients, d <= n, d # n, d # victim'
        PROVE  ws'[d].state = "DESTROYED" \/ sends > 0
    <3>1. CASE d = c
      <4>1. c # NoClient /\ ws[c].inFlight # 0
        BY <1>6, <2>2, <3>1
      <4>2. Outstanding(c) <= sends /\ sends \in Nat /\ c \in Clients
        BY <3>1 DEF TypeOK, WsppAssumption
      <4>3. ws[c].failed \in Nat /\ ws[c].inFlight \in Nat
        BY <4>2 DEF WsType
      <4> QED BY <4>1, <4>2, <4>3 DEF Outstanding
    <3>2. CASE d # c
      <4>1. d <= created
        BY <2>2
      <4> QED BY <1>1, <1>4, <2>2, <3>2, <4>1 DEF Owned
    <3> QED BY <3>1, <3>2
  <2>3. n # NoClient
    BY <1>1
  <2> QED BY <1>1, <1>2, <1>5, <2>1, <2>2, <2>3 DEF Owned
<1> QED BY <1>8, <1>10, <1>11, <1>12, UnreportedKeeps DEF OrderInv

LEMMA ConnectGoOrder ==
  ASSUME WsppAssumption, Inv, Inv', OrderInv, ConnectGo
  PROVE  OrderInv'
<1> DEFINE c == wsClient
<1> USE OrderFacts
<1>1. /\ c \in Clients /\ c = created /\ ws[c].state = "CREATED" /\ ws[c].dtor = "none"
      /\ ws[c] \in WsType /\ Life(ws[c]) /\ pc # "gone"
  BY DEF ConnectGo, Owned
<1>2. ws'[c] = [ws[c] EXCEPT !.state = "CONNECTING", !.opening = TRUE]
  BY <1>1 DEF ConnectGo, Connect
<1>3. \A d \in Clients : d # c => ws'[d] = ws[d]
  BY DEF ConnectGo, Connect
<1>4. /\ UNCHANGED <<pc, wsClient, queue, created, fired, sends>>
      /\ disconnectInitiated' = FALSE /\ op' = "none" /\ victim' = NoClient
  BY DEF ConnectGo, counters
<1>5. /\ Life(ws'[c]) /\ ws'[c].dtor = "none" /\ ws'[c].state = "CONNECTING"
      /\ ws'[c].shutdown = ws[c].shutdown /\ ws'[c].connectTce = ws[c].connectTce
      /\ ws[c].shutdown = "none"
  BY <1>1, <1>2 DEF Life, WsType
<1>6. Timeline' = Timeline /\ Firing'
  BY <1>4, TimelineStays
<1>7. Unreported
  BY <1>3, <1>4, <1>5, <1>6 DEF Unreported
<1>8. Lives' /\ Flagged'
  BY <1>3, <1>4, <1>5 DEF Lives, Flagged
<1>9. Owned'
  <2>1. victim # NoClient => ws[victim].state = "DESTROYED"
    BY DEF ConnectGo, VictimGone
  <2>2. \A d \in Clients : d <= created /\ d # c => ws'[d].state = "DESTROYED" \/ sends > 0
    BY <1>3, <2>1 DEF Owned
  <2> QED BY <1>1, <1>4, <1>5, <2>2 DEF Owned
<1> QED BY <1>6, <1>7, <1>8, <1>9, UnreportedKeeps DEF OrderInv

LEMMA ConnectBadUrlOrder ==
  ASSUME WsppAssumption, Inv, Inv', OrderInv, ConnectBadUrl
  PROVE  OrderInv'
<1> DEFINE c == wsClient
           e == Event("error", c)
<1> USE OrderFacts
<1>1. /\ c \in Clients /\ c = created /\ ws[c].state = "CREATED" /\ ws[c].dtor = "none"
      /\ Life(ws[c]) /\ pc # "gone" /\ c \in 1..created
  BY DEF ConnectBadUrl, Owned, Clients
<1>2. e \in EventType /\ e.type = "error" /\ e.client = c
  BY <1>1 DEF Event, EventType, EventTypes
<1>3. /\ UNCHANGED <<ws, pc, wsClient, created, fired, sends>>
      /\ disconnectInitiated' = FALSE /\ victim' = NoClient
      /\ \/ queue' = Append(queue, e) /\ op' = "none" /\ ~MutexHeld
         \/ queue' = queue /\ op' = "lock" /\ MutexHeld
  BY DEF ConnectBadUrl, counters
<1> HIDE DEF e
<1>4. Lives' /\ Flagged' /\ Owned'
  <2>1. victim # NoClient => ws[victim].state = "DESTROYED"
    BY DEF ConnectBadUrl, VictimGone
  <2>2. \A d \in Clients : d <= created /\ d # c => ws[d].state = "DESTROYED" \/ sends > 0
    BY <2>1 DEF Owned
  <2>3. ws[c].shutdown = "none"
    BY <1>1 DEF Life
  <2> QED BY <1>1, <1>3, <2>2, <2>3 DEF Lives, Flagged, Owned
<1>5. CASE queue' = queue
  <2>1. Timeline' = Timeline /\ Firing'
    BY <1>3, <1>5, TimelineStays
  <2>2. Unreported
    BY <1>3, <2>1 DEF Unreported
  <2> QED BY <1>4, <2>1, <2>2, UnreportedKeeps DEF OrderInv
<1>6. CASE queue' = Append(queue, e) /\ ~MutexHeld
  <2>1. Timeline' = Append(Timeline, e)
    BY <1>2, <1>3, <1>6, TimelineGrows
  <2>2. Firing'
    BY <1>3, <1>6 DEF Firing, MutexHeld
  <2>3. Reports(e)
    BY <1>1, <1>2, <1>3, <2>1 DEF Reports, MayFollow, Told
  <2> QED BY <1>2, <1>4, <2>2, <2>3, ReportsKeeps DEF OrderInv
<1> QED BY <1>3, <1>5, <1>6

LEMMA SendDataOrder ==
  ASSUME WsppAssumption, Inv, Inv', OrderInv, SendData
  PROVE  OrderInv'
<1> DEFINE c == wsClient
<1> USE OrderFacts
<1>1. /\ c \in Clients /\ ws[c].dtor = "none" /\ ws[c].state # "DESTROYED"
      /\ ws[c] \in WsType /\ Life(ws[c]) /\ sends \in Nat /\ op = "none"
  BY DEF SendData, Owned, MayCall, TypeOK, WsppAssumption
<1>2. /\ UNCHANGED <<pc, op, victim, disconnectInitiated, wsClient, queue, created, fired>>
      /\ sends' = sends + 1
  BY DEF SendData, user, transport
<1>3. \A d \in Clients : d # c => ws'[d] = ws[d]
  BY DEF SendData, Send
<1>4. ws'[c] = IF ws[c].connectTce = "unset" THEN [ws[c] EXCEPT !.failed = @ + 1]
               ELSE [ws[c] EXCEPT !.inFlight = @ + 1]
  BY <1>1 DEF SendData, Send
<1>5. /\ ws'[c].state = ws[c].state /\ ws'[c].connectTce = ws[c].connectTce
      /\ ws'[c].shutdown = ws[c].shutdown /\ ws'[c].dtor = ws[c].dtor
      /\ ws'[c].io = ws[c].io /\ ws'[c].closeTce = ws[c].closeTce
      /\ ws'[c].opening = ws[c].opening /\ ws'[c].remote = ws[c].remote
      /\ ws[c].connectTce = "unset" => ws'[c].inFlight = ws[c].inFlight
  BY <1>1, <1>4 DEF WsType
<1>6. Life(ws'[c])
  BY <1>1, <1>5 DEF Life
<1>7. Timeline' = Timeline /\ Firing'
  BY <1>2, TimelineStays
<1>8. Unreported
  BY <1>1, <1>2, <1>3, <1>5, <1>7 DEF Unreported
<1>9. Lives' /\ Flagged'
  BY <1>2, <1>3, <1>5, <1>6 DEF Lives, Flagged
<1>10. Owned'
  BY <1>1, <1>2, <1>5 DEF Owned
<1> QED BY <1>7, <1>8, <1>9, <1>10, UnreportedKeeps DEF OrderInv

LEMMA InitOrder ==
  ASSUME WsppAssumption, Init
  PROVE  OrderInv
<1>1. \A c \in Clients : ws[c] = FreshWs /\ c > created
  BY DEF Init, WsInit, Clients
<1>2. Lives
  BY <1>1 DEF Lives, Life, FreshWs
<1>3. Owned /\ Flagged /\ Firing
  <2>1. \A c \in Clients : ~(c <= created)
    BY <1>1 DEF Init, Clients
  <2> QED BY <2>1 DEF Init, Owned, Flagged, Firing, NoClient
<1>4. Timeline = <<>>
  <2>1. Timeline = <<>> \o <<>>
    BY DEF Init, Timeline
  <2>2. <<>> \in Seq({})
    OBVIOUS
  <2> QED BY <2>1, <2>2, ConcatEmptySeq
<1>5. History /\ SocketOrder
  BY <1>4 DEF History, SocketOrder
<1>6. Ended
  BY <1>1 DEF Ended, FreshWs, Past
<1> QED BY <1>2, <1>3, <1>5, <1>6 DEF OrderInv

LEMMA StepOrder ==
  ASSUME WsppAssumption, NWebsocketAssumption, Inv, OrderInv, [Next]_vars
  PROVE  OrderInv'
<1>0. Inv'
  BY StepInv
<1>1. ASSUME NEW c \in Clients, WsStep(c) PROVE OrderInv'
  BY <1>0, <1>1, WsStepOrder
<1>2. CASE TickTimeout
  BY <1>0, <1>2, DisconnectingOrder DEF TickTimeout
<1>3. CASE Disconnect
  BY <1>0, <1>3, DisconnectingOrder DEF Disconnect, MayCall
<1>4. CASE Destroy
  BY <1>0, <1>4, DisconnectingOrder, QuietOrder, DestroyIsNoCallback DEF Destroy, MayCall
<1>5. CASE ConnectStart
  BY <1>0, <1>5, ConnectStartOrder
<1>6. CASE ConnectGo
  BY <1>0, <1>6, ConnectGoOrder
<1>7. CASE ConnectBadUrl
  BY <1>0, <1>7, ConnectBadUrlOrder
<1>8. CASE SendData
  BY <1>0, <1>8, SendDataOrder
<1>9. CASE \/ TickLock \/ Fire \/ CallbackReturns \/ CallbackThrows \/ TickUnlock
           \/ DisconnectReturns \/ DestroyReturns \/ UNCHANGED vars
  BY <1>0, <1>9, QuietOrder
<1>10. CASE Gone
  BY <1>0, <1>10, QuietOrder DEF Gone
<1> QED
  BY <1>1, <1>2, <1>3, <1>4, <1>5, <1>6, <1>7, <1>8, <1>9, <1>10
  DEF Next, UserStep

-----------------------------------------------------------------------------
(* The theorems.                                                           *)

\* The clients, the events handed to the application or queued, and the calls
\* in progress satisfy the inductive invariant in every state.
THEOREM AlwaysOrder == Spec => [](Inv /\ OrderInv)
<1>1. Init => Inv /\ OrderInv
  BY InitInv, InitOrder, WsppAssumption, NWebsocketAssumption
<1>2. (Inv /\ OrderInv) /\ [Next]_vars => (Inv /\ OrderInv)'
  BY StepInv, StepOrder, WsppAssumption, NWebsocketAssumption
<1> QED BY <1>1, <1>2, PTL DEF Spec

\* No send of NWebsocketCppRest ever runs on a websocket client that has been
\* destroyed: the task on the pool holds a reference to it.
THEOREM NoSendAfterDestroy == Spec => []NoSendOnDestroyed
<1>1. OrderInv => NoSendOnDestroyed
  BY DEF OrderInv, Lives, Life, NoSendOnDestroyed
<1> QED BY <1>1, AlwaysOrder, PTL

\* When connect() or disconnect() has waited for a client's destructor,
\* onClosed has queued the disconnect of that client exactly once, if it was
\* ever told to connect, whatever throws, times out or is replaced meanwhile.
THEOREM OneDisconnectEach == Spec => []DisconnectReportedOnce
<1>1. Inv /\ OrderInv => DisconnectReportedOnce
  <2> SUFFICES ASSUME Inv, OrderInv, NEW c \in Clients, ws[c].state = "DESTROYED"
               PROVE  IF ws[c].connectTce = "unset" THEN Reported("closed", c) = {}
                      ELSE \E i \in DOMAIN Timeline : Reported("closed", c) = {i}
    BY DEF DisconnectReportedOnce
  <2>1. CASE ws[c].connectTce = "unset"
    <3>1. ws[c].shutdown \notin Past
      BY <2>1 DEF OrderInv, Lives, Life, Past
    <3> QED BY <2>1, <3>1 DEF OrderInv, History, Told, Reported
  <2>2. CASE ws[c].connectTce # "unset"
    <3>1. ReportedOnce(Timeline, c)
      BY <2>2 DEF OrderInv, Lives, Life, Past, Ended
    <3>2. PICK i \in DOMAIN Timeline : \A j \in DOMAIN Timeline :
                 (Timeline[j].type = "closed" /\ Timeline[j].client = c) <=> j = i
      BY <3>1 DEF ReportedOnce
    <3>3. Reported("closed", c) = {i}
      BY <3>2 DEF Reported
    <3> QED BY <2>2, <3>3
  <2> QED BY <2>1, <2>2
<1> QED BY <1>1, AlwaysOrder, PTL

\* As long as nothing is sent, the events of two connections never mix in the
\* order in which tick() hands them to the application.
THEOREM ConnectionsDoNotMix == Spec => []SocketOrder
<1>1. OrderInv => SocketOrder
  BY DEF OrderInv
<1> QED BY <1>1, AlwaysOrder, PTL

\* A disconnect that onClosed says the other side did not begin is never of
\* the client the transport owns, however late it is delivered.
THEOREM LocalCloseNeverOwned == Spec => []LocalCloseIsUnowned
<1>1. OrderInv => LocalCloseIsUnowned
  BY DEF OrderInv, History, Told, LocalCloseIsUnowned
<1> QED BY <1>1, AlwaysOrder, PTL

\* After ~NWebsocketCppRest no client that it waited for calls a handler.
THEOREM QuietWhenGone == Spec => []QuietAfterDestructor
<1>1. Inv /\ OrderInv => QuietAfterDestructor
  <2> SUFFICES ASSUME Inv, OrderInv, pc = "gone", NEW c \in Clients
               PROVE  \/ ws[c].io = "idle" /\ ws[c].shutdown \in {"none", "done"}
                      \/ ws[c].state # "DESTROYED" /\ sends > 0
    BY DEF QuietAfterDestructor
  <2>1. wsClient = NoClient /\ victim = NoClient /\ c # NoClient
    BY WsppAssumption, OrderFacts DEF Owned
  <2>2. CASE c > created
    BY <2>2 DEF Inv, TypeOK, FreshWs
  <2>3. CASE c <= created
    BY <2>1, <2>3 DEF OrderInv, Owned, Lives, Life
  <2> QED BY <2>2, <2>3, WsppAssumption, OrderFacts
<1> QED BY <1>1, AlwaysOrder, PTL

=============================================================================
