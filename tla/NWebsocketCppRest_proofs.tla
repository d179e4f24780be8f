----------------------- MODULE NWebsocketCppRest_proofs -----------------------
(***************************************************************************)
(* What holds of NWebsocketCppRest for any number of clients, frames and   *)
(* sends: its type invariant, and that under Discipline the application's  *)
(* thread never waits, holding _mutex, for something that needs _mutex.    *)
(***************************************************************************)
EXTENDS NWebsocketCppRest, TLAPS

\* onClosed of a client in one of these phases is past its lock.
Past == {"signal", "done"}

\* What a step of client c alone does to the clients.
Moves ==
  /\ ws' \in [Clients -> WsType]
  /\ \A d \in Clients :
       /\ ws[d] = FreshWs => ws'[d] = FreshWs
       /\ ws[d].state # "free" => ws'[d].state # "free"
       /\ ws'[d].inFlight + ws'[d].failed <= ws[d].inFlight + ws[d].failed
       /\ ws[d].shutdown \in Past => ws'[d].shutdown \in Past

LEMMA CloseType ==
  ASSUME NEW r \in WsType
  PROVE  /\ Close(r) \in WsType
         /\ Close(r).inFlight = r.inFlight /\ Close(r).failed = r.failed
         /\ Close(r).shutdown = r.shutdown
         /\ r.state # "free" => Close(r).state # "free"
BY DEF Close, WsType

LEMMA ReleaseType ==
  ASSUME NEW r \in WsType
  PROVE  /\ Release(r) \in WsType
         /\ Release(r).inFlight = r.inFlight /\ Release(r).failed = r.failed
         /\ Release(r).shutdown = r.shutdown /\ Release(r).state = r.state
BY DEF Release, WsType

LEMMA MoveOne ==
  ASSUME ws \in [Clients -> WsType], NEW c \in Clients,
         NEW r \in WsType, ws' = [ws EXCEPT ![c] = r],
         ws[c].state # "free", r.state # "free",
         r.inFlight + r.failed <= ws[c].inFlight + ws[c].failed,
         ws[c].shutdown \in Past => r.shutdown \in Past
  PROVE  Moves
<1>1. ws' \in [Clients -> WsType]
  OBVIOUS
<1>2. ASSUME NEW d \in Clients
      PROVE  /\ ws[d] = FreshWs => ws'[d] = FreshWs
             /\ ws[d].state # "free" => ws'[d].state # "free"
             /\ ws'[d].inFlight + ws'[d].failed <= ws[d].inFlight + ws[d].failed
             /\ ws[d].shutdown \in Past => ws'[d].shutdown \in Past
  <2>1. CASE d = c
    BY <2>1 DEF FreshWs
  <2>2. CASE d # c
    <3>1. ws'[d] = ws[d] /\ ws[d] \in WsType
      BY <2>2
    <3>2. ws[d].inFlight \in Nat /\ ws[d].failed \in Nat
      BY <3>1 DEF WsType
    <3> QED BY <3>1, <3>2
  <2> QED BY <2>1, <2>2
<1> QED BY <1>1, <1>2 DEF Moves

\* The steps of one client that is fresh, or has been created.
LEMMA ClientMoves ==
  ASSUME WsppAssumption, ws \in [Clients -> WsType], NEW c \in Clients,
         IF c > created THEN ws[c] = FreshWs ELSE ws[c].state # "free",
         ws[c].inFlight + ws[c].failed <= MaxSends,
         \/ Opened(c) \/ Failed(c) \/ RemoteClosed(c) \/ HandshakeDone(c)
         \/ ShutdownJoin(c, ~disconnectInitiated) \/ ShutdownHandler(c)
         \/ ShutdownSignal(c) \/ DtorConnect(c) \/ DtorClose(c)
         \/ SendRuns(c, wsClient = c) \/ SendContinues(c)
         \/ ConnectContinues(c) \/ FrameHandled(c)
         \/ \E f \in Frames : FrameArrives(c, f)
  PROVE  Moves
<1> DEFINE r == ws[c]
<1> r \in WsType
  OBVIOUS
<1>0. r.state # "free"
  <2> SUFFICES ASSUME r.state = "free" PROVE FALSE
    OBVIOUS
  <2>1. /\ r.state = "free" /\ r.shutdown = "none" /\ r.dtor = "none"
        /\ r.inFlight = 0 /\ r.failed = 0 /\ ~r.opening /\ r.io = "idle"
    BY DEF FreshWs
  <2>2. ~(\E f \in Frames : FrameArrives(c, f)) /\ ~FrameHandled(c)
    BY <2>1 DEF FrameArrives, FrameHandled, WsppAssumption
  <2>3. ~(Opened(c) \/ Failed(c) \/ RemoteClosed(c) \/ HandshakeDone(c))
    BY <2>1 DEF Opened, Failed, RemoteClosed, HandshakeDone
  <2>4. ~(ShutdownJoin(c, ~disconnectInitiated) \/ ShutdownHandler(c) \/ ShutdownSignal(c))
    BY <2>1 DEF ShutdownJoin, ShutdownHandler, ShutdownSignal
  <2>5. ~(DtorConnect(c) \/ DtorClose(c) \/ ConnectContinues(c))
    BY <2>1 DEF DtorConnect, DtorClose, ConnectContinues
  <2>6. ~(SendRuns(c, wsClient = c) \/ SendContinues(c))
    BY <2>1 DEF SendRuns, SendContinues
  <2> QED BY <2>2, <2>3, <2>4, <2>5, <2>6
<1>1. CASE Opened(c)
  <2> DEFINE q == [r EXCEPT !.state = "CONNECTED", !.connectTce = "set"]
  <2>1. ws' = [ws EXCEPT ![c] = q]
    BY <1>1 DEF Opened
  <2>2. q \in WsType
    BY <1>1 DEF WsType, Opened
  <2>3. /\ q.state # "free"
        /\ q.inFlight + q.failed <= r.inFlight + r.failed
        /\ r.shutdown \in Past => q.shutdown \in Past
    BY <1>0, <1>1 DEF WsType, Past, Opened
  <2> HIDE DEF q
  <2> QED BY <1>0, <2>1, <2>2, <2>3, MoveOne
<1>2. CASE Failed(c)
  <2> DEFINE q == [r EXCEPT !.state = "CLOSED", !.shutdown = "join", !.closedBy = "failure"]
  <2>1. ws' = [ws EXCEPT ![c] = q]
    BY <1>2 DEF Failed, Shut
  <2>2. q \in WsType
    BY <1>2 DEF WsType, Failed, Shut
  <2>3. /\ q.state # "free"
        /\ q.inFlight + q.failed <= r.inFlight + r.failed
        /\ r.shutdown \in Past => q.shutdown \in Past
    BY <1>0, <1>2 DEF WsType, Past, Failed, Shut
  <2> HIDE DEF q
  <2> QED BY <1>0, <2>1, <2>2, <2>3, MoveOne
<1>3. CASE RemoteClosed(c)
  <2> DEFINE q == [r EXCEPT !.state = "CLOSED", !.shutdown = "join", !.closedBy = "server"]
  <2>1. ws' = [ws EXCEPT ![c] = q]
    BY <1>3 DEF RemoteClosed, Shut
  <2>2. q \in WsType
    BY <1>3 DEF WsType, RemoteClosed, Shut
  <2>3. /\ q.state # "free"
        /\ q.inFlight + q.failed <= r.inFlight + r.failed
        /\ r.shutdown \in Past => q.shutdown \in Past
    BY <1>0, <1>3 DEF WsType, Past, RemoteClosed, Shut
  <2> HIDE DEF q
  <2> QED BY <1>0, <2>1, <2>2, <2>3, MoveOne
<1>4. CASE HandshakeDone(c)
  <2> DEFINE q == [r EXCEPT !.state = "CLOSED", !.shutdown = "join", !.closedBy = "local"]
  <2>1. ws' = [ws EXCEPT ![c] = q]
    BY <1>4 DEF HandshakeDone, Shut
  <2>2. q \in WsType
    BY <1>4 DEF WsType, HandshakeDone, Shut
  <2>3. /\ q.state # "free"
        /\ q.inFlight + q.failed <= r.inFlight + r.failed
        /\ r.shutdown \in Past => q.shutdown \in Past
    BY <1>0, <1>4 DEF WsType, Past, HandshakeDone, Shut
  <2> HIDE DEF q
  <2> QED BY <1>0, <2>1, <2>2, <2>3, MoveOne
<1>5. CASE ShutdownJoin(c, ~disconnectInitiated)
  <2> DEFINE q == [r EXCEPT !.shutdown = "handler", !.remote = ~disconnectInitiated,
                     !.connectTce = IF @ = "unset" THEN "exception" ELSE @]
  <2>1. ws' = [ws EXCEPT ![c] = q]
    BY <1>5 DEF ShutdownJoin
  <2>2. q \in WsType
    BY <1>5 DEF WsType, ShutdownJoin
  <2>3. /\ q.state # "free"
        /\ q.inFlight + q.failed <= r.inFlight + r.failed
        /\ r.shutdown \in Past => q.shutdown \in Past
    BY <1>0, <1>5 DEF WsType, Past, ShutdownJoin
  <2> HIDE DEF q
  <2> QED BY <1>0, <2>1, <2>2, <2>3, MoveOne
<1>6. CASE ShutdownHandler(c)
  <2> DEFINE q == [r EXCEPT !.shutdown = "signal"]
  <2>1. ws' = [ws EXCEPT ![c] = q]
    BY <1>6 DEF ShutdownHandler
  <2>2. q \in WsType
    BY <1>6 DEF WsType, ShutdownHandler
  <2>3. /\ q.state # "free"
        /\ q.inFlight + q.failed <= r.inFlight + r.failed
        /\ r.shutdown \in Past => q.shutdown \in Past
    BY <1>0, <1>6 DEF WsType, Past, ShutdownHandler
  <2> HIDE DEF q
  <2> QED BY <1>0, <2>1, <2>2, <2>3, MoveOne
<1>7. CASE ShutdownSignal(c)
  <2> DEFINE q == [r EXCEPT !.shutdown = "done", !.closeTce = TRUE]
  <2>1. ws' = [ws EXCEPT ![c] = q]
    BY <1>7 DEF ShutdownSignal
  <2>2. q \in WsType
    BY <1>7 DEF WsType, ShutdownSignal
  <2>3. /\ q.state # "free"
        /\ q.inFlight + q.failed <= r.inFlight + r.failed
        /\ r.shutdown \in Past => q.shutdown \in Past
    BY <1>0, <1>7 DEF WsType, Past, ShutdownSignal
  <2> HIDE DEF q
  <2> QED BY <1>0, <2>1, <2>2, <2>3, MoveOne
<1>8. CASE ConnectContinues(c)
  <2> DEFINE q == [r EXCEPT !.opening = FALSE]
  <2>1. ws' = [ws EXCEPT ![c] = q]
    BY <1>8 DEF ConnectContinues
  <2>2. q \in WsType
    BY <1>8 DEF WsType, ConnectContinues
  <2>3. /\ q.state # "free"
        /\ q.inFlight + q.failed <= r.inFlight + r.failed
        /\ r.shutdown \in Past => q.shutdown \in Past
    BY <1>0, <1>8 DEF WsType, Past, ConnectContinues
  <2> HIDE DEF q
  <2> QED BY <1>0, <2>1, <2>2, <2>3, MoveOne
<1>9. CASE SendContinues(c)
  <2> DEFINE q == [r EXCEPT !.failed = @ - 1]
  <2>1. ws' = [ws EXCEPT ![c] = q]
    BY <1>9 DEF SendContinues
  <2>2. q \in WsType
    BY <1>9 DEF WsType, SendContinues
  <2>3. /\ q.state # "free"
        /\ q.inFlight + q.failed <= r.inFlight + r.failed
        /\ r.shutdown \in Past => q.shutdown \in Past
    BY <1>0, <1>9 DEF WsType, Past, SendContinues
  <2> HIDE DEF q
  <2> QED BY <1>0, <2>1, <2>2, <2>3, MoveOne
<1>10. CASE FrameHandled(c)
  <2> DEFINE q == [r EXCEPT !.io = "idle"]
  <2>1. ws' = [ws EXCEPT ![c] = q]
    BY <1>10 DEF FrameHandled
  <2>2. q \in WsType
    BY <1>10 DEF WsType, FrameHandled
  <2>3. /\ q.state # "free"
        /\ q.inFlight + q.failed <= r.inFlight + r.failed
        /\ r.shutdown \in Past => q.shutdown \in Past
    BY <1>0, <1>10 DEF WsType, Past, FrameHandled
  <2> HIDE DEF q
  <2> QED BY <1>0, <2>1, <2>2, <2>3, MoveOne
<1>11. CASE DtorClose(c)
  <2> DEFINE q == [r EXCEPT !.state = "DESTROYED", !.dtor = "none"]
  <2>1. ws' = [ws EXCEPT ![c] = q]
    BY <1>11 DEF DtorClose
  <2>2. q \in WsType
    BY <1>11 DEF WsType, DtorClose
  <2>3. /\ q.state # "free"
        /\ q.inFlight + q.failed <= r.inFlight + r.failed
        /\ r.shutdown \in Past => q.shutdown \in Past
    BY <1>0, <1>11 DEF WsType, Past, DtorClose
  <2> HIDE DEF q
  <2> QED BY <1>0, <2>1, <2>2, <2>3, MoveOne
<1>12. CASE \E f \in Frames : FrameArrives(c, f)
  <2> PICK f \in Frames : FrameArrives(c, f)
    BY <1>12
  <2> DEFINE q == [r EXCEPT !.io = f]
  <2>1. ws' = [ws EXCEPT ![c] = q]
    BY DEF FrameArrives
  <2>2. q \in WsType
    BY DEF WsType
  <2>3. /\ q.state # "free"
        /\ q.inFlight + q.failed <= r.inFlight + r.failed
        /\ r.shutdown \in Past => q.shutdown \in Past
    BY <1>0 DEF WsType
  <2> HIDE DEF q
  <2> QED BY <1>0, <2>1, <2>2, <2>3, MoveOne
<1>13. CASE DtorConnect(c)
  <2>1. CASE r.state = "CREATED"
    <3> DEFINE q == [r EXCEPT !.state = "DESTROYED", !.dtor = "none"]
    <3>1. ws' = [ws EXCEPT ![c] = q]
      BY <1>13, <2>1 DEF DtorConnect
    <3>2. q \in WsType
      BY DEF WsType
    <3>3. /\ q.state # "free"
          /\ q.inFlight + q.failed <= r.inFlight + r.failed
          /\ r.shutdown \in Past => q.shutdown \in Past
      BY DEF WsType
    <3> HIDE DEF q
    <3> QED BY <1>0, <3>1, <3>2, <3>3, MoveOne
  <2>2. CASE r.state # "CREATED"
    <3> DEFINE k == Close(r)
               q == [k EXCEPT !.dtor = "closeTce"]
    <3>1. ws' = [ws EXCEPT ![c] = q]
      BY <1>13, <2>2 DEF DtorConnect
    <3>2. /\ k \in WsType /\ k.state # "free"
          /\ k.inFlight = r.inFlight /\ k.failed = r.failed
          /\ k.shutdown = r.shutdown
      BY <1>0, CloseType
    <3> HIDE DEF k
    <3>3. q \in WsType
      BY <3>2 DEF WsType
    <3>4. /\ q.state # "free"
          /\ q.inFlight + q.failed <= r.inFlight + r.failed
          /\ r.shutdown \in Past => q.shutdown \in Past
      BY <3>2 DEF WsType
    <3> HIDE DEF q
    <3> QED BY <1>0, <3>1, <3>3, <3>4, MoveOne
  <2> QED BY <2>1, <2>2
<1>14. CASE SendRuns(c, wsClient = c)
  <2> PICK ok \in BOOLEAN :
        LET k == [r EXCEPT !.inFlight = @ - 1, !.failed = IF ok THEN @ ELSE @ + 1]
        IN  ws' = [ws EXCEPT ![c] = IF wsClient = c THEN k ELSE Release(k)]
    BY <1>14 DEF SendRuns
  <2> DEFINE k == [r EXCEPT !.inFlight = @ - 1, !.failed = IF ok THEN @ ELSE @ + 1]
             q == IF wsClient = c THEN k ELSE Release(k)
  <2>1. ws' = [ws EXCEPT ![c] = q]
    OBVIOUS
  <2>2. r.inFlight > 0 /\ r.inFlight \in 0..MaxSends /\ r.failed \in 0..MaxSends
    BY <1>14 DEF SendRuns, WsType
  <2>3. k \in WsType
    <3>1. /\ r.inFlight - 1 \in 0..MaxSends
          /\ (IF ok THEN r.failed ELSE r.failed + 1) \in 0..MaxSends
      BY <2>2 DEF WsppAssumption
    <3> QED BY <3>1 DEF WsType
  <2>4. /\ k.state # "free" /\ k.shutdown = r.shutdown
        /\ k.inFlight + k.failed <= r.inFlight + r.failed
    BY <1>0, <2>2 DEF WsType
  <2> HIDE DEF k
  <2>5. /\ q \in WsType /\ q.state # "free" /\ q.shutdown = r.shutdown
        /\ q.inFlight + q.failed <= r.inFlight + r.failed
    BY <2>3, <2>4, ReleaseType
  <2> HIDE DEF q
  <2> QED BY <1>0, <2>1, <2>5, MoveOne
<1> QED
  BY <1>1, <1>2, <1>3, <1>4, <1>5, <1>6, <1>7, <1>8, <1>9, <1>10, <1>11,
     <1>12, <1>13, <1>14

-----------------------------------------------------------------------------
(* The inductive invariant.  A call in progress has what it works on, and  *)
(* an event that reports a disconnect was queued by an onClosed that is    *)
(* past its lock: that is why replacing the connection whose disconnect a  *)
(* callback is told of waits for nothing that needs _mutex.                *)

\* The clients' part of TypeOK.
WsOK ==
  /\ ws \in [Clients -> WsType]
  /\ \A c \in Clients :
       /\ ws[c].inFlight + ws[c].failed <= sends
       /\ IF c > created THEN ws[c] = FreshWs ELSE ws[c].state # "free"

CallOK ==
  /\ op = "none" => victim = NoClient
  /\ op = "connect" => wsClient # NoClient
  /\ pc = "drain" => op = "none"

ClosedArePast ==
  \A i \in DOMAIN queue :
    queue[i].type = "closed" => ws[queue[i].client].shutdown \in Past

Inv == TypeOK /\ CallOK /\ ClosedArePast

LEMMA MovesWsOK ==
  ASSUME WsppAssumption, TypeOK, Moves, UNCHANGED <<created, sends>>
  PROVE  WsOK'
<1>1. ASSUME NEW c \in Clients
      PROVE  /\ ws'[c].inFlight + ws'[c].failed <= sends
             /\ IF c > created THEN ws'[c] = FreshWs ELSE ws'[c].state # "free"
  <2>1. /\ ws[c].inFlight + ws[c].failed <= sends
        /\ IF c > created THEN ws[c] = FreshWs ELSE ws[c].state # "free"
    BY DEF TypeOK, Outstanding
  <2>2. /\ ws[c].inFlight \in Nat /\ ws[c].failed \in Nat /\ sends \in Nat
        /\ ws'[c].inFlight \in Nat /\ ws'[c].failed \in Nat
    <3>1. ws[c] \in WsType /\ ws'[c] \in WsType /\ sends \in Nat
      BY DEF TypeOK, Moves, WsppAssumption
    <3> QED BY <3>1 DEF WsType, WsppAssumption
  <2>3. /\ ws[c] = FreshWs => ws'[c] = FreshWs
        /\ ws[c].state # "free" => ws'[c].state # "free"
        /\ ws'[c].inFlight + ws'[c].failed <= ws[c].inFlight + ws[c].failed
    BY DEF Moves
  <2> QED BY <2>1, <2>2, <2>3
<1> QED BY <1>1 DEF WsOK, Moves

\* A step of a client's own threads preserves the invariant.
LEMMA WsStepInv ==
  ASSUME WsppAssumption, NWebsocketAssumption, Inv, NEW c \in Clients, WsStep(c)
  PROVE  Inv'
<1> USE DEF Inv
<1>1. /\ ws \in [Clients -> WsType] /\ ws[c] \in WsType
      /\ IF c > created THEN ws[c] = FreshWs ELSE ws[c].state # "free"
      /\ ws[c].inFlight + ws[c].failed <= MaxSends
  <2>1. ws[c] \in WsType /\ Outstanding(c) <= sends /\ sends \in 0..MaxSends
    BY DEF TypeOK
  <2>2. ws[c].inFlight \in Nat /\ ws[c].failed \in Nat
    BY <2>1 DEF WsType
  <2> QED BY <2>1, <2>2 DEF TypeOK, Outstanding, WsppAssumption
<1>2. Moves
  BY <1>1, ClientMoves DEF WsStep, ClientStep, FrameStep, OnSocketMessage,
     OnOpened, OnClosed, OnSendFailed
<1>3. UNCHANGED notQueue
  BY DEF WsStep, ClientStep, FrameStep, OnSocketMessage, OnOpened, OnClosed,
     OnSendFailed
<1>4. frames' \in 0..MaxFrames
  BY DEF WsStep, ClientStep, FrameStep, OnSocketMessage, OnOpened, OnClosed,
     OnSendFailed, TypeOK, NWebsocketAssumption
<1>5. \/ UNCHANGED queue
      \/ \E e \in EventType :
           /\ ~MutexHeld /\ queue' = Append(queue, e)
           /\ e.type = "closed" => ws'[e.client].shutdown \in Past
  <2>1. CASE ClientStep(c) \/ FrameStep(c)
    BY <2>1 DEF ClientStep, FrameStep
  <2>2. CASE OnSocketMessage(c)
    <3> DEFINE e == Event(ws[c].io, c)
    <3>1. e \in EventType /\ e.type # "closed"
      BY <2>2 DEF OnSocketMessage, FrameHandled, Event, EventType, EventTypes,
         WsppAssumption
    <3>2. ~MutexHeld /\ queue' = Append(queue, e)
      BY <2>2 DEF OnSocketMessage, ExecuteInUserThread
    <3> QED BY <3>1, <3>2
  <2>3. CASE OnOpened(c)
    <3> DEFINE e == Event(IF ws[c].connectTce = "set" THEN "opened" ELSE "error", c)
    <3>1. e \in EventType /\ e.type # "closed"
      BY DEF Event, EventType, EventTypes
    <3>2. ~MutexHeld /\ queue' = Append(queue, e)
      BY <2>3 DEF OnOpened, ExecuteInUserThread
    <3> QED BY <3>1, <3>2
  <2>4. CASE OnSendFailed(c)
    <3> DEFINE e == Event("error", c)
    <3>1. e \in EventType /\ e.type # "closed"
      BY DEF Event, EventType, EventTypes
    <3>2. ~MutexHeld /\ queue' = Append(queue, e)
      BY <2>4 DEF OnSendFailed, ExecuteInUserThread
    <3> QED BY <3>1, <3>2
  <2>5. CASE OnClosed(c)
    <3> DEFINE e == [type |-> "closed", client |-> c, remote |-> ws[c].remote]
    <3>1. e \in EventType
      BY <1>1 DEF EventType, EventTypes, WsType
    <3>2. ~MutexHeld /\ queue' = Append(queue, e)
      BY <2>5 DEF OnClosed, ExecuteInUserThread
    <3>3. ws'[c].shutdown = "signal"
      BY <1>1, <2>5 DEF OnClosed, ShutdownHandler, WsType
    <3> QED BY <3>1, <3>2, <3>3 DEF Past
  <2> QED BY <2>1, <2>2, <2>3, <2>4, <2>5 DEF WsStep
<1>6. queue' \in Seq(EventType) /\ (pc' = "callback" => queue' # <<>>)
  <2>1. /\ queue \in Seq(EventType) /\ (pc = "callback" => queue # <<>>)
        /\ pc' = pc
    BY <1>3 DEF notQueue, user, TypeOK
  <2>2. CASE UNCHANGED queue
    BY <2>1, <2>2
  <2>3. CASE \E e \in EventType : ~MutexHeld /\ queue' = Append(queue, e)
    <3> PICK e \in EventType : ~MutexHeld /\ queue' = Append(queue, e)
      BY <2>3
    <3>1. queue' \in Seq(EventType)
      BY <2>1
    <3>2. pc # "callback"
      BY DEF MutexHeld
    <3> QED BY <2>1, <3>1, <3>2
  <2> QED BY <1>5, <2>2, <2>3
<1>7. TypeOK'
  BY <1>2, <1>3, <1>4, <1>6, MovesWsOK DEF TypeOK, WsOK, Outstanding, notQueue, user
<1>8. CallOK'
  BY <1>3 DEF CallOK, notQueue, user
<1>9. ClosedArePast'
  <2> SUFFICES ASSUME NEW i \in DOMAIN queue', queue'[i].type = "closed"
               PROVE  ws'[queue'[i].client].shutdown \in Past
    BY DEF ClosedArePast
  <2>1. CASE i \in DOMAIN queue /\ queue'[i] = queue[i]
    <3>0. queue \in Seq(EventType)
      BY DEF TypeOK
    <3>1. queue[i].client \in Clients
      <4>1. queue[i] \in EventType
        BY <2>1, <3>0
      <4> QED BY <4>1 DEF EventType
    <3>2. ws[queue[i].client].shutdown \in Past
      BY <2>1 DEF ClosedArePast
    <3> QED BY <1>2, <2>1, <3>1, <3>2 DEF Moves
  <2>2. CASE ~(i \in DOMAIN queue /\ queue'[i] = queue[i])
    <3>1. PICK e \in EventType :
                 /\ queue' = Append(queue, e)
                 /\ e.type = "closed" => ws'[e.client].shutdown \in Past
      BY <1>5, <2>2
    <3>2. queue'[i] = e
      BY <2>2, <3>1 DEF TypeOK
    <3> QED BY <3>1, <3>2
  <2> QED BY <2>1, <2>2
<1> QED BY <1>7, <1>8, <1>9


\* Whatever leaves the queue alone, or pops it, and moves no client's shutdown
\* backwards keeps ClosedArePast.
LEMMA ClosedArePastKept ==
  ASSUME TypeOK, ClosedArePast, queue' = queue \/ (queue # <<>> /\ queue' = Tail(queue)),
         \A d \in Clients : ws[d].shutdown \in Past => ws'[d].shutdown \in Past
  PROVE  ClosedArePast'
<1> SUFFICES ASSUME NEW i \in DOMAIN queue', queue'[i].type = "closed"
             PROVE  ws'[queue'[i].client].shutdown \in Past
  BY DEF ClosedArePast
<1>1. queue \in Seq(EventType)
  BY DEF TypeOK
<1>2. PICK j \in DOMAIN queue : queue'[i] = queue[j]
  <2>1. CASE queue' = queue
    BY <2>1
  <2>2. CASE queue # <<>> /\ queue' = Tail(queue)
    <3>1. i + 1 \in DOMAIN queue /\ queue'[i] = queue[i + 1]
      BY <1>1, <2>2
    <3> QED BY <3>1
  <2> QED BY <2>1, <2>2
<1>3. queue[j] \in EventType
  BY <1>1
<1>4. queue[j].client \in Clients
  BY <1>3 DEF EventType
<1> QED BY <1>2, <1>4 DEF ClosedArePast

\* disconnect(), from wherever it is called.
LEMMA DisconnectingInv ==
  ASSUME WsppAssumption, Inv, NEW o \in {"tick", "disconnect", "destroy"},
         pc # "drain", Disconnecting(o)
  PROVE  Inv'
<1> USE DEF Inv
<1> DEFINE c == wsClient
           k == Close(ws[c])
           r == Release(k)
<1>1. c \in Clients /\ c <= created /\ ws \in [Clients -> WsType]
  BY DEF TypeOK, Disconnecting, NoClient, Clients, WsppAssumption
<1>2. ws' = [ws EXCEPT ![c] = r] /\ victim' \in {c, NoClient}
  BY <1>1 DEF Disconnecting, LetGo
<1>3. ws[c] \in WsType /\ ws[c].state # "free"
  BY <1>1 DEF TypeOK, Clients
<1>4. /\ k \in WsType /\ k.state # "free" /\ k.shutdown = ws[c].shutdown
      /\ k.inFlight = ws[c].inFlight /\ k.failed = ws[c].failed
  BY <1>3, CloseType
<1> HIDE DEF k
<1>5. /\ r \in WsType /\ r.state # "free" /\ r.shutdown = ws[c].shutdown
      /\ r.inFlight = ws[c].inFlight /\ r.failed = ws[c].failed
  BY <1>4, ReleaseType
<1> HIDE DEF r
<1>6. r.inFlight + r.failed <= ws[c].inFlight + ws[c].failed
  BY <1>3, <1>5 DEF WsType
<1>7. Moves
  BY <1>1, <1>2, <1>3, <1>5, <1>6, MoveOne
<1>8. UNCHANGED <<pc, queue, created, fired, frames, sends, throws>>
  BY DEF Disconnecting, counters
<1>9. WsOK'
  BY <1>7, <1>8, MovesWsOK
<1>10. TypeOK'
  <2>1. /\ op' = o /\ connected' = FALSE /\ disconnectInitiated' = TRUE
        /\ wsClient' = 0 /\ victim' \in Clients \cup {NoClient}
    BY <1>1, <1>2 DEF Disconnecting, NoClient
  <2>2. 0 \in 0..created
    BY DEF TypeOK
  <2> QED BY <1>8, <1>9, <2>1, <2>2 DEF TypeOK, WsOK, Outstanding
<1>11. CallOK'
  BY <1>8 DEF CallOK, Disconnecting
<1>12. ClosedArePast'
  BY <1>7, <1>8, ClosedArePastKept DEF Moves
<1> QED BY <1>10, <1>11, <1>12

\* connect() makes a new client and lets go of the old one.
LEMMA ConnectStartInv ==
  ASSUME WsppAssumption, Inv, ConnectStart
  PROVE  Inv'
<1> USE DEF Inv
<1> DEFINE n == created + 1
           c == wsClient
           new == [ws[n] EXCEPT !.state = "CREATED"]
           r == Release(ws[c])
<1>1. /\ n \in Clients /\ created \in 0..MaxClients /\ n # c /\ created < MaxClients
      /\ ws \in [Clients -> WsType] /\ c \in 0..created /\ MaxClients \in Nat
  BY DEF TypeOK, ConnectStart, Clients, WsppAssumption
<1>2. ws[n] = FreshWs /\ ws[n] \in WsType
  BY <1>1 DEF TypeOK
<1>3. /\ new \in WsType /\ new.state # "free" /\ new.inFlight = 0
      /\ new.failed = 0 /\ new.shutdown = "none" /\ FreshWs.shutdown = "none"
  <2>1. /\ FreshWs.inFlight = 0 /\ FreshWs.failed = 0 /\ FreshWs.shutdown = "none"
    BY DEF FreshWs
  <2>2. /\ new \in WsType /\ new.state = "CREATED" /\ new.inFlight = ws[n].inFlight
        /\ new.failed = ws[n].failed /\ new.shutdown = ws[n].shutdown
    BY <1>2 DEF WsType
  <2> QED BY <1>2, <2>1, <2>2
<1> HIDE DEF new
<1>4. \/ c = NoClient /\ victim' = NoClient /\ ws' = [ws EXCEPT ![n] = new]
      \/ /\ c \in Clients /\ victim' \in {c, NoClient}
         /\ ws' = [ws EXCEPT ![n] = new, ![c] = r]
  <2>1. Create(n) = [ws EXCEPT ![n] = new]
    BY DEF Create, new
  <2>2. CASE c = NoClient
    BY <2>1, <2>2 DEF ConnectStart
  <2>3. CASE c # NoClient
    <3>1. c \in Clients
      BY <1>1, <2>3 DEF Clients, NoClient
    <3>2. LetGo(Create(n), c)
      BY <2>3 DEF ConnectStart
    <3>3. Create(n)[c] = ws[c]
      BY <1>1, <2>1, <3>1
    <3> QED BY <2>1, <3>1, <3>2, <3>3 DEF LetGo
  <2> QED BY <2>2, <2>3
<1>5. c \in Clients =>
        /\ ws[c] \in WsType /\ ws[c].state # "free" /\ r \in WsType
        /\ r.state = ws[c].state /\ r.shutdown = ws[c].shutdown
        /\ r.inFlight = ws[c].inFlight /\ r.failed = ws[c].failed
  <2>1. c \in Clients => ws[c] \in WsType /\ ws[c].state # "free"
    BY <1>1 DEF TypeOK
  <2> QED BY <2>1, ReleaseType
<1> HIDE DEF r
<1>6. /\ created' = n /\ wsClient' = n /\ op' = "connect"
      /\ UNCHANGED <<pc, connected, disconnectInitiated, queue, fired, frames, sends, throws>>
  BY DEF ConnectStart, counters
<1>7. ASSUME NEW d \in Clients
      PROVE  /\ ws'[d] \in WsType
             /\ ws'[d].inFlight + ws'[d].failed <= sends
             /\ IF d > n THEN ws'[d] = FreshWs ELSE ws'[d].state # "free"
             /\ ws[d].shutdown \in Past => ws'[d].shutdown \in Past
  <2>1. /\ ws[d] \in WsType /\ ws[d].inFlight + ws[d].failed <= sends
        /\ IF d > created THEN ws[d] = FreshWs ELSE ws[d].state # "free"
        /\ sends \in Nat /\ d \in Nat /\ created \in Nat
    BY <1>1 DEF TypeOK, Outstanding, Clients, WsppAssumption
  <2>2. CASE d = n
    <3>1. ws'[d] = new
      BY <1>1, <1>4, <2>2
    <3> QED BY <1>2, <1>3, <2>1, <2>2, <3>1 DEF Past
  <2>3. CASE d = c /\ d # n
    <3>1. ws'[d] = r
      BY <1>1, <1>4, <2>3 DEF NoClient, Clients
    <3> QED BY <1>1, <1>5, <2>1, <2>3, <3>1
  <2>4. CASE d # c /\ d # n
    <3>1. ws'[d] = ws[d]
      BY <1>1, <1>4, <2>4
    <3> QED BY <2>1, <2>4, <3>1
  <2> QED BY <2>2, <2>3, <2>4
<1>8. ws' \in [Clients -> WsType]
  <2>1. ws' = [d \in Clients |-> ws'[d]]
    BY <1>1, <1>4
  <2> QED BY <1>7, <2>1
<1>9. TypeOK'
  BY <1>1, <1>4, <1>6, <1>7, <1>8 DEF TypeOK, Outstanding, NoClient
<1>10. CallOK'
  BY <1>1, <1>6 DEF CallOK, NoClient, ConnectStart, MayCall
<1>11. ClosedArePast'
  BY <1>6, <1>7, ClosedArePastKept
<1> QED BY <1>9, <1>10, <1>11


LEMMA ConnectGoInv ==
  ASSUME WsppAssumption, Inv, ConnectGo
  PROVE  Inv'
<1> USE DEF Inv
<1> DEFINE c == wsClient
           r == [ws[c] EXCEPT !.state = "CONNECTING", !.opening = TRUE]
<1>1. c \in Clients /\ c <= created /\ ws \in [Clients -> WsType]
  BY DEF TypeOK, CallOK, ConnectGo, NoClient, Clients, WsppAssumption
<1>2. ws[c] \in WsType /\ ws[c].state # "free"
  BY <1>1 DEF TypeOK, Clients
<1>3. ws' = [ws EXCEPT ![c] = r]
  BY DEF ConnectGo, Connect
<1>4. /\ r \in WsType /\ r.state # "free" /\ r.shutdown = ws[c].shutdown
      /\ r.inFlight + r.failed <= ws[c].inFlight + ws[c].failed
  <2>1. /\ r \in WsType /\ r.state # "free" /\ r.shutdown = ws[c].shutdown
        /\ r.inFlight = ws[c].inFlight /\ r.failed = ws[c].failed
    BY <1>2 DEF WsType
  <2>2. ws[c].inFlight \in Nat /\ ws[c].failed \in Nat
    BY <1>2 DEF WsType
  <2> QED BY <2>1, <2>2
<1> HIDE DEF r
<1>5. Moves
  BY <1>1, <1>2, <1>3, <1>4, MoveOne
<1>6. /\ UNCHANGED <<pc, connected, wsClient, queue, created, fired, frames, sends, throws>>
      /\ disconnectInitiated' = FALSE /\ op' = "none" /\ victim' = NoClient
  BY DEF ConnectGo, counters
<1>7. TypeOK'
  BY <1>5, <1>6, MovesWsOK DEF TypeOK, WsOK, Outstanding
<1>8. ClosedArePast'
  BY <1>5, <1>6, ClosedArePastKept DEF Moves
<1> QED BY <1>6, <1>7, <1>8 DEF CallOK

LEMMA ConnectBadUrlInv ==
  ASSUME WsppAssumption, Inv, ConnectBadUrl
  PROVE  Inv'
<1> USE DEF Inv
<1> DEFINE e == Event("error", wsClient)
<1>1. wsClient \in Clients
  BY DEF TypeOK, CallOK, ConnectBadUrl, NoClient, Clients, WsppAssumption
<1>2. e \in EventType /\ e.type = "error"
  BY <1>1 DEF Event, EventType, EventTypes
<1> HIDE DEF e
<1>3. /\ UNCHANGED <<ws, pc, connected, wsClient, created, fired, frames, sends, throws>>
      /\ disconnectInitiated' = FALSE /\ victim' = NoClient
      /\ \/ queue' = Append(queue, e) /\ op' = "none" /\ ~MutexHeld
         \/ queue' = queue /\ op' = "lock" /\ MutexHeld
  BY DEF ConnectBadUrl, counters, e
<1>4. queue \in Seq(EventType)
  BY DEF TypeOK
<1>5. queue' \in Seq(EventType) /\ (pc' = "callback" => queue' # <<>>)
  <2>1. pc = "callback" => queue # <<>> /\ MutexHeld
    BY DEF TypeOK, MutexHeld
  <2> QED BY <1>2, <1>3, <1>4, <2>1
<1>6. TypeOK'
  BY <1>3, <1>5 DEF TypeOK, Outstanding
<1>7. CallOK'
  BY <1>3 DEF CallOK, ConnectBadUrl
<1>8. ClosedArePast'
  <2> SUFFICES ASSUME NEW i \in DOMAIN queue', queue'[i].type = "closed"
               PROVE  ws'[queue'[i].client].shutdown \in Past
    BY DEF ClosedArePast
  <2>1. i \in DOMAIN queue /\ queue'[i] = queue[i]
    BY <1>2, <1>3, <1>4
  <2> QED BY <1>3, <2>1 DEF ClosedArePast
<1> QED BY <1>6, <1>7, <1>8

LEMMA SendDataInv ==
  ASSUME WsppAssumption, Inv, SendData
  PROVE  Inv'
<1> USE DEF Inv
<1> DEFINE c == wsClient
           r == IF ws[c].connectTce = "unset"
                THEN [ws[c] EXCEPT !.failed = @ + 1]
                ELSE [ws[c] EXCEPT !.inFlight = @ + 1]
<1>1. /\ c \in Clients /\ c <= created /\ ws \in [Clients -> WsType]
      /\ sends \in 0..MaxSends /\ sends < MaxSends /\ MaxSends \in Nat
  BY DEF TypeOK, SendData, NoClient, Clients, WsppAssumption
<1>2. ws[c] \in WsType /\ ws[c].state # "free" /\ ws[c].inFlight + ws[c].failed <= sends
  BY <1>1 DEF TypeOK, Clients, Outstanding
<1>3. ws' = [ws EXCEPT ![c] = r]
  BY DEF SendData, Send
<1>4. /\ r \in WsType /\ r.state # "free" /\ r.shutdown = ws[c].shutdown
      /\ r.inFlight + r.failed <= sends + 1
  <2>1. ws[c].inFlight \in 0..MaxSends /\ ws[c].failed \in 0..MaxSends
    BY <1>2 DEF WsType
  <2>2. ws[c].inFlight + 1 \in 0..MaxSends /\ ws[c].failed + 1 \in 0..MaxSends
    BY <1>1, <1>2, <2>1
  <2> QED BY <1>1, <1>2, <2>1, <2>2 DEF WsType
<1> HIDE DEF r
<1>5. /\ UNCHANGED <<pc, op, victim, connected, disconnectInitiated, wsClient,
                     queue, created, fired, frames, throws>>
      /\ sends' = sends + 1
  BY DEF SendData, user, transport
<1>6. ASSUME NEW d \in Clients
      PROVE  /\ ws'[d].inFlight + ws'[d].failed <= sends'
             /\ IF d > created THEN ws'[d] = FreshWs ELSE ws'[d].state # "free"
             /\ ws'[d].shutdown = ws[d].shutdown
  <2>1. /\ ws[d] \in WsType /\ ws[d].inFlight + ws[d].failed <= sends
        /\ IF d > created THEN ws[d] = FreshWs ELSE ws[d].state # "free"
        /\ d \in Nat /\ created \in Nat
    BY <1>1 DEF TypeOK, Outstanding, Clients
  <2>2. ws[d].inFlight \in Nat /\ ws[d].failed \in Nat
    BY <2>1 DEF WsType
  <2>3. CASE d = c
    BY <1>1, <1>3, <1>4, <1>5, <2>1, <2>3
  <2>4. CASE d # c
    BY <1>1, <1>3, <1>5, <2>1, <2>2, <2>4
  <2> QED BY <2>3, <2>4
<1>7. ws' \in [Clients -> WsType] /\ sends' \in 0..MaxSends
  BY <1>1, <1>3, <1>4, <1>5
<1>8. TypeOK'
  BY <1>5, <1>6, <1>7 DEF TypeOK, Outstanding
<1>9. ClosedArePast'
  BY <1>5, <1>6, ClosedArePastKept
<1> QED BY <1>5, <1>8, <1>9 DEF CallOK

\* What is left when the front of a queue is popped.
LEMMA TailInSeq ==
  ASSUME NEW S, NEW s \in Seq(S), s # <<>>
  PROVE  Tail(s) \in Seq(S)
OBVIOUS

\* The steps of the application's thread that leave the clients alone.
LEMMA QuietInv ==
  ASSUME NWebsocketAssumption, Inv,
         \/ TickLock \/ Fire \/ CallbackReturns \/ CallbackThrows \/ TickUnlock
         \/ DisconnectReturns \/ DestroyReturns
         \/ wsClient = NoClient /\ Destroy
         \/ UNCHANGED vars
  PROVE  Inv'
<1> USE DEF Inv
<1>0. /\ queue \in Seq(EventType) /\ fired \in Seq(EventType)
      /\ \A d \in Clients : Outstanding(d) <= sends
  BY DEF TypeOK
<1>1. UNCHANGED <<ws, created, frames, sends>>
  BY DEF TickLock, Fire, CallbackReturns, CallbackThrows, TickUnlock,
     DisconnectReturns, DestroyReturns, Destroy, counters, vars
<1>2. queue' = queue \/ (queue # <<>> /\ queue' = Tail(queue))
  BY DEF TickLock, Fire, CallbackReturns, CallbackThrows, TickUnlock,
     DisconnectReturns, DestroyReturns, Destroy, transport, vars, TypeOK
<1>3. \/ fired' = fired
      \/ queue # <<>> /\ fired' = Append(fired, Head(queue))
      \/ fired' = SubSeq(fired, 1, Len(fired) - 1)
  BY DEF TickLock, Fire, CallbackReturns, CallbackThrows, TickUnlock,
     DisconnectReturns, DestroyReturns, Destroy, vars
<1>4. queue' \in Seq(EventType) /\ fired' \in Seq(EventType)
  <2>1. queue' \in Seq(EventType)
    <3> HIDE DEF Inv
    <3>1. queue # <<>> => Tail(queue) \in Seq(EventType)
      BY <1>0, TailInSeq
    <3> QED BY <1>0, <1>2, <3>1
  <2>2. queue # <<>> => Head(queue) \in EventType
    BY <1>0
  <2>3. CASE queue # <<>> /\ fired' = Append(fired, Head(queue))
    <3>1. Head(queue) \in EventType
      BY <2>2, <2>3
    <3> DEFINE e == Head(queue)
    <3> HIDE DEF e
    <3>2. fired' = Append(fired, e) /\ e \in EventType
      BY <2>3, <3>1 DEF e
    <3>3. fired' \in Seq(EventType)
      BY <1>0, <3>2
    <3> QED BY <2>1, <3>3
  <2>4. CASE fired' = fired
    BY <1>0, <2>1, <2>4
  <2>5. CASE fired' = SubSeq(fired, 1, Len(fired) - 1)
    <3>1. SubSeq(fired, 1, Len(fired) - 1) \in Seq(EventType)
      <4> HIDE DEF Inv
      <4> QED BY <1>0
    <3> QED BY <2>1, <2>5, <3>1
  <2> QED BY <1>3, <2>3, <2>4, <2>5
<1>5. /\ pc' \in {"idle", "drain", "callback", "gone"}
      /\ op' \in {"none", "tick", "connect", "disconnect", "destroy", "lock"}
      /\ pc' = "callback" => queue' # <<>>
      /\ victim' \in Clients \cup {NoClient} /\ wsClient' = wsClient
      /\ connected' \in BOOLEAN /\ disconnectInitiated' \in BOOLEAN
      /\ throws' \in 0..MaxThrows
      /\ op' = "none" => victim' = NoClient
      /\ op' = "connect" => wsClient' # NoClient
      /\ pc' = "drain" => op' = "none"
  <2>1. CASE TickLock
    BY <2>1 DEF TickLock, transport, counters, TypeOK, CallOK
  <2>2. CASE Fire
    BY <2>2 DEF Fire, counters, TypeOK, CallOK
  <2>3. CASE CallbackReturns
    BY <2>3 DEF CallbackReturns, counters, TypeOK, CallOK
  <2>4. CASE CallbackThrows
    BY <2>4 DEF CallbackThrows, transport, TypeOK, CallOK, NWebsocketAssumption
  <2>5. CASE TickUnlock
    BY <2>5 DEF TickUnlock, transport, counters, TypeOK, CallOK
  <2>6. CASE DisconnectReturns
    BY <2>6 DEF DisconnectReturns, transport, counters, TypeOK, CallOK
  <2>7. CASE DestroyReturns
    BY <2>7 DEF DestroyReturns, transport, counters, TypeOK, CallOK
  <2>8. CASE wsClient = NoClient /\ Destroy
    BY <2>8 DEF Destroy, MayCall, transport, counters, TypeOK, CallOK
  <2>9. CASE UNCHANGED vars
    BY <2>9 DEF vars, TypeOK, CallOK
  <2> QED BY <2>1, <2>2, <2>3, <2>4, <2>5, <2>6, <2>7, <2>8, <2>9
<1>6. TypeOK'
  BY <1>1, <1>4, <1>5 DEF TypeOK, Outstanding
<1>7. ClosedArePast'
  BY <1>1, <1>2, ClosedArePastKept
<1> QED BY <1>5, <1>6, <1>7 DEF CallOK

LEMMA InitInv ==
  ASSUME WsppAssumption, NWebsocketAssumption, Init
  PROVE  Inv
<1>1. FreshWs \in WsType
  BY DEF FreshWs, WsType, WsppAssumption
<1>2. ws \in [Clients -> WsType] /\ \A c \in Clients : ws[c] = FreshWs
  BY <1>1 DEF Init, WsInit
<1>3. \A c \in Clients : Outstanding(c) <= sends /\ c > created
  BY <1>2 DEF Init, Outstanding, FreshWs, Clients
<1>4. TypeOK
  <2>1. /\ 0 \in 0..MaxClients /\ 0 \in 0..MaxFrames /\ 0 \in 0..MaxSends
        /\ 0 \in 0..MaxThrows /\ 0 \in 0..0
    BY DEF WsppAssumption, NWebsocketAssumption
  <2>2. <<>> \in Seq(EventType)
    OBVIOUS
  <2> QED BY <1>2, <1>3, <2>1, <2>2 DEF Init, TypeOK, NoClient
<1> QED BY <1>4 DEF Inv, Init, CallOK, ClosedArePast, NoClient

LEMMA StepInv ==
  ASSUME WsppAssumption, NWebsocketAssumption, Inv, [Next]_vars
  PROVE  Inv'
<1>1. ASSUME NEW c \in Clients, WsStep(c) PROVE Inv'
  BY <1>1, WsStepInv
<1>2. CASE TickTimeout
  BY <1>2, DisconnectingInv DEF TickTimeout
<1>3. CASE Disconnect
  BY <1>3, DisconnectingInv DEF Disconnect, MayCall
<1>4. CASE Destroy
  BY <1>4, DisconnectingInv, QuietInv DEF Destroy, MayCall
<1>5. CASE ConnectStart
  BY <1>5, ConnectStartInv
<1>6. CASE ConnectGo
  BY <1>6, ConnectGoInv
<1>7. CASE ConnectBadUrl
  BY <1>7, ConnectBadUrlInv
<1>8. CASE SendData
  BY <1>8, SendDataInv
<1>9. CASE \/ TickLock \/ Fire \/ CallbackReturns \/ CallbackThrows \/ TickUnlock
           \/ DisconnectReturns \/ DestroyReturns \/ UNCHANGED vars
  BY <1>9, QuietInv
<1>10. CASE Gone
  BY <1>10, QuietInv DEF Gone
<1> QED
  BY <1>1, <1>2, <1>3, <1>4, <1>5, <1>6, <1>7, <1>8, <1>9, <1>10
  DEF Next, UserStep

-----------------------------------------------------------------------------
(* Theorems                                                                *)

THEOREM AlwaysInv == Spec => []Inv
<1>1. Init => Inv
  BY InitInv, WsppAssumption, NWebsocketAssumption
<1>2. Inv /\ [Next]_vars => Inv'
  BY StepInv, WsppAssumption, NWebsocketAssumption
<1> QED BY <1>1, <1>2, PTL DEF Spec

\* The transport's variables keep their types, whatever the application calls
\* and wherever it calls it (NWebsocketCppRest.cpp and ws_client_wspp.cpp).
THEOREM TypeCorrect == Spec => []TypeOK
<1>1. Inv => TypeOK
  BY DEF Inv
<1> QED BY <1>1, AlwaysInv, PTL

\* A callback that connects was not given an address that does not parse.
Safe == NoHoldAndWait /\ (op = "connect" /\ pc = "callback" => ~BadUrls)

\* An application that keeps to Discipline never makes tick() wait for
\* something that needs the mutex tick() holds: any number of connections,
\* frames, sends, timeouts and exceptions later, a destructor awaited in a
\* callback belongs to a client whose onClosed is past its lock.
THEOREM NoSelfDeadlock ==
  ASSUME Discipline
  PROVE  Spec => []NoHoldAndWait
<1>1. Init => Safe
  BY DEF Init, Safe, NoHoldAndWait, MutexHeld
<1>2. Inv /\ Safe /\ [Next]_vars => Safe'
  <2> SUFFICES ASSUME Inv, Safe, [Next]_vars PROVE Safe'
    OBVIOUS
  <2> USE DEF Inv
  <2>0. queue # <<>> => Head(queue).type \in EventTypes
    <3>1. queue # <<>> => Head(queue) \in EventType
      BY DEF TypeOK
    <3> QED BY <3>1 DEF EventType
  <2>1. ASSUME NEW c \in Clients, WsStep(c) PROVE Safe'
    <3>1. UNCHANGED <<pc, op, victim>>
      BY <2>1 DEF WsStep, ClientStep, FrameStep, OnSocketMessage, OnOpened,
         OnClosed, OnSendFailed, notQueue, user
    <3>2. Moves
      <4>1. /\ ws \in [Clients -> WsType] /\ ws[c] \in WsType
            /\ IF c > created THEN ws[c] = FreshWs ELSE ws[c].state # "free"
            /\ Outstanding(c) <= sends /\ sends \in 0..MaxSends
        BY DEF TypeOK
      <4>2. ws[c].inFlight \in Nat /\ ws[c].failed \in Nat
        BY <4>1 DEF WsType
      <4>3. ws[c].inFlight + ws[c].failed <= MaxSends
        BY <4>1, <4>2, WsppAssumption DEF Outstanding, WsppAssumption
      <4> QED BY <2>1, <4>1, <4>3, ClientMoves, WsppAssumption
              DEF WsStep, ClientStep, FrameStep, OnSocketMessage, OnOpened,
                  OnClosed, OnSendFailed
    <3>3. victim # NoClient => victim \in Clients
      BY DEF TypeOK
    <3> QED BY <3>1, <3>2, <3>3 DEF Safe, NoHoldAndWait, MutexHeld, Moves, Past
  <2>2. ASSUME NEW o \in {"tick", "disconnect", "destroy"}, Disconnecting(o),
               pc = "idle"
        PROVE  Safe'
    BY <2>2 DEF Disconnecting, Safe, NoHoldAndWait, MutexHeld
  <2>3. CASE TickTimeout
    BY <2>2, <2>3 DEF TickTimeout
  <2>4. CASE Disconnect
    <3>1. pc = "idle"
      BY <2>0, <2>4 DEF Disconnect, MayCall, Discipline, TypeOK
    <3> QED BY <2>2, <2>4, <3>1 DEF Disconnect
  <2>5. CASE Destroy
    <3>1. pc = "idle"
      BY <2>0, <2>5, NWebsocketAssumption
      DEF Destroy, MayCall, NWebsocketAssumption, TypeOK
    <3>2. CASE wsClient = NoClient
      BY <2>5, <3>1, <3>2 DEF Destroy, Safe, NoHoldAndWait, MutexHeld
    <3> QED BY <2>2, <2>5, <3>1, <3>2 DEF Destroy
  <2>6. CASE ConnectStart
    <3>1. op' = "connect" /\ pc' = pc
      BY <2>6 DEF ConnectStart
    <3>2. pc = "callback" => ~BadUrls
      BY <2>0, <2>6 DEF ConnectStart, MayCall, Discipline, TypeOK
    <3>3. ASSUME pc = "callback", victim' # NoClient
          PROVE  ws'[victim'].shutdown \in Past
      <4>1. /\ wsClient # NoClient /\ victim' = wsClient
            /\ Head(queue).type = "closed" /\ Head(queue).client = wsClient
            /\ queue # <<>>
        BY <2>6, <3>3 DEF ConnectStart, MayReplace, Discipline, LetGo, TypeOK
      <4>2. queue \in Seq(EventType) /\ Head(queue) = queue[1] /\ 1 \in DOMAIN queue
        BY <4>1 DEF TypeOK
      <4>3. ws[wsClient].shutdown \in Past
        BY <4>1, <4>2 DEF ClosedArePast
      <4>4. /\ wsClient \in Clients /\ created + 1 \in Clients
            /\ wsClient # created + 1 /\ ws \in [Clients -> WsType]
        BY <2>6, <4>1, WsppAssumption
        DEF ConnectStart, TypeOK, Clients, NoClient, WsppAssumption
      <4>5. ws' = [Create(created + 1) EXCEPT ![wsClient] = Release(@)]
        BY <2>6, <4>1 DEF ConnectStart, LetGo
      <4>6. ws'[wsClient] = Release(ws[wsClient])
        BY <4>4, <4>5 DEF Create
      <4>7. ws[wsClient] \in WsType
        BY <4>4
      <4> QED BY <4>1, <4>3, <4>6, <4>7, ReleaseType
    <3>4. pc # "drain"
      BY <2>6 DEF ConnectStart, MayCall
    <3> QED BY <3>1, <3>2, <3>3, <3>4 DEF Safe, NoHoldAndWait, MutexHeld, Past
  <2>7. CASE ConnectBadUrl
    BY <2>7 DEF ConnectBadUrl, Safe, NoHoldAndWait, MutexHeld, CallOK
  <2>8. CASE ConnectGo \/ DisconnectReturns \/ DestroyReturns \/ TickLock
    BY <2>8 DEF ConnectGo, DisconnectReturns, DestroyReturns, TickLock, Safe,
       NoHoldAndWait, MutexHeld
  <2>9. CASE Fire \/ CallbackReturns \/ CallbackThrows \/ TickUnlock
    <3>1. op = "none"
      BY <2>9 DEF Fire, CallbackReturns, CallbackThrows, TickUnlock, CallOK
    <3>2. op' = op /\ victim' = victim
      BY <2>9 DEF Fire, CallbackReturns, CallbackThrows, TickUnlock
    <3> QED BY <3>1, <3>2 DEF Safe, NoHoldAndWait, CallOK
  <2>10. CASE SendData
    <3>1. op = "none" /\ UNCHANGED <<op, victim>>
      BY <2>10 DEF SendData, MayCall, user
    <3> QED BY <3>1 DEF Safe, NoHoldAndWait, CallOK
  <2>11. CASE Gone \/ UNCHANGED vars
    BY <2>11 DEF Gone, vars, Safe, NoHoldAndWait, MutexHeld
  <2> QED
    BY <2>1, <2>3, <2>4, <2>5, <2>6, <2>7, <2>8, <2>9, <2>10, <2>11
    DEF Next, UserStep
<1>3. Safe => NoHoldAndWait
  BY DEF Safe
<1> QED BY <1>1, <1>2, <1>3, AlwaysInv, PTL DEF Spec

=============================================================================
