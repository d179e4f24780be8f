----------------------------- MODULE WsppClient -----------------------------
(***************************************************************************)
(* The websocket client object the transport talks to: wspp_callback_client*)
(* of the bundled C++ REST SDK, seen through the four things the transport *)
(* can observe: its state, its two task-completion events (connect, close),*)
(* the threads that call back into the transport, and when its destructor  *)
(* returns.  Each client has an IO thread of its own (m_thread); everything*)
(* else runs on the shared task pool.                                      *)
(*                                                                         *)
(* Every action here only says what happens to the client objects; which   *)
(* lock a step needs and what it does to the transport is in               *)
(* NWebsocketCppRest, which conjoins these actions with its own.           *)
(***************************************************************************)
EXTENDS Naturals

CONSTANTS MaxClients,    (* how many client objects the model may create   *)
          MaxSends,      (* how many sends the application makes           *)
          Frames         (* the kinds of frame servers send                *)

ASSUME WsppAssumption ==
  /\ MaxClients \in Nat \ {0}
  /\ MaxSends \in Nat
  /\ Frames \subseteq {"message", "ping"}

Clients == 1..MaxClients       \* in the order in which they are created
NoClient == 0

VARIABLE ws                    \* the client objects

WsType ==
  [ state     : {"free", "CREATED", "CONNECTING", "CONNECTED", "CLOSING",
                 "CLOSED", "DESTROYED"},
    connectTce: {"unset", "set", "exception"},     \* m_connect_tce
    closeTce  : BOOLEAN,                           \* m_close_tce
    io        : {"idle"} \cup Frames,  \* the IO thread: nothing, or
                                       \* carrying a frame to the handler
    shutdown  : {"none", "join", "handler", "signal", "done"},
    remote    : BOOLEAN,       \* what onClosed computed before it locks
    opening   : BOOLEAN,       \* the continuation of connect() is due
    inFlight  : 0..MaxSends,   \* pool tasks that hold this_client
    failed    : 0..MaxSends,   \* failed sends whose continuation is due
    dtor      : {"none", "connectTce", "closeTce"},
    closedBy  : {"none", "server", "local", "failure"} ]  \* auxiliary

FreshWs ==
  [ state |-> "free", connectTce |-> "unset", closeTce |-> FALSE,
    io |-> "idle", shutdown |-> "none", remote |-> FALSE, opening |-> FALSE,
    inFlight |-> 0, failed |-> 0, dtor |-> "none", closedBy |-> "none" ]

WsInit == ws = [c \in Clients |-> FreshWs]

-----------------------------------------------------------------------------
(* Calls of the owner.                                                     *)

\* close(): starts the closing handshake, but only of an open connection.
Close(r) == IF r.state = "CONNECTED" THEN [r EXCEPT !.state = "CLOSING"] ELSE r

\* Mutant: the destructor does not care about sends in flight.
Release_IgnoresSends(r) == [r EXCEPT !.dtor = "connectTce"]

\* The owner drops its reference.  A send that still runs on the pool holds
\* a reference too, and then the destructor waits for it - on the pool.
Release(r) == IF r.inFlight = 0 THEN [r EXCEPT !.dtor = "connectTce"] ELSE r

Create(c) == [ws EXCEPT ![c].state = "CREATED"]

Connect(c) == [ws EXCEPT ![c].state = "CONNECTING", ![c].opening = TRUE]

\* send() before the connect event is an immediate failure; otherwise the
\* message goes to the pool.
Send(c) ==
  IF ws[c].connectTce = "unset"
  THEN [ws EXCEPT ![c].failed = @ + 1]
  ELSE [ws EXCEPT ![c].inFlight = @ + 1]

Outstanding(c) == ws[c].inFlight + ws[c].failed

-----------------------------------------------------------------------------
(* The IO thread.                                                          *)

Opened(c) ==
  /\ ws[c].state = "CONNECTING"
  /\ ws' = [ws EXCEPT ![c].state = "CONNECTED", ![c].connectTce = "set"]

\* shutdown_wspp_impl hands the rest of the shutdown to the pool.
Shut(c, by) ==
  ws' = [ws EXCEPT ![c].state = "CLOSED", ![c].shutdown = "join",
                   ![c].closedBy = by]

Failed(c) == ws[c].state = "CONNECTING" /\ Shut(c, "failure")

\* The peer closes, or the connection is lost.
RemoteClosed(c) ==
  ws[c].state = "CONNECTED" /\ ws[c].io = "idle" /\ Shut(c, "server")

\* Mutant: the connection is shut while a frame is being handled.
HandshakeDone_AnyTime(c) == ws[c].state = "CLOSING" /\ Shut(c, "local")

\* The closing handshake this side began ends, or times out.
HandshakeDone(c) ==
  ws[c].state = "CLOSING" /\ ws[c].io = "idle" /\ Shut(c, "local")

FrameArrives(c, f) ==
  /\ ws[c].state = "CONNECTED" /\ ws[c].io = "idle"
  /\ ws' = [ws EXCEPT ![c].io = f]

FrameHandled(c) ==
  /\ ws[c].io \in Frames
  /\ ws' = [ws EXCEPT ![c].io = "idle"]

-----------------------------------------------------------------------------
(* The pool.                                                               *)

\* The shutdown task: join the IO thread, fail a connect that never
\* succeeded, run the external close handler, signal the close event.
ShutdownJoin(c, remote) ==
  /\ ws[c].shutdown = "join"
  /\ ws' = [ws EXCEPT ![c].shutdown = "handler", ![c].remote = remote,
                      ![c].connectTce = IF @ = "unset" THEN "exception" ELSE @]

ShutdownHandler(c) ==
  /\ ws[c].shutdown = "handler"
  /\ ws' = [ws EXCEPT ![c].shutdown = "signal"]

ShutdownSignal(c) ==
  /\ ws[c].shutdown = "signal"
  /\ ws' = [ws EXCEPT ![c].shutdown = "done", ![c].closeTce = TRUE]

\* The continuation of connect().
ConnectContinues(c) ==
  /\ ws[c].opening /\ ws[c].connectTce # "unset"
  /\ ws' = [ws EXCEPT ![c].opening = FALSE]

\* A send runs: it fails once the connection is closing, and may fail
\* before.  The last one to end drops the last reference of an unowned client.
SendRuns(c, owned) ==
  /\ ws[c].inFlight > 0
  /\ \E ok \in IF ws[c].state = "CONNECTED" THEN BOOLEAN ELSE {FALSE} :
       LET r == [ws[c] EXCEPT !.inFlight = @ - 1,
                              !.failed = IF ok THEN @ ELSE @ + 1]
       IN  ws' = [ws EXCEPT ![c] = IF owned THEN r ELSE Release(r)]

SendContinues(c) ==
  /\ ws[c].failed > 0
  /\ ws' = [ws EXCEPT ![c].failed = @ - 1]

-----------------------------------------------------------------------------
(* The destructor, on whichever thread dropped the last reference.         *)

\* Mutant: the destructor waits for a close nobody started.
DtorConnect_NoClose(c) ==
  /\ ws[c].dtor = "connectTce"
  /\ \/ /\ ws[c].state = "CREATED"
        /\ ws' = [ws EXCEPT ![c].state = "DESTROYED", ![c].dtor = "none"]
     \/ /\ ws[c].state # "CREATED" /\ ws[c].connectTce # "unset"
        /\ ws' = [ws EXCEPT ![c].dtor = "closeTce"]

\* It first waits until the connect attempt is decided, unless connect()
\* was never reached, and then closes.
DtorConnect(c) ==
  /\ ws[c].dtor = "connectTce"
  /\ \/ /\ ws[c].state = "CREATED"
        /\ ws' = [ws EXCEPT ![c].state = "DESTROYED", ![c].dtor = "none"]
     \/ /\ ws[c].state # "CREATED" /\ ws[c].connectTce # "unset"
        /\ ws' = [ws EXCEPT ![c] = [Close(ws[c]) EXCEPT !.dtor = "closeTce"]]

\* Mutant: the destructor does not wait for the close.
DtorClose_NoWait(c) ==
  /\ ws[c].dtor = "closeTce"
  /\ ws' = [ws EXCEPT ![c].state = "DESTROYED", ![c].dtor = "none"]

\* ... and waits until the shutdown task has signalled the close.
DtorClose(c) ==
  /\ ws[c].dtor = "closeTce" /\ ws[c].closeTce
  /\ ws' = [ws EXCEPT ![c].state = "DESTROYED", ![c].dtor = "none"]

=============================================================================
