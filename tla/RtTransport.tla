----------------------------- MODULE RtTransport -----------------------------
(***************************************************************************)
(* What the realtime client may rely on in its transport, with no word     *)
(* about sockets, threads and locks: NRtTransportInterface as              *)
(* NWebsocketCppRest keeps it.                                             *)
(*                                                                         *)
(*   - connect() and disconnect() let go of the current connection and     *)
(*     return when its end is queued, unless a send in flight keeps it;    *)
(*   - every attempt is answered at most once, by onConnect or an error,   *)
(*     and ends at most once, in either order;                             *)
(*   - messages come only from a connection that has not ended;            *)
(*   - nothing is queued while a callback runs, events are delivered in    *)
(*     the order in which they were queued, and one whose callback threw   *)
(*     is delivered again.                                                 *)
(*                                                                         *)
(* NWebsocketCppRest implements this specification (ImplementsTransport);  *)
(* NRtClient is composed with it.                                          *)
(***************************************************************************)
EXTENDS Naturals, Sequences

CONSTANTS Conns,      (* the attempts connect() may start; 0 is none       *)
          Messages    (* what a server may send                           *)

NoConn == 0
NoMessage == [type |-> "none"]

VARIABLES
  connected,    \* what isConnected() returns
  current,      \* the connection the transport owns
  queue,        \* the events to deliver
  delivering,   \* the callback of the first of them runs
  attempts,     \* the attempts started so far
  unanswered,   \* ... of which neither onConnect nor an error is queued
  live,         \* ... of which the end is not queued
  kept,         \* connections let go of that a send in flight keeps
  sending       \* how many sends of each connection are in flight

links == <<attempts, unanswered, live, kept>>
transport == <<connected, current, queue, delivering, attempts, unanswered,
               live, kept, sending>>

Event(type, c, m) == [type |-> type, conn |-> c, msg |-> m]

Init ==
  /\ connected = FALSE /\ current = NoConn
  /\ queue = <<>> /\ delivering = FALSE
  /\ attempts = {} /\ unanswered = {} /\ live = {} /\ kept = {}
  /\ sending = [c \in Conns |-> 0]

\* The call in progress, if any, has returned: what it let go of has ended.
Returned == live \subseteq {current} \cup kept

-----------------------------------------------------------------------------
(* Calls of the client.                                                    *)

LetGo ==
  /\ current' = NoConn
  /\ kept' \in {kept} \cup IF current \in live /\ sending[current] > 0
                           THEN {kept \cup {current}} ELSE {}

\* connect() begins: the old connection is let go of.
Replace ==
  /\ Returned /\ current # NoConn
  /\ LetGo
  /\ UNCHANGED <<connected, queue, delivering, attempts, unanswered, live, sending>>

\* ... and, when its end is queued, the attempt starts.
Connect(c) ==
  /\ Returned /\ current = NoConn /\ c \in Conns \ attempts
  /\ current' = c
  /\ attempts' = attempts \cup {c}
  /\ unanswered' = unanswered \cup {c} /\ live' = live \cup {c}
  /\ UNCHANGED <<connected, queue, delivering, kept, sending>>

\* ... unless the address is no URI.
BadUrl(c) ==
  /\ Returned /\ current = NoConn /\ ~delivering
  /\ queue' = Append(queue, Event("error", c, NoMessage))
  /\ UNCHANGED <<connected, current, delivering, links, sending>>

\* disconnect(), or tick() after the activity timeout.  Without a connection
\* it may find a client that never connected, or none.
Disconnect ==
  /\ Returned
  /\ IF current = NoConn THEN connected' \in {connected, FALSE} ELSE connected' = FALSE
  /\ LetGo
  /\ UNCHANGED <<queue, delivering, attempts, unanswered, live, sending>>

Send(c) ==
  /\ Returned /\ connected
  /\ sending' = [sending EXCEPT ![c] = @ + 1]
  /\ UNCHANGED <<connected, current, queue, delivering, links>>

-----------------------------------------------------------------------------
(* tick(): events are delivered.                                           *)

Deliver ==
  /\ Returned /\ ~delivering /\ queue # <<>>
  /\ delivering' = TRUE
  /\ connected' = CASE Head(queue).type = "opened" -> TRUE
                    [] Head(queue).type = "closed" -> FALSE
                    [] OTHER -> connected
  /\ UNCHANGED <<current, queue, links, sending>>

DeliverReturns ==
  /\ Returned /\ delivering
  /\ delivering' = FALSE /\ queue' = Tail(queue)
  /\ UNCHANGED <<connected, current, links, sending>>

DeliverThrows ==
  /\ Returned /\ delivering
  /\ delivering' = FALSE
  /\ UNCHANGED <<connected, current, queue, links, sending>>

-----------------------------------------------------------------------------
(* The connections.                                                        *)

Enqueue(e) == ~delivering /\ queue' = Append(queue, e)

\* An attempt is answered, maybe after its end.
Answer(c, type) ==
  /\ c \in unanswered
  /\ unanswered' = unanswered \ {c}
  /\ Enqueue(Event(type, c, NoMessage))
  /\ UNCHANGED <<connected, current, delivering, attempts, live, kept, sending>>

Message(c, m) ==
  /\ c \in live
  /\ Enqueue(Event("message", c, m))
  /\ UNCHANGED <<connected, current, delivering, links, sending>>

End(c) ==
  /\ c \in live
  /\ live' = live \ {c} /\ kept' = kept \ {c}
  /\ Enqueue(Event("closed", c, NoMessage))
  /\ UNCHANGED <<connected, current, delivering, attempts, unanswered, sending>>

\* A send ends; its failure is an error event.
SendEnds(c, ok) ==
  /\ sending[c] > 0
  /\ sending' = [sending EXCEPT ![c] = @ - 1]
  /\ IF ok THEN UNCHANGED queue ELSE Enqueue(Event("error", c, NoMessage))
  /\ UNCHANGED <<connected, current, delivering, links>>

UserStep ==
  \/ Replace \/ Disconnect \/ Deliver \/ DeliverReturns \/ DeliverThrows
  \/ \E c \in Conns : Connect(c) \/ BadUrl(c) \/ Send(c)

ConnStep(c) ==
  \/ \E type \in {"opened", "error"} : Answer(c, type)
  \/ \E m \in Messages : Message(c, m)
  \/ End(c)
  \/ \E ok \in BOOLEAN : SendEnds(c, ok)

Next == UserStep \/ \E c \in Conns : ConnStep(c)

Spec == Init /\ [][Next]_transport

=============================================================================
