------------------------------ MODULE NRtClient ------------------------------
(***************************************************************************)
(* The realtime client: it numbers the requests the application makes      *)
(* (_nextCid), keeps a context for each that is not answered               *)
(* (_reqContexts) and, in tick(), matches the messages the transport hands *)
(* it with their contexts.                                                 *)
(*                                                                         *)
(* All of it runs on the application's thread, but callbacks run before    *)
(* the context they belong to is erased and may call the client again, so  *)
(* the state between two steps includes the stack of callbacks in progress.*)
(* The transport is RtTransport, which NWebsocketCppRest implements: a step*)
(* here that calls it, or that it calls, is conjoined with its own action. *)
(***************************************************************************)
EXTENDS Naturals, Sequences, FiniteSets

CONSTANTS
  MaxRequests,    (* requests the application makes                        *)
  ResetAbove,     (* _nextCid starts over above this value: 9 in the code  *)
  MaxDepth,       (* callbacks nested in callbacks                         *)
  MaxConnects,    (* calls of connect()                                    *)
  MaxPushes,      (* messages the server sends of its own accord           *)
  MaxData,        (* match data the application sends                      *)
  Formats,        (* the protocols connect() may choose                    *)
  UserCalls,      (* what the application calls outside callbacks          *)
  CallbackCalls   (* what it calls in callbacks                            *)

Calls == {"request", "sendMatchData", "connect", "disconnect"}

ASSUME NRtClientAssumption ==
  /\ MaxRequests \in Nat /\ ResetAbove \in Nat /\ MaxDepth \in Nat \ {0}
  /\ MaxConnects \in Nat /\ MaxPushes \in Nat /\ MaxData \in Nat
  /\ Formats # {} /\ "none" \notin Formats
  /\ UserCalls \subseteq Calls /\ CallbackCalls \subseteq Calls

Requests == 1..MaxRequests
NoRequest == 0
Cids == 0..MaxRequests

VARIABLES
  contexts,     \* _reqContexts: the request each cid stands for
  nextCid,      \* _nextCid
  protocol,     \* _protocol
  stack,        \* the callbacks in progress, the innermost last
  isConnected, current, queue, attempts, unanswered, live, kept, sending,
                \* the transport: the variables of RtTransport
  atServer,     \* the requests the server has received and not answered
  issued, connects, pushes, data,  \* auxiliary: how many of each so far
  outcome,      \* auxiliary: what the application was told of each request
  replied       \* auxiliary: the requests answered with success

client == <<contexts, nextCid, protocol>>
transport == <<isConnected, current, queue, attempts, unanswered, live, kept, sending>>
counters == <<issued, connects, pushes, data>>
vars == <<contexts, nextCid, protocol, stack, isConnected, current, queue, attempts,
          unanswered, live, kept, sending, atServer, issued, connects, pushes,
          data, outcome, replied>>

\* What a server sends: the reply to a request, which carries its cid and, for
\* the properties, the request itself; a message of its own accord (a push),
\* or one that does not parse.
MessageType ==
  [ type : {"reply"}, cid : Cids, req : Requests, ok : BOOLEAN,
    format : Formats ] \cup [ type : {"push", "garbage"} ]

\* In progress: the callback of a transport event, of the reply to cid, of the
\* internal error of cid - after which send() may drop the connection - and
\* the transport's connect().
FrameType ==
  [kind : {"event", "reply", "fail", "connect"}, cid : Cids, drop : BOOLEAN]

Frame(kind, cid, drop) == [kind |-> kind, cid |-> cid, drop |-> drop]

\* A callback that the transport's tick() runs is in progress.
Delivering == stack # <<>> /\ stack[1].kind \in {"event", "reply"}

Transport == INSTANCE RtTransport WITH
  Conns <- 1..MaxConnects,
  Messages <- MessageType,
  connected <- isConnected,
  delivering <- Delivering

NoConn == Transport!NoConn

Init ==
  /\ contexts = [c \in Cids |-> NoRequest]
  /\ nextCid = 0 /\ protocol = "none" /\ stack = <<>>
  /\ isConnected = FALSE /\ current = NoConn /\ queue = <<>>
  /\ attempts = {} /\ unanswered = {} /\ live = {} /\ kept = {}
  /\ sending = [c \in 1..MaxConnects |-> 0]
  /\ atServer = {}
  /\ issued = 0 /\ connects = 0 /\ pushes = 0 /\ data = 0
  /\ outcome = [r \in Requests |-> "new"] /\ replied = {}

-----------------------------------------------------------------------------
(* Calls of the application.                                               *)

Top == stack[Len(stack)]
Pop == SubSeq(stack, 1, Len(stack) - 1)

\* The application's code runs, so the transport's last call has returned.
MayCall(a) ==
  /\ Transport!Returned
  /\ \/ stack = <<>> /\ a \in UserCalls
     \/ /\ stack # <<>> /\ Top.kind # "connect"
        /\ Len(stack) < MaxDepth /\ a \in CallbackCalls

\* A callback of the transport does not let go of a connection that still
\* lives: the transport would wait for itself (NWebsocketCppRest, Discipline).
MayLetGo == Delivering => current \notin live

Pending == {c \in Cids : contexts[c] # NoRequest}

\* Mutant: the numbering starts over although requests are pending.
FreshCid_AlwaysResets == IF nextCid > ResetAbove THEN 0 ELSE nextCid

\* The number createReqContext gives the next request.
FreshCid ==
  IF Pending = {} /\ nextCid > ResetAbove THEN 0 ELSE nextCid

\* Mutant: the number is taken one too far.
CreateReqContext_SkipsNumber(r) ==
  /\ contexts' = [contexts EXCEPT ![FreshCid] = IF @ = NoRequest THEN r ELSE @]
  /\ nextCid' = FreshCid + 2

\* createReqContext: emplace does not replace a context that is there.
CreateReqContext(r) ==
  /\ contexts' = [contexts EXCEPT ![FreshCid] = IF @ = NoRequest THEN r ELSE @]
  /\ nextCid' = FreshCid + 1

\* A request is serialized and sent: rpc, joinChat, createMatch, ...  It may
\* be lost on the way.  A transport that is connected without a connection of
\* its own (NWebsocketCppRest, SendData) is not sent to.
Request ==
  /\ MayCall("request") /\ issued < MaxRequests /\ current # NoConn
  /\ LET r == issued + 1 IN
       /\ CreateReqContext(r)
       /\ issued' = r
       /\ outcome' = [outcome EXCEPT ![r] = "pending"]
       /\ \/ UNCHANGED atServer
          \/ /\ current \in live
             /\ atServer' = atServer \cup
                   {[cid |-> FreshCid, req |-> r, format |-> protocol, conn |-> current]}
  /\ UNCHANGED stack
  /\ Transport!Send(current)
  /\ UNCHANGED <<protocol, connects, pushes, data, replied>>

\* A request that cannot be sent: not connected, or it does not serialize, or
\* the transport refuses it - outside its tick().  reqInternalError calls back
\* at once.
RequestFails ==
  /\ MayCall("request") /\ issued < MaxRequests
  /\ LET r == issued + 1 IN
       /\ CreateReqContext(r)
       /\ issued' = r
       /\ outcome' = [outcome EXCEPT ![r] = "error"]
       /\ \E drop \in IF isConnected /\ ~Delivering THEN BOOLEAN ELSE {FALSE} :
            stack' = Append(stack, Frame("fail", FreshCid, drop))
  /\ UNCHANGED <<protocol, transport, atServer, connects, pushes, data, replied>>

\* sendMatchData has no context: sent, it is the transport's.
SendMatchData ==
  /\ MayCall("sendMatchData") /\ current # NoConn
  /\ data < MaxData /\ data' = data + 1
  /\ UNCHANGED stack
  /\ Transport!Send(current)
  /\ UNCHANGED <<client, atServer, issued, connects, pushes, outcome, replied>>

\* The callback that was told the outcome of r ended with an exception.
Untell(r) == [outcome EXCEPT ![r] = IF @ = "twice" THEN @ ELSE "pending"]

\* When it cannot be sent, the number of the request it does not have is
\* parsed (std::stoi("")), which throws through every callback in progress and
\* out of tick(), so the event being delivered stays first in the queue.
SendMatchDataThrows ==
  /\ MayCall("sendMatchData") /\ stack # <<>>
  /\ stack' = <<>>
  /\ IF Delivering THEN Transport!DeliverThrows ELSE UNCHANGED transport
  /\ outcome' = IF stack[1].kind = "reply" THEN Untell(contexts[stack[1].cid])
                ELSE outcome
  /\ UNCHANGED <<client, atServer, counters, replied>>

\* connect() chooses the protocol, and the transport lets go of what it has.
Connect ==
  /\ MayCall("connect") /\ connects < MaxConnects /\ MayLetGo
  /\ \E f \in Formats : protocol' = f
  /\ stack' = Append(stack, Frame("connect", 0, FALSE))
  /\ connects' = connects + 1
  /\ IF current # NoConn THEN Transport!Replace ELSE UNCHANGED transport
  /\ UNCHANGED <<contexts, nextCid, atServer, issued, pushes, data, outcome, replied>>

\* ... before it starts the attempt, if the address is one.
ConnectGoes ==
  /\ stack # <<>> /\ Top.kind = "connect"
  /\ stack' = Pop
  /\ Transport!Connect(connects) \/ Transport!BadUrl(connects)
  /\ UNCHANGED <<client, atServer, counters, outcome, replied>>

\* disconnect(), or the transport's activity timeout; contexts stay.
Disconnect ==
  /\ MayCall("disconnect") /\ MayLetGo
  /\ UNCHANGED stack
  /\ Transport!Disconnect
  /\ UNCHANGED <<client, atServer, counters, outcome, replied>>

-----------------------------------------------------------------------------
(* tick(): an event is delivered, its callback runs, and returns.          *)

\* The application is told o of request r; a second time is noted.
Tell(r, o) == [outcome EXCEPT ![r] = IF @ = "pending" THEN o ELSE "twice"]

\* Mutants: the context is erased before its callback runs; only success is
\* called back.
CallBack_ErasesFirst(e, r) ==
  /\ stack' = <<Frame("reply", e.cid, FALSE)>>
  /\ outcome' = Tell(r, IF e.ok THEN "ok" ELSE "error")
  /\ contexts' = [contexts EXCEPT ![e.cid] = NoRequest]

CallBack_SuccessOnly(e, r) ==
  /\ stack' = <<Frame("reply", e.cid, FALSE)>>
  /\ outcome' = IF e.ok THEN Tell(r, "ok") ELSE outcome
  /\ UNCHANGED contexts

\* The callback of the context of request r runs with reply e.
CallBack(e, r) ==
  /\ stack' = <<Frame("reply", e.cid, FALSE)>>
  /\ outcome' = Tell(r, IF e.ok THEN "ok" ELSE "error")
  /\ UNCHANGED contexts

\* A callback of the listener, or none if there is no listener.
CallListener == stack' = <<Frame("event", 0, FALSE)>> /\ UNCHANGED <<contexts, outcome>>

\* onTransportMessage finds the context of a reply; every other event, a
\* message that does not parse and a reply nobody waits for included, ends
\* in a call of the listener.
Deliver ==
  /\ stack = <<>> /\ queue # <<>>
  /\ LET m == Head(queue).msg
         r == IF m.type = "reply" /\ m.format = protocol
              THEN contexts[m.cid] ELSE NoRequest
     IN  IF r # NoRequest THEN CallBack(m, r) ELSE CallListener
  /\ Transport!Deliver
  /\ UNCHANGED <<nextCid, protocol, atServer, counters, replied>>

\* The callback of an event or a reply returns: the context is erased and the
\* transport pops the event.
DeliverReturns ==
  /\ stack # <<>> /\ Top.kind \in {"event", "reply"}
  /\ stack' = Pop
  /\ contexts' = IF Top.kind = "reply"
                 THEN [contexts EXCEPT ![Top.cid] = NoRequest] ELSE contexts
  /\ Transport!DeliverReturns
  /\ UNCHANGED <<nextCid, protocol, atServer, counters, outcome, replied>>

\* Mutant: the context of a refused request stays.
FailReturns_KeepsContext ==
  /\ stack # <<>> /\ Top.kind = "fail" /\ Transport!Returned
  /\ stack' = Pop
  /\ IF Top.drop THEN Transport!Disconnect ELSE UNCHANGED transport
  /\ UNCHANGED <<client, atServer, counters, outcome, replied>>

\* The callback of reqInternalError returns: the context is erased, and a
\* transport that refused the message is disconnected.
FailReturns ==
  /\ stack # <<>> /\ Top.kind = "fail" /\ Transport!Returned
  /\ stack' = Pop
  /\ contexts' = [contexts EXCEPT ![Top.cid] = NoRequest]
  /\ IF Top.drop THEN Transport!Disconnect ELSE UNCHANGED transport
  /\ UNCHANGED <<nextCid, protocol, atServer, counters, outcome, replied>>

-----------------------------------------------------------------------------
(* The connections and the server: external.                               *)

notTransport == <<client, stack, counters, outcome>>

\* An attempt succeeds or fails, or a send ends, maybe with an error.
ConnReports ==
  /\ UNCHANGED <<notTransport, atServer, replied>>
  /\ \E c \in attempts :
       \/ \E type \in {"opened", "error"} : Transport!Answer(c, type)
       \/ \E ok \in BOOLEAN : Transport!SendEnds(c, ok)

\* A connection ends: what the server got on it will not be answered.
ConnEnds(c) ==
  /\ UNCHANGED <<notTransport, replied>>
  /\ Transport!End(c)
  /\ atServer' = {p \in atServer : p.conn # c}

\* The server answers each request it received at most once, in any order.
ServerReplies ==
  /\ UNCHANGED notTransport
  /\ \E p \in atServer, ok \in BOOLEAN :
       /\ Transport!Message(p.conn,
            [type |-> "reply", cid |-> p.cid, req |-> p.req, ok |-> ok, format |-> p.format])
       /\ atServer' = atServer \ {p}
       /\ replied' = IF ok THEN replied \cup {p.req} ELSE replied

ServerPushes ==
  /\ pushes < MaxPushes
  /\ pushes' = pushes + 1
  /\ UNCHANGED <<client, stack>>
  /\ \E c \in live, type \in {"push", "garbage"} : Transport!Message(c, [type |-> type])
  /\ UNCHANGED <<atServer, issued, connects, data, outcome, replied>>

\* tick() with an empty queue.
Idle == stack = <<>> /\ queue = <<>> /\ UNCHANGED vars

Next ==
  \/ Request \/ RequestFails \/ SendMatchData \/ SendMatchDataThrows
  \/ Connect \/ ConnectGoes \/ Disconnect
  \/ Deliver \/ DeliverReturns \/ FailReturns
  \/ ConnReports \/ (\E c \in attempts : ConnEnds(c))
  \/ ServerReplies \/ ServerPushes
  \/ Idle

Spec == Init /\ [][Next]_vars

(***************************************************************************)
(* Fairness: the application calls tick() (README, "Tick"), its callbacks  *)
(* return, a call of the transport that waits for the end of a connection  *)
(* returns (NWebsocketCppRest, CallsReturn), and the server answers what it*)
(* received while the connection lives.  No event is queued while a        *)
(* callback runs, so the last is strong fairness.                          *)
(***************************************************************************)
Fairness ==
  /\ WF_vars(Deliver \/ DeliverReturns \/ FailReturns \/ ConnectGoes)
  /\ WF_vars(\E c \in attempts : ~Transport!Returned /\ ConnEnds(c))
  /\ SF_vars(ServerReplies)

FairSpec == Spec /\ Fairness

-----------------------------------------------------------------------------
(* Properties                                                              *)

\* Types; and only the outermost callback in progress is one of tick()'s, of
\* the event that is first in the queue.
TypeOK ==
  /\ contexts \in [Cids -> 0..MaxRequests]
  /\ nextCid \in 0..issued
  /\ protocol \in Formats \cup {"none"}
  /\ stack \in Seq(FrameType) /\ Len(stack) <= MaxDepth + 1
  /\ \A i \in DOMAIN stack :
       /\ stack[i].kind \in {"event", "reply"} => i = 1 /\ queue # <<>>
       /\ stack[i].kind = "connect" => i = Len(stack)
  /\ \A i \in DOMAIN queue :
       /\ queue[i].type \in {"opened", "closed", "error", "message"}
       /\ queue[i].conn \in 1..connects
       /\ IF queue[i].type = "message" THEN queue[i].msg \in MessageType
          ELSE queue[i].msg = Transport!NoMessage
  /\ isConnected \in BOOLEAN
  /\ attempts \subseteq 1..connects /\ current \in attempts \cup {NoConn}
  /\ unanswered \subseteq attempts /\ kept \subseteq live /\ live \subseteq attempts
  /\ sending \in [1..MaxConnects -> 0..(MaxRequests + MaxData)]
  /\ atServer \subseteq [cid : Cids, req : Requests, format : Formats, conn : live]
  /\ issued \in 0..MaxRequests /\ connects \in 0..MaxConnects
  /\ pushes \in 0..MaxPushes /\ data \in 0..MaxData
  /\ outcome \in [Requests -> {"new", "pending", "ok", "error", "twice"}]
  /\ replied \subseteq Requests

\* Every reply finds the context of the request it answers: whatever was lost,
\* refused or answered out of order and however often the numbering started
\* over, a cid in flight stands for one request only (createReqContext,
\* onTransportMessage).
ReplyFindsItsRequest ==
  /\ \A i \in DOMAIN queue :
       LET m == queue[i].msg
       IN  m.type = "reply" => contexts[m.cid] = m.req
  /\ \A p \in atServer : contexts[p.cid] = p.req

\* The iterators that callbacks in progress will erase are valid: their
\* contexts are still there, and no two of them are the same.
FramesOwnContexts ==
  \A i, j \in DOMAIN stack :
    stack[i].kind \in {"reply", "fail"} =>
      /\ contexts[stack[i].cid] # NoRequest
      /\ i # j /\ stack[j].kind \in {"reply", "fail"} => stack[i].cid # stack[j].cid

\* The client keeps its promise: an outcome is told at most once, and success
\* only of what the server answered.
Promise == INSTANCE RequestPromise WITH
  Requests <- Requests, outcome <- outcome, replied <- replied,
  Throws <- "sendMatchData" \in CallbackCalls
KeepsPromise == Promise!PromiseSpec

\* No context is left behind but those of requests whose answer can no longer
\* come or is still to come: what was answered or refused is erased.
ContextsArePending ==
  stack = <<>> => \A c \in Pending : outcome[contexts[c]] = "pending"

\* A request the server received is answered, unless its connection ends.
AnsweredWhileConnected ==
  \A r \in Requests, c \in 1..MaxConnects :
    (\E p \in atServer : p.req = r /\ p.conn = c)
      ~> (outcome[r] # "pending" \/ c \notin live)

=============================================================================
