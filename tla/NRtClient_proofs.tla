--------------------------- MODULE NRtClient_proofs ---------------------------
(***************************************************************************)
(* What holds of NRtClient for any number of requests, connections and     *)
(* nested callbacks: its type, that every reply finds the context of the   *)
(* request it answers, that the contexts callbacks erase are their own, and*)
(* that an outcome is told once.                                           *)
(***************************************************************************)
EXTENDS NRtClient, SequenceLemmas, TLAPS

-----------------------------------------------------------------------------
(* The inductive invariant.  That a cid in flight stands for one request   *)
(* takes that the numbers of pending requests lie below _nextCid, so that a*)
(* new one is fresh, and that a request is in flight once: at the server or*)
(* in the queue, and then pending unless it is the one being delivered.    *)

EventType ==
  [type : {"message"}, conn : 1..MaxConnects, msg : MessageType] \cup
  [type : {"opened", "closed", "error"}, conn : 1..MaxConnects, msg : {Transport!NoMessage}]

IsReply(i) == queue[i].msg.type = "reply"

\* Frames with a context.
Owns(i) == stack[i].kind \in {"reply", "fail"}

\* The reply first in the queue has been told, and its callback is in progress.
BeingTold == stack # <<>> /\ stack[1].kind = "reply"

Typed ==
  /\ contexts \in [Cids -> 0..MaxRequests]
  /\ nextCid \in 0..issued
  /\ protocol \in Formats \cup {"none"}
  /\ issued \in 0..MaxRequests /\ connects \in 0..MaxConnects
  /\ pushes \in 0..MaxPushes /\ data \in 0..MaxData
  /\ outcome \in [Requests -> {"new", "pending", "ok", "error", "twice"}]
  /\ replied \subseteq Requests

StackOK ==
  /\ stack \in Seq(FrameType) /\ Len(stack) <= MaxDepth + 1
  /\ \A i \in DOMAIN stack :
       /\ stack[i].kind \in {"event", "reply"} => i = 1 /\ queue # <<>>
       /\ stack[i].kind = "connect" => i = Len(stack) /\ connects # 0

QueueOK ==
  /\ queue \in Seq(EventType)
  /\ \A i \in DOMAIN queue : queue[i].conn <= connects

LinksOK ==
  /\ isConnected \in BOOLEAN
  /\ attempts \subseteq 1..connects /\ current \in attempts \cup {NoConn}
  /\ unanswered \subseteq attempts /\ kept \subseteq live /\ live \subseteq attempts
  /\ atServer \subseteq [cid : Cids, req : Requests, format : Formats, conn : live]
  /\ sending \in [1..MaxConnects -> Nat]
  /\ \A c \in 1..MaxConnects : sending[c] <= issued + data
  /\ connects # 0 => protocol \in Formats

ContextsOK ==
  /\ \A c \in Cids : contexts[c] # NoRequest => c < nextCid /\ contexts[c] <= issued
  /\ \A c, d \in Cids : contexts[c] # NoRequest /\ contexts[c] = contexts[d] => c = d

FlightOK ==
  /\ \A i \in DOMAIN queue : IsReply(i) =>
       /\ contexts[queue[i].msg.cid] = queue[i].msg.req
       /\ (queue[i].msg.ok <=> queue[i].msg.req \in replied)
       /\ outcome[queue[i].msg.req] = "pending" \/ (i = 1 /\ BeingTold)
       /\ \A j \in DOMAIN queue : IsReply(j) /\ i # j => queue[j].msg.req # queue[i].msg.req
       /\ \A p \in atServer : p.req # queue[i].msg.req
  /\ \A p \in atServer :
       /\ contexts[p.cid] = p.req /\ outcome[p.req] = "pending" /\ p.req \notin replied
       /\ \A q \in atServer : p # q => p.req # q.req

FramesOK ==
  \A i \in DOMAIN stack :
    /\ stack[i].kind = "reply" => IsReply(1) /\ queue[1].msg.cid = stack[i].cid
    /\ Owns(i) =>
         /\ contexts[stack[i].cid] # NoRequest
         /\ outcome[contexts[stack[i].cid]] \in {"ok", "error"}
         /\ \A j \in DOMAIN stack : Owns(j) /\ i # j => stack[i].cid # stack[j].cid

OutcomesOK ==
  \A r \in Requests :
    /\ outcome[r] # "twice" /\ (outcome[r] = "new" <=> r > issued)
    /\ outcome[r] = "ok" => r \in replied
    /\ r > issued => r \notin replied

\* Without exceptions, a context left is of a request not told or being told.
NoneLeft ==
  "sendMatchData" \notin CallbackCalls =>
    \A c \in Cids : contexts[c] # NoRequest =>
      \/ outcome[contexts[c]] = "pending"
      \/ \E i \in DOMAIN stack : Owns(i) /\ stack[i].cid = c

Inv ==
  /\ Typed /\ StackOK /\ QueueOK /\ LinksOK
  /\ ContextsOK /\ FlightOK /\ FramesOK /\ OutcomesOK /\ NoneLeft

-----------------------------------------------------------------------------
(* Frames, events and numbers.                                             *)

LEMMA Frames ==
  ASSUME StackOK
  PROVE  /\ DOMAIN stack = 1..Len(stack) /\ Len(stack) \in Nat
         /\ stack # <<>> => Len(stack) \in DOMAIN stack /\ 1 \in DOMAIN stack
         /\ \A i \in DOMAIN stack :
              /\ stack[i] \in FrameType /\ stack[i].cid \in Cids /\ stack[i].drop \in BOOLEAN
              /\ stack[i].kind \in {"event", "reply", "fail", "connect"}
<1>1. DOMAIN stack = 1..Len(stack) /\ Len(stack) \in Nat
      /\ \A i \in DOMAIN stack : stack[i] \in FrameType
  BY DEF StackOK
<1>2. stack # <<>> => Len(stack) \in DOMAIN stack /\ 1 \in DOMAIN stack
  BY DEF StackOK
<1> QED BY <1>1, <1>2 DEF FrameType

LEMMA Replies ==
  ASSUME NEW m \in MessageType, m.type = "reply"
  PROVE  m.cid \in Cids /\ m.req \in Requests /\ m.ok \in BOOLEAN /\ m.format \in Formats
BY DEF MessageType

LEMMA EventFacts ==
  ASSUME NEW e \in EventType
  PROVE  /\ e.type \in {"opened", "closed", "error", "message"} /\ e.conn \in 1..MaxConnects
         /\ IF e.type = "message" THEN e.msg \in MessageType ELSE e.msg = Transport!NoMessage
         /\ e.msg.type = "reply" => /\ e.msg \in MessageType /\ e.msg.cid \in Cids
                                    /\ e.msg.req \in Requests /\ e.msg.ok \in BOOLEAN
<1>1. /\ e.type \in {"opened", "closed", "error", "message"} /\ e.conn \in 1..MaxConnects
      /\ IF e.type = "message" THEN e.msg \in MessageType ELSE e.msg = Transport!NoMessage
  BY DEF EventType
<1>2. Transport!NoMessage.type # "reply"
  BY DEF Transport!NoMessage
<1> QED BY <1>1, <1>2, Replies

LEMMA Events ==
  ASSUME QueueOK
  PROVE  /\ DOMAIN queue = 1..Len(queue) /\ Len(queue) \in Nat
         /\ queue # <<>> => 1 \in DOMAIN queue
         /\ \A i \in DOMAIN queue :
              /\ queue[i] \in EventType /\ queue[i].conn \in 1..MaxConnects
              /\ queue[i].conn <= connects
              /\ IsReply(i) => /\ queue[i].msg.cid \in Cids /\ queue[i].msg.req \in Requests
                               /\ queue[i].msg.ok \in BOOLEAN
<1>1. DOMAIN queue = 1..Len(queue) /\ Len(queue) \in Nat
      /\ \A i \in DOMAIN queue : queue[i] \in EventType
  BY DEF QueueOK
<1>2. queue # <<>> => 1 \in DOMAIN queue
  BY DEF QueueOK
<1> QED BY <1>1, <1>2, EventFacts DEF QueueOK, IsReply

\* What is at the server.
LEMMA AtServer ==
  ASSUME LinksOK, NEW p \in atServer
  PROVE  p.cid \in Cids /\ p.req \in Requests /\ p.format \in Formats /\ p.conn \in live
BY DEF LinksOK

\* Only the outermost callback tells of a reply.
LEMMA Delivered ==
  ASSUME StackOK
  PROVE  /\ BeingTold => Delivering
         /\ Delivering => queue # <<>> /\ stack # <<>>
         /\ \A i \in DOMAIN stack : stack[i].kind = "reply" => i = 1 /\ BeingTold
BY Frames DEF StackOK, BeingTold, Delivering

\* A new request gets a number that no pending one has.
LEMMA Creating ==
  ASSUME NRtClientAssumption, Inv, issued < MaxRequests, NEW r, r = issued + 1,
         CreateReqContext(r), issued' = r
  PROVE  /\ r \in Requests /\ outcome[r] = "new" /\ FreshCid \in Cids
         /\ contexts[FreshCid] = NoRequest /\ contexts' = [contexts EXCEPT ![FreshCid] = r]
         /\ contexts'[FreshCid] = r /\ \A c \in Cids : c # FreshCid => contexts'[c] = contexts[c]
         /\ contexts' \in [Cids -> 0..MaxRequests] /\ nextCid' \in 0..issued'
         /\ issued' \in 0..MaxRequests /\ \A c \in Cids : contexts[c] # r
         /\ ContextsOK' /\ NoRequest # r /\ \A q \in Requests : q > r <=> q > issued /\ q # r
<1>1. /\ issued \in Nat /\ MaxRequests \in Nat /\ nextCid \in 0..issued /\ r \in Requests
      /\ contexts \in [Cids -> 0..MaxRequests]
  BY DEF Inv, Typed, NRtClientAssumption, Requests
<1>2. outcome[r] = "new"
  BY <1>1 DEF Inv, OutcomesOK
<1>3. \A c \in Cids : contexts[c] # NoRequest => c < nextCid /\ contexts[c] <= issued
  BY DEF Inv, ContextsOK
<1>4. FreshCid \in 0..issued /\ (FreshCid = nextCid \/ Pending = {})
  BY <1>1 DEF FreshCid
<1>5. FreshCid \in Cids
  BY <1>1, <1>4 DEF Cids
<1>6. contexts[FreshCid] = NoRequest
  BY <1>1, <1>3, <1>4, <1>5 DEF Pending, Cids
<1>7. contexts' = [contexts EXCEPT ![FreshCid] = r] /\ nextCid' = FreshCid + 1
  BY <1>1, <1>5, <1>6 DEF CreateReqContext
<1>8. /\ contexts'[FreshCid] = r /\ \A c \in Cids : c # FreshCid => contexts'[c] = contexts[c]
      /\ contexts' \in [Cids -> 0..MaxRequests]
  BY <1>1, <1>5, <1>7 DEF Requests
<1>9. nextCid' \in 0..issued' /\ issued' \in 0..MaxRequests
  BY <1>1, <1>4, <1>7
<1>10. r # NoRequest /\ \A c \in Cids : contexts[c] # r
  BY <1>1, <1>3 DEF NoRequest
<1>11. ContextsOK'
  <2>1. ASSUME NEW c \in Cids, contexts'[c] # NoRequest
        PROVE  c < nextCid' /\ contexts'[c] <= issued'
    <3>1. CASE c = FreshCid
      BY <1>1, <1>4, <1>7, <1>8, <3>1
    <3>2. CASE c # FreshCid
      <4>1. c < nextCid /\ contexts[c] <= issued /\ c \in Pending
        BY <1>3, <1>8, <2>1, <3>2 DEF Pending
      <4>2. FreshCid = nextCid /\ contexts[c] \in Nat /\ c \in Nat
        BY <1>1, <1>4, <4>1 DEF Cids
      <4> QED BY <1>1, <1>7, <1>8, <3>2, <4>1, <4>2
    <3> QED BY <3>1, <3>2
  <2>2. \A c, d \in Cids : contexts'[c] # NoRequest /\ contexts'[c] = contexts'[d] => c = d
    BY <1>8, <1>10 DEF Inv, ContextsOK
  <2> QED BY <2>1, <2>2 DEF ContextsOK
<1>12. \A q \in Requests : q > r <=> q > issued /\ q # r
  BY <1>1 DEF Requests
<1> QED BY <1>1, <1>2, <1>5, <1>6, <1>7, <1>8, <1>9, <1>10, <1>11, <1>12

\* What is in flight has its context.
LEMMA InFlight ==
  ASSUME Inv
  PROVE  /\ \A i \in DOMAIN queue : IsReply(i) =>
              /\ queue[i].msg.cid \in Cids /\ queue[i].msg.req \in Requests
              /\ contexts[queue[i].msg.cid] = queue[i].msg.req
         /\ \A p \in atServer :
              p.cid \in Cids /\ p.req \in Requests /\ contexts[p.cid] = p.req
         /\ \A q \in Requests : q # NoRequest
<1>1. \A i \in DOMAIN queue : IsReply(i) =>
        /\ queue[i].msg.cid \in Cids /\ queue[i].msg.req \in Requests
        /\ contexts[queue[i].msg.cid] = queue[i].msg.req
  BY Events DEF Inv, FlightOK
<1>2. \A p \in atServer : p.cid \in Cids /\ p.req \in Requests /\ contexts[p.cid] = p.req
  BY AtServer DEF Inv, FlightOK
<1>3. \A q \in Requests : q # NoRequest
  BY DEF Requests, NoRequest
<1> QED BY <1>1, <1>2, <1>3

\* A new request disturbs nothing that is in flight or in progress.
LEMMA NewRequest ==
  ASSUME NRtClientAssumption, Inv, issued < MaxRequests, NEW r, r = issued + 1,
         CreateReqContext(r), issued' = r, NEW o \in {"pending", "error"},
         outcome' = [outcome EXCEPT ![r] = o],
         UNCHANGED <<protocol, connects, pushes, data, replied, queue>>
  PROVE  /\ r \in Requests /\ FreshCid \in Cids /\ contexts'[FreshCid] = r /\ outcome'[r] = o
         /\ r # NoRequest /\ r \notin replied
         /\ \A c \in Cids : c # FreshCid => contexts'[c] = contexts[c] /\ contexts[c] # r
         /\ contexts[FreshCid] = NoRequest
         /\ \A q \in Requests : q # r => outcome'[q] = outcome[q]
         /\ \A i \in DOMAIN queue : IsReply(i) =>
              queue[i].msg.cid # FreshCid /\ queue[i].msg.req # r
         /\ \A p \in atServer : p.cid # FreshCid /\ p.req # r
         /\ Typed' /\ ContextsOK' /\ OutcomesOK' /\ QueueOK'
<1>1. /\ r \in Requests /\ outcome[r] = "new" /\ FreshCid \in Cids
      /\ contexts[FreshCid] = NoRequest /\ contexts' = [contexts EXCEPT ![FreshCid] = r]
      /\ contexts'[FreshCid] = r /\ \A c \in Cids : c # FreshCid => contexts'[c] = contexts[c]
      /\ contexts' \in [Cids -> 0..MaxRequests] /\ nextCid' \in 0..issued'
      /\ issued' \in 0..MaxRequests /\ \A c \in Cids : contexts[c] # r
      /\ ContextsOK' /\ NoRequest # r /\ \A q \in Requests : q > r <=> q > issued /\ q # r
  BY Creating
<1>2. outcome \in [Requests -> {"new", "pending", "ok", "error", "twice"}]
  BY DEF Inv, Typed
<1>3. /\ outcome'[r] = o /\ \A q \in Requests : q # r => outcome'[q] = outcome[q]
      /\ outcome' \in [Requests -> {"new", "pending", "ok", "error", "twice"}]
  BY <1>1, <1>2
<1>4. Typed'
  BY <1>1, <1>3 DEF Inv, Typed
<1>5. OutcomesOK'
  BY <1>1, <1>3 DEF Inv, OutcomesOK
<1>6. QueueOK'
  BY DEF Inv, QueueOK
<1>7. /\ \A i \in DOMAIN queue : IsReply(i) =>
           queue[i].msg.cid # FreshCid /\ queue[i].msg.req # r
      /\ \A p \in atServer : p.cid # FreshCid /\ p.req # r
  <2>1. ASSUME NEW i \in DOMAIN queue, IsReply(i)
        PROVE  queue[i].msg.cid # FreshCid /\ queue[i].msg.req # r
    <3>1. /\ queue[i].msg.cid \in Cids /\ queue[i].msg.req \in Requests
          /\ contexts[queue[i].msg.cid] = queue[i].msg.req /\ queue[i].msg.req # NoRequest
      BY <2>1, InFlight
    <3> QED BY <1>1, <3>1
  <2>2. ASSUME NEW p \in atServer
        PROVE  p.cid # FreshCid /\ p.req # r
    <3>1. p.cid \in Cids /\ contexts[p.cid] = p.req /\ p.req # NoRequest
      BY InFlight
    <3> QED BY <1>1, <3>1
  <2> QED BY <2>1, <2>2
<1>8. r \notin replied
  BY <1>1 DEF Inv, OutcomesOK
<1> QED BY <1>1, <1>3, <1>4, <1>5, <1>6, <1>7, <1>8

\* The counters of sends in flight stay below what was sent.
LEMMA Sending ==
  ASSUME NRtClientAssumption, Inv, NEW c \in 1..MaxConnects,
         sending' = [sending EXCEPT ![c] = @ + 1], issued' + data' = issued + data + 1
  PROVE  /\ sending' \in [1..MaxConnects -> Nat]
         /\ \A d \in 1..MaxConnects : sending'[d] <= issued' + data'
<1>1. /\ sending \in [1..MaxConnects -> Nat]
      /\ \A d \in 1..MaxConnects : sending[d] <= issued + data
      /\ issued \in Nat /\ data \in Nat
  BY DEF Inv, LinksOK, Typed
<1>2. sending' \in [1..MaxConnects -> Nat]
  BY <1>1
<1>3. \A d \in 1..MaxConnects : sending'[d] = IF d = c THEN sending[d] + 1 ELSE sending[d]
  BY <1>1
<1>4. \A d \in 1..MaxConnects : sending[d] \in Nat
  BY <1>1
<1> QED BY <1>1, <1>2, <1>3, <1>4

LEMMA Current ==
  ASSUME NRtClientAssumption, Inv, current # NoConn
  PROVE  /\ current \in attempts /\ current \in 1..connects /\ current \in 1..MaxConnects
         /\ connects # 0 /\ protocol \in Formats
<1>1. /\ current \in attempts /\ attempts \subseteq 1..connects /\ connects \in 0..MaxConnects
      /\ MaxConnects \in Nat
  BY DEF Inv, LinksOK, Typed, NRtClientAssumption
<1>2. current \in 1..connects /\ current \in 1..MaxConnects /\ connects # 0
  BY <1>1
<1> QED BY <1>1, <1>2 DEF Inv, LinksOK

\* The contexts of the frames are not that of a new request.
LEMMA OldFrames ==
  ASSUME NRtClientAssumption, Inv, NEW i \in DOMAIN stack, Owns(i)
  PROVE  /\ stack[i].cid \in Cids /\ contexts[stack[i].cid] # NoRequest
         /\ contexts[stack[i].cid] \in Requests
<1>1. stack[i].cid \in Cids /\ contexts[stack[i].cid] # NoRequest
  BY Frames DEF Inv, FramesOK
<1> QED BY <1>1 DEF Inv, Typed, NoRequest, Requests

\* What is in flight is as it was, if nothing but other events is queued.
LEMMA SameFlight ==
  ASSUME Inv, UNCHANGED <<contexts, outcome, replied>>, \A p \in atServer' : p \in atServer,
         \A i \in DOMAIN queue' : IsReply(i)' => i \in DOMAIN queue /\ queue'[i] = queue[i],
         BeingTold => BeingTold'
  PROVE  FlightOK'
<1>1. \A i \in DOMAIN queue' : IsReply(i)' => i \in DOMAIN queue /\ queue'[i] = queue[i] /\ IsReply(i)
  BY DEF IsReply
<1> QED BY <1>1 DEF Inv, FlightOK

\* The callbacks in progress are those that were, if only calls begin or return.
LEMMA SameFrames ==
  ASSUME Inv, UNCHANGED <<contexts, outcome>>,
         \A i \in DOMAIN stack' : Owns(i)' => i \in DOMAIN stack /\ stack'[i] = stack[i],
         \A i \in DOMAIN stack : Owns(i) => i \in DOMAIN stack' /\ stack'[i] = stack[i],
         BeingTold => queue' = queue
  PROVE  FramesOK' /\ NoneLeft'
<1>1. \A i \in DOMAIN stack' : Owns(i)' =>
        i \in DOMAIN stack /\ stack'[i] = stack[i] /\ Owns(i)
  BY DEF Owns
<1>2. \A i \in DOMAIN stack : Owns(i) => i \in DOMAIN stack' /\ stack'[i] = stack[i] /\ Owns(i)'
  BY DEF Owns
<1>3. ASSUME NEW i \in DOMAIN stack', stack'[i].kind = "reply"
      PROVE  IsReply(1)' /\ queue'[1].msg.cid = stack'[i].cid
  <2>1. i \in DOMAIN stack /\ stack'[i] = stack[i] /\ stack[i].kind = "reply"
    BY <1>3 DEF Owns
  <2>2. queue' = queue
    BY <2>1, Delivered DEF Inv
  <2>3. IsReply(1) /\ queue[1].msg.cid = stack[i].cid
    BY <2>1 DEF Inv, FramesOK
  <2> QED BY <2>1, <2>2, <2>3 DEF IsReply
<1>4. ASSUME NEW i \in DOMAIN stack', Owns(i)'
      PROVE  /\ contexts'[stack'[i].cid] # NoRequest
             /\ outcome'[contexts'[stack'[i].cid]] \in {"ok", "error"}
             /\ \A j \in DOMAIN stack' : Owns(j)' /\ i # j => stack'[i].cid # stack'[j].cid
  BY <1>1, <1>4 DEF Inv, FramesOK
<1>5. FramesOK'
  BY <1>3, <1>4 DEF FramesOK
<1>6. NoneLeft'
  BY <1>2 DEF Inv, NoneLeft
<1> QED BY <1>5, <1>6

\* An event is queued.
LEMMA Queued ==
  ASSUME NRtClientAssumption, Inv, NEW type, NEW c \in 1..connects, NEW m,
         \/ type \in {"opened", "closed", "error"} /\ m = Transport!NoMessage
         \/ type = "message" /\ m \in MessageType,
         queue' = Append(queue, Transport!Event(type, c, m)), connects' = connects
  PROVE  /\ QueueOK' /\ queue' # <<>>
         /\ \A i \in DOMAIN queue : i \in DOMAIN queue' /\ i # Len(queue) + 1 /\ queue'[i] = queue[i]
         /\ \A i \in DOMAIN queue' : i = Len(queue) + 1 \/ i \in DOMAIN queue
         /\ Len(queue) + 1 \in DOMAIN queue' /\ queue'[Len(queue) + 1].msg = m
<1> DEFINE e == Transport!Event(type, c, m)
<1>1. c \in 1..MaxConnects /\ c <= connects /\ connects \in Nat
  BY DEF Inv, Typed, NRtClientAssumption
<1>2. e \in EventType /\ e.conn = c /\ e.msg = m
  BY <1>1 DEF EventType, Transport!Event
<1> HIDE DEF e
<1>3. queue \in Seq(EventType) /\ queue' = Append(queue, e)
  BY DEF Inv, QueueOK, e
<1>4. /\ queue' \in Seq(EventType) /\ queue' # <<>>
      /\ \A i \in DOMAIN queue : i \in DOMAIN queue' /\ i # Len(queue) + 1 /\ queue'[i] = queue[i]
      /\ \A i \in DOMAIN queue' : i = Len(queue) + 1 \/ i \in DOMAIN queue
      /\ queue'[Len(queue) + 1] = e /\ Len(queue) + 1 \in DOMAIN queue'
  BY <1>2, <1>3, Appended
<1>5. \A i \in DOMAIN queue' : queue'[i].conn <= connects'
  BY <1>1, <1>2, <1>4 DEF Inv, QueueOK
<1> QED BY <1>2, <1>4, <1>5 DEF QueueOK

-----------------------------------------------------------------------------
(* One lemma per action.                                                   *)

LEMMA RequestInv ==
  ASSUME NRtClientAssumption, Inv, Request
  PROVE  Inv'
<1> DEFINE r == issued + 1
           new == [cid |-> FreshCid, req |-> r, format |-> protocol, conn |-> current]
<1>1. /\ issued < MaxRequests /\ current # NoConn /\ CreateReqContext(r) /\ issued' = r
      /\ outcome' = [outcome EXCEPT ![r] = "pending"]
      /\ \/ UNCHANGED atServer
         \/ current \in live /\ atServer' = atServer \cup {new}
      /\ sending' = [sending EXCEPT ![current] = @ + 1]
      /\ UNCHANGED <<stack, protocol, connects, pushes, data, replied, isConnected, current, queue,
                     attempts, unanswered, live, kept>>
  BY DEF Request, Transport!Send, Transport!links
<1>2. /\ r \in Requests /\ FreshCid \in Cids /\ contexts'[FreshCid] = r /\ outcome'[r] = "pending"
      /\ r # NoRequest /\ r \notin replied
      /\ \A c \in Cids : c # FreshCid => contexts'[c] = contexts[c] /\ contexts[c] # r
      /\ contexts[FreshCid] = NoRequest
      /\ \A q \in Requests : q # r => outcome'[q] = outcome[q]
      /\ \A i \in DOMAIN queue : IsReply(i) =>
           queue[i].msg.cid # FreshCid /\ queue[i].msg.req # r
      /\ \A p \in atServer : p.cid # FreshCid /\ p.req # r
      /\ Typed' /\ ContextsOK' /\ OutcomesOK' /\ QueueOK'
  BY <1>1, NewRequest
<1>3. /\ new.cid = FreshCid /\ new.req = r /\ new.format = protocol /\ new.conn = current
      /\ \A p \in atServer' : p \in atServer \/ (p = new /\ current \in live)
  BY <1>1
<1>4. current \in 1..MaxConnects /\ protocol \in Formats
  BY <1>1, Current
<1>5. issued' + data' = issued + data + 1
  BY <1>1 DEF Inv, Typed
<1>6. LinksOK'
  <2>1. /\ sending' \in [1..MaxConnects -> Nat]
        /\ \A d \in 1..MaxConnects : sending'[d] <= issued' + data'
    BY <1>1, <1>4, <1>5, Sending
  <2>2. atServer' \subseteq [cid : Cids, req : Requests, format : Formats, conn : live]
    BY <1>1, <1>2, <1>4 DEF Inv, LinksOK
  <2> QED BY <1>1, <2>1, <2>2 DEF Inv, LinksOK
<1> HIDE DEF r, new
<1>7. StackOK'
  BY <1>1 DEF Inv, StackOK
<1>8. FlightOK'
  <2>1. ASSUME NEW i \in DOMAIN queue, IsReply(i)
        PROVE  /\ contexts'[queue[i].msg.cid] = queue[i].msg.req
               /\ (queue[i].msg.ok <=> queue[i].msg.req \in replied)
               /\ outcome'[queue[i].msg.req] = "pending" \/ (i = 1 /\ BeingTold)
               /\ \A j \in DOMAIN queue : IsReply(j) /\ i # j => queue[j].msg.req # queue[i].msg.req
               /\ \A p \in atServer' : p.req # queue[i].msg.req
    <3>1. /\ queue[i].msg.cid \in Cids /\ queue[i].msg.req \in Requests
          /\ queue[i].msg.cid # FreshCid /\ queue[i].msg.req # r
      BY <1>2, <2>1, InFlight
    <3>2. contexts'[queue[i].msg.cid] = queue[i].msg.req
      BY <1>2, <2>1, <3>1 DEF Inv, FlightOK
    <3>3. outcome'[queue[i].msg.req] = "pending" \/ (i = 1 /\ BeingTold)
      BY <1>2, <2>1, <3>1 DEF Inv, FlightOK
    <3>4. \A p \in atServer' : p.req # queue[i].msg.req
      BY <1>3, <2>1, <3>1 DEF Inv, FlightOK
    <3> QED BY <2>1, <3>2, <3>3, <3>4 DEF Inv, FlightOK
  <2>2. ASSUME NEW p \in atServer'
        PROVE  /\ contexts'[p.cid] = p.req /\ outcome'[p.req] = "pending" /\ p.req \notin replied
               /\ \A q \in atServer' : p # q => p.req # q.req
    <3>1. CASE p \in atServer
      <4>1. p.cid \in Cids /\ p.req \in Requests /\ p.cid # FreshCid /\ p.req # r
        BY <1>2, <3>1, InFlight
      <4>2. \A q \in atServer' : p # q => p.req # q.req
        BY <1>3, <3>1, <4>1 DEF Inv, FlightOK
      <4> QED BY <1>2, <3>1, <4>1, <4>2 DEF Inv, FlightOK
    <3>2. CASE p = new
      BY <1>2, <1>3, <3>2
    <3> QED BY <1>3, <3>1, <3>2
  <2>3. \A i \in DOMAIN queue : IsReply(i)' <=> IsReply(i)
    BY <1>1 DEF IsReply
  <2>4. BeingTold' <=> BeingTold
    BY <1>1 DEF BeingTold
  <2> QED BY <1>1, <2>1, <2>2, <2>3, <2>4 DEF FlightOK
<1>9. \A i \in DOMAIN stack : Owns(i) =>
        /\ stack[i].cid # FreshCid /\ contexts'[stack[i].cid] = contexts[stack[i].cid]
        /\ contexts[stack[i].cid] \in Requests /\ contexts[stack[i].cid] # r
        /\ outcome'[contexts[stack[i].cid]] = outcome[contexts[stack[i].cid]]
  <2>1. ASSUME NEW i \in DOMAIN stack, Owns(i)
        PROVE  /\ stack[i].cid # FreshCid /\ contexts'[stack[i].cid] = contexts[stack[i].cid]
               /\ contexts[stack[i].cid] \in Requests /\ contexts[stack[i].cid] # r
               /\ outcome'[contexts[stack[i].cid]] = outcome[contexts[stack[i].cid]]
    <3>1. /\ stack[i].cid \in Cids /\ contexts[stack[i].cid] # NoRequest
          /\ contexts[stack[i].cid] \in Requests
      BY <2>1, OldFrames
    <3> QED BY <1>2, <3>1
  <2> QED BY <2>1
<1>10. FramesOK'
  BY <1>1, <1>9 DEF Inv, FramesOK, Owns, IsReply
<1>11. NoneLeft'
  <2> SUFFICES ASSUME "sendMatchData" \notin CallbackCalls, NEW c \in Cids, contexts'[c] # NoRequest
               PROVE  \/ outcome'[contexts'[c]] = "pending"
                      \/ \E i \in DOMAIN stack : Owns(i) /\ stack[i].cid = c
    BY <1>1 DEF NoneLeft, Owns
  <2>1. CASE c = FreshCid
    BY <1>2, <2>1
  <2>2. CASE c # FreshCid
    <3>1. contexts'[c] = contexts[c] /\ contexts[c] # r /\ contexts[c] # NoRequest
      BY <1>2, <2>2
    <3>2. contexts[c] \in Requests
      BY <3>1 DEF Inv, Typed, NoRequest, Requests
    <3> QED BY <1>2, <3>1, <3>2 DEF Inv, NoneLeft
  <2> QED BY <2>1, <2>2
<1> QED BY <1>2, <1>6, <1>7, <1>8, <1>10, <1>11 DEF Inv

LEMMA RequestFailsInv ==
  ASSUME NRtClientAssumption, Inv, RequestFails
  PROVE  Inv'
<1> DEFINE r == issued + 1
<1>1. /\ issued < MaxRequests /\ CreateReqContext(r) /\ issued' = r
      /\ outcome' = [outcome EXCEPT ![r] = "error"]
      /\ UNCHANGED <<protocol, connects, pushes, data, replied, isConnected, current, queue,
                     attempts, unanswered, live, kept, sending, atServer>>
  BY DEF RequestFails, transport
<1>2. /\ r \in Requests /\ FreshCid \in Cids /\ contexts'[FreshCid] = r /\ outcome'[r] = "error"
      /\ r # NoRequest /\ r \notin replied
      /\ \A c \in Cids : c # FreshCid => contexts'[c] = contexts[c] /\ contexts[c] # r
      /\ contexts[FreshCid] = NoRequest
      /\ \A q \in Requests : q # r => outcome'[q] = outcome[q]
      /\ \A i \in DOMAIN queue : IsReply(i) =>
           queue[i].msg.cid # FreshCid /\ queue[i].msg.req # r
      /\ \A p \in atServer : p.cid # FreshCid /\ p.req # r
      /\ Typed' /\ ContextsOK' /\ OutcomesOK' /\ QueueOK'
  BY <1>1, NewRequest
<1>3. PICK drop \in BOOLEAN : stack' = Append(stack, Frame("fail", FreshCid, drop))
  BY DEF RequestFails
<1> DEFINE f == Frame("fail", FreshCid, drop)
<1>4. f \in FrameType /\ f.kind = "fail" /\ f.cid = FreshCid
  BY <1>2 DEF FrameType, Frame
<1>5. issued' + data' >= issued + data /\ issued + data \in Nat /\ issued' + data' \in Nat
  BY <1>1 DEF Inv, Typed
<1> HIDE DEF r, f
<1>6. /\ stack' \in Seq(FrameType) /\ Len(stack) \in Nat /\ Len(stack') = Len(stack) + 1
      /\ DOMAIN stack = 1..Len(stack)
      /\ \A i \in DOMAIN stack : i \in DOMAIN stack' /\ i # Len(stack) + 1 /\ stack'[i] = stack[i]
      /\ \A i \in DOMAIN stack' : i = Len(stack) + 1 \/ i \in DOMAIN stack
      /\ stack'[Len(stack) + 1] = f /\ Len(stack) + 1 \in DOMAIN stack'
  <2>1. stack \in Seq(FrameType) /\ stack' = Append(stack, f)
    BY <1>3 DEF Inv, StackOK, f
  <2> QED BY <1>4, <2>1, Appended
<1>7. \A i \in DOMAIN stack : stack[i].kind # "connect"
  BY DEF RequestFails, MayCall, Top, Inv, StackOK
<1>8. LinksOK'
  <2>1. \A d \in 1..MaxConnects : sending[d] <= issued' + data'
    <3>1. \A d \in 1..MaxConnects : sending[d] <= issued + data /\ sending[d] \in Nat
      BY DEF Inv, LinksOK
    <3> QED BY <1>5, <3>1
  <2> QED BY <1>1, <2>1 DEF Inv, LinksOK
<1>9. StackOK'
  <2>1. Len(stack') <= MaxDepth + 1
    BY <1>6 DEF RequestFails, MayCall, NRtClientAssumption
  <2>2. ASSUME NEW i \in DOMAIN stack'
        PROVE  /\ stack'[i].kind \in {"event", "reply"} => i = 1 /\ queue' # <<>>
               /\ stack'[i].kind # "connect"
    BY <1>1, <1>4, <1>6, <1>7 DEF Inv, StackOK
  <2> QED BY <1>6, <2>1, <2>2 DEF StackOK
<1>10. BeingTold => BeingTold'
  BY <1>6, Frames DEF BeingTold, Inv
<1>11. \A i \in DOMAIN queue : IsReply(i)' <=> IsReply(i)
  BY <1>1 DEF IsReply
<1>12. FlightOK'
  <2>1. ASSUME NEW i \in DOMAIN queue, IsReply(i)
        PROVE  /\ contexts'[queue[i].msg.cid] = queue[i].msg.req
               /\ (queue[i].msg.ok <=> queue[i].msg.req \in replied)
               /\ outcome'[queue[i].msg.req] = "pending" \/ (i = 1 /\ BeingTold)
               /\ \A j \in DOMAIN queue : IsReply(j) /\ i # j => queue[j].msg.req # queue[i].msg.req
               /\ \A p \in atServer : p.req # queue[i].msg.req
    <3>1. /\ queue[i].msg.cid \in Cids /\ queue[i].msg.req \in Requests
          /\ queue[i].msg.cid # FreshCid /\ queue[i].msg.req # r
      BY <1>2, <2>1, InFlight
    <3> QED BY <1>2, <2>1, <3>1 DEF Inv, FlightOK
  <2>2. ASSUME NEW p \in atServer
        PROVE  /\ contexts'[p.cid] = p.req /\ outcome'[p.req] = "pending" /\ p.req \notin replied
               /\ \A q \in atServer : p # q => p.req # q.req
    <3>1. p.cid \in Cids /\ p.req \in Requests /\ p.cid # FreshCid /\ p.req # r
      BY <1>2, InFlight
    <3> QED BY <1>2, <3>1 DEF Inv, FlightOK
  <2> QED BY <1>1, <1>10, <1>11, <2>1, <2>2 DEF FlightOK
<1>13. \A i \in DOMAIN stack : Owns(i) =>
        /\ stack[i].cid # FreshCid /\ contexts'[stack[i].cid] = contexts[stack[i].cid]
        /\ outcome'[contexts[stack[i].cid]] = outcome[contexts[stack[i].cid]]
  <2>1. ASSUME NEW i \in DOMAIN stack, Owns(i)
        PROVE  /\ stack[i].cid # FreshCid /\ contexts'[stack[i].cid] = contexts[stack[i].cid]
               /\ outcome'[contexts[stack[i].cid]] = outcome[contexts[stack[i].cid]]
    <3>1. /\ stack[i].cid \in Cids /\ contexts[stack[i].cid] # NoRequest
          /\ contexts[stack[i].cid] \in Requests
      BY <2>1, OldFrames
    <3> QED BY <1>2, <3>1
  <2> QED BY <2>1
<1>14. \A i \in DOMAIN stack' :
         \/ i \in DOMAIN stack /\ stack'[i] = stack[i] /\ (Owns(i)' <=> Owns(i))
         \/ i = Len(stack) + 1 /\ i \notin DOMAIN stack /\ stack'[i] = f
  BY <1>6 DEF Owns
<1>15. FramesOK'
  <2>1. ASSUME NEW i \in DOMAIN stack', stack'[i].kind = "reply"
        PROVE  IsReply(1)' /\ queue'[1].msg.cid = stack'[i].cid
    BY <1>1, <1>4, <1>14, <2>1 DEF Inv, FramesOK, IsReply
  <2>2. ASSUME NEW i \in DOMAIN stack', Owns(i)'
        PROVE  /\ contexts'[stack'[i].cid] # NoRequest
               /\ outcome'[contexts'[stack'[i].cid]] \in {"ok", "error"}
               /\ \A j \in DOMAIN stack' : Owns(j)' /\ i # j => stack'[i].cid # stack'[j].cid
    <3>1. CASE i \in DOMAIN stack
      <4>1. stack'[i] = stack[i] /\ Owns(i)
        BY <1>14, <2>2, <3>1
      <4> QED BY <1>4, <1>13, <1>14, <3>1, <4>1 DEF Inv, FramesOK
    <3>2. CASE i \notin DOMAIN stack
      <4>1. stack'[i] = f /\ i = Len(stack) + 1
        BY <1>14, <3>2
      <4>2. \A j \in DOMAIN stack' : Owns(j)' /\ i # j => j \in DOMAIN stack /\ Owns(j) /\ stack'[j] = stack[j]
        BY <1>14, <4>1
      <4> QED BY <1>2, <1>4, <1>13, <4>1, <4>2
    <3> QED BY <3>1, <3>2
  <2> QED BY <2>1, <2>2 DEF FramesOK
<1>16. NoneLeft'
  <2> SUFFICES ASSUME "sendMatchData" \notin CallbackCalls, NEW c \in Cids, contexts'[c] # NoRequest
               PROVE  \/ outcome'[contexts'[c]] = "pending"
                      \/ \E i \in DOMAIN stack' : Owns(i)' /\ stack'[i].cid = c
    BY DEF NoneLeft
  <2>1. CASE c = FreshCid
    BY <1>4, <1>6, <2>1 DEF Owns
  <2>2. CASE c # FreshCid
    <3>1. contexts'[c] = contexts[c] /\ contexts[c] # r /\ contexts[c] # NoRequest
      BY <1>2, <2>2
    <3>2. contexts[c] \in Requests
      BY <3>1 DEF Inv, Typed, NoRequest, Requests
    <3>3. outcome[contexts[c]] = "pending" \/ \E i \in DOMAIN stack : Owns(i) /\ stack[i].cid = c
      BY <3>1 DEF Inv, NoneLeft
    <3>4. \A i \in DOMAIN stack : Owns(i) => i \in DOMAIN stack' /\ stack'[i] = stack[i] /\ Owns(i)'
      BY <1>6 DEF Owns
    <3> QED BY <1>2, <3>1, <3>2, <3>3, <3>4
  <2> QED BY <2>1, <2>2
<1> QED BY <1>2, <1>8, <1>9, <1>12, <1>15, <1>16 DEF Inv

LEMMA SendMatchDataInv ==
  ASSUME NRtClientAssumption, Inv, SendMatchData
  PROVE  Inv'
<1>1. /\ current # NoConn /\ data < MaxData /\ data' = data + 1
      /\ sending' = [sending EXCEPT ![current] = @ + 1]
      /\ UNCHANGED <<contexts, nextCid, protocol, stack, isConnected, current, queue, attempts,
                     unanswered, live, kept, atServer, issued, connects, pushes, outcome, replied>>
  BY DEF SendMatchData, client, Transport!Send, Transport!links
<1>2. data' \in 0..MaxData /\ issued' + data' = issued + data + 1
  BY <1>1 DEF Inv, Typed, NRtClientAssumption
<1>3. /\ sending' \in [1..MaxConnects -> Nat]
      /\ \A d \in 1..MaxConnects : sending'[d] <= issued' + data'
  BY <1>1, <1>2, Current, Sending
<1>4. Typed' /\ LinksOK'
  BY <1>1, <1>2, <1>3 DEF Inv, Typed, LinksOK
<1>5. StackOK' /\ QueueOK' /\ ContextsOK' /\ OutcomesOK'
  BY <1>1 DEF Inv, StackOK, QueueOK, ContextsOK, OutcomesOK
<1>6. FlightOK'
  BY <1>1, SameFlight DEF IsReply, BeingTold
<1>7. FramesOK' /\ NoneLeft'
  BY <1>1, SameFrames DEF Owns
<1> QED BY <1>4, <1>5, <1>6, <1>7 DEF Inv

\* The transport lets go of its connection, or has none.
LEMMA LettingGo ==
  ASSUME Inv, isConnected' \in {isConnected, FALSE},
         current' = NoConn, kept' \in {kept} \cup IF current \in live /\ sending[current] > 0
                                                  THEN {kept \cup {current}} ELSE {},
         UNCHANGED <<attempts, unanswered, live, sending, atServer, issued, data>>,
         connects <= connects', connects' \in Nat, connects' # 0 => protocol' \in Formats
  PROVE  LinksOK'
<1>1. kept' \subseteq live
  BY DEF Inv, LinksOK
<1>2. attempts \subseteq 1..connects'
  BY DEF Inv, LinksOK, Typed
<1>3. isConnected' \in BOOLEAN
  BY DEF Inv, LinksOK
<1> QED BY <1>1, <1>2, <1>3 DEF Inv, LinksOK

\* A frame is put on top of the stack while no call of the transport runs.
LEMMA Pushing ==
  ASSUME Inv, NEW f \in FrameType, stack' = Append(stack, f)
  PROVE  /\ stack' \in Seq(FrameType) /\ Len(stack) \in Nat /\ Len(stack') = Len(stack) + 1
         /\ DOMAIN stack = 1..Len(stack)
         /\ \A i \in DOMAIN stack : i \in DOMAIN stack' /\ i # Len(stack) + 1 /\ stack'[i] = stack[i]
         /\ \A i \in DOMAIN stack' : i = Len(stack) + 1 \/ i \in DOMAIN stack
         /\ stack'[Len(stack) + 1] = f /\ Len(stack) + 1 \in DOMAIN stack'
         /\ BeingTold => BeingTold'
<1>1. stack \in Seq(FrameType)
  BY DEF Inv, StackOK
<1>2. /\ stack' \in Seq(FrameType) /\ Len(stack) \in Nat /\ Len(stack') = Len(stack) + 1
      /\ stack' # <<>> /\ DOMAIN stack = 1..Len(stack)
      /\ \A i \in DOMAIN stack : i \in DOMAIN stack' /\ i # Len(stack) + 1 /\ stack'[i] = stack[i]
      /\ \A i \in DOMAIN stack' : i = Len(stack) + 1 \/ i \in DOMAIN stack
      /\ stack'[Len(stack) + 1] = f /\ Len(stack) + 1 \in DOMAIN stack'
  BY <1>1, Appended
<1>3. BeingTold => BeingTold'
  BY <1>2, Frames DEF BeingTold, Inv
<1> QED BY <1>2, <1>3

\* The innermost frame is taken off.
LEMMA Popping ==
  ASSUME Inv, stack # <<>>, stack' = Pop
  PROVE  /\ stack' \in Seq(FrameType) /\ Len(stack) \in Nat /\ Len(stack') = Len(stack) - 1
         /\ Len(stack) \in DOMAIN stack /\ Top = stack[Len(stack)]
         /\ \A i \in DOMAIN stack' : i \in DOMAIN stack /\ i # Len(stack) /\ stack'[i] = stack[i]
         /\ \A i \in DOMAIN stack : i # Len(stack) => i \in DOMAIN stack'
<1>1. stack \in Seq(FrameType)
  BY DEF Inv, StackOK
<1>2. /\ stack' \in Seq(FrameType) /\ Len(stack) \in Nat /\ Len(stack') = Len(stack) - 1
      /\ Len(stack) \in DOMAIN stack
      /\ \A i \in DOMAIN stack' : i \in DOMAIN stack /\ i # Len(stack) /\ stack'[i] = stack[i]
      /\ \A i \in DOMAIN stack : i # Len(stack) => i \in DOMAIN stack'
  <2>1. stack' = SubSeq(stack, 1, Len(stack) - 1)
    BY DEF Pop
  <2> QED BY <1>1, <2>1, Popped
<1> QED BY <1>2 DEF Top

\* ... which leaves a stack in order.
LEMMA PoppedStack ==
  ASSUME Inv, stack # <<>>, stack' = Pop, queue # <<>> => queue' # <<>> \/ stack' = <<>>,
         connects' = connects
  PROVE  StackOK'
<1>1. /\ stack' \in Seq(FrameType) /\ Len(stack) \in Nat /\ Len(stack') = Len(stack) - 1
      /\ Len(stack) \in DOMAIN stack /\ Top = stack[Len(stack)]
      /\ \A i \in DOMAIN stack' : i \in DOMAIN stack /\ i # Len(stack) /\ stack'[i] = stack[i]
      /\ \A i \in DOMAIN stack : i # Len(stack) => i \in DOMAIN stack'
  BY Popping
<1>2. Len(stack') <= MaxDepth + 1
  <2>1. Len(stack) <= MaxDepth + 1 /\ MaxDepth \in Nat
    BY NRtClientAssumption DEF Inv, StackOK
  <2> QED BY <1>1, <2>1
<1>3. ASSUME NEW i \in DOMAIN stack'
      PROVE  /\ stack'[i].kind \in {"event", "reply"} => i = 1 /\ queue' # <<>>
             /\ stack'[i].kind # "connect"
  <2>1. stack' # <<>>
    BY <1>3
  <2> QED BY <1>1, <2>1 DEF Inv, StackOK
<1> QED BY <1>1, <1>2, <1>3 DEF StackOK

LEMMA ConnectInv ==
  ASSUME NRtClientAssumption, Inv, Connect
  PROVE  Inv'
<1> DEFINE f == Frame("connect", 0, FALSE)
<1>1. /\ connects < MaxConnects /\ connects' = connects + 1 /\ protocol' \in Formats
      /\ stack' = Append(stack, f)
      /\ UNCHANGED <<contexts, nextCid, atServer, issued, pushes, data, outcome, replied, isConnected,
                     queue, attempts, unanswered, live, sending>>
  BY DEF Connect, Transport!Replace, transport
<1>2. /\ current' = NoConn
      /\ kept' \in {kept} \cup IF current \in live /\ sending[current] > 0
                               THEN {kept \cup {current}} ELSE {}
  BY DEF Connect, Transport!Replace, Transport!LetGo, transport, NoConn
<1>3. f \in FrameType /\ f.kind = "connect"
  BY DEF FrameType, Frame, Cids, NRtClientAssumption
<1>4. connects' \in 0..MaxConnects /\ connects' # 0 /\ connects <= connects' /\ connects' \in Nat
      /\ connects \in Nat
  BY <1>1 DEF Inv, Typed, NRtClientAssumption
<1>5. \A i \in DOMAIN stack : stack[i].kind # "connect"
  BY DEF Connect, MayCall, Top, Inv, StackOK
<1> HIDE DEF f
<1>6. /\ stack' \in Seq(FrameType) /\ Len(stack) \in Nat /\ Len(stack') = Len(stack) + 1
      /\ DOMAIN stack = 1..Len(stack)
      /\ \A i \in DOMAIN stack : i \in DOMAIN stack' /\ i # Len(stack) + 1 /\ stack'[i] = stack[i]
      /\ \A i \in DOMAIN stack' : i = Len(stack) + 1 \/ i \in DOMAIN stack
      /\ stack'[Len(stack) + 1] = f /\ Len(stack) + 1 \in DOMAIN stack'
      /\ BeingTold => BeingTold'
  BY <1>1, <1>3, Pushing
<1>7. StackOK'
  <2>1. Len(stack') <= MaxDepth + 1
    BY <1>6 DEF Connect, MayCall, NRtClientAssumption
  <2>2. ASSUME NEW i \in DOMAIN stack'
        PROVE  /\ stack'[i].kind \in {"event", "reply"} => i = 1 /\ queue' # <<>>
               /\ stack'[i].kind = "connect" => i = Len(stack') /\ connects' # 0
    BY <1>1, <1>3, <1>4, <1>5, <1>6 DEF Inv, StackOK
  <2> QED BY <1>6, <2>1, <2>2 DEF StackOK
<1>8. Typed'
  BY <1>1, <1>4 DEF Inv, Typed
<1>9. LinksOK'
  <2>1. isConnected' \in {isConnected, FALSE}
    BY <1>1
  <2> QED BY <1>1, <1>2, <1>4, <2>1, LettingGo
<1>10. QueueOK'
  <2>1. \A i \in DOMAIN queue : queue[i].conn <= connects'
    BY <1>1, <1>4, Events DEF Inv
  <2> QED BY <1>1, <2>1 DEF Inv, QueueOK
<1>11. ContextsOK' /\ OutcomesOK'
  BY <1>1 DEF Inv, ContextsOK, OutcomesOK
<1>12. FlightOK'
  BY <1>1, <1>6, SameFlight DEF IsReply
<1>13. FramesOK' /\ NoneLeft'
  <2>1. /\ \A i \in DOMAIN stack' : Owns(i)' => i \in DOMAIN stack /\ stack'[i] = stack[i]
        /\ \A i \in DOMAIN stack : Owns(i) => i \in DOMAIN stack' /\ stack'[i] = stack[i]
    BY <1>3, <1>6 DEF Owns
  <2> QED BY <1>1, <2>1, SameFrames
<1> QED BY <1>7, <1>8, <1>9, <1>10, <1>11, <1>12, <1>13 DEF Inv

LEMMA ConnectGoesInv ==
  ASSUME NRtClientAssumption, Inv, ConnectGoes
  PROVE  Inv'
<1>1. /\ stack # <<>> /\ Top.kind = "connect" /\ stack' = Pop
      /\ UNCHANGED <<contexts, nextCid, protocol, atServer, issued, connects, pushes, data, outcome,
                     replied, isConnected, sending, kept>>
  BY DEF ConnectGoes, client, counters, Transport!Connect, Transport!BadUrl, Transport!links
<1>2. /\ Len(stack) \in DOMAIN stack /\ Top = stack[Len(stack)]
      /\ \A i \in DOMAIN stack' : i \in DOMAIN stack /\ i # Len(stack) /\ stack'[i] = stack[i]
      /\ \A i \in DOMAIN stack : i # Len(stack) => i \in DOMAIN stack'
  BY <1>1, Popping
<1>3. connects \in 1..MaxConnects /\ connects \in 1..connects /\ connects \in Nat
  BY <1>1, <1>2 DEF Inv, StackOK, Typed, NRtClientAssumption
<1>4. Typed' /\ ContextsOK' /\ OutcomesOK'
  BY <1>1 DEF Inv, Typed, ContextsOK, OutcomesOK
<1>5. /\ \A i \in DOMAIN stack' : Owns(i)' => i \in DOMAIN stack /\ stack'[i] = stack[i]
      /\ \A i \in DOMAIN stack : Owns(i) => i \in DOMAIN stack' /\ stack'[i] = stack[i]
  BY <1>1, <1>2 DEF Owns
<1>6. BeingTold => BeingTold'
  BY <1>1, <1>2, Frames DEF BeingTold, Inv
<1>7. CASE Transport!Connect(connects)
  <2>1. /\ current' = connects /\ attempts' = attempts \cup {connects}
        /\ unanswered' = unanswered \cup {connects} /\ live' = live \cup {connects}
        /\ UNCHANGED queue
    BY <1>7 DEF Transport!Connect
  <2>2. LinksOK'
    <3>1. atServer \subseteq [cid : Cids, req : Requests, format : Formats, conn : live']
      BY <2>1 DEF Inv, LinksOK
    <3> QED BY <1>1, <1>3, <2>1, <3>1 DEF Inv, LinksOK
  <2>3. QueueOK'
    BY <1>1, <2>1 DEF Inv, QueueOK
  <2>4. StackOK'
    BY <1>1, <2>1, PoppedStack
  <2>5. FlightOK'
    BY <1>1, <1>6, <2>1, SameFlight DEF IsReply
  <2>6. FramesOK' /\ NoneLeft'
    BY <1>1, <1>5, <2>1, SameFrames
  <2> QED BY <1>4, <2>2, <2>3, <2>4, <2>5, <2>6 DEF Inv
<1>8. CASE Transport!BadUrl(connects)
  <2>1. /\ ~Delivering /\ queue' = Append(queue, Transport!Event("error", connects, Transport!NoMessage))
        /\ UNCHANGED <<current, attempts, unanswered, live>>
    BY <1>8 DEF Transport!BadUrl, Transport!links
  <2>2. /\ QueueOK' /\ queue' # <<>>
        /\ \A i \in DOMAIN queue : i \in DOMAIN queue' /\ i # Len(queue) + 1 /\ queue'[i] = queue[i]
        /\ \A i \in DOMAIN queue' : i = Len(queue) + 1 \/ i \in DOMAIN queue
        /\ queue'[Len(queue) + 1].msg = Transport!NoMessage
    BY <1>1, <1>3, <2>1, Queued
  <2>3. LinksOK'
    BY <1>1, <2>1 DEF Inv, LinksOK
  <2>4. StackOK'
    BY <1>1, <2>2, PoppedStack
  <2>5. FlightOK'
    <3>1. \A i \in DOMAIN queue' : IsReply(i)' => i \in DOMAIN queue /\ queue'[i] = queue[i]
      BY <2>2 DEF IsReply, Transport!NoMessage
    <3> QED BY <1>1, <1>6, <3>1, SameFlight
  <2>6. ~BeingTold
    BY <2>1, Delivered DEF Inv
  <2>7. FramesOK' /\ NoneLeft'
    BY <1>1, <1>5, <2>6, SameFrames
  <2> QED BY <1>4, <2>2, <2>3, <2>4, <2>5, <2>7 DEF Inv
<1> QED BY <1>7, <1>8 DEF ConnectGoes

\* disconnect() of the transport, at whatever place.
LEMMA Disconnecting ==
  ASSUME Inv, Transport!Disconnect, UNCHANGED <<protocol, atServer, issued, connects, data>>
  PROVE  LinksOK' /\ QueueOK' /\ UNCHANGED queue
<1>1. /\ isConnected' \in {isConnected, FALSE} /\ current' = NoConn
      /\ kept' \in {kept} \cup IF current \in live /\ sending[current] > 0
                               THEN {kept \cup {current}} ELSE {}
      /\ UNCHANGED <<queue, attempts, unanswered, live, sending>>
  BY DEF Transport!Disconnect, Transport!LetGo, NoConn
<1>2. connects' <= connects' /\ connects' \in Nat /\ connects <= connects'
      /\ (connects' # 0 => protocol' \in Formats)
  BY DEF Inv, Typed, LinksOK
<1>3. LinksOK'
  BY <1>1, <1>2, LettingGo
<1> QED BY <1>1, <1>3 DEF Inv, QueueOK

LEMMA DisconnectInv ==
  ASSUME NRtClientAssumption, Inv, Disconnect
  PROVE  Inv'
<1>1. /\ Transport!Disconnect
      /\ UNCHANGED <<contexts, nextCid, protocol, stack, atServer, issued, connects, pushes, data,
                     outcome, replied>>
  BY DEF Disconnect, client, counters
<1>2. LinksOK' /\ QueueOK' /\ UNCHANGED queue
  BY <1>1, Disconnecting
<1>3. Typed' /\ StackOK' /\ ContextsOK' /\ OutcomesOK'
  BY <1>1, <1>2 DEF Inv, Typed, StackOK, ContextsOK, OutcomesOK
<1>4. FlightOK'
  BY <1>1, <1>2, SameFlight DEF IsReply, BeingTold
<1>5. FramesOK' /\ NoneLeft'
  BY <1>1, <1>2, SameFrames
<1> QED BY <1>2, <1>3, <1>4, <1>5 DEF Inv

LEMMA DeliverInv ==
  ASSUME NRtClientAssumption, Inv, Deliver
  PROVE  Inv'
<1> DEFINE m == queue[1].msg
           r == IF m.type = "reply" /\ m.format = protocol THEN contexts[m.cid] ELSE NoRequest
<1>1. stack = <<>> /\ queue # <<>> /\ Head(queue) = queue[1] /\ 1 \in DOMAIN queue
  BY Events DEF Deliver, Inv
<1>2. /\ IF r # NoRequest THEN CallBack(m, r) ELSE CallListener
      /\ UNCHANGED <<nextCid, protocol, atServer, issued, connects, pushes, data, replied, current,
                     queue, attempts, unanswered, live, kept, sending>>
  BY <1>1 DEF Deliver, counters, Transport!Deliver, Transport!links
<1>3. isConnected' \in BOOLEAN
  BY DEF Deliver, Transport!Deliver, Inv, LinksOK
<1>4. ~BeingTold
  BY <1>1 DEF BeingTold
<1>5. LinksOK' /\ QueueOK'
  BY <1>2, <1>3 DEF Inv, LinksOK, QueueOK
<1>6. ASSUME NEW f \in FrameType, f.kind \in {"event", "reply"}, stack' = <<f>>
      PROVE  StackOK' /\ DOMAIN stack' = {1} /\ stack'[1] = f /\ stack' # <<>>
  <2>1. stack' \in Seq(FrameType) /\ Len(stack') = 1 /\ DOMAIN stack' = {1} /\ stack'[1] = f
    BY <1>6
  <2> QED BY <1>1, <1>2, <1>6, <2>1 DEF StackOK, NRtClientAssumption
<1>7. CASE r # NoRequest
  <2> DEFINE f == Frame("reply", m.cid, FALSE)
             o == IF m.ok THEN "ok" ELSE "error"
  <2>1. IsReply(1) /\ r = contexts[m.cid]
    BY <1>7 DEF IsReply
  <2>2. /\ m.cid \in Cids /\ r \in Requests /\ r = m.req /\ outcome[r] = "pending"
        /\ m.ok => r \in replied
    BY <1>1, <1>4, <2>1, InFlight DEF Inv, FlightOK
  <2>3. /\ stack' = <<f>> /\ UNCHANGED contexts /\ outcome' = [outcome EXCEPT ![r] = o]
    BY <1>2, <1>7, <2>2 DEF CallBack, Tell
  <2>4. f \in FrameType /\ f.kind = "reply" /\ f.cid = m.cid /\ o \in {"ok", "error"}
        /\ (o = "ok" => r \in replied)
    BY <2>2 DEF Frame, FrameType
  <2> HIDE DEF f, o, r
  <2>5. StackOK' /\ DOMAIN stack' = {1} /\ stack'[1] = f /\ stack' # <<>>
    BY <1>6, <2>3, <2>4
  <2>6. /\ outcome' \in [Requests -> {"new", "pending", "ok", "error", "twice"}]
        /\ outcome'[r] = o /\ \A q \in Requests : q # r => outcome'[q] = outcome[q]
    BY <2>2, <2>3, <2>4 DEF Inv, Typed
  <2>7. Typed'
    BY <1>2, <2>3, <2>6 DEF Inv, Typed
  <2>8. ContextsOK'
    BY <1>2, <2>3 DEF Inv, ContextsOK
  <2>9. OutcomesOK'
    BY <1>2, <2>2, <2>4, <2>6 DEF Inv, OutcomesOK
  <2>10. BeingTold'
    BY <2>4, <2>5 DEF BeingTold
  <2>11. FlightOK'
    <3>1. ASSUME NEW i \in DOMAIN queue, IsReply(i)
          PROVE  /\ contexts[queue[i].msg.cid] = queue[i].msg.req
                 /\ (queue[i].msg.ok <=> queue[i].msg.req \in replied)
                 /\ outcome'[queue[i].msg.req] = "pending" \/ i = 1
                 /\ \A j \in DOMAIN queue : IsReply(j) /\ i # j => queue[j].msg.req # queue[i].msg.req
                 /\ \A p \in atServer : p.req # queue[i].msg.req
      <4>1. i # 1 => queue[i].msg.req # r
        BY <1>1, <2>1, <2>2, <3>1 DEF Inv, FlightOK
      <4>2. queue[i].msg.req \in Requests
        BY <3>1, InFlight
      <4> QED BY <1>4, <2>6, <3>1, <4>1, <4>2 DEF Inv, FlightOK
    <3>2. ASSUME NEW p \in atServer
          PROVE  /\ contexts[p.cid] = p.req /\ outcome'[p.req] = "pending" /\ p.req \notin replied
                 /\ \A q \in atServer : p # q => p.req # q.req
      <4>1. p.req # r
        BY <1>1, <2>1, <2>2 DEF Inv, FlightOK
      <4> QED BY <2>6, <4>1, InFlight DEF Inv, FlightOK
    <3> QED BY <1>2, <2>3, <2>10, <3>1, <3>2 DEF FlightOK, IsReply
  <2>12. FramesOK'
    <3>1. IsReply(1)' /\ queue'[1].msg.cid = m.cid
      BY <1>2, <2>1 DEF IsReply
    <3>2. contexts'[m.cid] = r /\ r # NoRequest /\ outcome'[r] \in {"ok", "error"}
      BY <1>7, <2>1, <2>3, <2>4, <2>6
    <3>3. \A i \in DOMAIN stack' : i = 1
      BY <2>5
    <3> HIDE DEF m
    <3> QED BY <2>4, <2>5, <3>1, <3>2, <3>3 DEF FramesOK
  <2>13. NoneLeft'
    <3> SUFFICES ASSUME "sendMatchData" \notin CallbackCalls, NEW c \in Cids, contexts[c] # NoRequest
                 PROVE  outcome'[contexts[c]] = "pending" \/ stack'[1].cid = c
      BY <2>3, <2>4, <2>5 DEF NoneLeft, Owns
    <3>1. CASE c = m.cid
      BY <2>4, <2>5, <3>1
    <3>2. CASE c # m.cid
      <4>1. contexts[c] # r /\ contexts[c] \in Requests
        <5>1. contexts[c] \in Requests
          BY DEF Inv, Typed, Requests, NoRequest
        <5>2. contexts[c] # contexts[m.cid]
          BY <2>2, <3>2 DEF Inv, ContextsOK
        <5> QED BY <2>1, <5>1, <5>2
      <4>2. outcome[contexts[c]] = "pending"
        BY <1>1 DEF Inv, NoneLeft
      <4> QED BY <2>6, <4>1, <4>2
    <3> QED BY <3>1, <3>2
  <2> QED BY <1>5, <2>5, <2>7, <2>8, <2>9, <2>11, <2>12, <2>13 DEF Inv
<1>8. CASE r = NoRequest
  <2> DEFINE f == Frame("event", 0, FALSE)
  <2>1. stack' = <<f>> /\ UNCHANGED <<contexts, outcome>>
    BY <1>2, <1>8 DEF CallListener
  <2>2. f \in FrameType /\ f.kind = "event"
    BY DEF Frame, FrameType, Cids, NRtClientAssumption
  <2> HIDE DEF f, r
  <2>3. StackOK' /\ DOMAIN stack' = {1} /\ stack'[1] = f /\ stack' # <<>>
    BY <1>6, <2>1, <2>2
  <2>4. Typed' /\ ContextsOK' /\ OutcomesOK'
    BY <1>2, <2>1 DEF Inv, Typed, ContextsOK, OutcomesOK
  <2>5. FlightOK'
    BY <1>2, <1>4, <2>1, SameFlight DEF IsReply
  <2>6. FramesOK' /\ NoneLeft'
    <3>1. /\ \A i \in DOMAIN stack' : ~Owns(i)'
          /\ \A i \in DOMAIN stack : ~Owns(i)
      BY <1>1, <2>2, <2>3 DEF Owns
    <3> QED BY <1>4, <2>1, <3>1, SameFrames
  <2> QED BY <1>5, <2>3, <2>4, <2>5, <2>6 DEF Inv
<1> QED BY <1>7, <1>8

LEMMA DeliverReturnsInv ==
  ASSUME NRtClientAssumption, Inv, DeliverReturns
  PROVE  Inv'
<1>1. /\ stack # <<>> /\ Top.kind \in {"event", "reply"} /\ stack' = Pop
      /\ contexts' = IF Top.kind = "reply" THEN [contexts EXCEPT ![Top.cid] = NoRequest] ELSE contexts
      /\ queue' = Tail(queue)
      /\ UNCHANGED <<nextCid, protocol, atServer, issued, connects, pushes, data, outcome, replied,
                     isConnected, current, attempts, unanswered, live, kept, sending>>
  BY DEF DeliverReturns, counters, Transport!DeliverReturns, Transport!links
<1>2. /\ stack' \in Seq(FrameType) /\ Len(stack') = Len(stack) - 1
      /\ Len(stack) \in DOMAIN stack /\ Top = stack[Len(stack)]
  BY <1>1, Popping
<1>3. Len(stack) = 1 /\ queue # <<>> /\ Top = stack[1] /\ 1 \in DOMAIN stack
  BY <1>1, <1>2 DEF Inv, StackOK
<1>4. stack' = <<>>
  BY <1>2, <1>3
<1>5. /\ queue' \in Seq(EventType) /\ 1 \in DOMAIN queue
      /\ \A i \in DOMAIN queue' : i + 1 \in DOMAIN queue /\ i + 1 # 1 /\ queue'[i] = queue[i + 1]
  <2>1. queue \in Seq(EventType)
    BY DEF Inv, QueueOK
  <2> QED BY <1>1, <1>3, <2>1, Shifted
<1>6. QueueOK' /\ LinksOK' /\ StackOK'
  <2>1. QueueOK'
    BY <1>1, <1>5 DEF Inv, QueueOK
  <2>2. LinksOK'
    BY <1>1 DEF Inv, LinksOK
  <2> QED BY <1>1, <1>4, <2>1, <2>2, PoppedStack
<1>7. Top.cid \in Cids /\ contexts \in [Cids -> 0..MaxRequests]
  BY <1>3, Frames DEF Inv, Typed
<1>8. /\ contexts' \in [Cids -> 0..MaxRequests]
      /\ \A c \in Cids : contexts'[c] = IF Top.kind = "reply" /\ c = Top.cid THEN NoRequest ELSE contexts[c]
  BY <1>1, <1>7 DEF NoRequest, NRtClientAssumption
<1>9. Typed' /\ OutcomesOK'
  BY <1>1, <1>8 DEF Inv, Typed, OutcomesOK
<1>10. ContextsOK'
  BY <1>1, <1>8 DEF Inv, ContextsOK
<1>11. Top.kind = "reply" => IsReply(1) /\ queue[1].msg.cid = Top.cid
  BY <1>3 DEF Inv, FramesOK
<1>12. FlightOK'
  <2>1. ASSUME NEW i \in DOMAIN queue, i # 1, IsReply(i)
        PROVE  contexts'[queue[i].msg.cid] = queue[i].msg.req
    <3>1. Top.kind = "reply" => queue[i].msg.cid # Top.cid
      BY <1>5, <1>11, <2>1 DEF Inv, FlightOK
    <3> QED BY <1>8, <2>1, <3>1, InFlight
  <2>2. ASSUME NEW p \in atServer
        PROVE  contexts'[p.cid] = p.req
    <3>1. Top.kind = "reply" => p.cid # Top.cid
      BY <1>5, <1>11 DEF Inv, FlightOK
    <3> QED BY <1>8, <3>1, InFlight
  <2>3. ASSUME NEW i \in DOMAIN queue', IsReply(i)'
        PROVE  /\ contexts'[queue'[i].msg.cid] = queue'[i].msg.req
               /\ (queue'[i].msg.ok <=> queue'[i].msg.req \in replied)
               /\ outcome[queue'[i].msg.req] = "pending"
               /\ \A j \in DOMAIN queue' : IsReply(j)' /\ i # j => queue'[j].msg.req # queue'[i].msg.req
               /\ \A p \in atServer : p.req # queue'[i].msg.req
    <3>1. /\ i + 1 \in DOMAIN queue /\ i + 1 # 1 /\ queue'[i] = queue[i + 1] /\ IsReply(i + 1)
      BY <1>5, <2>3 DEF IsReply
    <3>2. ASSUME NEW j \in DOMAIN queue', IsReply(j)', i # j
          PROVE  queue'[j].msg.req # queue'[i].msg.req
      <4>1. /\ j + 1 \in DOMAIN queue /\ queue'[j] = queue[j + 1] /\ IsReply(j + 1)
        BY <1>5, <3>2 DEF IsReply
      <4>2. i + 1 # j + 1
        <5>1. i \in Nat /\ j \in Nat
          BY <1>5
        <5> QED BY <3>2, <5>1
      <4> QED BY <3>1, <4>1, <4>2 DEF Inv, FlightOK
    <3> QED BY <2>1, <3>1, <3>2 DEF Inv, FlightOK
  <2> QED BY <1>1, <2>2, <2>3 DEF Inv, FlightOK
<1>13. FramesOK'
  BY <1>4 DEF FramesOK
<1>14. NoneLeft'
  <2> SUFFICES ASSUME "sendMatchData" \notin CallbackCalls, NEW c \in Cids, contexts'[c] # NoRequest
               PROVE  outcome[contexts'[c]] = "pending"
    BY <1>1 DEF NoneLeft
  <2>1. contexts[c] # NoRequest /\ contexts'[c] = contexts[c] /\ (Top.kind = "reply" => c # Top.cid)
    BY <1>8
  <2>2. \A i \in DOMAIN stack : i = 1
    BY <1>3, Frames DEF Inv
  <2>3. ~\E i \in DOMAIN stack : Owns(i) /\ stack[i].cid = c
    BY <1>1, <1>3, <2>1, <2>2 DEF Owns
  <2> QED BY <2>1, <2>3 DEF Inv, NoneLeft
<1> QED BY <1>6, <1>9, <1>10, <1>12, <1>13, <1>14 DEF Inv

LEMMA FailReturnsInv ==
  ASSUME NRtClientAssumption, Inv, FailReturns
  PROVE  Inv'
<1>1. /\ stack # <<>> /\ Top.kind = "fail" /\ stack' = Pop
      /\ contexts' = [contexts EXCEPT ![Top.cid] = NoRequest]
      /\ UNCHANGED <<nextCid, protocol, atServer, issued, connects, pushes, data, outcome, replied>>
  BY DEF FailReturns, counters
<1>2. LinksOK' /\ QueueOK' /\ UNCHANGED queue
  <2>1. CASE Transport!Disconnect
    BY <1>1, <2>1, Disconnecting
  <2>2. CASE UNCHANGED transport
    BY <1>1, <2>2 DEF transport, Inv, LinksOK, QueueOK
  <2> QED BY <2>1, <2>2 DEF FailReturns
<1>3. /\ stack' \in Seq(FrameType) /\ Len(stack) \in Nat /\ Len(stack') = Len(stack) - 1
      /\ Len(stack) \in DOMAIN stack /\ Top = stack[Len(stack)]
      /\ \A i \in DOMAIN stack' : i \in DOMAIN stack /\ i # Len(stack) /\ stack'[i] = stack[i]
      /\ \A i \in DOMAIN stack : i # Len(stack) => i \in DOMAIN stack'
  BY <1>1, Popping
<1>4. Top.cid \in Cids /\ contexts \in [Cids -> 0..MaxRequests] /\ Owns(Len(stack))
  BY <1>1, <1>3, Frames DEF Inv, Typed, Owns
<1>5. /\ contexts' \in [Cids -> 0..MaxRequests]
      /\ \A c \in Cids : contexts'[c] = IF c = Top.cid THEN NoRequest ELSE contexts[c]
  BY <1>1, <1>4 DEF NoRequest, NRtClientAssumption
<1>6. Typed' /\ OutcomesOK'
  BY <1>1, <1>5 DEF Inv, Typed, OutcomesOK
<1>7. ContextsOK'
  BY <1>1, <1>5 DEF Inv, ContextsOK
<1>8. StackOK'
  BY <1>1, <1>2, PoppedStack
<1>9. outcome[contexts[Top.cid]] \in {"ok", "error"}
      /\ \A i \in DOMAIN stack : Owns(i) /\ i # Len(stack) => stack[i].cid # Top.cid
  BY <1>3, <1>4 DEF Inv, FramesOK
<1>10. BeingTold => BeingTold' /\ 1 \in DOMAIN stack /\ Owns(1) /\ 1 # Len(stack)
  <2>1. BeingTold => 1 \in DOMAIN stack /\ Owns(1) /\ 1 # Len(stack)
    BY <1>1, <1>3, Frames DEF BeingTold, Owns, Inv
  <2>2. BeingTold => 1 \in DOMAIN stack' /\ stack'[1] = stack[1]
    BY <1>3, <2>1
  <2>3. 1 \in DOMAIN stack' => stack' # <<>>
    OBVIOUS
  <2> QED BY <2>1, <2>2, <2>3 DEF BeingTold
<1>11. FlightOK'
  <2>1. ASSUME NEW i \in DOMAIN queue, IsReply(i)
        PROVE  contexts'[queue[i].msg.cid] = queue[i].msg.req
    <3>1. queue[i].msg.cid # Top.cid
      <4>1. CASE outcome[queue[i].msg.req] = "pending"
        BY <1>9, <2>1, <4>1, InFlight
      <4>2. CASE i = 1 /\ BeingTold
        <5>1. queue[1].msg.cid = stack[1].cid
          BY <1>10, <4>2 DEF Inv, FramesOK, BeingTold
        <5> QED BY <1>9, <1>10, <4>2, <5>1
      <4> QED BY <2>1, <4>1, <4>2 DEF Inv, FlightOK
    <3> QED BY <1>5, <2>1, <3>1, InFlight
  <2>2. ASSUME NEW p \in atServer
        PROVE  contexts'[p.cid] = p.req
    <3>1. p.cid # Top.cid
      BY <1>9, InFlight DEF Inv, FlightOK
    <3> QED BY <1>5, <3>1, InFlight
  <2>3. \A i \in DOMAIN queue : IsReply(i)' <=> IsReply(i)
    BY <1>2 DEF IsReply
  <2> QED BY <1>1, <1>2, <1>10, <2>1, <2>2, <2>3 DEF Inv, FlightOK
<1>12. \A i \in DOMAIN stack' : Owns(i)' =>
         /\ i \in DOMAIN stack /\ stack'[i] = stack[i] /\ Owns(i) /\ stack[i].cid # Top.cid
         /\ stack[i].cid \in Cids /\ contexts'[stack[i].cid] = contexts[stack[i].cid]
  <2>1. ASSUME NEW i \in DOMAIN stack', Owns(i)'
        PROVE  i \in DOMAIN stack /\ stack'[i] = stack[i] /\ Owns(i) /\ stack[i].cid # Top.cid
    BY <1>3, <1>9, <2>1 DEF Owns
  <2> QED BY <1>5, <2>1, OldFrames
<1>13. FramesOK'
  <2>1. ASSUME NEW i \in DOMAIN stack', stack'[i].kind = "reply"
        PROVE  IsReply(1)' /\ queue'[1].msg.cid = stack'[i].cid
    BY <1>2, <1>3, <2>1 DEF Inv, FramesOK, IsReply
  <2>2. ASSUME NEW i \in DOMAIN stack', Owns(i)'
        PROVE  /\ contexts'[stack'[i].cid] # NoRequest
               /\ outcome'[contexts'[stack'[i].cid]] \in {"ok", "error"}
               /\ \A j \in DOMAIN stack' : Owns(j)' /\ i # j => stack'[i].cid # stack'[j].cid
    BY <1>1, <1>12, <2>2 DEF Inv, FramesOK
  <2> QED BY <2>1, <2>2 DEF FramesOK
<1>14. NoneLeft'
  <2> SUFFICES ASSUME "sendMatchData" \notin CallbackCalls, NEW c \in Cids, contexts'[c] # NoRequest
               PROVE  \/ outcome[contexts'[c]] = "pending"
                      \/ \E i \in DOMAIN stack' : Owns(i)' /\ stack'[i].cid = c
    BY <1>1 DEF NoneLeft
  <2>1. contexts[c] # NoRequest /\ contexts'[c] = contexts[c] /\ c # Top.cid
    BY <1>5
  <2>2. outcome[contexts[c]] = "pending" \/ \E i \in DOMAIN stack : Owns(i) /\ stack[i].cid = c
    BY <2>1 DEF Inv, NoneLeft
  <2>3. \A i \in DOMAIN stack : Owns(i) /\ stack[i].cid = c =>
          i \in DOMAIN stack' /\ stack'[i].cid = c /\ Owns(i)'
    BY <1>3, <2>1 DEF Owns
  <2> QED BY <2>1, <2>2, <2>3
<1> QED BY <1>2, <1>6, <1>7, <1>8, <1>11, <1>13, <1>14 DEF Inv

\* Whatever was in progress is over; a reply that was told is pending again.
LEMMA SendMatchDataThrowsInv ==
  ASSUME NRtClientAssumption, Inv, SendMatchDataThrows
  PROVE  Inv'
<1>1. /\ stack # <<>> /\ stack' = <<>> /\ "sendMatchData" \in CallbackCalls
      /\ outcome' = IF stack[1].kind = "reply" THEN Untell(contexts[stack[1].cid]) ELSE outcome
      /\ UNCHANGED <<contexts, nextCid, protocol, atServer, issued, connects, pushes, data, replied>>
  BY DEF SendMatchDataThrows, MayCall, client, counters
<1>2. UNCHANGED <<isConnected, current, queue, attempts, unanswered, live, kept, sending>>
  BY DEF SendMatchDataThrows, transport, Transport!DeliverThrows, Transport!links
<1>3. 1 \in DOMAIN stack
  BY <1>1, Frames DEF Inv
<1>4. \A q \in Requests : outcome'[q] \in {outcome[q], "pending"}
                          /\ (outcome'[q] # outcome[q] => outcome[q] \in {"ok", "error"})
  <2>1. CASE stack[1].kind = "reply"
    <3>1. outcome[contexts[stack[1].cid]] \in {"ok", "error"}
      BY <1>3, <2>1 DEF Inv, FramesOK, Owns
    <3> QED BY <1>1, <2>1, <3>1 DEF Untell, Inv, Typed
  <2>2. CASE stack[1].kind # "reply"
    BY <1>1, <2>2
  <2> QED BY <2>1, <2>2
<1>5. BeingTold => IsReply(1) /\ 1 \in DOMAIN queue /\ outcome'[queue[1].msg.req] = "pending"
  <2> SUFFICES ASSUME BeingTold
               PROVE  IsReply(1) /\ 1 \in DOMAIN queue /\ outcome'[queue[1].msg.req] = "pending"
    OBVIOUS
  <2>1. stack[1].kind = "reply"
    BY DEF BeingTold
  <2>2. queue # <<>> /\ IsReply(1) /\ queue[1].msg.cid = stack[1].cid /\ 1 \in DOMAIN queue
    BY <1>3, <2>1, Events DEF Inv, FramesOK, StackOK
  <2>3. contexts[stack[1].cid] = queue[1].msg.req /\ queue[1].msg.req \in Requests
    BY <2>2, InFlight
  <2>4. outcome[queue[1].msg.req] \in {"ok", "error"}
    BY <1>3, <2>1, <2>3 DEF Inv, FramesOK, Owns
  <2> QED BY <1>1, <2>1, <2>2, <2>3, <2>4 DEF Untell, Inv, Typed
<1>6. Typed'
  <2>1. outcome' \in [Requests -> {"new", "pending", "ok", "error", "twice"}]
    BY <1>1 DEF Untell, Inv, Typed
  <2> QED BY <1>1, <2>1 DEF Inv, Typed
<1>7. StackOK' /\ FramesOK'
  <2>1. stack' \in Seq(FrameType) /\ Len(stack') = 0 /\ DOMAIN stack' = {}
    BY <1>1
  <2> QED BY <2>1 DEF StackOK, FramesOK, NRtClientAssumption
<1>8. QueueOK' /\ LinksOK' /\ ContextsOK'
  BY <1>1, <1>2 DEF Inv, QueueOK, LinksOK, ContextsOK
<1>9. OutcomesOK'
  BY <1>1, <1>4 DEF Inv, OutcomesOK
<1>10. FlightOK'
  <2>1. \A i \in DOMAIN queue : IsReply(i)' <=> IsReply(i)
    BY <1>2 DEF IsReply
  <2>2. ASSUME NEW i \in DOMAIN queue, IsReply(i)
        PROVE  outcome'[queue[i].msg.req] = "pending"
    <3>1. CASE i = 1 /\ BeingTold
      BY <1>5, <3>1
    <3>2. CASE outcome[queue[i].msg.req] = "pending"
      BY <1>4, <2>2, <3>2, InFlight
    <3> QED BY <2>2, <3>1, <3>2 DEF Inv, FlightOK
  <2>3. \A p \in atServer : outcome'[p.req] = "pending"
    BY <1>4, InFlight DEF Inv, FlightOK
  <2> QED BY <1>1, <1>2, <2>1, <2>2, <2>3 DEF Inv, FlightOK
<1>11. NoneLeft'
  BY <1>1 DEF NoneLeft
<1> QED BY <1>6, <1>7, <1>8, <1>9, <1>10, <1>11 DEF Inv

\* An event that is no reply is queued.
LEMMA OtherEvent ==
  ASSUME NRtClientAssumption, Inv, NEW type, NEW c \in 1..connects, NEW m,
         \/ type \in {"opened", "closed", "error"} /\ m = Transport!NoMessage
         \/ type = "message" /\ m \in MessageType,
         m.type # "reply",
         Transport!Enqueue(Transport!Event(type, c, m)),
         UNCHANGED <<contexts, nextCid, protocol, stack, issued, connects, data, outcome, replied>>,
         \A p \in atServer' : p \in atServer, pushes' \in 0..MaxPushes
  PROVE  /\ Typed' /\ StackOK' /\ QueueOK' /\ ContextsOK' /\ FlightOK' /\ FramesOK' /\ OutcomesOK'
         /\ NoneLeft'
<1>1. ~Delivering /\ queue' = Append(queue, Transport!Event(type, c, m))
  BY DEF Transport!Enqueue
<1>2. /\ QueueOK' /\ queue' # <<>>
      /\ \A i \in DOMAIN queue : i \in DOMAIN queue' /\ i # Len(queue) + 1 /\ queue'[i] = queue[i]
      /\ \A i \in DOMAIN queue' : i = Len(queue) + 1 \/ i \in DOMAIN queue
      /\ queue'[Len(queue) + 1].msg = m
  BY <1>1, Queued
<1>3. ~BeingTold
  BY <1>1, Delivered DEF Inv
<1>4. Typed' /\ ContextsOK' /\ OutcomesOK'
  BY DEF Inv, Typed, ContextsOK, OutcomesOK
<1>5. StackOK'
  BY <1>2 DEF Inv, StackOK
<1>6. FlightOK'
  <2>1. \A i \in DOMAIN queue' : IsReply(i)' => i \in DOMAIN queue /\ queue'[i] = queue[i]
    BY <1>2 DEF IsReply
  <2> QED BY <1>3, <2>1, SameFlight
<1>7. FramesOK' /\ NoneLeft'
  BY <1>3, SameFrames
<1> QED BY <1>2, <1>4, <1>5, <1>6, <1>7

LEMMA ConnReportsInv ==
  ASSUME NRtClientAssumption, Inv, ConnReports
  PROVE  Inv'
<1>1. UNCHANGED <<contexts, nextCid, protocol, stack, issued, connects, pushes, data, outcome, replied,
                  atServer>>
  BY DEF ConnReports, notTransport, client, counters
<1>2. PICK c \in attempts : \/ \E type \in {"opened", "error"} : Transport!Answer(c, type)
                            \/ \E ok \in BOOLEAN : Transport!SendEnds(c, ok)
  BY DEF ConnReports
<1>3. c \in 1..connects /\ c \in 1..MaxConnects /\ pushes' \in 0..MaxPushes
  BY <1>1 DEF Inv, LinksOK, Typed, NRtClientAssumption
<1>4. Transport!NoMessage.type # "reply"
  BY DEF Transport!NoMessage
<1>5. ASSUME NEW type \in {"opened", "error"}, Transport!Answer(c, type)
      PROVE  Inv'
  <2>1. /\ Transport!Enqueue(Transport!Event(type, c, Transport!NoMessage))
        /\ unanswered' = unanswered \ {c}
        /\ UNCHANGED <<isConnected, current, attempts, live, kept, sending>>
    BY <1>5 DEF Transport!Answer
  <2>2. LinksOK'
    BY <1>1, <2>1 DEF Inv, LinksOK
  <2>3. /\ Typed' /\ StackOK' /\ QueueOK' /\ ContextsOK' /\ FlightOK' /\ FramesOK' /\ OutcomesOK'
        /\ NoneLeft'
    BY <1>1, <1>3, <1>4, <2>1, OtherEvent
  <2> QED BY <2>2, <2>3 DEF Inv
<1>6. ASSUME NEW ok \in BOOLEAN, Transport!SendEnds(c, ok)
      PROVE  Inv'
  <2>1. /\ sending[c] > 0 /\ sending' = [sending EXCEPT ![c] = @ - 1]
        /\ UNCHANGED <<isConnected, current, attempts, unanswered, live, kept>>
    BY <1>6 DEF Transport!SendEnds, Transport!links
  <2>2. LinksOK'
    <3>1. \A d \in 1..MaxConnects : sending[d] \in Nat /\ sending[d] <= issued + data
      BY DEF Inv, LinksOK
    <3>2. /\ sending' \in [1..MaxConnects -> Nat]
          /\ \A d \in 1..MaxConnects : sending'[d] = IF d = c THEN sending[d] - 1 ELSE sending[d]
      BY <1>3, <2>1, <3>1 DEF Inv, LinksOK
    <3>3. \A d \in 1..MaxConnects : sending'[d] <= issued + data
      <4>1. issued + data \in Nat
        BY DEF Inv, Typed
      <4> QED BY <3>1, <3>2, <4>1
    <3> QED BY <1>1, <2>1, <3>2, <3>3 DEF Inv, LinksOK
  <2>3. CASE UNCHANGED queue
    <3>1. Typed' /\ StackOK' /\ QueueOK' /\ ContextsOK' /\ OutcomesOK'
      BY <1>1, <2>3 DEF Inv, Typed, StackOK, QueueOK, ContextsOK, OutcomesOK
    <3>2. FlightOK'
      BY <1>1, <2>3, SameFlight DEF IsReply, BeingTold
    <3>3. FramesOK' /\ NoneLeft'
      BY <1>1, <2>3, SameFrames
    <3> QED BY <2>2, <3>1, <3>2, <3>3 DEF Inv
  <2>4. CASE Transport!Enqueue(Transport!Event("error", c, Transport!NoMessage))
    <3>1. /\ Typed' /\ StackOK' /\ QueueOK' /\ ContextsOK' /\ FlightOK' /\ FramesOK' /\ OutcomesOK'
          /\ NoneLeft'
      BY <1>1, <1>3, <1>4, <2>4, OtherEvent
    <3> QED BY <2>2, <3>1 DEF Inv
  <2> QED BY <1>6, <2>3, <2>4 DEF Transport!SendEnds
<1> QED BY <1>2, <1>5, <1>6

LEMMA ConnEndsInv ==
  ASSUME NRtClientAssumption, Inv, NEW c \in attempts, ConnEnds(c)
  PROVE  Inv'
<1>1. /\ UNCHANGED <<contexts, nextCid, protocol, stack, issued, connects, pushes, data, outcome, replied>>
      /\ atServer' = {p \in atServer : p.conn # c}
      /\ Transport!Enqueue(Transport!Event("closed", c, Transport!NoMessage))
      /\ live' = live \ {c} /\ kept' = kept \ {c}
      /\ UNCHANGED <<isConnected, current, attempts, unanswered, sending>>
  BY DEF ConnEnds, notTransport, client, counters, Transport!End
<1>2. c \in 1..connects /\ pushes' \in 0..MaxPushes
  BY <1>1 DEF Inv, LinksOK, Typed
<1>3. LinksOK'
  <2>1. atServer' \subseteq [cid : Cids, req : Requests, format : Formats, conn : live']
    BY <1>1 DEF Inv, LinksOK
  <2>2. attempts' \subseteq 1..connects' /\ kept' \subseteq live' /\ live' \subseteq attempts'
    BY <1>1 DEF Inv, LinksOK
  <2> QED BY <1>1, <2>1, <2>2 DEF Inv, LinksOK
<1>4. /\ Typed' /\ StackOK' /\ QueueOK' /\ ContextsOK' /\ FlightOK' /\ FramesOK' /\ OutcomesOK'
      /\ NoneLeft'
  <2>1. Transport!NoMessage.type # "reply"
    BY DEF Transport!NoMessage
  <2> QED BY <1>1, <1>2, <2>1, OtherEvent
<1> QED BY <1>3, <1>4 DEF Inv

LEMMA ServerPushesInv ==
  ASSUME NRtClientAssumption, Inv, ServerPushes
  PROVE  Inv'
<1>1. /\ pushes < MaxPushes /\ pushes' = pushes + 1
      /\ UNCHANGED <<contexts, nextCid, protocol, stack, atServer, issued, connects, data, outcome, replied>>
  BY DEF ServerPushes, client
<1>2. PICK c \in live, type \in {"push", "garbage"} : Transport!Message(c, [type |-> type])
  BY DEF ServerPushes
<1>3. /\ Transport!Enqueue(Transport!Event("message", c, [type |-> type]))
      /\ UNCHANGED <<isConnected, current, attempts, unanswered, live, kept, sending>>
  BY <1>2 DEF Transport!Message, Transport!links
<1>4. [type |-> type] \in MessageType /\ [type |-> type].type # "reply"
  BY DEF MessageType
<1>5. c \in 1..connects /\ pushes' \in 0..MaxPushes
  BY <1>1 DEF Inv, LinksOK, Typed, NRtClientAssumption
<1>6. LinksOK'
  BY <1>1, <1>3 DEF Inv, LinksOK
<1>7. /\ Typed' /\ StackOK' /\ QueueOK' /\ ContextsOK' /\ FlightOK' /\ FramesOK' /\ OutcomesOK'
      /\ NoneLeft'
  BY <1>1, <1>3, <1>4, <1>5, OtherEvent
<1> QED BY <1>6, <1>7 DEF Inv

LEMMA ServerRepliesInv ==
  ASSUME NRtClientAssumption, Inv, ServerReplies
  PROVE  Inv'
<1>1. UNCHANGED <<contexts, nextCid, protocol, stack, issued, connects, pushes, data, outcome>>
  BY DEF ServerReplies, notTransport, client, counters
<1> DEFINE msg(p, ok) ==
             [type |-> "reply", cid |-> p.cid, req |-> p.req, ok |-> ok, format |-> p.format]
<1>2. PICK p \in atServer, ok \in BOOLEAN :
        /\ Transport!Message(p.conn, msg(p, ok))
        /\ atServer' = atServer \ {p}
        /\ replied' = IF ok THEN replied \cup {p.req} ELSE replied
  BY DEF ServerReplies
<1> DEFINE m == msg(p, ok)
<1>3. /\ Transport!Enqueue(Transport!Event("message", p.conn, m))
      /\ UNCHANGED <<isConnected, current, attempts, unanswered, live, kept, sending>>
  BY <1>2 DEF Transport!Message, Transport!links
<1>4. /\ p.cid \in Cids /\ p.req \in Requests /\ p.format \in Formats /\ p.conn \in live
      /\ p.conn \in 1..connects
  BY AtServer DEF Inv, LinksOK
<1>5. /\ m \in MessageType /\ m.type = "reply" /\ m.cid = p.cid /\ m.req = p.req /\ m.ok = ok
  BY <1>4 DEF MessageType
<1> HIDE DEF m
<1>6. ~Delivering /\ queue' = Append(queue, Transport!Event("message", p.conn, m))
  BY <1>3 DEF Transport!Enqueue
<1>7. /\ QueueOK' /\ queue' # <<>>
      /\ \A i \in DOMAIN queue : i \in DOMAIN queue' /\ i # Len(queue) + 1 /\ queue'[i] = queue[i]
      /\ \A i \in DOMAIN queue' : i = Len(queue) + 1 \/ i \in DOMAIN queue
      /\ Len(queue) + 1 \in DOMAIN queue' /\ queue'[Len(queue) + 1].msg = m
  BY <1>1, <1>4, <1>5, <1>6, Queued
<1>8. ~BeingTold
  BY <1>6, Delivered DEF Inv
<1>9. replied \subseteq replied' /\ replied' \subseteq Requests /\ (ok => p.req \in replied')
  BY <1>2, <1>4 DEF Inv, Typed
<1>10. Typed' /\ ContextsOK' /\ OutcomesOK'
  <2>1. outcome[p.req] = "pending"
    BY DEF Inv, FlightOK
  <2>2. \A q \in Requests : q > issued => q \notin replied'
    BY <1>2, <2>1 DEF Inv, OutcomesOK
  <2>3. OutcomesOK'
    BY <1>1, <1>9, <2>2 DEF Inv, OutcomesOK
  <2> QED BY <1>1, <1>9, <2>3 DEF Inv, Typed, ContextsOK
<1>11. LinksOK'
  BY <1>1, <1>2, <1>3 DEF Inv, LinksOK
<1>12. StackOK'
  BY <1>1, <1>7 DEF Inv, StackOK
<1>13. FlightOK'
  <2>1. \A i \in DOMAIN queue : queue'[i] = queue[i] /\ (IsReply(i)' <=> IsReply(i))
    BY <1>7 DEF IsReply
  <2>2. \A i \in DOMAIN queue' : \/ i \in DOMAIN queue /\ queue'[i] = queue[i]
                                 \/ i \notin DOMAIN queue /\ i = Len(queue) + 1 /\ queue'[i].msg = m
    BY <1>7
  <2>3. /\ contexts[p.cid] = p.req /\ outcome[p.req] = "pending" /\ p.req \notin replied
        /\ \A q \in atServer : p # q => p.req # q.req
        /\ \A i \in DOMAIN queue : IsReply(i) => p.req # queue[i].msg.req
    BY DEF Inv, FlightOK
  <2>4. ASSUME NEW i \in DOMAIN queue', IsReply(i)'
        PROVE  /\ contexts[queue'[i].msg.cid] = queue'[i].msg.req
               /\ (queue'[i].msg.ok <=> queue'[i].msg.req \in replied')
               /\ outcome[queue'[i].msg.req] = "pending"
               /\ \A j \in DOMAIN queue' : IsReply(j)' /\ i # j => queue'[j].msg.req # queue'[i].msg.req
               /\ \A q \in atServer' : q.req # queue'[i].msg.req
    <3>1. CASE i \in DOMAIN queue
      <4>1. queue'[i] = queue[i] /\ IsReply(i)
        BY <2>1, <2>4, <3>1
      <4>2. /\ contexts[queue[i].msg.cid] = queue[i].msg.req
            /\ (queue[i].msg.ok <=> queue[i].msg.req \in replied)
            /\ outcome[queue[i].msg.req] = "pending"
            /\ \A q \in atServer : q.req # queue[i].msg.req
        BY <1>8, <3>1, <4>1 DEF Inv, FlightOK
      <4>3. ASSUME NEW j \in DOMAIN queue', IsReply(j)', i # j
            PROVE  queue'[j].msg.req # queue[i].msg.req
        <5>1. CASE j \in DOMAIN queue
          BY <2>1, <3>1, <4>1, <4>3, <5>1 DEF Inv, FlightOK
        <5>2. CASE j \notin DOMAIN queue
          BY <1>5, <2>2, <2>3, <3>1, <4>1, <5>2
        <5> QED BY <5>1, <5>2
      <4> QED BY <1>2, <1>9, <4>1, <4>2, <4>3
    <3>2. CASE i \notin DOMAIN queue
      <4>1. i = Len(queue) + 1 /\ queue'[i].msg = m
        BY <2>2, <3>2
      <4>2. \A j \in DOMAIN queue' : IsReply(j)' /\ i # j => queue'[j].msg.req # p.req
        BY <2>1, <2>2, <2>3, <4>1
      <4>3. \A q \in atServer' : q.req # p.req
        BY <1>2, <2>3
      <4>4. m.ok <=> p.req \in replied'
        BY <1>2, <1>5, <2>3
      <4> QED BY <1>5, <2>3, <4>1, <4>2, <4>3, <4>4
    <3> QED BY <3>1, <3>2
  <2>5. \A q \in atServer' : q \in atServer /\ q.req \notin replied'
    BY <1>2, <2>3 DEF Inv, FlightOK
  <2> QED BY <1>1, <2>4, <2>5 DEF Inv, FlightOK
<1>14. FramesOK' /\ NoneLeft'
  BY <1>1, <1>8, SameFrames
<1> QED BY <1>7, <1>10, <1>11, <1>12, <1>13, <1>14 DEF Inv

LEMMA StutterInv ==
  ASSUME Inv, UNCHANGED vars
  PROVE  Inv'
<1>1. UNCHANGED <<contexts, nextCid, protocol, stack, isConnected, current, queue, attempts,
                  unanswered, live, kept, sending, atServer, issued, connects, pushes,
                  data, outcome, replied>>
  BY DEF vars
<1>2. Typed' /\ StackOK' /\ QueueOK' /\ LinksOK' /\ ContextsOK' /\ OutcomesOK'
  BY <1>1 DEF Inv, Typed, StackOK, QueueOK, LinksOK, ContextsOK, OutcomesOK
<1>3. FlightOK'
  BY <1>1, SameFlight DEF IsReply, BeingTold
<1>4. FramesOK' /\ NoneLeft'
  BY <1>1, SameFrames
<1> QED BY <1>2, <1>3, <1>4 DEF Inv

LEMMA InitInv ==
  ASSUME NRtClientAssumption, Init
  PROVE  Inv
<1>1. /\ contexts = [c \in Cids |-> NoRequest]
      /\ nextCid = 0 /\ protocol = "none" /\ stack = <<>>
      /\ isConnected = FALSE /\ current = NoConn /\ queue = <<>>
      /\ attempts = {} /\ unanswered = {} /\ live = {} /\ kept = {}
      /\ sending = [c \in 1..MaxConnects |-> 0] /\ atServer = {}
      /\ issued = 0 /\ connects = 0 /\ pushes = 0 /\ data = 0
      /\ outcome = [r \in Requests |-> "new"] /\ replied = {}
  BY DEF Init
<1>2. \A r \in Requests : r > 0
  BY DEF Requests
<1>3. Typed
  <2>1. contexts \in [Cids -> 0..MaxRequests]
    BY <1>1 DEF NoRequest, NRtClientAssumption
  <2>2. outcome \in [Requests -> {"new", "pending", "ok", "error", "twice"}]
    BY <1>1
  <2> QED BY <1>1, <2>1, <2>2 DEF Typed, NRtClientAssumption
<1>4. StackOK
  BY <1>1 DEF StackOK, NRtClientAssumption
<1>5. QueueOK
  BY <1>1 DEF QueueOK
<1>6. LinksOK
  <2>1. sending \in [1..MaxConnects -> Nat] /\ \A c \in 1..MaxConnects : sending[c] <= issued + data
    BY <1>1
  <2>2. /\ attempts \subseteq 1..connects /\ current \in attempts \cup {NoConn}
        /\ unanswered \subseteq attempts /\ kept \subseteq live /\ live \subseteq attempts
    BY <1>1
  <2>3. /\ isConnected \in BOOLEAN /\ (connects # 0 => protocol \in Formats)
        /\ atServer \subseteq [cid : Cids, req : Requests, format : Formats, conn : live]
    BY <1>1
  <2> QED BY <2>1, <2>2, <2>3 DEF LinksOK
<1>7. ContextsOK /\ OutcomesOK
  BY <1>1, <1>2 DEF ContextsOK, OutcomesOK
<1>8. FlightOK /\ FramesOK /\ NoneLeft
  BY <1>1 DEF FlightOK, FramesOK, NoneLeft
<1> QED BY <1>3, <1>4, <1>5, <1>6, <1>7, <1>8 DEF Inv

LEMMA StepInv ==
  ASSUME NRtClientAssumption, Inv, [Next]_vars
  PROVE  Inv'
<1>1. CASE Request
  BY <1>1, RequestInv
<1>2. CASE RequestFails
  BY <1>2, RequestFailsInv
<1>3. CASE SendMatchData
  BY <1>3, SendMatchDataInv
<1>4. CASE SendMatchDataThrows
  BY <1>4, SendMatchDataThrowsInv
<1>5. CASE Connect
  BY <1>5, ConnectInv
<1>6. CASE ConnectGoes
  BY <1>6, ConnectGoesInv
<1>7. CASE Disconnect
  BY <1>7, DisconnectInv
<1>8. CASE Deliver
  BY <1>8, DeliverInv
<1>9. CASE DeliverReturns
  BY <1>9, DeliverReturnsInv
<1>10. CASE FailReturns
  BY <1>10, FailReturnsInv
<1>11. CASE ConnReports
  BY <1>11, ConnReportsInv
<1>12. CASE \E c \in attempts : ConnEnds(c)
  BY <1>12, ConnEndsInv
<1>13. CASE ServerReplies
  BY <1>13, ServerRepliesInv
<1>14. CASE ServerPushes
  BY <1>14, ServerPushesInv
<1>15. CASE Idle \/ UNCHANGED vars
  BY <1>15, StutterInv DEF Idle
<1> QED BY <1>1, <1>2, <1>3, <1>4, <1>5, <1>6, <1>7, <1>8, <1>9, <1>10, <1>11, <1>12, <1>13, <1>14,
           <1>15 DEF Next

-----------------------------------------------------------------------------
(* What the invariant implies.                                             *)

LEMMA ImpliesTypeOK ==
  ASSUME NRtClientAssumption, Inv
  PROVE  TypeOK
<1>1. \A i \in DOMAIN queue :
        /\ queue[i].type \in {"opened", "closed", "error", "message"}
        /\ queue[i].conn \in 1..connects
        /\ IF queue[i].type = "message" THEN queue[i].msg \in MessageType
           ELSE queue[i].msg = Transport!NoMessage
  <2>1. ASSUME NEW i \in DOMAIN queue
        PROVE  /\ queue[i].type \in {"opened", "closed", "error", "message"}
               /\ queue[i].conn \in 1..connects
               /\ IF queue[i].type = "message" THEN queue[i].msg \in MessageType
                  ELSE queue[i].msg = Transport!NoMessage
    <3>1. queue[i] \in EventType /\ queue[i].conn \in 1..MaxConnects /\ queue[i].conn <= connects
      BY Events DEF Inv
    <3>2. queue[i].conn \in 1..connects
      BY <3>1 DEF Inv, Typed
    <3> QED BY <3>1, <3>2, EventFacts
  <2> QED BY <2>1
<1>2. sending \in [1..MaxConnects -> 0..(MaxRequests + MaxData)]
  <2>1. /\ sending \in [1..MaxConnects -> Nat]
        /\ \A d \in 1..MaxConnects : sending[d] <= issued + data
        /\ issued \in 0..MaxRequests /\ data \in 0..MaxData /\ MaxRequests \in Nat /\ MaxData \in Nat
    BY DEF Inv, LinksOK, Typed, NRtClientAssumption
  <2>2. \A d \in 1..MaxConnects : sending[d] \in 0..(MaxRequests + MaxData)
    BY <2>1
  <2> QED BY <2>1, <2>2
<1>3. /\ isConnected \in BOOLEAN
      /\ attempts \subseteq 1..connects /\ current \in attempts \cup {NoConn}
      /\ unanswered \subseteq attempts /\ kept \subseteq live /\ live \subseteq attempts
      /\ atServer \subseteq [cid : Cids, req : Requests, format : Formats, conn : live]
  BY DEF Inv, LinksOK
<1>4. /\ stack \in Seq(FrameType) /\ Len(stack) <= MaxDepth + 1
      /\ \A i \in DOMAIN stack :
           /\ stack[i].kind \in {"event", "reply"} => i = 1 /\ queue # <<>>
           /\ stack[i].kind = "connect" => i = Len(stack)
  BY DEF Inv, StackOK
<1> QED BY <1>1, <1>2, <1>3, <1>4 DEF Inv, Typed, TypeOK

LEMMA ImpliesReplyFinds ==
  ASSUME Inv
  PROVE  ReplyFindsItsRequest
BY DEF Inv, FlightOK, IsReply, ReplyFindsItsRequest

LEMMA ImpliesFramesOwn ==
  ASSUME Inv
  PROVE  FramesOwnContexts
BY DEF Inv, FramesOK, Owns, FramesOwnContexts

\* A step of the client is a step of the promise or leaves outcome and replied
\* alone.
LEMMA StepPromise ==
  ASSUME NRtClientAssumption, Inv, [Next]_vars
  PROVE  [Promise!PromiseNext]_Promise!promise
<1>1. CASE Request \/ RequestFails
  <2> DEFINE r == issued + 1
  <2>1. r \in Requests /\ r > issued
    <3>1. issued < MaxRequests
      BY <1>1 DEF Request, RequestFails
    <3>2. issued \in 0..MaxRequests /\ MaxRequests \in Nat
      BY DEF NRtClientAssumption, Inv, Typed
    <3> QED BY <3>1, <3>2 DEF Requests
  <2>2. outcome[r] = "new"
    BY <2>1 DEF Inv, OutcomesOK
  <2>3. Promise!Issue(r) \/ Promise!Refuse(r)
    BY <1>1, <2>2 DEF Request, RequestFails, Promise!Issue, Promise!Refuse
  <2> QED BY <2>1, <2>3 DEF Promise!PromiseNext
<1>2. CASE SendMatchDataThrows
  <2>1. /\ stack # <<>> /\ "sendMatchData" \in CallbackCalls /\ UNCHANGED replied
        /\ outcome' = IF stack[1].kind = "reply" THEN Untell(contexts[stack[1].cid]) ELSE outcome
    BY <1>2 DEF SendMatchDataThrows, MayCall
  <2>2. CASE stack[1].kind # "reply"
    BY <2>1, <2>2 DEF Promise!promise
  <2>3. CASE stack[1].kind = "reply"
    <3> DEFINE q == contexts[stack[1].cid]
    <3>1. 1 \in DOMAIN stack /\ Owns(1)
      BY <2>1, <2>3, Frames DEF Inv, Owns
    <3>2. q \in Requests /\ outcome[q] \in {"ok", "error"}
      BY <3>1, OldFrames DEF Inv, FramesOK
    <3>3. outcome' = [outcome EXCEPT ![q] = "pending"]
      BY <2>1, <2>3, <3>2 DEF Untell
    <3> HIDE DEF q
    <3>4. Promise!Untell(q)
      BY <2>1, <3>2, <3>3 DEF Promise!Untell
    <3> QED BY <3>2, <3>4 DEF Promise!PromiseNext
  <2> QED BY <2>2, <2>3
<1>3. CASE Deliver
  <2> DEFINE m == queue[1].msg
             r == IF m.type = "reply" /\ m.format = protocol THEN contexts[m.cid] ELSE NoRequest
  <2>1. stack = <<>> /\ queue # <<>> /\ Head(queue) = queue[1] /\ 1 \in DOMAIN queue
    BY <1>3, Events DEF Deliver, Inv
  <2>2. (IF r # NoRequest THEN CallBack(m, r) ELSE CallListener) /\ UNCHANGED replied
    BY <1>3, <2>1 DEF Deliver
  <2>3. CASE r = NoRequest
    BY <2>2, <2>3 DEF CallListener, Promise!promise
  <2>4. CASE r # NoRequest
    <3>1. IsReply(1) /\ r = contexts[m.cid]
      BY <2>4 DEF IsReply
    <3>2. ~BeingTold
      BY <2>1 DEF BeingTold
    <3>3. /\ r \in Requests /\ r = m.req /\ outcome[r] = "pending" /\ (m.ok <=> r \in replied)
      BY <2>1, <3>1, <3>2, InFlight DEF Inv, FlightOK
    <3>4. outcome' = [outcome EXCEPT ![r] = IF m.ok THEN "ok" ELSE "error"]
      BY <2>2, <2>4, <3>3 DEF CallBack, Tell
    <3> HIDE DEF m, r
    <3>5. Promise!Succeed(r) \/ Promise!Fail(r)
      <4>1. CASE r \in replied
        BY <2>2, <3>3, <3>4, <4>1 DEF Promise!Succeed
      <4>2. CASE r \notin replied
        BY <2>2, <3>3, <3>4, <4>2 DEF Promise!Fail
      <4> QED BY <4>1, <4>2
    <3> QED BY <3>3, <3>5 DEF Promise!PromiseNext
  <2> QED BY <2>3, <2>4
<1>4. CASE ServerReplies
  <2>1. PICK p \in atServer, ok \in BOOLEAN :
          replied' = IF ok THEN replied \cup {p.req} ELSE replied
    BY <1>4 DEF ServerReplies
  <2>2. p.req \in Requests /\ outcome[p.req] = "pending" /\ p.req \notin replied /\ UNCHANGED outcome
    BY <1>4, AtServer DEF ServerReplies, notTransport, Inv, FlightOK
  <2>3. Promise!Reply(p.req) \/ UNCHANGED Promise!promise
    BY <2>1, <2>2 DEF Promise!Reply, Promise!promise
  <2> QED BY <2>2, <2>3 DEF Promise!PromiseNext
<1>5. ASSUME \/ SendMatchData \/ Connect \/ ConnectGoes \/ Disconnect \/ DeliverReturns \/ FailReturns
             \/ ConnReports \/ (\E c \in attempts : ConnEnds(c)) \/ ServerPushes
             \/ Idle \/ UNCHANGED vars
      PROVE  UNCHANGED Promise!promise
  BY <1>5 DEF SendMatchData, Connect, ConnectGoes, Disconnect, DeliverReturns, FailReturns, ConnReports,
              ConnEnds, ServerPushes, Idle, notTransport, vars, Promise!promise
<1> QED BY <1>1, <1>2, <1>3, <1>4, <1>5 DEF Next

-----------------------------------------------------------------------------
(* The theorems.                                                           *)

\* The contexts, the callbacks in progress, the transport's queue and what the
\* server has yet to answer satisfy the inductive invariant in every state.
THEOREM AlwaysInv == Spec => []Inv
<1>1. Init => Inv
  BY InitInv, NRtClientAssumption
<1>2. Inv /\ [Next]_vars => Inv'
  BY StepInv, NRtClientAssumption
<1> QED BY <1>1, <1>2, PTL DEF Spec

\* The client's variables have their types; of the callbacks in progress only
\* the outermost is one tick() runs, for the event first in the queue.
THEOREM TypeCorrect == Spec => []TypeOK
<1>1. Inv => TypeOK
  BY ImpliesTypeOK, NRtClientAssumption
<1> QED BY <1>1, AlwaysInv, PTL

\* onTransportMessage never takes a reply for that of another request, though
\* createReqContext uses a cid again once _nextCid started over.
THEOREM RepliesFindTheirRequests == Spec => []ReplyFindsItsRequest
<1>1. Inv => ReplyFindsItsRequest
  BY ImpliesReplyFinds
<1> QED BY <1>1, AlwaysInv, PTL

\* The iterators into _reqContexts that callbacks in progress erase through
\* stay valid, whatever the application calls in its callbacks.
THEOREM FramesKeepTheirContexts == Spec => []FramesOwnContexts
<1>1. Inv => FramesOwnContexts
  BY ImpliesFramesOwn
<1> QED BY <1>1, AlwaysInv, PTL

\* If sendMatchData is not called in callbacks, where it may throw, the client
\* leaves no context of a request behind that was answered or refused.
THEOREM NoContextIsLeft ==
  ASSUME "sendMatchData" \notin CallbackCalls
  PROVE  Spec => []ContextsArePending
<1>1. Inv => ContextsArePending
  BY DEF Inv, NoneLeft, ContextsArePending, Pending
<1> QED BY <1>1, AlwaysInv, PTL

\* The client implements RequestPromise: an outcome is told at most once, or
\* again after an exception, never before the request was made, and success
\* just when the server answered that very request with success.
THEOREM PromiseKept == Spec => KeepsPromise
<1>1. Init => Promise!PromiseInit
  BY DEF Init, Promise!PromiseInit
<1>2. Inv /\ [Next]_vars => [Promise!PromiseNext]_Promise!promise
  BY StepPromise, NRtClientAssumption
<1> QED BY <1>1, <1>2, AlwaysInv, PTL DEF Spec, KeepsPromise, Promise!PromiseSpec

=============================================================================
