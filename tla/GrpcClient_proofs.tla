-------------------------- MODULE GrpcClient_proofs --------------------------
(***************************************************************************)
(* What holds of GrpcClient for any number of requests, calls nested in    *)
(* one another and exceptions: its type, that every tag leads to a context *)
(* that exists, that no request is lost, and that it keeps RequestPromise. *)
(***************************************************************************)
EXTENDS GrpcClient, SequenceLemmas, TLAPS

FrameType == {Frame("tick", 0)} \cup {Frame("callback", r) : r \in Requests}

\* The operation of r has finished, and tick() has not told of it.
Waiting(r) == \E i \in DOMAIN cq : cq[i].req = r

\* The callback of r is in progress.
Told(r) == \E i \in DOMAIN stack : stack[i] = Frame("callback", r)

-----------------------------------------------------------------------------
(* The inductive invariant.  TagsAreContexts and NoRequestLost say which   *)
(* contexts and operations there are; that the loop of tick() keeps them   *)
(* also takes that an operation is told of once (its request is pending    *)
(* until then, is not in the queue twice, and is not both in the queue and *)
(* in flight), and that what the queue says of it is what the server said. *)

StackOK ==
  /\ stack \in Seq(FrameType)
  /\ \A i \in DOMAIN stack : stack[i].op = "callback" =>
       /\ stack[i].req \in reqContexts
       /\ outcome[stack[i].req] \in {"ok", "error"}
       /\ \A j \in DOMAIN stack :
            stack[j].op = "callback" /\ i # j => stack[j].req # stack[i].req

QueueOK ==
  \A i \in DOMAIN cq :
    /\ outcome[cq[i].req] = "pending" /\ cq[i].req \notin inFlight
    /\ cq[i].ok = (cq[i].req \in replied)
    /\ \A j \in DOMAIN cq : i # j => cq[j].req # cq[i].req

RequestsOK ==
  \A r \in Requests :
    /\ outcome[r] # "twice"
    /\ outcome[r] = "new" <=> r > issued
    /\ outcome[r] = "new" => r \notin replied /\ r \notin reqContexts
    /\ r \in inFlight => outcome[r] = "pending" /\ r \notin replied
    /\ outcome[r] = "pending" /\ ~freed => r \in reqContexts /\ (r \in inFlight \/ Waiting(r))
    /\ r \in reqContexts => throws > 0 \/ outcome[r] = "pending" \/ Told(r)

Inv ==
  /\ TypeOK /\ StackOK /\ QueueOK /\ RequestsOK
  /\ freed => stack = <<>> /\ cq = <<>>

-----------------------------------------------------------------------------
(* One lemma per action.                                                   *)

\* What is in the queue and on the stack.
LEMMA Elements ==
  ASSUME TypeOK, StackOK
  PROVE  /\ \A i \in DOMAIN cq : cq[i].req \in Requests /\ cq[i].ok \in BOOLEAN
         /\ \A i \in DOMAIN stack :
              stack[i].op = "callback" => /\ stack[i].req \in Requests
                                          /\ stack[i] = Frame("callback", stack[i].req)
<1>1. \A i \in DOMAIN cq : cq[i] \in Event
  BY DEF TypeOK
<1>2. \A i \in DOMAIN stack : stack[i] \in FrameType
  BY DEF StackOK
<1> QED BY <1>1, <1>2 DEF Event, FrameType, Frame

\* The application's code runs: its callback is the innermost call.
LEMMA CallerIsCallback ==
  ASSUME GrpcClientAssumption, Inv, NEW a, MayCall(a)
  PROVE  /\ ~freed
         /\ a # "destroy" \/ stack = <<>>
         /\ Len(stack) % 2 = 0
<1>1. stack \in Seq(FrameType) /\ Len(stack) \in Nat
  BY DEF Inv, StackOK
<1>2. CASE stack = <<>>
  BY <1>2 DEF MayCall
<1>3. CASE stack # <<>>
  <2>1. /\ stack[Len(stack)].op = "callback" /\ a \in CallbackCalls
        /\ Len(stack) \in DOMAIN stack
    BY <1>1, <1>3 DEF MayCall, Running, Last
  <2>2. Len(stack) % 2 # 1
    BY <2>1 DEF Inv, TypeOK, Frame
  <2> QED BY <1>1, <2>1, <2>2, Parity DEF MayCall, GrpcClientAssumption
<1> QED BY <1>2, <1>3

LEMMA RequestInv ==
  ASSUME GrpcClientAssumption, Inv, Request
  PROVE  Inv'
<1> DEFINE r == issued + 1
<1>1. /\ ~freed /\ r \in Requests /\ r > issued /\ issued \in Nat
      /\ reqContexts' = reqContexts \cup {r} /\ inFlight' = inFlight \cup {r}
      /\ issued' = r /\ outcome' = [outcome EXCEPT ![r] = "pending"]
      /\ UNCHANGED <<cq, shut, stack, freed, throws, replied>>
  BY DEF Request, MayCall, CreateReqContext, GrpcClientAssumption, Inv, TypeOK, Requests
<1>2. outcome[r] = "new" /\ r \notin replied
  BY <1>1 DEF Inv, RequestsOK
<1>3. outcome'[r] = "pending" /\ \A q \in Requests : q # r => outcome'[q] = outcome[q]
  BY <1>1 DEF Inv, TypeOK
<1> HIDE DEF r
<1>4. TypeOK'
  BY <1>1 DEF Inv, TypeOK, Event, Requests, Frame, r
<1>5. StackOK'
  BY <1>1, <1>2, <1>3, Elements DEF Inv, StackOK
<1>6. QueueOK'
  BY <1>1, <1>2, <1>3, Elements DEF Inv, QueueOK
<1>7. RequestsOK'
  <2>1. \A q \in Requests : /\ q > issued' <=> q > issued /\ q # r
                          /\ Waiting(q)' = Waiting(q) /\ Told(q)' = Told(q)
    BY <1>1 DEF Requests, GrpcClientAssumption, r, Waiting, Told
  <2> QED BY <1>1, <1>2, <1>3, <2>1 DEF Inv, RequestsOK
<1> QED BY <1>1, <1>4, <1>5, <1>6, <1>7 DEF Inv

LEMMA TickInv ==
  ASSUME GrpcClientAssumption, Inv, Tick
  PROVE  Inv'
<1> DEFINE f == Frame("tick", 0)
           n == Len(stack)
<1>1. /\ ~freed /\ stack' = Append(stack, f) /\ n % 2 = 0
      /\ UNCHANGED <<reqContexts, inFlight, cq, shut, freed, issued, throws, outcome, replied>>
  BY CallerIsCallback DEF Tick, grpc
<1>2. /\ stack' \in Seq(FrameType) /\ Len(stack') = n + 1 /\ n \in Nat
      /\ \A i \in 1..n : stack'[i] = stack[i]
      /\ stack'[n + 1] = f /\ f.op # "callback"
  BY <1>1, AppendOne DEF Inv, StackOK, FrameType, Frame
<1>3. /\ DOMAIN stack' = 1..(n + 1) /\ DOMAIN stack = 1..n /\ (n + 1) % 2 = 1
  BY <1>1, <1>2, Parity DEF Inv, StackOK
<1> HIDE DEF n, f
<1>4. TypeOK'
  <2>1. ASSUME NEW i \in DOMAIN stack'
        PROVE  stack'[i] \in IF i % 2 = 1 THEN {Frame("tick", 0)}
                             ELSE {Frame("callback", r) : r \in Requests}
    <3>1. CASE i \in DOMAIN stack
      BY <1>2, <1>3, <3>1 DEF Inv, TypeOK
    <3>2. CASE i = n + 1
      BY <1>2, <1>3, <3>2 DEF f
    <3> QED BY <1>2, <1>3, <3>1, <3>2
  <2> QED BY <1>1, <2>1 DEF Inv, TypeOK
<1>5. StackOK'
  <2>1. \A i \in DOMAIN stack' :
          stack'[i].op = "callback" => i \in DOMAIN stack /\ stack'[i] = stack[i]
    BY <1>2, <1>3
  <2> QED BY <1>1, <1>2, <2>1 DEF Inv, StackOK
<1>6. RequestsOK'
  <2>1. \A r \in Requests : Told(r) => Told(r)'
    BY <1>2, <1>3 DEF Told
  <2> QED BY <1>1, <2>1 DEF Inv, RequestsOK, Waiting
<1> QED BY <1>1, <1>4, <1>5, <1>6 DEF Inv, QueueOK

LEMMA DisconnectInv ==
  ASSUME Inv, Disconnect
  PROVE  Inv'
<1>1. /\ shut' = TRUE
      /\ UNCHANGED <<reqContexts, inFlight, cq, stack, freed, issued, throws, outcome, replied>>
  BY DEF Disconnect
<1>2. TypeOK'
  BY <1>1 DEF Inv, TypeOK
<1>3. StackOK' /\ QueueOK'
  BY <1>1 DEF Inv, StackOK, QueueOK
<1>4. RequestsOK'
  BY <1>1 DEF Inv, RequestsOK, Waiting, Told
<1> QED BY <1>1, <1>2, <1>3, <1>4 DEF Inv

LEMMA DestroyInv ==
  ASSUME GrpcClientAssumption, Inv, Destroy
  PROVE  Inv'
<1>1. /\ stack = <<>> /\ freed' = TRUE /\ shut' = TRUE /\ reqContexts' = {} /\ cq' = <<>>
      /\ UNCHANGED <<inFlight, stack, issued, throws, outcome, replied>>
  BY CallerIsCallback DEF Destroy
<1>2. TypeOK'
  BY <1>1 DEF Inv, TypeOK
<1>3. StackOK' /\ QueueOK'
  BY <1>1 DEF Inv, StackOK, QueueOK
<1>4. RequestsOK'
  BY <1>1 DEF Inv, RequestsOK
<1> QED BY <1>1, <1>2, <1>3, <1>4 DEF Inv

\* The innermost call is the last frame of the stack.
LEMMA Innermost ==
  ASSUME Inv, NEW op, Running(op)
  PROVE  /\ ~freed /\ stack # <<>> /\ Len(stack) \in Nat /\ Len(stack) >= 1
         /\ DOMAIN stack = 1..Len(stack) /\ stack[Len(stack)].op = op
         /\ op = "tick" => (Len(stack) + 1) % 2 = 0
         /\ op = "callback" => (Len(stack) + 1) % 2 = 1
<1>1. /\ ~freed /\ stack # <<>> /\ Len(stack) \in Nat /\ Len(stack) >= 1
      /\ DOMAIN stack = 1..Len(stack) /\ stack[Len(stack)].op = op
  BY DEF Inv, StackOK, Running, Last
<1>2. stack[Len(stack)] \in IF Len(stack) % 2 = 1 THEN {Frame("tick", 0)}
                            ELSE {Frame("callback", r) : r \in Requests}
  BY <1>1 DEF Inv, TypeOK
<1>3. op = "tick" <=> Len(stack) % 2 = 1
  BY <1>1, <1>2 DEF Frame
<1>4. op = "callback" => Len(stack) % 2 = 0
  BY <1>1, <1>3, Parity
<1> QED BY <1>1, <1>3, <1>4, Parity

\* A call returns: the frames below it are as they were.
LEMMA InnermostReturns ==
  ASSUME Inv, stack # <<>>, stack' = Front(stack)
  PROVE  /\ stack' \in Seq(FrameType) /\ Len(stack') = Len(stack) - 1
         /\ DOMAIN stack' = 1..(Len(stack) - 1)
         /\ \A i \in DOMAIN stack' : i \in DOMAIN stack /\ i # Len(stack) /\ stack'[i] = stack[i]
         /\ \A i \in DOMAIN stack : i # Len(stack) => i \in DOMAIN stack'
<1> DEFINE n == Len(stack)
<1>1. /\ stack' \in Seq(FrameType) /\ Len(stack') = n - 1 /\ n \in Nat /\ n >= 1
      /\ \A i \in 1..(n - 1) : stack'[i] = stack[i]
  BY FrontOne DEF Inv, StackOK, Front
<1>2. DOMAIN stack' = 1..(n - 1) /\ DOMAIN stack = 1..n
  BY <1>1 DEF Inv, StackOK
<1> QED BY <1>1, <1>2

LEMMA GotEventInv ==
  ASSUME GrpcClientAssumption, Inv, GotEvent
  PROVE  Inv'
<1> DEFINE e == Head(cq)
           f == Frame("callback", e.req)
           n == Len(stack)
           o == IF e.ok THEN "ok" ELSE "error"
<1>1. /\ Running("tick") /\ cq # <<>>
      /\ stack' = Append(stack, f) /\ cq' = Tail(cq)
      /\ outcome' = IF e.req \in reqContexts THEN Tell(e.req, o) ELSE outcome
      /\ UNCHANGED <<reqContexts, inFlight, shut, freed, issued, throws, replied>>
  BY DEF GotEvent, OnResponse
<1>2. /\ cq' \in Seq(Event) /\ e = cq[1] /\ 1 \in DOMAIN cq /\ DOMAIN cq' \subseteq Nat
      /\ \A i \in DOMAIN cq' : i + 1 \in DOMAIN cq /\ i + 1 # 1 /\ cq'[i] = cq[i + 1]
      /\ \A i \in DOMAIN cq : i # 1 => i - 1 \in DOMAIN cq' /\ cq'[i - 1] = cq[i]
  <2>1. /\ cq' \in Seq(Event) /\ cq \in Seq(Event) /\ Len(cq') = Len(cq) - 1 /\ e = cq[1]
        /\ Len(cq) \in Nat /\ Len(cq) >= 1 /\ \A i \in 1..(Len(cq) - 1) : cq'[i] = cq[i + 1]
    BY <1>1, TailOne DEF Inv, TypeOK
  <2>2. DOMAIN cq = 1..Len(cq) /\ DOMAIN cq' = 1..(Len(cq) - 1)
    BY <2>1
  <2> HIDE DEF e
  <2> QED BY <2>1, <2>2
<1>3. /\ e.req \in Requests /\ e.ok \in BOOLEAN /\ outcome[e.req] = "pending"
      /\ \A i \in DOMAIN cq : i # 1 => cq[i].req # e.req
  BY <1>2, Elements DEF Inv, QueueOK
<1>4. /\ ~freed /\ n \in Nat /\ (n + 1) % 2 = 0 /\ DOMAIN stack = 1..n
  BY <1>1, Innermost
<1>5. e.req \in reqContexts
  BY <1>3, <1>4 DEF Inv, RequestsOK
<1>6. /\ outcome' \in [Requests -> {"new", "pending", "ok", "error", "twice"}]
      /\ outcome'[e.req] = o /\ o \in {"ok", "error"}
      /\ \A r \in Requests : r # e.req => outcome'[r] = outcome[r]
  BY <1>1, <1>3, <1>5 DEF Inv, TypeOK, Tell
<1>7. /\ stack' \in Seq(FrameType) /\ DOMAIN stack' = 1..(n + 1)
      /\ \A i \in DOMAIN stack : i \in DOMAIN stack' /\ i # n + 1 /\ stack'[i] = stack[i]
      /\ \A i \in DOMAIN stack' : i = n + 1 \/ i \in DOMAIN stack
      /\ stack'[n + 1] = f /\ n + 1 \in DOMAIN stack'
  <2>1. f \in FrameType
    BY <1>3 DEF FrameType
  <2> HIDE DEF f
  <2> QED BY <1>1, <1>4, <2>1, AppendOne DEF Inv, StackOK
<1>8. f.op = "callback" /\ f.req = e.req
  BY DEF Frame
<1> HIDE DEF e, n, o
<1>9. TypeOK'
  <2>1. ASSUME NEW i \in DOMAIN stack'
        PROVE  stack'[i] \in IF i % 2 = 1 THEN {Frame("tick", 0)}
                             ELSE {Frame("callback", r) : r \in Requests}
    <3>1. CASE i \in DOMAIN stack
      BY <1>7, <3>1 DEF Inv, TypeOK
    <3>2. CASE i = n + 1
      BY <1>3, <1>4, <1>7, <3>2
    <3> QED BY <1>7, <3>1, <3>2
  <2> QED BY <1>1, <1>2, <1>6, <2>1 DEF Inv, TypeOK
<1> HIDE DEF f
<1>10. StackOK'
  <2>1. ASSUME NEW i \in DOMAIN stack, stack[i].op = "callback"
        PROVE  stack[i].req \in Requests /\ stack[i].req # e.req
    BY <1>3, <2>1, Elements DEF Inv, StackOK
  <2>2. ASSUME NEW i \in DOMAIN stack', stack'[i].op = "callback"
        PROVE  /\ stack'[i].req \in reqContexts'
               /\ outcome'[stack'[i].req] \in {"ok", "error"}
    <3>1. CASE i = n + 1
      BY <1>1, <1>5, <1>6, <1>7, <1>8, <3>1
    <3>2. CASE i \in DOMAIN stack
      BY <1>1, <1>6, <1>7, <2>1, <2>2, <3>2 DEF Inv, StackOK
    <3> QED BY <1>7, <3>1, <3>2
  <2>3. ASSUME NEW i \in DOMAIN stack', stack'[i].op = "callback",
               NEW j \in DOMAIN stack', stack'[j].op = "callback", i # j
        PROVE  stack'[j].req # stack'[i].req
    BY <1>7, <1>8, <2>1, <2>3 DEF Inv, StackOK
  <2> QED BY <1>7, <2>2, <2>3 DEF StackOK
<1>11. QueueOK'
  <2>1. ASSUME NEW i \in DOMAIN cq'
        PROVE  /\ outcome'[cq'[i].req] = "pending" /\ cq'[i].req \notin inFlight
               /\ cq'[i].ok = (cq'[i].req \in replied)
    BY <1>2, <1>3, <1>6, Elements DEF Inv, QueueOK
  <2>2. ASSUME NEW i \in DOMAIN cq', NEW j \in DOMAIN cq', i # j
        PROVE  cq'[j].req # cq'[i].req
    <3>1. i + 1 # j + 1 /\ i + 1 \in DOMAIN cq /\ j + 1 \in DOMAIN cq
      BY <1>2, <2>2
    <3> QED BY <1>2, <3>1 DEF Inv, QueueOK
  <2> QED BY <1>1, <2>1, <2>2 DEF QueueOK
<1>12. RequestsOK'
  <2>1. \A r \in Requests : /\ r # e.req /\ Waiting(r) => Waiting(r)'
                            /\ Told(r) \/ r = e.req => Told(r)'
    BY <1>2, <1>7 DEF Waiting, Told, f
  <2>2. e.req \notin inFlight /\ ~(e.req > issued)
    BY <1>2, <1>3 DEF Inv, QueueOK, RequestsOK
  <2> QED BY <1>1, <1>6, <2>1, <2>2 DEF Inv, RequestsOK
<1> QED BY <1>1, <1>4, <1>9, <1>10, <1>11, <1>12 DEF Inv

LEMMA TickReturnsInv ==
  ASSUME GrpcClientAssumption, Inv, TickReturns
  PROVE  Inv'
<1>1. /\ Running("tick") /\ stack' = Front(stack)
      /\ UNCHANGED <<reqContexts, inFlight, cq, shut, freed, issued, throws, outcome, replied>>
  BY DEF TickReturns, grpc
<1>2. stack # <<>> /\ stack[Len(stack)].op = "tick" /\ ~freed
  BY <1>1, Innermost
<1>3. /\ stack' \in Seq(FrameType)
      /\ \A i \in DOMAIN stack' : i \in DOMAIN stack /\ stack'[i] = stack[i]
      /\ \A i \in DOMAIN stack : i # Len(stack) => i \in DOMAIN stack'
  BY <1>1, <1>2, InnermostReturns
<1>4. TypeOK'
  BY <1>1, <1>3 DEF Inv, TypeOK
<1>5. StackOK' /\ QueueOK'
  BY <1>1, <1>3 DEF Inv, StackOK, QueueOK
<1>6. RequestsOK'
  <2>1. \A r \in Requests : Told(r) => Told(r)'
    BY <1>2, <1>3 DEF Told, Frame
  <2> QED BY <1>1, <2>1 DEF Inv, RequestsOK, Waiting
<1> QED BY <1>1, <1>2, <1>4, <1>5, <1>6 DEF Inv

LEMMA CallbackReturnsInv ==
  ASSUME GrpcClientAssumption, Inv, CallbackReturns
  PROVE  Inv'
<1> DEFINE n == Len(stack)
           r == stack[n].req
<1>1. /\ Running("callback") /\ stack' = Front(stack) /\ reqContexts' = reqContexts \ {r}
      /\ UNCHANGED <<inFlight, cq, shut, freed, issued, throws, outcome, replied>>
  BY DEF CallbackReturns, grpc, Last
<1>2. stack # <<>> /\ n \in DOMAIN stack /\ stack[n].op = "callback" /\ ~freed
  BY <1>1, Innermost
<1>3. /\ stack' \in Seq(FrameType)
      /\ \A i \in DOMAIN stack' : i \in DOMAIN stack /\ i # n /\ stack'[i] = stack[i]
      /\ \A i \in DOMAIN stack : i # n => i \in DOMAIN stack'
  BY <1>1, <1>2, InnermostReturns
<1>4. r \in Requests /\ outcome[r] # "pending" /\ stack[n] = Frame("callback", r)
  BY <1>2, Elements DEF Inv, StackOK
<1>5. \A i \in DOMAIN stack : i # n /\ stack[i].op = "callback" => stack[i].req # r
  BY <1>2 DEF Inv, StackOK
<1> HIDE DEF n, r
<1>6. TypeOK'
  BY <1>1, <1>3 DEF Inv, TypeOK
<1>7. StackOK' /\ QueueOK'
  BY <1>1, <1>3, <1>5 DEF Inv, StackOK, QueueOK
<1>8. RequestsOK'
  <2>1. \A q \in Requests : Told(q) /\ q # r => Told(q)'
    BY <1>3, <1>4 DEF Told, Frame
  <2> QED BY <1>1, <1>4, <2>1 DEF Inv, RequestsOK, Waiting
<1> QED BY <1>1, <1>2, <1>6, <1>7, <1>8 DEF Inv

LEMMA CallbackThrowsInv ==
  ASSUME GrpcClientAssumption, Inv, CallbackThrows
  PROVE  Inv'
<1>1. /\ ~freed /\ stack' = <<>> /\ throws' = throws + 1 /\ throws < MaxThrows
      /\ UNCHANGED <<reqContexts, inFlight, cq, shut, freed, issued, outcome, replied>>
  BY Innermost DEF CallbackThrows, grpc
<1>2. throws' \in 0..MaxThrows /\ throws' > 0
  BY <1>1 DEF Inv, TypeOK, GrpcClientAssumption
<1>3. TypeOK'
  BY <1>1, <1>2 DEF Inv, TypeOK
<1>4. StackOK' /\ QueueOK'
  BY <1>1 DEF Inv, StackOK, QueueOK
<1>5. RequestsOK'
  BY <1>1, <1>2 DEF Inv, RequestsOK, Waiting
<1> QED BY <1>1, <1>3, <1>4, <1>5 DEF Inv

LEMMA FinishInv ==
  ASSUME GrpcClientAssumption, Inv, NEW r \in Requests, Finish(r)
  PROVE  Inv'
<1> DEFINE n == Len(cq)
<1>1. PICK ok \in BOOLEAN :
        /\ ~freed /\ r \in inFlight /\ inFlight' = inFlight \ {r}
        /\ cq' = Append(cq, [req |-> r, ok |-> ok])
        /\ replied' = IF ok THEN replied \cup {r} ELSE replied
        /\ UNCHANGED <<reqContexts, shut, stack, freed, issued, throws, outcome>>
  BY DEF Finish
<1> DEFINE e == [req |-> r, ok |-> ok]
<1>2. e \in Event /\ e.req = r /\ e.ok = ok
  BY DEF Event
<1> HIDE DEF e
<1>3. /\ cq' \in Seq(Event) /\ DOMAIN cq' = 1..(n + 1) /\ DOMAIN cq = 1..n /\ n \in Nat
      /\ \A i \in DOMAIN cq : i \in DOMAIN cq' /\ i # n + 1 /\ cq'[i] = cq[i]
      /\ \A i \in DOMAIN cq' : i = n + 1 \/ i \in DOMAIN cq
      /\ cq'[n + 1] = e /\ n + 1 \in DOMAIN cq'
  BY <1>1, <1>2, AppendOne DEF Inv, TypeOK, e
<1>4. /\ outcome[r] = "pending" /\ r \notin replied
      /\ \A i \in DOMAIN cq : cq[i].req # r
  BY <1>1 DEF Inv, RequestsOK, QueueOK
<1>5. ok = (r \in replied') /\ \A q \in Requests : q # r => q \in replied' <=> q \in replied
  BY <1>1, <1>4
<1> HIDE DEF n
<1>6. TypeOK'
  BY <1>1, <1>3 DEF Inv, TypeOK
<1>7. StackOK'
  BY <1>1 DEF Inv, StackOK
<1>8. QueueOK'
  <2>1. ASSUME NEW i \in DOMAIN cq'
        PROVE  /\ outcome'[cq'[i].req] = "pending" /\ cq'[i].req \notin inFlight'
               /\ cq'[i].ok = (cq'[i].req \in replied')
    <3>1. CASE i = n + 1
      BY <1>1, <1>2, <1>3, <1>4, <1>5, <3>1
    <3>2. CASE i \in DOMAIN cq
      <4>1. cq'[i].req \in Requests /\ cq'[i].req # r
        BY <1>3, <1>4, <3>2, Elements DEF Inv
      <4> QED BY <1>1, <1>3, <1>5, <3>2, <4>1 DEF Inv, QueueOK
    <3> QED BY <1>3, <3>1, <3>2
  <2>2. ASSUME NEW i \in DOMAIN cq', NEW j \in DOMAIN cq', i # j
        PROVE  cq'[j].req # cq'[i].req
    BY <1>2, <1>3, <1>4, <2>2 DEF Inv, QueueOK
  <2> QED BY <2>1, <2>2 DEF QueueOK
<1>9. RequestsOK'
  <2>1. \A q \in Requests : Waiting(q) \/ q = r => Waiting(q)'
    BY <1>2, <1>3 DEF Waiting
  <2>2. \A q \in Requests : Told(q)' = Told(q)
    BY <1>1 DEF Told
  <2> QED BY <1>1, <1>4, <1>5, <2>1, <2>2 DEF Inv, RequestsOK
<1> QED BY <1>1, <1>6, <1>7, <1>8, <1>9 DEF Inv

-----------------------------------------------------------------------------
(* The theorems.                                                           *)

LEMMA InitInv ==
  ASSUME GrpcClientAssumption, Init
  PROVE  Inv
<1>1. TypeOK
  <2>1. outcome \in [Requests -> {"new", "pending", "ok", "error", "twice"}]
    BY DEF Init
  <2>2. issued \in 0..MaxRequests /\ throws \in 0..MaxThrows
    BY DEF GrpcClientAssumption, Init
  <2>3. cq \in Seq(Event) /\ DOMAIN stack = {}
    BY DEF Init
  <2> QED BY <2>1, <2>2, <2>3 DEF Init, TypeOK
<1>2. StackOK /\ QueueOK
  BY DEF Init, StackOK, QueueOK
<1>3. RequestsOK
  BY DEF GrpcClientAssumption, Init, RequestsOK, Requests
<1> QED BY <1>1, <1>2, <1>3 DEF Init, Inv

LEMMA StepInv ==
  ASSUME GrpcClientAssumption, Inv, [Next]_vars
  PROVE  Inv'
<1>1. CASE Request
  BY <1>1, RequestInv
<1>2. CASE Tick
  BY <1>2, TickInv
<1>3. CASE Disconnect
  BY <1>3, DisconnectInv
<1>4. CASE Destroy
  BY <1>4, DestroyInv
<1>5. CASE GotEvent
  BY <1>5, GotEventInv
<1>6. CASE TickReturns
  BY <1>6, TickReturnsInv
<1>7. CASE CallbackReturns
  BY <1>7, CallbackReturnsInv
<1>8. CASE CallbackThrows
  BY <1>8, CallbackThrowsInv
<1>9. CASE \E r \in Requests : Finish(r)
  BY <1>9, FinishInv
<1>10. CASE Gone \/ UNCHANGED vars
  <2>1. UNCHANGED <<reqContexts, inFlight, cq, shut, stack, freed, issued, throws, outcome, replied>>
    BY <1>10 DEF Gone, vars
  <2>2. TypeOK'
    BY <2>1 DEF Inv, TypeOK
  <2>3. StackOK' /\ QueueOK'
    BY <2>1 DEF Inv, StackOK, QueueOK
  <2>4. RequestsOK'
    BY <2>1 DEF Inv, RequestsOK, Waiting, Told
  <2> QED BY <2>1, <2>2, <2>3, <2>4 DEF Inv
<1> QED BY <1>1, <1>2, <1>3, <1>4, <1>5, <1>6, <1>7, <1>8, <1>9, <1>10 DEF Next

\* The inductive invariant holds in every state the client can be in.
THEOREM AlwaysInv ==
  ASSUME GrpcClientAssumption
  PROVE  Spec => []Inv
<1>1. Init => Inv
  BY InitInv
<1>2. Inv /\ [Next]_vars => Inv'
  BY StepInv
<1> QED BY <1>1, <1>2, PTL DEF Spec

\* The contexts, the queue, the counters and the nested calls of tick() and
\* callbacks have their types, however deeply calls nest.
THEOREM TypeCorrect ==
  ASSUME GrpcClientAssumption
  PROVE  Spec => []TypeOK
<1>1. Inv => TypeOK
  BY DEF Inv
<1> QED BY <1>1, AlwaysInv, PTL

\* gRPC never gets to write into, and onResponse never to read, a context that
\* was deleted while the client lives: every tag in flight or in the queue is
\* a context, and every callback in progress has its own.
THEOREM TagsAreAlwaysContexts ==
  ASSUME GrpcClientAssumption
  PROVE  Spec => []TagsAreContexts
<1>1. ASSUME Inv  PROVE TagsAreContexts
  <2>1. ASSUME ~freed, NEW r \in Requests, r \in inFlight \/ Waiting(r)
        PROVE  r \in reqContexts
    <3>1. outcome[r] = "pending"
      BY <1>1, <2>1 DEF Inv, RequestsOK, QueueOK, Waiting
    <3> QED BY <1>1, <2>1, <3>1 DEF Inv, RequestsOK
  <2>2. ASSUME NEW i \in DOMAIN stack, NEW j \in DOMAIN stack, stack[i].op = "callback"
        PROVE  /\ stack[i].req \in reqContexts
               /\ stack[j].op = "callback" /\ i # j => stack[j].req # stack[i].req
    BY <1>1, <2>2 DEF Inv, StackOK
  <2> QED BY <2>1, <2>2 DEF TagsAreContexts, Waiting
<1> QED BY <1>1, AlwaysInv, PTL

\* Whatever is called between and inside callbacks, disconnect() included, and
\* whatever they throw: until the application is told of a request, its
\* operation goes on or waits in the queue, and no context is left over.
THEOREM NoRequestIsLost ==
  ASSUME GrpcClientAssumption
  PROVE  Spec => []NoRequestLost
<1>1. Inv => NoRequestLost
  BY DEF Inv, RequestsOK, NoRequestLost, Waiting, Told
<1> QED BY <1>1, AlwaysInv, PTL

-----------------------------------------------------------------------------
(* The client keeps RequestPromise: a step of it is a step of the promise  *)
(* or leaves outcome and replied alone.                                    *)

LEMMA StepPromise ==
  ASSUME GrpcClientAssumption, Inv, [Next]_vars
  PROVE  [Promise!PromiseNext]_Promise!promise
<1>1. CASE Request
  <2> DEFINE r == issued + 1
  <2>1. r \in Requests /\ r > issued
    BY <1>1 DEF Request, GrpcClientAssumption, Inv, TypeOK, Requests
  <2>2. outcome[r] = "new"
    BY <2>1 DEF Inv, RequestsOK
  <2>3. Promise!Issue(r)
    BY <1>1, <2>2 DEF Request, Promise!Issue
  <2> QED BY <2>1, <2>3 DEF Promise!PromiseNext
<1>2. CASE GotEvent
  <2> DEFINE e == Head(cq)
  <2>1. /\ outcome' = IF e.req \in reqContexts THEN Tell(e.req, IF e.ok THEN "ok" ELSE "error")
                      ELSE outcome
        /\ UNCHANGED replied /\ cq # <<>>
    BY <1>2 DEF GotEvent, OnResponse
  <2>2. e = cq[1] /\ 1 \in DOMAIN cq
    BY <2>1, TailOne DEF Inv, TypeOK
  <2>3. /\ e.req \in Requests /\ outcome[e.req] = "pending"
        /\ e.ok = (e.req \in replied)
    BY <2>2, Elements DEF Inv, QueueOK
  <2> HIDE DEF e
  <2>4. CASE e.req \notin reqContexts
    BY <2>1, <2>4 DEF Promise!promise
  <2>5. CASE e.req \in reqContexts
    <3>1. outcome' = [outcome EXCEPT ![e.req] = IF e.ok THEN "ok" ELSE "error"]
      BY <2>1, <2>3, <2>5 DEF Tell
    <3>2. Promise!Succeed(e.req) \/ Promise!Fail(e.req)
      BY <2>1, <2>3, <3>1 DEF Promise!Succeed, Promise!Fail
    <3> QED BY <2>3, <3>2 DEF Promise!PromiseNext
  <2> QED BY <2>4, <2>5
<1>3. ASSUME NEW r \in Requests, Finish(r)
      PROVE  Promise!Reply(r) \/ UNCHANGED Promise!promise
  BY <1>3 DEF Finish, Inv, RequestsOK, Promise!Reply, Promise!promise
<1>4. ASSUME \/ Tick \/ Disconnect \/ Destroy \/ TickReturns \/ CallbackReturns
             \/ CallbackThrows \/ Gone \/ UNCHANGED vars
      PROVE  UNCHANGED Promise!promise
  BY <1>4 DEF Tick, Disconnect, Destroy, TickReturns, CallbackReturns, CallbackThrows,
              Gone, vars, Promise!promise
<1> QED BY <1>1, <1>2, <1>3, <1>4 DEF Next, Promise!PromiseNext

\* The client implements RequestPromise: the application is told the outcome
\* of a request at most once, never before it made the request, and success
\* just when gRPC brought the server's answer to that very request.
THEOREM PromiseKept ==
  ASSUME GrpcClientAssumption
  PROVE  Spec => KeepsPromise
<1>1. Init => Promise!PromiseInit
  BY DEF Init, Promise!PromiseInit
<1>2. Inv /\ [Next]_vars => [Promise!PromiseNext]_Promise!promise
  BY StepPromise
<1> QED BY <1>1, <1>2, AlwaysInv, PTL DEF Spec, KeepsPromise, Promise!PromiseSpec

=============================================================================
