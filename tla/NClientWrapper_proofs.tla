------------------------ MODULE NClientWrapper_proofs ------------------------
(***************************************************************************)
(* What holds of NClientWrapper for any number of requests, sessions,      *)
(* addresses, nested calls and exceptions: its type, that every callback   *)
(* given is reached once and no other, that the iterators erased are valid,*)
(* and that the table of sessions holds what the application holds.        *)
(***************************************************************************)
EXTENDS NClientWrapper, SequenceLemmas, TLAPS

FrameType ==
  {CallFrame(op) : op \in {"tick", "disconnect", "destroy"}} \cup
  {CallbackFrame(r, id, k, h) : r \in Requests, id \in 1..(IdMod - 1),
                                k \in Kinds, h \in Handles \cup {NoHandle}}

\* The map for callbacks of a kind.
Entries(kind) == IF kind = "ok" THEN okCallbacks ELSE errorCallbacks

\* A callback of r is in progress.
InProgress(r) == \E i \in DOMAIN stack : stack[i].op = "callback" /\ stack[i].req = r

-----------------------------------------------------------------------------
(* The inductive invariant.  That a number leads to one callback takes that*)
(* numbers do not repeat, which holds while fewer requests are made than   *)
(* there are numbers, and that an entry stays until its callback returns.  *)
(* That addresses may be used again does no harm as a session has one      *)
(* owner at a time: a callback in progress or the application.             *)

\* TypeOK but for the stack and the maps.
Typed ==
  /\ curReqId \in 0..(IdMod - 1)
  /\ DOMAIN sessions \subseteq Handles /\ \A h \in DOMAIN sessions : sessions[h] \in Sessions
  /\ held \subseteq {Wrapper(h, s) : h \in Handles, s \in Sessions}
  /\ gone \in BOOLEAN /\ auth \subseteq Requests
  /\ reqData \in [Requests -> 0..(IdMod - 1)] /\ asked \in [Requests -> SUBSET Kinds]
  /\ outcome \in [Requests -> {"new", "pending", "ok", "error"}]
  /\ told \in [Requests -> {"none", "ok", "error", "twice"}]
  /\ issued \in 0..MaxRequests /\ restored \in 0..MaxRestored /\ throws \in 0..MaxThrows

StackOK ==
  /\ stack \in Seq(FrameType)
  /\ \A i \in DOMAIN stack : stack[i].op = "destroy" => i = 1
  /\ gone => stack = <<>>

NumbersOK ==
  /\ curReqId <= issued
  /\ \A r \in Requests :
       IF asked[r] = {} THEN reqData[r] = INVALID_REQ_ID ELSE reqData[r] \in 1..curReqId
  /\ \A r, q \in Requests : asked[r] # {} /\ asked[q] # {} /\ r # q => reqData[r] # reqData[q]

EntriesOK ==
  /\ \A kind \in Kinds : \A id \in DOMAIN Entries(kind) :
       /\ Entries(kind)[id] \in Requests
       /\ reqData[Entries(kind)[id]] = id /\ kind \in asked[Entries(kind)[id]]
  /\ ~gone => \A r \in Requests : outcome[r] = "pending" \/ InProgress(r) =>
       \A kind \in asked[r] : reqData[r] \in DOMAIN Entries(kind)

CallbacksOK ==
  \A i \in DOMAIN stack : stack[i].op = "callback" =>
    /\ outcome[stack[i].req] = stack[i].kind /\ stack[i].kind \in asked[stack[i].req]
    /\ reqData[stack[i].req] = stack[i].id
    /\ stack[i].handle # NoHandle =>
         /\ stack[i].kind = "ok"
         /\ stack[i].handle \in DOMAIN sessions
         /\ sessions[stack[i].handle] = stack[i].req
    /\ \A w \in held : w.session # stack[i].req
    /\ \A j \in DOMAIN stack : stack[j].op = "callback" /\ i # j => stack[j].req # stack[i].req

RequestsOK ==
  /\ userData = "wrapper"
  /\ \A r \in Requests :
       /\ outcome[r] = "new" <=> r > issued
       /\ r > issued => asked[r] = {} /\ r \notin auth
       /\ told[r] = IF outcome[r] \in asked[r] THEN outcome[r] ELSE "none"

HeldOK ==
  \A w \in held :
    /\ w.handle \in DOMAIN sessions /\ sessions[w.handle] = w.session
    /\ w.session \in Requests => outcome[w.session] = "ok"

Inv ==
  /\ Typed /\ StackOK /\ NumbersOK /\ EntriesOK /\ CallbacksOK /\ RequestsOK /\ HeldOK
  /\ SessionsAreHeld

-----------------------------------------------------------------------------
(* Frames and numbers.                                                     *)

LEMMA FrameFacts ==
  ASSUME NEW f \in FrameType
  PROVE  /\ f.op \in {"tick", "disconnect", "destroy", "callback"}
         /\ f.handle \in Handles \cup {NoHandle}
         /\ f.op = "callback" => /\ f.req \in Requests /\ f.kind \in Kinds
                                 /\ f.id \in 1..(IdMod - 1)
BY DEF FrameType, CallFrame, CallbackFrame

LEMMA Frames ==
  ASSUME StackOK
  PROVE  /\ DOMAIN stack = 1..Len(stack) /\ Len(stack) \in Nat
         /\ \A i \in DOMAIN stack :
              /\ stack[i] \in FrameType
              /\ stack[i].op \in {"tick", "disconnect", "destroy", "callback"}
              /\ stack[i].handle \in Handles \cup {NoHandle}
              /\ stack[i].op = "callback" =>
                   /\ stack[i].req \in Requests /\ stack[i].kind \in Kinds
                   /\ stack[i].id \in 1..(IdMod - 1)
<1>1. DOMAIN stack = 1..Len(stack) /\ Len(stack) \in Nat
      /\ \A i \in DOMAIN stack : stack[i] \in FrameType
  BY DEF StackOK
<1> QED BY <1>1, FrameFacts

LEMMA Innermost ==
  ASSUME StackOK, NEW op, Running(op)
  PROVE  /\ ~gone /\ stack # <<>> /\ Len(stack) \in DOMAIN stack
         /\ stack[Len(stack)].op = op /\ Last(stack) = stack[Len(stack)]
BY DEF StackOK, Running, Last

\* The entry of a request that is pending is found, and none of another.
LEMMA Found ==
  ASSUME Inv, ~gone, NEW r \in Requests, outcome[r] = "pending", NEW kind \in Kinds
  PROVE  IF kind \in asked[r]
         THEN /\ reqData[r] # INVALID_REQ_ID /\ reqData[r] \in DOMAIN Entries(kind)
              /\ Entries(kind)[reqData[r]] = r
         ELSE ~(reqData[r] # INVALID_REQ_ID /\ reqData[r] \in DOMAIN Entries(kind))
<1>1. CASE kind \in asked[r]
  <2>1. reqData[r] \in 1..curReqId /\ curReqId \in Nat
    BY <1>1 DEF Inv, Typed, NumbersOK
  <2>2. reqData[r] # INVALID_REQ_ID
    BY <2>1 DEF INVALID_REQ_ID
  <2>3. reqData[r] \in DOMAIN Entries(kind)
    BY <1>1 DEF Inv, EntriesOK
  <2>4. /\ Entries(kind)[reqData[r]] \in Requests /\ kind \in asked[Entries(kind)[reqData[r]]]
        /\ reqData[Entries(kind)[reqData[r]]] = reqData[r]
    BY <2>3 DEF Inv, EntriesOK
  <2> QED BY <1>1, <2>2, <2>3, <2>4 DEF Inv, NumbersOK
<1>2. CASE kind \notin asked[r]
  <2> SUFFICES ASSUME reqData[r] # INVALID_REQ_ID, reqData[r] \in DOMAIN Entries(kind)
               PROVE  FALSE
    BY <1>2
  <2>1. asked[r] # {}
    BY DEF Inv, NumbersOK
  <2>2. /\ Entries(kind)[reqData[r]] \in Requests /\ kind \in asked[Entries(kind)[reqData[r]]]
        /\ reqData[Entries(kind)[reqData[r]]] = reqData[r]
    BY DEF Inv, EntriesOK
  <2> QED BY <1>2, <2>1, <2>2 DEF Inv, NumbersOK
<1> QED BY <1>1, <1>2

\* The numbers in the maps are among those given so far.
LEMMA NumbersGiven ==
  ASSUME Inv, NEW kind \in Kinds, NEW id \in DOMAIN Entries(kind)
  PROVE  id \in 1..curReqId
BY DEF Inv, EntriesOK, NumbersOK

\* A request gets the next number, as the count does not wrap.
LEMMA NextNumber ==
  ASSUME NClientWrapperAssumption, Inv, issued < MaxRequests, NEW asks
  PROVE  /\ NextReqId(asks) = IF asks = {} THEN INVALID_REQ_ID ELSE curReqId + 1
         /\ curReqId + 1 <= issued + 1 /\ curReqId + 1 \in 1..(IdMod - 1)
         /\ curReqId + 1 # INVALID_REQ_ID
<1>1. /\ curReqId \in Nat /\ issued \in Nat /\ curReqId <= issued
      /\ IdMod \in Nat /\ MaxRequests \in Nat /\ IdMod > MaxRequests
  BY DEF Inv, Typed, NumbersOK, NClientWrapperAssumption
<1>2. (curReqId + 1) % IdMod = curReqId + 1
  BY <1>1
<1> QED BY <1>1, <1>2 DEF NextReqId, INVALID_REQ_ID

\* What the first half of an API method does, whatever becomes of the request.
Enters(r, asks, id) ==
  /\ r \in Requests /\ outcome[r] = "new" /\ told[r] = "none"
  /\ issued' \in 0..MaxRequests /\ \A q \in Requests : q > issued' <=> q > issued /\ q # r
  /\ asked' \in [Requests -> SUBSET Kinds] /\ asked'[r] = asks
  /\ \A q \in Requests : q # r => asked'[q] = asked[q] /\ reqData'[q] = reqData[q]
  /\ reqData' \in [Requests -> 0..(IdMod - 1)] /\ reqData'[r] = id
  /\ curReqId' \in 0..(IdMod - 1)
  /\ auth \subseteq auth' /\ auth' \subseteq auth \cup {r} /\ auth' \subseteq Requests
  /\ NumbersOK'
  /\ \A kind \in Kinds : DOMAIN Entries(kind)' =
       DOMAIN Entries(kind) \cup (IF kind \in asks THEN {id} ELSE {})
  /\ \A kind \in Kinds : \A x \in DOMAIN Entries(kind)' :
       /\ Entries(kind)'[x] \in Requests
       /\ reqData'[Entries(kind)'[x]] = x /\ kind \in asked'[Entries(kind)'[x]]
  /\ \A kind \in Kinds : kind \in asks => Entries(kind)'[id] = r /\ id # INVALID_REQ_ID
  /\ \A kind \in Kinds : id \notin DOMAIN Entries(kind)

LEMMA Registering ==
  ASSUME NClientWrapperAssumption, Inv, issued < MaxRequests,
         NEW asks \in Asks, NEW isAuth \in BOOLEAN, NEW r, r = issued + 1,
         NEW id, id = NextReqId(asks), Register(r, asks, isAuth, id),
         errorCallbacks' = Registered(r, asks, id)
  PROVE  Enters(r, asks, id)
<1>1. r \in Requests /\ r > issued /\ issued \in Nat /\ MaxRequests \in Nat
  BY DEF NClientWrapperAssumption, Inv, Typed, Requests
<1>2. outcome[r] = "new" /\ asked[r] = {} /\ told[r] = "none"
  BY <1>1 DEF Inv, RequestsOK
<1>3. issued' \in 0..MaxRequests /\ \A q \in Requests : q > issued' <=> q > issued /\ q # r
  BY <1>1 DEF Register, Requests
<1>4. asks \subseteq Kinds
  BY DEF NClientWrapperAssumption
<1>5. /\ id = IF asks = {} THEN INVALID_REQ_ID ELSE curReqId + 1
      /\ curReqId + 1 <= r /\ curReqId + 1 \in 1..(IdMod - 1) /\ curReqId + 1 # INVALID_REQ_ID
      /\ curReqId \in Nat /\ IdMod \in Nat
  BY NextNumber DEF Inv, Typed, NClientWrapperAssumption
<1>6. /\ asked' = [asked EXCEPT ![r] = asks] /\ reqData' = [reqData EXCEPT ![r] = id]
      /\ curReqId' = IF asks = {} THEN curReqId ELSE curReqId + 1
      /\ issued' = r /\ auth' = IF isAuth THEN auth \cup {r} ELSE auth
      /\ okCallbacks' = IF "ok" \in asks THEN Emplace(okCallbacks, id, r) ELSE okCallbacks
  BY <1>5 DEF Register
<1>7. /\ asked' \in [Requests -> SUBSET Kinds] /\ asked'[r] = asks
      /\ reqData' \in [Requests -> 0..(IdMod - 1)] /\ reqData'[r] = id
      /\ \A q \in Requests : q # r => asked'[q] = asked[q] /\ reqData'[q] = reqData[q]
  <2>1. id \in 0..(IdMod - 1)
    BY <1>5 DEF INVALID_REQ_ID
  <2> QED BY <1>1, <1>4, <1>6, <2>1 DEF Inv, Typed
<1>8. curReqId' \in 0..(IdMod - 1)
  BY <1>5, <1>6 DEF Inv, Typed
<1>9. auth \subseteq auth' /\ auth' \subseteq auth \cup {r} /\ auth' \subseteq Requests
  BY <1>1, <1>6 DEF Inv, Typed
<1>10. \A q \in Requests : asked[q] # {} => reqData[q] \in 1..curReqId /\ reqData[q] # id
  <2>1. \A q \in Requests : asked[q] # {} => reqData[q] \in 1..curReqId
    BY DEF Inv, NumbersOK
  <2> QED BY <1>5, <2>1 DEF INVALID_REQ_ID
<1>11. NumbersOK'
  <2>1. curReqId' <= issued'
    BY <1>1, <1>5, <1>6 DEF Inv, NumbersOK
  <2>2. ASSUME NEW q \in Requests
        PROVE  IF asked'[q] = {} THEN reqData'[q] = INVALID_REQ_ID ELSE reqData'[q] \in 1..curReqId'
    <3>1. CASE q = r
      BY <1>5, <1>6, <1>7, <3>1
    <3>2. CASE q # r /\ asked[q] = {}
      BY <1>7, <3>2 DEF Inv, NumbersOK
    <3>3. CASE q # r /\ asked[q] # {}
      <4>1. reqData[q] \in 1..curReqId /\ curReqId' \in {curReqId, curReqId + 1}
        BY <1>6, <1>10, <3>3
      <4> QED BY <1>5, <1>7, <3>3, <4>1
    <3> QED BY <3>1, <3>2, <3>3
  <2>3. ASSUME NEW p \in Requests, NEW q \in Requests, asked'[p] # {}, asked'[q] # {}, p # q
        PROVE  reqData'[p] # reqData'[q]
    BY <1>7, <1>10, <2>3 DEF Inv, NumbersOK
  <2> QED BY <2>1, <2>2, <2>3 DEF NumbersOK
<1>12. \A kind \in Kinds : id \notin DOMAIN Entries(kind)
  <2> SUFFICES ASSUME NEW kind \in Kinds, id \in DOMAIN Entries(kind)  PROVE FALSE
    OBVIOUS
  <2>1. id \in 1..curReqId
    BY NumbersGiven
  <2> QED BY <1>5, <2>1 DEF INVALID_REQ_ID
<1>13. \A kind \in Kinds :
         Entries(kind)' = IF kind \in asks THEN Emplace(Entries(kind), id, r) ELSE Entries(kind)
  BY <1>6 DEF Entries, Kinds, Registered
<1>14. \A kind \in Kinds : DOMAIN Entries(kind)' =
         DOMAIN Entries(kind) \cup (IF kind \in asks THEN {id} ELSE {})
  BY <1>13 DEF Emplace
<1>15. ASSUME NEW kind \in Kinds, NEW x \in DOMAIN Entries(kind)'
       PROVE  /\ x = id => kind \in asks /\ Entries(kind)'[x] = r
              /\ x # id => x \in DOMAIN Entries(kind) /\ Entries(kind)'[x] = Entries(kind)[x]
  <2>1. CASE kind \in asks
    <3>1. Entries(kind)' = Emplace(Entries(kind), id, r) /\ id \notin DOMAIN Entries(kind)
      BY <1>12, <1>13, <2>1
    <3>2. x = id \/ x \in DOMAIN Entries(kind)
      BY <1>14, <2>1
    <3> QED BY <2>1, <3>1, <3>2 DEF Emplace
  <2>2. CASE kind \notin asks
    BY <1>12, <1>13, <2>2
  <2> QED BY <2>1, <2>2
<1>16. ASSUME NEW kind \in Kinds, NEW x \in DOMAIN Entries(kind)'
       PROVE  /\ Entries(kind)'[x] \in Requests
              /\ reqData'[Entries(kind)'[x]] = x /\ kind \in asked'[Entries(kind)'[x]]
  <2>1. CASE x = id
    BY <1>1, <1>5, <1>7, <1>15, <2>1
  <2>2. CASE x # id
    <3>1. x \in DOMAIN Entries(kind) /\ Entries(kind)'[x] = Entries(kind)[x]
      BY <1>15, <2>2
    <3>2. /\ Entries(kind)[x] \in Requests /\ reqData[Entries(kind)[x]] = x
          /\ kind \in asked[Entries(kind)[x]]
      BY <3>1 DEF Inv, EntriesOK
    <3> QED BY <1>2, <1>7, <3>1, <3>2
  <2> QED BY <2>1, <2>2
<1>17. \A kind \in Kinds : kind \in asks => Entries(kind)'[id] = r /\ id # INVALID_REQ_ID
  BY <1>5, <1>14, <1>15
<1> QED BY <1>1, <1>2, <1>3, <1>7, <1>8, <1>9, <1>11, <1>12, <1>14, <1>16, <1>17 DEF Enters

\* A call or a callback begins: the frames below it are as they were.
LEMMA Begins ==
  ASSUME StackOK, ~gone, UNCHANGED gone, NEW f \in FrameType, stack' = Append(stack, f),
         f.op = "destroy" => stack = <<>>
  PROVE  /\ StackOK' /\ Len(stack) \in Nat /\ DOMAIN stack = 1..Len(stack)
         /\ \A i \in DOMAIN stack : i \in DOMAIN stack' /\ i # Len(stack) + 1 /\ stack'[i] = stack[i]
         /\ \A i \in DOMAIN stack' : i = Len(stack) + 1 \/ i \in DOMAIN stack
         /\ stack'[Len(stack) + 1] = f /\ Len(stack) + 1 \in DOMAIN stack'
<1>1. stack \in Seq(FrameType)
  BY DEF StackOK
<1>2. /\ stack' \in Seq(FrameType) /\ Len(stack) \in Nat /\ DOMAIN stack = 1..Len(stack)
      /\ \A i \in DOMAIN stack : i \in DOMAIN stack' /\ i # Len(stack) + 1 /\ stack'[i] = stack[i]
      /\ \A i \in DOMAIN stack' : i = Len(stack) + 1 \/ i \in DOMAIN stack
      /\ stack'[Len(stack) + 1] = f /\ Len(stack) + 1 \in DOMAIN stack'
  BY <1>1, Appended
<1>3. stack = <<>> => Len(stack) + 1 = 1
  OBVIOUS
<1>4. \A i \in DOMAIN stack' : stack'[i].op = "destroy" => i = 1
  BY <1>2, <1>3 DEF StackOK
<1> QED BY <1>2, <1>4 DEF StackOK

\* ... and returns.
LEMMA Returns ==
  ASSUME StackOK, stack # <<>>, stack' = Front(stack), UNCHANGED gone \/ Running("destroy")
  PROVE  /\ StackOK'
         /\ \A i \in DOMAIN stack' : i \in DOMAIN stack /\ i # Len(stack) /\ stack'[i] = stack[i]
         /\ \A i \in DOMAIN stack : i # Len(stack) => i \in DOMAIN stack'
<1>1. stack \in Seq(FrameType)
  BY DEF StackOK
<1>2. /\ stack' \in Seq(FrameType) /\ Len(stack') = Len(stack) - 1
      /\ \A i \in DOMAIN stack' : i \in DOMAIN stack /\ i # Len(stack) /\ stack'[i] = stack[i]
      /\ \A i \in DOMAIN stack : i # Len(stack) => i \in DOMAIN stack'
  <2>1. stack' = SubSeq(stack, 1, Len(stack) - 1)
    BY DEF Front
  <2> QED BY <1>1, <2>1, Popped
<1>3. ASSUME gone' PROVE stack' = <<>>
  <2>1. Running("destroy")
    BY <1>3 DEF StackOK
  <2>2. Len(stack) \in DOMAIN stack /\ stack[Len(stack)].op = "destroy"
    BY <2>1, Innermost
  <2>3. Len(stack) = 1
    BY <2>2 DEF StackOK
  <2>4. stack' \in Seq(FrameType) /\ Len(stack') = 0
    BY <1>2, <2>3
  <2> QED BY <2>4
<1>4. \A i \in DOMAIN stack' : stack'[i].op = "destroy" => i = 1
  BY <1>2 DEF StackOK
<1> QED BY <1>2, <1>3, <1>4 DEF StackOK

\* If want, frame f is put on top of the stack; nothing else changes there.
Pushes(want, f) ==
  /\ StackOK'
  /\ \A i \in DOMAIN stack : i \in DOMAIN stack' /\ stack'[i] = stack[i]
  /\ \A i \in DOMAIN stack' : i \notin DOMAIN stack => want /\ stack'[i] = f
  /\ \A i, j \in DOMAIN stack' : i \notin DOMAIN stack /\ j \notin DOMAIN stack => i = j
  /\ want => \E i \in DOMAIN stack' : i \notin DOMAIN stack

LEMMA Pushing ==
  ASSUME StackOK, ~gone, UNCHANGED gone, NEW f \in FrameType, stack' = Append(stack, f),
         f.op = "destroy" => stack = <<>>
  PROVE  Pushes(TRUE, f)
<1>1. /\ StackOK' /\ Len(stack) \in Nat /\ DOMAIN stack = 1..Len(stack)
      /\ \A i \in DOMAIN stack : i \in DOMAIN stack' /\ i # Len(stack) + 1 /\ stack'[i] = stack[i]
      /\ \A i \in DOMAIN stack' : i = Len(stack) + 1 \/ i \in DOMAIN stack
      /\ stack'[Len(stack) + 1] = f /\ Len(stack) + 1 \in DOMAIN stack'
  BY Begins
<1> QED BY <1>1 DEF Pushes

\* The C API reports on request r: its callback is called if it was given.
LEMMA Calling ==
  ASSUME StackOK, ~gone, UNCHANGED gone, userData = "wrapper",
         NEW r \in Requests, NEW id \in 0..(IdMod - 1), NEW kind \in Kinds,
         NEW h \in Handles \cup {NoHandle}, NEW m, NEW want \in BOOLEAN,
         want => id # INVALID_REQ_ID /\ id \in DOMAIN m /\ m[id] = r,
         ~want => ~(id # INVALID_REQ_ID /\ id \in DOMAIN m),
         told \in [Requests -> {"none", "ok", "error", "twice"}], told[r] = "none",
         Call(m, id, kind, h), IdMod \in Nat
  PROVE  /\ Pushes(want, CallbackFrame(r, id, kind, h))
         /\ told' = [told EXCEPT ![r] = IF want THEN kind ELSE "none"]
<1>1. CASE want
  <2>1. /\ stack' = Append(stack, CallbackFrame(r, id, kind, h))
        /\ told' = [told EXCEPT ![r] = kind] /\ id \in 1..(IdMod - 1)
    BY <1>1 DEF Call, INVALID_REQ_ID
  <2>2. CallbackFrame(r, id, kind, h) \in FrameType
    BY <2>1 DEF FrameType
  <2>3. CallbackFrame(r, id, kind, h).op = "callback"
    BY DEF CallbackFrame
  <2>4. Pushes(TRUE, CallbackFrame(r, id, kind, h))
    BY <2>1, <2>2, <2>3, Pushing
  <2>5. want = TRUE
    BY <1>1
  <2> QED BY <2>1, <2>4, <2>5
<1>2. CASE ~want
  <2>1. stack' = stack /\ told' = told
    BY <1>2 DEF Call
  <2>2. told = [told EXCEPT ![r] = "none"]
    OBVIOUS
  <2>3. StackOK'
    BY <2>1 DEF StackOK
  <2> QED BY <1>2, <2>1, <2>2, <2>3 DEF Pushes
<1> QED BY <1>1, <1>2

\* The outcome of request r is known: whoever is told was to be told, entries
\* are there as long as they may be needed, and a session is its request's.
Tells(r, kind, h, want) ==
  /\ Pushes(want, CallbackFrame(r, reqData'[r], kind, h)) /\ (want <=> kind \in asked'[r])
  /\ outcome[r] \in {"new", "pending"} /\ outcome' = [outcome EXCEPT ![r] = kind]
  /\ \A q \in Requests : q # r => asked'[q] = asked[q] /\ reqData'[q] = reqData[q]
  /\ \A k \in Kinds : DOMAIN Entries(k) \subseteq DOMAIN Entries(k)'
  /\ asked'[r] \subseteq Kinds /\ \A k \in asked'[r] : reqData'[r] \in DOMAIN Entries(k)'
  /\ \A k \in Kinds : \A x \in DOMAIN Entries(k)' :
       /\ Entries(k)'[x] \in Requests
       /\ reqData'[Entries(k)'[x]] = x /\ k \in asked'[Entries(k)'[x]]
  /\ \A x \in DOMAIN sessions : x \in DOMAIN sessions' /\ sessions'[x] = sessions[x]
  /\ \A x \in DOMAIN sessions' : x \notin DOMAIN sessions =>
       x = h /\ sessions'[x] = r /\ r \in auth' /\ kind = "ok"
  /\ h # NoHandle => kind = "ok" /\ h \in DOMAIN sessions' /\ sessions'[h] = r
  /\ auth \subseteq auth' /\ (r \in auth => asked'[r] = asked[r])
  /\ held' = held /\ gone' = gone

LEMMA Telling ==
  ASSUME Inv, ~gone, NEW r \in Requests, NEW kind \in Kinds, NEW h, NEW want \in BOOLEAN,
         Tells(r, kind, h, want)
  PROVE  EntriesOK' /\ CallbacksOK' /\ HeldOK' /\ SessionsAreHeld'
<1> USE DEF Tells
<1> DEFINE f == CallbackFrame(r, reqData'[r], kind, h)
<1>1. /\ f.op = "callback" /\ f.req = r /\ f.id = reqData'[r] /\ f.kind = kind /\ f.handle = h
  BY DEF CallbackFrame
<1> HIDE DEF f
<1>2. Pushes(want, f)
  BY DEF f
<1>3. /\ outcome \in [Requests -> {"new", "pending", "ok", "error"}]
      /\ held \subseteq {Wrapper(x, s) : x \in Handles, s \in Sessions}
      /\ auth \subseteq Requests /\ asked \in [Requests -> SUBSET Kinds]
  BY DEF Inv, Typed
<1>4. outcome'[r] = kind /\ \A q \in Requests : q # r => outcome'[q] = outcome[q]
  BY <1>3
<1>5. \A i \in DOMAIN stack : stack[i].op = "callback" =>
        stack[i].req \in Requests /\ stack[i].req # r /\ stack[i].kind \in Kinds
  <2>1. ASSUME NEW i \in DOMAIN stack, stack[i].op = "callback"
        PROVE  stack[i].req \in Requests /\ stack[i].req # r /\ stack[i].kind \in Kinds
    <3>1. stack[i].req \in Requests /\ stack[i].kind \in Kinds
      BY <2>1, Frames DEF Inv
    <3>2. outcome[stack[i].req] = stack[i].kind
      BY <2>1 DEF Inv, CallbacksOK
    <3> QED BY <3>1, <3>2 DEF Kinds
  <2> QED BY <2>1
<1>6. \A w \in held : w.session # r
  BY DEF Inv, HeldOK
<1>7. \A i \in DOMAIN stack' : \/ i \in DOMAIN stack /\ stack'[i] = stack[i]
                               \/ i \notin DOMAIN stack /\ stack'[i] = f /\ want
  BY <1>2 DEF Pushes
<1>8. EntriesOK'
  <2>1. ASSUME NEW q \in Requests, outcome'[q] = "pending" \/ InProgress(q)', NEW k \in asked'[q]
        PROVE  reqData'[q] \in DOMAIN Entries(k)'
    <3>1. CASE q = r
      BY <2>1, <3>1
    <3>2. CASE q # r
      <4>1. InProgress(q)' => InProgress(q)
        BY <1>1, <1>7, <3>2 DEF InProgress
      <4>2. outcome[q] = "pending" \/ InProgress(q)
        BY <1>4, <2>1, <3>2, <4>1
      <4>3. k \in asked[q] /\ k \in Kinds /\ reqData'[q] = reqData[q]
        BY <1>3, <3>2
      <4>4. reqData[q] \in DOMAIN Entries(k)
        BY <4>2, <4>3 DEF Inv, EntriesOK
      <4> QED BY <4>3, <4>4
    <3> QED BY <3>1, <3>2
  <2> QED BY <2>1 DEF EntriesOK
<1>9. CallbacksOK'
  <2> SUFFICES ASSUME NEW i \in DOMAIN stack', stack'[i].op = "callback"
               PROVE  /\ outcome'[stack'[i].req] = stack'[i].kind
                      /\ stack'[i].kind \in asked'[stack'[i].req]
                      /\ reqData'[stack'[i].req] = stack'[i].id
                      /\ stack'[i].handle # NoHandle =>
                           /\ stack'[i].kind = "ok"
                           /\ stack'[i].handle \in DOMAIN sessions'
                           /\ sessions'[stack'[i].handle] = stack'[i].req
                      /\ \A w \in held' : w.session # stack'[i].req
                      /\ \A j \in DOMAIN stack' :
                           stack'[j].op = "callback" /\ i # j => stack'[j].req # stack'[i].req
    BY DEF CallbacksOK
  <2>1. \A j \in DOMAIN stack' : i \notin DOMAIN stack /\ j \notin DOMAIN stack => i = j
    BY <1>2 DEF Pushes
  <2>2. CASE i \notin DOMAIN stack
    <3>1. \A j \in DOMAIN stack' :
            stack'[j].op = "callback" /\ i # j => stack'[j].req # stack'[i].req
      BY <1>1, <1>5, <1>7, <2>1, <2>2
    <3> QED BY <1>1, <1>4, <1>6, <1>7, <2>2, <3>1
  <2>3. CASE i \in DOMAIN stack
    <3>1. stack'[i] = stack[i] /\ stack[i].req \in Requests /\ stack[i].req # r
      BY <1>5, <1>7, <2>3
    <3>2. \A j \in DOMAIN stack' :
            stack'[j].op = "callback" /\ i # j => stack'[j].req # stack'[i].req
      BY <1>1, <1>7, <2>3, <3>1 DEF Inv, CallbacksOK
    <3>3. /\ outcome[stack[i].req] = stack[i].kind /\ stack[i].kind \in asked[stack[i].req]
          /\ reqData[stack[i].req] = stack[i].id
          /\ stack[i].handle # NoHandle =>
               /\ stack[i].kind = "ok"
               /\ stack[i].handle \in DOMAIN sessions
               /\ sessions[stack[i].handle] = stack[i].req
          /\ \A w \in held : w.session # stack[i].req
      BY <2>3, <3>1 DEF Inv, CallbacksOK
    <3> QED BY <1>4, <3>1, <3>2, <3>3
  <2> QED BY <2>2, <2>3
<1>10. HeldOK'
  <2> SUFFICES ASSUME NEW w \in held
               PROVE  /\ w.handle \in DOMAIN sessions' /\ sessions'[w.handle] = w.session
                      /\ w.session \in Requests => outcome'[w.session] = "ok"
    BY DEF HeldOK
  <2> QED BY <1>4, <1>6 DEF Inv, HeldOK
<1>11. SessionsAreHeld'
  <2> SUFFICES ASSUME NEW x \in DOMAIN sessions'
               PROVE  \/ Wrapper(x, sessions'[x]) \in held
                      \/ \E i \in DOMAIN stack' : stack'[i].op = "callback" /\ stack'[i].handle = x
                      \/ sessions'[x] \in auth' /\ "ok" \notin asked'[sessions'[x]]
    BY DEF SessionsAreHeld, Callbacks
  <2>1. CASE x \notin DOMAIN sessions
    <3>1. x = h /\ sessions'[x] = r /\ r \in auth' /\ kind = "ok"
      BY <2>1
    <3>2. want => \E i \in DOMAIN stack' : i \notin DOMAIN stack
      BY <1>2 DEF Pushes
    <3> QED BY <1>1, <1>7, <3>1, <3>2
  <2>2. CASE x \in DOMAIN sessions
    <3>1. \/ Wrapper(x, sessions[x]) \in held
          \/ \E i \in DOMAIN stack : stack[i].op = "callback" /\ stack[i].handle = x
          \/ sessions[x] \in auth /\ "ok" \notin asked[sessions[x]]
      BY <2>2 DEF Inv, SessionsAreHeld, Callbacks
    <3>2. \A i \in DOMAIN stack : i \in DOMAIN stack' /\ stack'[i] = stack[i]
      BY <1>2 DEF Pushes
    <3>3. sessions'[x] = sessions[x]
      BY <2>2
    <3>4. \A q \in auth : q \in auth' /\ asked'[q] = asked[q]
      BY <1>3
    <3> QED BY <3>1, <3>2, <3>3, <3>4
  <2> QED BY <2>1, <2>2
<1> QED BY <1>8, <1>9, <1>10, <1>11

-----------------------------------------------------------------------------
(* One lemma per action.                                                   *)

LEMMA RequestInv ==
  ASSUME NClientWrapperAssumption, Inv, Request
  PROVE  Inv'
<1>1. \E r, asks, id :
        /\ Enters(r, asks, id) /\ asks \subseteq Kinds
        /\ outcome' = [outcome EXCEPT ![r] = "pending"]
        /\ UNCHANGED <<userData, sessions, held, stack, gone, told, restored, throws>>
  <2>1. PICK asks \in Asks, isAuth \in BOOLEAN :
          /\ Register(issued + 1, asks, isAuth, NextReqId(asks))
          /\ errorCallbacks' = Registered(issued + 1, asks, NextReqId(asks))
          /\ outcome' = [outcome EXCEPT ![issued + 1] = "pending"]
    BY DEF Request
  <2>2. issued < MaxRequests /\ UNCHANGED <<userData, sessions, held, stack, gone, told, restored, throws>>
    BY DEF Request, table
  <2>3. \A r, id : r = issued + 1 /\ id = NextReqId(asks) => Enters(r, asks, id)
    <3>1. ASSUME NEW r, r = issued + 1, NEW id, id = NextReqId(asks)
          PROVE  Enters(r, asks, id)
      <4>1. Register(r, asks, isAuth, id) /\ errorCallbacks' = Registered(r, asks, id)
        BY <2>1, <3>1
      <4> QED BY <2>2, <3>1, <4>1, Registering
    <3> QED BY <3>1
  <2>4. asks \subseteq Kinds
    BY DEF NClientWrapperAssumption
  <2> QED BY <2>1, <2>2, <2>3, <2>4
<1>2. PICK r, asks, id :
        /\ Enters(r, asks, id) /\ asks \subseteq Kinds
        /\ outcome' = [outcome EXCEPT ![r] = "pending"]
        /\ UNCHANGED <<userData, sessions, held, stack, gone, told, restored, throws>>
  BY <1>1
<1>3. /\ r \in Requests /\ outcome[r] = "new" /\ told[r] = "none"
      /\ issued' \in 0..MaxRequests /\ \A q \in Requests : q > issued' <=> q > issued /\ q # r
      /\ asked' \in [Requests -> SUBSET Kinds] /\ asked'[r] = asks
      /\ \A q \in Requests : q # r => asked'[q] = asked[q] /\ reqData'[q] = reqData[q]
      /\ reqData' \in [Requests -> 0..(IdMod - 1)] /\ reqData'[r] = id
      /\ curReqId' \in 0..(IdMod - 1)
      /\ auth \subseteq auth' /\ auth' \subseteq auth \cup {r} /\ auth' \subseteq Requests
      /\ NumbersOK'
  BY <1>2 DEF Enters
<1>4. /\ \A kind \in Kinds : DOMAIN Entries(kind)' =
           DOMAIN Entries(kind) \cup (IF kind \in asks THEN {id} ELSE {})
      /\ \A kind \in Kinds : \A x \in DOMAIN Entries(kind)' :
           /\ Entries(kind)'[x] \in Requests
           /\ reqData'[Entries(kind)'[x]] = x /\ kind \in asked'[Entries(kind)'[x]]
  BY <1>2 DEF Enters
<1>5. /\ outcome' \in [Requests -> {"new", "pending", "ok", "error"}]
      /\ outcome'[r] = "pending" /\ \A q \in Requests : q # r => outcome'[q] = outcome[q]
  BY <1>2, <1>3 DEF Inv, Typed
<1>6. \A i \in DOMAIN stack : stack[i].op = "callback" =>
        /\ stack[i].req \in Requests /\ stack[i].req # r
  <2>1. ASSUME NEW i \in DOMAIN stack, stack[i].op = "callback"
        PROVE  stack[i].req \in Requests /\ stack[i].req # r
    <3>1. stack[i].req \in Requests /\ stack[i].kind \in Kinds
      BY <2>1, Frames DEF Inv
    <3>2. outcome[stack[i].req] = stack[i].kind
      BY <2>1 DEF Inv, CallbacksOK
    <3> QED BY <1>3, <3>1, <3>2 DEF Kinds
  <2> QED BY <2>1
<1>7. Typed'
  BY <1>2, <1>3, <1>5 DEF Inv, Typed
<1>8. StackOK'
  BY <1>2 DEF Inv, StackOK
<1>9. EntriesOK'
  <2>1. \A q \in Requests : InProgress(q)' <=> InProgress(q)
    BY <1>2 DEF InProgress
  <2>2. ASSUME ~gone, NEW q \in Requests, outcome'[q] = "pending" \/ InProgress(q),
               NEW kind \in asked'[q]
        PROVE  reqData'[q] \in DOMAIN Entries(kind)'
    <3>1. kind \in Kinds
      BY <1>3
    <3>2. CASE q = r
      BY <1>3, <1>4, <2>2, <3>1, <3>2
    <3>3. CASE q # r
      <4>1. outcome[q] = "pending" \/ InProgress(q)
        BY <1>5, <2>2, <3>3
      <4>2. kind \in asked[q] /\ reqData'[q] = reqData[q]
        BY <1>3, <2>2, <3>3
      <4>3. reqData[q] \in DOMAIN Entries(kind)
        BY <2>2, <4>1, <4>2 DEF Inv, EntriesOK
      <4> QED BY <1>4, <3>1, <4>2, <4>3
    <3> QED BY <3>2, <3>3
  <2> QED BY <1>2, <1>4, <2>1, <2>2 DEF EntriesOK
<1>10. CallbacksOK'
  <2>1. \A i \in DOMAIN stack : stack[i].op = "callback" =>
          /\ outcome'[stack[i].req] = outcome[stack[i].req]
          /\ asked'[stack[i].req] = asked[stack[i].req]
          /\ reqData'[stack[i].req] = reqData[stack[i].req]
    BY <1>3, <1>5, <1>6
  <2> QED BY <1>2, <2>1 DEF Inv, CallbacksOK
<1>11. RequestsOK'
  <2>1. ASSUME NEW q \in Requests
        PROVE  /\ outcome'[q] = "new" <=> q > issued'
               /\ q > issued' => asked'[q] = {} /\ q \notin auth'
               /\ told'[q] = IF outcome'[q] \in asked'[q] THEN outcome'[q] ELSE "none"
    <3>1. "pending" \notin asked'[r]
      BY <1>3 DEF Kinds
    <3> QED BY <1>2, <1>3, <1>5, <3>1 DEF Inv, RequestsOK
  <2> QED BY <1>2, <2>1 DEF Inv, RequestsOK
<1>12. HeldOK'
  BY <1>2, <1>3, <1>5 DEF Inv, HeldOK
<1>13. SessionsAreHeld'
  <2>1. \A q \in auth : q \in auth' /\ asked'[q] = asked[q]
    BY <1>3 DEF Inv, RequestsOK, Typed
  <2> QED BY <1>2, <2>1 DEF Inv, SessionsAreHeld, Callbacks
<1> QED BY <1>3, <1>7, <1>8, <1>9, <1>10, <1>11, <1>12, <1>13 DEF Inv

\* The request the client refuses: its callback is called in the request.
LEMMA RequestRefusedInv ==
  ASSUME NClientWrapperAssumption, Inv, RequestRefused
  PROVE  Inv'
<1>1. \E r, asks, id :
        /\ Enters(r, asks, id) /\ asks \subseteq Kinds
        /\ outcome' = [outcome EXCEPT ![r] = "error"]
        /\ Call(errorCallbacks', id, "error", NoHandle)
        /\ UNCHANGED <<userData, sessions, held, gone, restored, throws>>
  <2>1. PICK asks \in Asks :
          /\ Register(issued + 1, asks, FALSE, NextReqId(asks))
          /\ errorCallbacks' = Registered(issued + 1, asks, NextReqId(asks))
          /\ outcome' = [outcome EXCEPT ![issued + 1] = "error"]
          /\ Call(errorCallbacks', NextReqId(asks), "error", NoHandle)
    BY DEF RequestRefused
  <2>2. issued < MaxRequests /\ UNCHANGED <<userData, sessions, held, gone, restored, throws>>
    BY DEF RequestRefused, table
  <2>3. \A r, id : r = issued + 1 /\ id = NextReqId(asks) => Enters(r, asks, id)
    <3>1. ASSUME NEW r, r = issued + 1, NEW id, id = NextReqId(asks)
          PROVE  Enters(r, asks, id)
      <4>1. Register(r, asks, FALSE, id) /\ errorCallbacks' = Registered(r, asks, id)
        BY <2>1, <3>1
      <4> QED BY <2>2, <3>1, <4>1, Registering
    <3> QED BY <3>1
  <2>4. asks \subseteq Kinds
    BY DEF NClientWrapperAssumption
  <2> QED BY <2>1, <2>2, <2>3, <2>4
<1>2. PICK r, asks, id :
        /\ Enters(r, asks, id) /\ asks \subseteq Kinds
        /\ outcome' = [outcome EXCEPT ![r] = "error"]
        /\ Call(errorCallbacks', id, "error", NoHandle)
        /\ UNCHANGED <<userData, sessions, held, gone, restored, throws>>
  BY <1>1
<1>3. /\ r \in Requests /\ outcome[r] = "new" /\ told[r] = "none"
      /\ issued' \in 0..MaxRequests /\ \A q \in Requests : q > issued' <=> q > issued /\ q # r
      /\ asked' \in [Requests -> SUBSET Kinds] /\ asked'[r] = asks
      /\ \A q \in Requests : q # r => asked'[q] = asked[q] /\ reqData'[q] = reqData[q]
      /\ reqData' \in [Requests -> 0..(IdMod - 1)] /\ reqData'[r] = id
      /\ curReqId' \in 0..(IdMod - 1)
      /\ auth \subseteq auth' /\ auth' \subseteq auth \cup {r} /\ auth' \subseteq Requests
      /\ NumbersOK'
  BY <1>2 DEF Enters
<1>4. /\ \A kind \in Kinds : DOMAIN Entries(kind)' =
           DOMAIN Entries(kind) \cup (IF kind \in asks THEN {id} ELSE {})
      /\ \A kind \in Kinds : \A x \in DOMAIN Entries(kind)' :
           /\ Entries(kind)'[x] \in Requests
           /\ reqData'[Entries(kind)'[x]] = x /\ kind \in asked'[Entries(kind)'[x]]
  BY <1>2 DEF Enters
<1>5. /\ \A kind \in Kinds : kind \in asks => Entries(kind)'[id] = r /\ id # INVALID_REQ_ID
      /\ \A kind \in Kinds : id \notin DOMAIN Entries(kind)
  BY <1>2 DEF Enters
<1>6. /\ outcome' \in [Requests -> {"new", "pending", "ok", "error"}]
      /\ outcome'[r] = "error" /\ \A q \in Requests : q # r => outcome'[q] = outcome[q]
  BY <1>2, <1>3 DEF Inv, Typed
<1>7. ~gone
  BY <1>1 DEF RequestRefused, MayCall
<1> DEFINE want == "error" \in asks
<1>13. want \in BOOLEAN /\ (want <=> "error" \in asks) /\ (want <=> "error" \in asked'[r])
  BY <1>3
<1> HIDE DEF want
<1>8. /\ Pushes(want, CallbackFrame(r, id, "error", NoHandle))
      /\ told' = [told EXCEPT ![r] = IF want THEN "error" ELSE "none"]
  <2>1. Entries("error")' = errorCallbacks' /\ "error" \in Kinds
    BY DEF Entries, Kinds
  <2>2. want => id # INVALID_REQ_ID /\ id \in DOMAIN errorCallbacks' /\ errorCallbacks'[id] = r
    BY <1>13, <1>4, <1>5, <2>1
  <2>3. ~want => id \notin DOMAIN errorCallbacks'
    <3>1. /\ DOMAIN Entries("error")' =
               DOMAIN Entries("error") \cup (IF "error" \in asks THEN {id} ELSE {})
          /\ id \notin DOMAIN Entries("error")
      BY <1>4, <1>5, <2>1
    <3> QED BY <1>13, <2>1, <3>1
  <2>4. /\ id \in 0..(IdMod - 1) /\ IdMod \in Nat /\ StackOK /\ userData = "wrapper"
        /\ told \in [Requests -> {"none", "ok", "error", "twice"}]
    BY <1>3 DEF Inv, Typed, RequestsOK, NClientWrapperAssumption
  <2> QED BY <1>13, <1>2, <1>3, <1>7, <2>1, <2>2, <2>3, <2>4, Calling
<1>9. EntriesOK' /\ CallbacksOK' /\ HeldOK' /\ SessionsAreHeld'
  <2>1. \A k \in Kinds : DOMAIN Entries(k) \subseteq DOMAIN Entries(k)'
    BY <1>4
  <2>2. \A k \in asked'[r] : reqData'[r] \in DOMAIN Entries(k)'
    BY <1>2, <1>3, <1>4
  <2>3. r \notin auth
    BY <1>3 DEF Inv, RequestsOK
  <2>4. "error" \in Kinds /\ Pushes(want, CallbackFrame(r, reqData'[r], "error", NoHandle))
    BY <1>3, <1>8 DEF Kinds
  <2>5. /\ \A x \in DOMAIN sessions : x \in DOMAIN sessions' /\ sessions'[x] = sessions[x]
        /\ \A x \in DOMAIN sessions' : x \notin DOMAIN sessions =>
             x = NoHandle /\ sessions'[x] = r /\ r \in auth' /\ "error" = "ok"
        /\ NoHandle # NoHandle =>
             "error" = "ok" /\ NoHandle \in DOMAIN sessions' /\ sessions'[NoHandle] = r
        /\ held' = held /\ gone' = gone /\ outcome[r] \in {"new", "pending"}
    BY <1>2, <1>3
  <2>6. /\ asked'[r] \subseteq Kinds /\ auth \subseteq auth'
        /\ r \in auth => asked'[r] = asked[r]
    BY <1>2, <1>3, <2>3
  <2>7. Tells(r, "error", NoHandle, want)
    BY <1>13, <1>2, <1>3, <1>4, <2>1, <2>2, <2>4, <2>5, <2>6 DEF Tells
  <2> QED BY <1>13, <1>3, <1>7, <2>4, <2>7, Telling
<1>10. RequestsOK'
  <2>1. ASSUME NEW q \in Requests
        PROVE  /\ outcome'[q] = "new" <=> q > issued'
               /\ q > issued' => asked'[q] = {} /\ q \notin auth'
               /\ told'[q] = IF outcome'[q] \in asked'[q] THEN outcome'[q] ELSE "none"
    <3>1. told'[q] = IF q = r THEN IF want THEN "error" ELSE "none" ELSE told[q]
      BY <1>8 DEF Inv, Typed
    <3> QED BY <1>13, <1>2, <1>3, <1>6, <3>1 DEF Inv, RequestsOK
  <2> QED BY <1>2, <2>1 DEF Inv, RequestsOK
<1>11. Typed'
  <2>1. told' \in [Requests -> {"none", "ok", "error", "twice"}]
    <3>1. told \in [Requests -> {"none", "ok", "error", "twice"}]
      BY DEF Inv, Typed
    <3> QED BY <1>8, <1>13, <3>1
  <2> QED BY <1>2, <1>3, <1>6, <2>1 DEF Inv, Typed
<1>12. StackOK'
  BY <1>8 DEF Pushes
<1> QED BY <1>3, <1>9, <1>10, <1>11, <1>12 DEF Inv

\* The client tells of request r that it was keeping.
LEMMA ClientTellsInv ==
  ASSUME NClientWrapperAssumption, Inv, NEW r \in Requests, NEW kind \in Kinds, ~gone,
         NEW h \in Handles \cup {NoHandle}, ClientTells(r, kind),
         Invoke(Entries(kind), reqData[r], kind, h), UNCHANGED held,
         h # NoHandle => /\ kind = "ok" /\ r \in auth /\ h \notin DOMAIN sessions
                         /\ SaveSession(h, r),
         h = NoHandle => UNCHANGED sessions
  PROVE  Inv'
<1>1. /\ outcome[r] = "pending" /\ outcome' = [outcome EXCEPT ![r] = kind]
      /\ Call(Entries(kind), reqData[r], kind, h)
      /\ UNCHANGED <<okCallbacks, errorCallbacks, curReqId, reqData, auth, asked, issued,
                     userData, gone, restored, throws, held>>
  BY DEF ClientTells, Invoke, maps, client
<1>2. /\ outcome \in [Requests -> {"new", "pending", "ok", "error"}]
      /\ asked \in [Requests -> SUBSET Kinds] /\ auth \subseteq Requests
      /\ told \in [Requests -> {"none", "ok", "error", "twice"}]
      /\ reqData \in [Requests -> 0..(IdMod - 1)] /\ IdMod \in Nat /\ StackOK
      /\ userData = "wrapper" /\ Requests \subseteq Sessions
      /\ DOMAIN sessions \subseteq Handles /\ \A x \in DOMAIN sessions : sessions[x] \in Sessions
  BY DEF Inv, Typed, RequestsOK, NClientWrapperAssumption, Requests, Sessions
<1>3. told[r] = "none"
  BY <1>1, <1>2 DEF Inv, RequestsOK, Kinds
<1> DEFINE want == kind \in asked[r]
<1>4. want \in BOOLEAN /\ (want <=> kind \in asked[r]) /\ (want <=> kind \in asked'[r])
  BY <1>1
<1> HIDE DEF want
<1>5. /\ Pushes(want, CallbackFrame(r, reqData[r], kind, h))
      /\ told' = [told EXCEPT ![r] = IF want THEN kind ELSE "none"]
  <2>1. IF want
        THEN /\ reqData[r] # INVALID_REQ_ID /\ reqData[r] \in DOMAIN Entries(kind)
             /\ Entries(kind)[reqData[r]] = r
        ELSE ~(reqData[r] # INVALID_REQ_ID /\ reqData[r] \in DOMAIN Entries(kind))
    BY <1>1, <1>4, Found
  <2> DEFINE m == Entries(kind)  id == reqData[r]
  <2>2. /\ want => id # INVALID_REQ_ID /\ id \in DOMAIN m /\ m[id] = r
        /\ ~want => ~(id # INVALID_REQ_ID /\ id \in DOMAIN m)
        /\ Call(m, id, kind, h) /\ id \in 0..(IdMod - 1)
    BY <1>1, <1>2, <2>1
  <2> HIDE DEF m, id
  <2>3. /\ Pushes(want, CallbackFrame(r, id, kind, h))
        /\ told' = [told EXCEPT ![r] = IF want THEN kind ELSE "none"]
    BY <1>1, <1>2, <1>3, <1>4, <2>2, Calling
  <2> QED BY <2>3 DEF id
<1>6. \A k \in Kinds : Entries(k)' = Entries(k)
  BY <1>1 DEF Entries
<1>7. /\ \A x \in DOMAIN sessions : x \in DOMAIN sessions' /\ sessions'[x] = sessions[x]
      /\ \A x \in DOMAIN sessions' : x \notin DOMAIN sessions =>
           x = h /\ sessions'[x] = r /\ r \in auth' /\ kind = "ok"
      /\ h # NoHandle => kind = "ok" /\ h \in DOMAIN sessions' /\ sessions'[h] = r
  <2>1. CASE h = NoHandle
    BY <2>1
  <2>2. CASE h # NoHandle
    <3>1. sessions' = Emplace(sessions, h, r) /\ h \notin DOMAIN sessions
      BY <2>2 DEF SaveSession
    <3> QED BY <1>1, <2>2, <3>1 DEF Emplace
  <2> QED BY <2>1, <2>2
<1>8. EntriesOK' /\ CallbacksOK' /\ HeldOK' /\ SessionsAreHeld'
  <2>1. /\ Pushes(want, CallbackFrame(r, reqData'[r], kind, h))
        /\ \A q \in Requests : q # r => asked'[q] = asked[q] /\ reqData'[q] = reqData[q]
        /\ asked'[r] \subseteq Kinds /\ auth \subseteq auth' /\ asked'[r] = asked[r]
    BY <1>1, <1>2, <1>5
  <2>2. \A k \in asked'[r] : reqData'[r] \in DOMAIN Entries(k)'
    <3>1. \A k \in asked[r] : reqData[r] \in DOMAIN Entries(k)
      BY <1>1 DEF Inv, EntriesOK
    <3> QED BY <1>1, <1>2, <1>6, <3>1
  <2>3. \A k \in Kinds : \A x \in DOMAIN Entries(k)' :
           /\ Entries(k)'[x] \in Requests
           /\ reqData'[Entries(k)'[x]] = x /\ k \in asked'[Entries(k)'[x]]
    <3>1. \A k \in Kinds : \A x \in DOMAIN Entries(k) :
           /\ Entries(k)[x] \in Requests
           /\ reqData[Entries(k)[x]] = x /\ k \in asked[Entries(k)[x]]
      BY DEF Inv, EntriesOK
    <3> QED BY <1>1, <1>6, <3>1
  <2>4. \A k \in Kinds : DOMAIN Entries(k) \subseteq DOMAIN Entries(k)'
    BY <1>6
  <2>5. held' = held /\ gone' = gone /\ outcome[r] \in {"new", "pending"}
    BY <1>1
  <2>6. r \in auth => asked'[r] = asked[r]
    BY <2>1
  <2>7. Tells(r, kind, h, want)
    BY <1>1, <1>4, <1>7, <2>1, <2>2, <2>3, <2>4, <2>5, <2>6 DEF Tells
  <2> QED BY <1>4, <2>7, Telling
<1>9. RequestsOK'
  <2>1. ASSUME NEW q \in Requests
        PROVE  /\ outcome'[q] = "new" <=> q > issued'
               /\ q > issued' => asked'[q] = {} /\ q \notin auth'
               /\ told'[q] = IF outcome'[q] \in asked'[q] THEN outcome'[q] ELSE "none"
    <3>1. told'[q] = IF q = r THEN IF want THEN kind ELSE "none" ELSE told[q]
      BY <1>2, <1>5
    <3>2. outcome'[q] = IF q = r THEN kind ELSE outcome[q]
      BY <1>1, <1>2
    <3>3. kind # "new" /\ (q = r => outcome[q] # "new")
      BY <1>1 DEF Kinds
    <3> QED BY <1>1, <1>4, <3>1, <3>2, <3>3 DEF Inv, RequestsOK
  <2> QED BY <1>1, <1>2, <2>1 DEF RequestsOK
<1>10. Typed'
  <2>1. told' \in [Requests -> {"none", "ok", "error", "twice"}]
    BY <1>2, <1>5 DEF Kinds
  <2>2. outcome' \in [Requests -> {"new", "pending", "ok", "error"}]
    BY <1>1, <1>2 DEF Kinds
  <2>3. DOMAIN sessions' \subseteq Handles /\ \A x \in DOMAIN sessions' : sessions'[x] \in Sessions
    BY <1>2, <1>7
  <2> QED BY <1>1, <2>1, <2>2, <2>3 DEF Inv, Typed
<1>11. StackOK' /\ NumbersOK'
  BY <1>1, <1>5 DEF Pushes, Inv, NumbersOK
<1> QED BY <1>8, <1>9, <1>10, <1>11 DEF Inv

LEMMA AuthenticateOkInv ==
  ASSUME NClientWrapperAssumption, Inv, NEW r \in Requests, AuthenticateOk(r)
  PROVE  Inv'
<1>1. PICK h \in FreeHandles : SaveSession(h, r) /\ Invoke(okCallbacks, reqData[r], "ok", h)
  BY DEF AuthenticateOk
<1>2. ~gone
  BY Innermost DEF AuthenticateOk, Inv
<1>3. h \in Handles /\ h \notin DOMAIN sessions /\ h # NoHandle
  BY DEF FreeHandles, NClientWrapperAssumption
<1>4. "ok" \in Kinds /\ okCallbacks = Entries("ok")
  BY DEF Kinds, Entries
<1>5. ClientTells(r, "ok") /\ r \in auth /\ UNCHANGED held
  BY DEF AuthenticateOk
<1> QED BY <1>1, <1>2, <1>3, <1>4, <1>5, ClientTellsInv

LEMMA ReqOkInv ==
  ASSUME NClientWrapperAssumption, Inv, NEW r \in Requests, ReqOk(r)
  PROVE  Inv'
<1>1. ~gone
  BY Innermost DEF ReqOk, Inv
<1>2. "ok" \in Kinds /\ okCallbacks = Entries("ok")
  BY DEF Kinds, Entries
<1>3. ClientTells(r, "ok") /\ Invoke(okCallbacks, reqData[r], "ok", NoHandle)
      /\ UNCHANGED <<sessions, held>>
  BY DEF ReqOk, table
<1> QED BY <1>1, <1>2, <1>3, ClientTellsInv

LEMMA ReqErrorInv ==
  ASSUME NClientWrapperAssumption, Inv, NEW r \in Requests, ReqError(r)
  PROVE  Inv'
<1>1. ~gone
  BY Innermost DEF ReqError, Inv
<1>2. "error" \in Kinds /\ errorCallbacks = Entries("error")
  BY DEF Kinds, Entries
<1>3. ClientTells(r, "error") /\ Invoke(errorCallbacks, reqData[r], "error", NoHandle)
      /\ UNCHANGED <<sessions, held>>
  BY DEF ReqError, table
<1> QED BY <1>1, <1>2, <1>3, ClientTellsInv

\* A call begins or returns: the callbacks in progress are the same.
LEMMA SameCallbacks ==
  ASSUME Inv, StackOK',
         \A i \in DOMAIN stack' : stack'[i].op = "callback" =>
           i \in DOMAIN stack /\ stack'[i] = stack[i],
         \A i \in DOMAIN stack : stack[i].op = "callback" =>
           i \in DOMAIN stack' /\ stack'[i] = stack[i],
         \/ UNCHANGED <<okCallbacks, errorCallbacks, gone>>
         \/ okCallbacks' = <<>> /\ errorCallbacks' = <<>> /\ gone' = TRUE,
         UNCHANGED <<curReqId, userData, sessions, held, reqData, auth, outcome, asked, told,
                     issued, restored, throws>>
  PROVE  Inv'
<1>1. Typed' /\ NumbersOK' /\ RequestsOK' /\ HeldOK'
  <2>1. gone' \in BOOLEAN
    <3>1. gone \in BOOLEAN
      BY DEF Inv, Typed
    <3>2. gone' = gone \/ gone' = TRUE
      OBVIOUS
    <3> QED BY <3>1, <3>2
  <2>2. Typed'
    BY <2>1 DEF Inv, Typed
  <2>3. NumbersOK' /\ RequestsOK' /\ HeldOK'
    BY DEF Inv, NumbersOK, RequestsOK, HeldOK
  <2> QED BY <2>2, <2>3
<1>2. \A q \in Requests : InProgress(q)' => InProgress(q)
  BY DEF InProgress
<1>3. EntriesOK'
  <2>1. CASE UNCHANGED <<okCallbacks, errorCallbacks, gone>>
    <3>1. \A k \in Kinds : Entries(k)' = Entries(k)
      BY <2>1 DEF Entries
    <3>2. \A k \in Kinds : \A x \in DOMAIN Entries(k) :
           /\ Entries(k)[x] \in Requests
           /\ reqData[Entries(k)[x]] = x /\ k \in asked[Entries(k)[x]]
      BY DEF Inv, EntriesOK
    <3>3. ASSUME ~gone, NEW q \in Requests, outcome[q] = "pending" \/ InProgress(q)',
                 NEW k \in asked[q]
          PROVE  reqData[q] \in DOMAIN Entries(k)'
      <4>1. k \in Kinds
        BY DEF Inv, Typed
      <4> QED BY <1>2, <3>1, <3>3, <4>1 DEF Inv, EntriesOK
    <3> QED BY <2>1, <3>1, <3>2, <3>3 DEF EntriesOK
  <2>2. CASE okCallbacks' = <<>> /\ errorCallbacks' = <<>> /\ gone' = TRUE
    <3>1. \A k \in Kinds : DOMAIN Entries(k)' = {}
      BY <2>2 DEF Entries
    <3> QED BY <2>2, <3>1 DEF EntriesOK
  <2> QED BY <2>1, <2>2
<1>4. CallbacksOK'
  BY DEF Inv, CallbacksOK
<1>5. SessionsAreHeld'
  BY DEF Inv, SessionsAreHeld, Callbacks
<1> QED BY <1>1, <1>3, <1>4, <1>5 DEF Inv

\* Tick, Disconnect, Destroy.
LEMMA CallInv ==
  ASSUME Inv, ~gone, NEW op \in {"tick", "disconnect", "destroy"},
         op = "destroy" => stack = <<>>, stack' = Append(stack, CallFrame(op)),
         UNCHANGED <<okCallbacks, errorCallbacks, gone, curReqId, userData, sessions, held, reqData,
                     auth, outcome, asked, told, issued, restored, throws>>
  PROVE  Inv'
<1>1. CallFrame(op) \in FrameType /\ CallFrame(op).op = op
  BY DEF FrameType, CallFrame
<1>2. Pushes(TRUE, CallFrame(op))
  BY <1>1, Pushing DEF Inv
<1>3. /\ StackOK'
      /\ \A i \in DOMAIN stack' : stack'[i].op = "callback" =>
           i \in DOMAIN stack /\ stack'[i] = stack[i]
      /\ \A i \in DOMAIN stack : stack[i].op = "callback" =>
           i \in DOMAIN stack' /\ stack'[i] = stack[i]
  BY <1>1, <1>2 DEF Pushes
<1> QED BY <1>3, SameCallbacks

\* CallReturns, DestroyReturns.
LEMMA CallReturnsInv ==
  ASSUME Inv, CallReturns \/ DestroyReturns
  PROVE  Inv'
<1>1. stack # <<>> /\ Len(stack) \in DOMAIN stack /\ stack[Len(stack)].op # "callback"
  BY Innermost DEF CallReturns, DestroyReturns, Inv
<1>2. stack' = Front(stack) /\ (UNCHANGED gone \/ Running("destroy"))
  BY DEF CallReturns, DestroyReturns
<1>3. /\ StackOK'
      /\ \A i \in DOMAIN stack' : i \in DOMAIN stack /\ i # Len(stack) /\ stack'[i] = stack[i]
      /\ \A i \in DOMAIN stack : i # Len(stack) => i \in DOMAIN stack'
  BY <1>1, <1>2, Returns DEF Inv
<1>4. \/ UNCHANGED <<okCallbacks, errorCallbacks, gone>>
      \/ okCallbacks' = <<>> /\ errorCallbacks' = <<>> /\ gone' = TRUE
  BY DEF CallReturns, DestroyReturns, maps
<1>5. UNCHANGED <<curReqId, userData, sessions, held, reqData, auth, outcome, asked, told,
                  issued, restored, throws>>
  BY DEF CallReturns, DestroyReturns, table, client
<1>6. /\ \A i \in DOMAIN stack' : stack'[i].op = "callback" =>
           i \in DOMAIN stack /\ stack'[i] = stack[i]
      /\ \A i \in DOMAIN stack : stack[i].op = "callback" =>
           i \in DOMAIN stack' /\ stack'[i] = stack[i]
  BY <1>1, <1>3
<1> QED BY <1>3, <1>4, <1>5, <1>6, SameCallbacks

LEMMA CallsInv ==
  ASSUME NClientWrapperAssumption, Inv, Tick \/ Disconnect \/ Destroy
  PROVE  Inv'
<1>1. /\ ~gone
      /\ UNCHANGED <<okCallbacks, errorCallbacks, gone, curReqId, userData, sessions, held, reqData,
                     auth, outcome, asked, told, issued, restored, throws>>
  BY DEF Tick, Disconnect, Destroy, MayCall, maps, client, table
<1>2. Destroy => stack = <<>>
  BY DEF Destroy, MayCall, NClientWrapperAssumption
<1> QED BY <1>1, <1>2, CallInv DEF Tick, Disconnect, Destroy

\* The typing of the handles and of the session wrappers.
LEMMA Wrappers ==
  ASSUME NClientWrapperAssumption, Inv
  PROVE  /\ \A w \in held : /\ w = Wrapper(w.handle, w.session) /\ w.handle \in Handles
                            /\ w.session \in Sessions
         /\ DOMAIN sessions \subseteq Handles /\ NoHandle \notin DOMAIN sessions
BY DEF Inv, Typed, Wrapper, NClientWrapperAssumption

LEMMA WrapperFields ==
  ASSUME NEW h, NEW x
  PROVE  Wrapper(h, x).handle = h /\ Wrapper(h, x).session = x
BY DEF Wrapper

\* What no change to the table of sessions touches.
LEMMA SameEntries ==
  ASSUME Inv,
         UNCHANGED <<okCallbacks, errorCallbacks, curReqId, userData, stack, gone, reqData, auth,
                     outcome, asked, told, issued>>
  PROVE  StackOK' /\ NumbersOK' /\ EntriesOK' /\ RequestsOK'
BY DEF Inv, StackOK, NumbersOK, EntriesOK, RequestsOK, Entries, InProgress

LEMMA RestoreSessionInv ==
  ASSUME NClientWrapperAssumption, Inv, RestoreSession
  PROVE  Inv'
<1> DEFINE s == MaxRequests + (restored + 1)
<1>1. PICK h \in FreeHandles :
        sessions' = Emplace(sessions, h, s) /\ held' = held \cup {Wrapper(h, s)}
  BY DEF RestoreSession, SaveSession
<1>2. UNCHANGED <<okCallbacks, errorCallbacks, curReqId, userData, stack, gone, reqData, auth,
                  outcome, asked, told, issued, throws>> /\ restored' = restored + 1
  BY DEF RestoreSession, maps, client
<1>3. s \in Sessions /\ s \notin Requests /\ restored' \in 0..MaxRestored
  BY <1>2 DEF RestoreSession, Sessions, Requests, Inv, Typed, NClientWrapperAssumption
<1> HIDE DEF s
<1>4. h \in Handles /\ h \notin DOMAIN sessions
  BY DEF FreeHandles
<1>5. /\ DOMAIN sessions' = DOMAIN sessions \cup {h} /\ sessions'[h] = s
      /\ \A x \in DOMAIN sessions : sessions'[x] = sessions[x]
  BY <1>1, <1>4 DEF Emplace
<1>6. Wrapper(h, s).handle = h /\ Wrapper(h, s).session = s
  BY WrapperFields
<1>7. StackOK' /\ NumbersOK' /\ EntriesOK' /\ RequestsOK'
  BY <1>2, SameEntries
<1>8. Typed'
  <2>1. held' \subseteq {Wrapper(x, y) : x \in Handles, y \in Sessions}
    BY <1>1, <1>3, <1>4 DEF Inv, Typed
  <2>2. DOMAIN sessions' \subseteq Handles /\ \A x \in DOMAIN sessions' : sessions'[x] \in Sessions
    BY <1>3, <1>4, <1>5 DEF Inv, Typed
  <2> QED BY <1>2, <1>3, <2>1, <2>2 DEF Inv, Typed
<1>9. CallbacksOK'
  <2>1. \A i \in DOMAIN stack : stack[i].op = "callback" => stack[i].req # s
    BY <1>3, Frames DEF Inv
  <2>2. \A w \in held' : w \in held \/ w.session = s
    BY <1>1, <1>6
  <2> QED BY <1>2, <1>5, <2>1, <2>2 DEF Inv, CallbacksOK
<1>10. HeldOK'
  <2>1. \A w \in held' : w \in held \/ (w.session = s /\ w.handle = h)
    BY <1>1, <1>6
  <2> QED BY <1>2, <1>3, <1>5, <2>1 DEF Inv, HeldOK
<1>11. SessionsAreHeld'
  BY <1>1, <1>2, <1>5 DEF Inv, SessionsAreHeld, Callbacks
<1> QED BY <1>7, <1>8, <1>9, <1>10, <1>11 DEF Inv

LEMMA DropSessionInv ==
  ASSUME NClientWrapperAssumption, Inv, NEW w \in held, DropSession(w)
  PROVE  Inv'
<1>1. /\ held' = held \ {w}
      /\ UNCHANGED <<okCallbacks, errorCallbacks, curReqId, userData, stack, gone, reqData, auth,
                     outcome, asked, told, issued, restored, throws>>
  BY DEF DropSession, maps, client
<1>2. /\ DOMAIN sessions' = DOMAIN sessions \ {w.handle}
      /\ \A x \in DOMAIN sessions' : sessions'[x] = sessions[x]
  BY DEF DropSession, NSessionDestroy
<1>3. StackOK' /\ NumbersOK' /\ EntriesOK' /\ RequestsOK'
  BY <1>1, SameEntries
<1>4. Typed'
  BY <1>1, <1>2 DEF Inv, Typed
<1>5. w.handle \in DOMAIN sessions /\ sessions[w.handle] = w.session
  BY DEF Inv, HeldOK
<1>6. CallbacksOK'
  BY <1>1, <1>2, <1>5 DEF Inv, CallbacksOK
<1>7. HeldOK'
  <2>1. \A v \in held' : v.handle # w.handle
    BY <1>1, <1>5, Wrappers DEF Inv, HeldOK
  <2> QED BY <1>1, <1>2, <2>1 DEF Inv, HeldOK
<1>8. SessionsAreHeld'
  <2>1. \A x : x # w.handle => Wrapper(x, sessions[x]) # w
    BY WrapperFields
  <2> QED BY <1>1, <1>2, <2>1 DEF Inv, SessionsAreHeld, Callbacks
<1> QED BY <1>3, <1>4, <1>6, <1>7, <1>8 DEF Inv

\* Callbacks in progress with the same handle are the same callback.
LEMMA OneOwner ==
  ASSUME Inv, NEW i \in DOMAIN stack, NEW j \in DOMAIN stack,
         stack[i].op = "callback", stack[j].op = "callback",
         stack[i].handle # NoHandle, stack[i].handle = stack[j].handle
  PROVE  i = j
BY DEF Inv, CallbacksOK

LEMMA CallbackReturnsInv ==
  ASSUME NClientWrapperAssumption, Inv, CallbackReturns
  PROVE  Inv'
<1> DEFINE f == stack[Len(stack)]
<1>1. /\ ~gone /\ stack # <<>> /\ Len(stack) \in DOMAIN stack /\ f.op = "callback"
      /\ f = Last(stack)
  BY Innermost DEF CallbackReturns, Inv
<1>2. /\ stack' = Front(stack) /\ Erase(f)
      /\ \/ f.handle # NoHandle /\ held' = held \cup {Given(f)} /\ UNCHANGED sessions
         \/ UNCHANGED held /\ NSessionDestroy({Given(f)})
      /\ UNCHANGED <<curReqId, userData, reqData, auth, outcome, asked, told, issued, gone,
                     restored, throws>>
  BY <1>1 DEF CallbackReturns, client
<1>3. /\ f.req \in Requests /\ f.kind \in Kinds /\ f.handle \in Handles \cup {NoHandle}
      /\ outcome[f.req] = f.kind /\ f.kind \in asked[f.req] /\ reqData[f.req] = f.id
      /\ f.handle # NoHandle =>
           /\ f.kind = "ok" /\ f.handle \in DOMAIN sessions /\ sessions[f.handle] = f.req
      /\ \A w \in held : w.session # f.req
  BY <1>1, Frames DEF Inv, CallbacksOK
<1>4. /\ StackOK'
      /\ \A i \in DOMAIN stack' : i \in DOMAIN stack /\ i # Len(stack) /\ stack'[i] = stack[i]
      /\ \A i \in DOMAIN stack : i # Len(stack) => i \in DOMAIN stack'
  BY <1>1, <1>2, Returns DEF Inv
<1>5. \A i \in DOMAIN stack' : stack'[i].op = "callback" =>
        /\ i \in DOMAIN stack /\ i # Len(stack) /\ stack'[i] = stack[i] /\ stack[i].op = "callback"
        /\ stack[i].req # f.req /\ stack[i].req \in Requests
        /\ stack[i].handle # NoHandle => stack[i].handle # f.handle
  <2>1. ASSUME NEW i \in DOMAIN stack', stack'[i].op = "callback"
        PROVE  /\ i \in DOMAIN stack /\ i # Len(stack) /\ stack'[i] = stack[i]
               /\ stack[i].op = "callback"
               /\ stack[i].req # f.req /\ stack[i].req \in Requests
               /\ stack[i].handle # NoHandle => stack[i].handle # f.handle
    <3>1. /\ i \in DOMAIN stack /\ i # Len(stack) /\ stack'[i] = stack[i]
          /\ stack[i].op = "callback"
      BY <1>4, <2>1
    <3>2. stack[i].req # f.req
      BY <1>1, <3>1 DEF Inv, CallbacksOK
    <3>3. stack[i].req \in Requests
      BY <3>1, Frames DEF Inv
    <3>4. stack[i].handle # NoHandle => stack[i].handle # f.handle
      BY <1>1, <3>1, OneOwner
    <3> QED BY <3>1, <3>2, <3>3, <3>4
  <2> QED BY <2>1
<1>6. Given(f).handle = f.handle /\ Given(f).session = f.req /\ Given(f) = Wrapper(f.handle, f.req)
  BY WrapperFields DEF Given
<1>7. \A k \in Kinds : Entries(k)' = IF k = f.kind THEN Without(Entries(k), f.id) ELSE Entries(k)
  BY <1>2, <1>3 DEF Erase, Entries, Kinds
<1> HIDE DEF f
<1>8. EntriesOK'
  <2>1. ASSUME NEW k \in Kinds, NEW x \in DOMAIN Entries(k)'
        PROVE  /\ Entries(k)'[x] \in Requests
               /\ reqData'[Entries(k)'[x]] = x /\ k \in asked'[Entries(k)'[x]]
    <3>1. x \in DOMAIN Entries(k) /\ Entries(k)'[x] = Entries(k)[x]
      BY <1>7 DEF Without
    <3> QED BY <1>2, <3>1 DEF Inv, EntriesOK
  <2>2. ASSUME NEW q \in Requests, outcome'[q] = "pending" \/ InProgress(q)', NEW k \in asked'[q]
        PROVE  reqData'[q] \in DOMAIN Entries(k)'
    <3>1. outcome[q] = "pending" \/ InProgress(q)
      BY <1>2, <1>5, <2>2 DEF InProgress
    <3>2. q # f.req
      BY <1>2, <1>3, <1>5, <2>2 DEF InProgress, Kinds
    <3>3. k \in Kinds /\ k \in asked[q] /\ reqData'[q] = reqData[q]
      BY <1>2 DEF Inv, Typed
    <3>4. reqData[q] \in DOMAIN Entries(k)
      BY <1>1, <3>1, <3>3 DEF Inv, EntriesOK
    <3>5. reqData[q] # f.id
      BY <1>3, <3>2, <3>3 DEF Inv, NumbersOK
    <3> QED BY <1>7, <3>3, <3>4, <3>5 DEF Without
  <2> QED BY <2>1, <2>2 DEF EntriesOK
<1>9. RequestsOK' /\ NumbersOK'
  BY <1>2 DEF Inv, RequestsOK, NumbersOK
<1>10. CASE f.handle # NoHandle /\ held' = held \cup {Given(f)} /\ UNCHANGED sessions
  <2>1. \A w \in held' : w \in held \/ (w.session = f.req /\ w.handle = f.handle)
    BY <1>6, <1>10
  <2>2. Typed'
    <3>1. f.req \in Sessions /\ f.handle \in Handles
      BY <1>3, <1>10 DEF Requests, Sessions, NClientWrapperAssumption
    <3>2. Given(f) \in {Wrapper(h, x) : h \in Handles, x \in Sessions}
      BY <1>6, <3>1
    <3> QED BY <1>2, <1>10, <3>2 DEF Inv, Typed
  <2>3. CallbacksOK'
    BY <1>2, <1>5, <1>10, <2>1 DEF Inv, CallbacksOK
  <2>4. HeldOK'
    BY <1>2, <1>3, <1>10, <2>1 DEF Inv, HeldOK
  <2>5. SessionsAreHeld'
    <3> SUFFICES ASSUME NEW x \in DOMAIN sessions
                 PROVE  \/ Wrapper(x, sessions[x]) \in held'
                        \/ \E i \in DOMAIN stack' : stack'[i].op = "callback" /\ stack'[i].handle = x
                        \/ sessions[x] \in auth /\ "ok" \notin asked[sessions[x]]
      BY <1>2, <1>10 DEF SessionsAreHeld, Callbacks
    <3>1. x = f.handle => Wrapper(x, sessions[x]) \in held'
      BY <1>3, <1>6, <1>10
    <3>2. \A i \in DOMAIN stack : stack[i].handle = x /\ x # f.handle =>
            i \in DOMAIN stack' /\ stack'[i] = stack[i]
      BY <1>4 DEF f
    <3>3. \/ Wrapper(x, sessions[x]) \in held
          \/ \E i \in DOMAIN stack : stack[i].op = "callback" /\ stack[i].handle = x
          \/ sessions[x] \in auth /\ "ok" \notin asked[sessions[x]]
      BY DEF Inv, SessionsAreHeld, Callbacks
    <3> QED BY <1>10, <3>1, <3>2, <3>3
  <2> QED BY <1>4, <1>8, <1>9, <2>2, <2>3, <2>4, <2>5 DEF Inv
<1>11. CASE UNCHANGED held /\ NSessionDestroy({Given(f)})
  <2>1. /\ DOMAIN sessions' = DOMAIN sessions \ {f.handle}
        /\ \A x \in DOMAIN sessions' : sessions'[x] = sessions[x]
    BY <1>6, <1>11 DEF NSessionDestroy
  <2>2. Typed'
    BY <1>2, <1>11, <2>1 DEF Inv, Typed
  <2>3. CallbacksOK'
    BY <1>2, <1>5, <1>11, <2>1 DEF Inv, CallbacksOK
  <2>4. HeldOK'
    <3>1. \A w \in held : w.handle # f.handle
      BY <1>3, Wrappers DEF Inv, HeldOK
    <3> QED BY <1>2, <1>11, <2>1, <3>1 DEF Inv, HeldOK
  <2>5. SessionsAreHeld'
    <3> SUFFICES ASSUME NEW x \in DOMAIN sessions, x # f.handle
                 PROVE  \/ Wrapper(x, sessions[x]) \in held
                        \/ \E i \in DOMAIN stack' : stack'[i].op = "callback" /\ stack'[i].handle = x
                        \/ sessions[x] \in auth /\ "ok" \notin asked[sessions[x]]
      BY <1>2, <1>11, <2>1 DEF SessionsAreHeld, Callbacks
    <3>1. \A i \in DOMAIN stack : stack[i].handle = x =>
            i \in DOMAIN stack' /\ stack'[i] = stack[i]
      BY <1>4 DEF f
    <3>2. \/ Wrapper(x, sessions[x]) \in held
          \/ \E i \in DOMAIN stack : stack[i].op = "callback" /\ stack[i].handle = x
          \/ sessions[x] \in auth /\ "ok" \notin asked[sessions[x]]
      BY DEF Inv, SessionsAreHeld, Callbacks
    <3> QED BY <3>1, <3>2
  <2> QED BY <1>4, <1>8, <1>9, <2>2, <2>3, <2>4, <2>5 DEF Inv
<1> QED BY <1>2, <1>10, <1>11

LEMMA CallbackThrowsInv ==
  ASSUME NClientWrapperAssumption, Inv, CallbackThrows
  PROVE  Inv'
<1> DEFINE given == {Given(stack[i]) : i \in {j \in Callbacks : stack[j].handle # NoHandle}}
<1>1. PICK kept \in SUBSET given : held' = held \cup kept /\ NSessionDestroy(given \ kept)
  BY DEF CallbackThrows
<1>2. PICK S \in {{}} \cup {{stack[i].req} : i \in {j \in Callbacks : stack[j].handle = NoHandle}} :
       /\ outcome' = [r \in Requests |-> IF r \in S THEN "pending" ELSE outcome[r]]
       /\ told' = [r \in Requests |-> IF r \in S THEN "none" ELSE told[r]]
  BY DEF CallbackThrows
<1>3. /\ stack' = <<>> /\ throws' = throws + 1 /\ throws < MaxThrows /\ stack # <<>>
      /\ UNCHANGED <<okCallbacks, errorCallbacks, curReqId, reqData, auth, asked, issued, userData,
                     gone, restored>>
  BY DEF CallbackThrows, maps, client, Running
<1>4. ~gone
  BY <1>3 DEF Inv, StackOK
\* The sessions given to the callbacks in progress.
<1>5. \A w \in given : \E i \in DOMAIN stack :
        /\ stack[i].op = "callback" /\ stack[i].handle # NoHandle
        /\ w = Wrapper(stack[i].handle, stack[i].req)
        /\ w.handle = stack[i].handle /\ w.session = stack[i].req
  BY WrapperFields DEF Given, Callbacks
<1>6. \A i \in DOMAIN stack : stack[i].op = "callback" /\ stack[i].handle # NoHandle =>
        Wrapper(stack[i].handle, stack[i].req) \in given
  BY DEF Given, Callbacks
<1> HIDE DEF given
<1>7. \A w \in given :
        /\ w.handle \in DOMAIN sessions /\ sessions[w.handle] = w.session
        /\ w = Wrapper(w.handle, w.session) /\ w.session \in Requests /\ w.handle \in Handles
        /\ outcome[w.session] = "ok" /\ w.session \notin S
        /\ \A v \in held : v.session # w.session
  <2> SUFFICES ASSUME NEW w \in given
               PROVE  /\ w.handle \in DOMAIN sessions /\ sessions[w.handle] = w.session
                      /\ w = Wrapper(w.handle, w.session)
                      /\ w.session \in Requests /\ w.handle \in Handles
                      /\ outcome[w.session] = "ok" /\ w.session \notin S
                      /\ \A v \in held : v.session # w.session
    OBVIOUS
  <2>1. PICK i \in DOMAIN stack :
          /\ stack[i].op = "callback" /\ stack[i].handle # NoHandle
          /\ w = Wrapper(stack[i].handle, stack[i].req)
          /\ w.handle = stack[i].handle /\ w.session = stack[i].req
    BY <1>5
  <2>2. stack[i].req \in Requests /\ stack[i].handle \in Handles
    BY <2>1, Frames DEF Inv
  <2>3. /\ outcome[stack[i].req] = stack[i].kind /\ stack[i].kind = "ok"
        /\ stack[i].handle \in DOMAIN sessions /\ sessions[stack[i].handle] = stack[i].req
        /\ \A v \in held : v.session # stack[i].req
    BY <2>1 DEF Inv, CallbacksOK
  <2>4. stack[i].req \notin S
    BY <2>1 DEF Callbacks, Inv, CallbacksOK
  <2> QED BY <2>1, <2>2, <2>3, <2>4
<1>8. \A r \in S : /\ r \in Requests /\ InProgress(r) /\ outcome[r] \in Kinds
                   /\ \A v \in held : v.session # r
  <2> SUFFICES ASSUME NEW r \in S
               PROVE  /\ r \in Requests /\ InProgress(r) /\ outcome[r] \in Kinds
                      /\ \A v \in held : v.session # r
    OBVIOUS
  <2>1. PICK i \in DOMAIN stack : stack[i].op = "callback" /\ r = stack[i].req
    BY DEF Callbacks
  <2>2. stack[i].req \in Requests /\ stack[i].kind \in Kinds
    BY <2>1, Frames DEF Inv
  <2>3. outcome[stack[i].req] = stack[i].kind /\ \A v \in held : v.session # stack[i].req
    BY <2>1 DEF Inv, CallbacksOK
  <2> QED BY <2>1, <2>2, <2>3 DEF InProgress
<1>9. /\ DOMAIN sessions' \subseteq DOMAIN sessions
      /\ \A x \in DOMAIN sessions' : sessions'[x] = sessions[x]
      /\ \A x \in DOMAIN sessions : (\A w \in given \ kept : w.handle # x) => x \in DOMAIN sessions'
      /\ \A w \in given \ kept : w.handle \notin DOMAIN sessions'
  BY <1>1 DEF NSessionDestroy
<1>10. Typed'
  <2>1. held' \subseteq {Wrapper(x, y) : x \in Handles, y \in Sessions}
    <3>1. Requests \subseteq Sessions
      BY DEF Requests, Sessions, NClientWrapperAssumption
    <3> QED BY <1>1, <1>7, <3>1 DEF Inv, Typed
  <2>2. /\ outcome' \in [Requests -> {"new", "pending", "ok", "error"}]
        /\ told' \in [Requests -> {"none", "ok", "error", "twice"}]
    BY <1>2 DEF Inv, Typed
  <2>3. throws' \in 0..MaxThrows
    BY <1>3 DEF Inv, Typed, NClientWrapperAssumption
  <2> QED BY <1>3, <1>9, <2>1, <2>2, <2>3 DEF Inv, Typed
<1>11. StackOK' /\ NumbersOK' /\ CallbacksOK'
  BY <1>3 DEF Inv, StackOK, NumbersOK, CallbacksOK
<1>12. EntriesOK'
  <2>1. \A k \in Kinds : Entries(k)' = Entries(k)
    BY <1>3 DEF Entries
  <2>2. ASSUME NEW q \in Requests, outcome'[q] = "pending" \/ InProgress(q)', NEW k \in asked'[q]
        PROVE  reqData'[q] \in DOMAIN Entries(k)'
    <3>1. outcome[q] = "pending" \/ InProgress(q)
      BY <1>2, <1>3, <1>8, <2>2 DEF InProgress
    <3>2. k \in Kinds /\ k \in asked[q] /\ reqData'[q] = reqData[q]
      BY <1>3 DEF Inv, Typed
    <3>3. reqData[q] \in DOMAIN Entries(k)
      BY <1>4, <3>1, <3>2 DEF Inv, EntriesOK
    <3> QED BY <2>1, <3>2, <3>3
  <2>3. \A k \in Kinds : \A x \in DOMAIN Entries(k)' :
           /\ Entries(k)'[x] \in Requests
           /\ reqData'[Entries(k)'[x]] = x /\ k \in asked'[Entries(k)'[x]]
    <3>1. \A k \in Kinds : \A x \in DOMAIN Entries(k) :
           /\ Entries(k)[x] \in Requests
           /\ reqData[Entries(k)[x]] = x /\ k \in asked[Entries(k)[x]]
      BY DEF Inv, EntriesOK
    <3> QED BY <1>3, <2>1, <3>1
  <2> QED BY <2>2, <2>3 DEF EntriesOK
<1>13. RequestsOK'
  <2>1. ASSUME NEW q \in Requests
        PROVE  /\ outcome'[q] = "new" <=> q > issued'
               /\ q > issued' => asked'[q] = {} /\ q \notin auth'
               /\ told'[q] = IF outcome'[q] \in asked'[q] THEN outcome'[q] ELSE "none"
    <3>1. "pending" \notin asked[q]
      BY DEF Inv, Typed, Kinds
    <3>2. /\ outcome'[q] = IF q \in S THEN "pending" ELSE outcome[q]
          /\ told'[q] = IF q \in S THEN "none" ELSE told[q]
      BY <1>2
    <3>3. q \in S => outcome[q] # "new"
      BY <1>8 DEF Kinds
    <3> QED BY <1>3, <3>1, <3>2, <3>3 DEF Inv, RequestsOK
  <2> QED BY <1>3, <2>1 DEF Inv, RequestsOK
<1>14. HeldOK'
  <2> SUFFICES ASSUME NEW w \in held'
               PROVE  /\ w.handle \in DOMAIN sessions' /\ sessions'[w.handle] = w.session
                      /\ w.session \in Requests => outcome'[w.session] = "ok"
    BY DEF HeldOK
  <2>1. CASE w \in held
    <3>1. /\ w.handle \in DOMAIN sessions /\ sessions[w.handle] = w.session
          /\ w.session \in Requests => outcome[w.session] = "ok"
      BY <2>1 DEF Inv, HeldOK
    <3>2. \A v \in given : v.handle # w.handle
      BY <1>7, <2>1, <3>1
    <3>3. w.session \notin S
      BY <1>8, <2>1
    <3> QED BY <1>2, <1>9, <3>1, <3>2, <3>3
  <2>2. CASE w \in kept
    <3>1. w \in given
      BY <1>1, <2>2
    <3>2. \A v \in given : v.handle = w.handle => v = w
      BY <1>7, <3>1
    <3> QED BY <1>2, <1>7, <1>9, <2>2, <3>1, <3>2
  <2> QED BY <1>1, <2>1, <2>2
<1>15. SessionsAreHeld'
  <2> SUFFICES ASSUME NEW x \in DOMAIN sessions'
               PROVE  \/ Wrapper(x, sessions[x]) \in held'
                      \/ sessions[x] \in auth /\ "ok" \notin asked[sessions[x]]
    BY <1>3, <1>9 DEF SessionsAreHeld
  <2>1. \/ Wrapper(x, sessions[x]) \in held
        \/ \E i \in DOMAIN stack : stack[i].op = "callback" /\ stack[i].handle = x
        \/ sessions[x] \in auth /\ "ok" \notin asked[sessions[x]]
    BY <1>9 DEF Inv, SessionsAreHeld, Callbacks
  <2>2. ASSUME NEW i \in DOMAIN stack, stack[i].op = "callback", stack[i].handle = x
        PROVE  Wrapper(x, sessions[x]) \in held'
    <3>1. x # NoHandle
      BY <1>9, Wrappers
    <3>2. Wrapper(x, stack[i].req) \in given
      BY <1>6, <2>2, <3>1
    <3>3. sessions[x] = stack[i].req
      BY <2>2, <3>1 DEF Inv, CallbacksOK
    <3>4. Wrapper(x, stack[i].req) \in kept
      BY <1>9, <3>2, WrapperFields
    <3> QED BY <1>1, <3>3, <3>4
  <2> QED BY <1>1, <2>1, <2>2
<1> QED BY <1>10, <1>11, <1>12, <1>13, <1>14, <1>15 DEF Inv

LEMMA StutterInv ==
  ASSUME Inv, UNCHANGED vars
  PROVE  Inv'
<1>1. stack' = stack /\ gone' = gone
  BY DEF vars
<1>2. StackOK'
  BY <1>1 DEF Inv, StackOK
<1> QED BY <1>1, <1>2, SameCallbacks DEF vars

LEMMA InitInv ==
  ASSUME NClientWrapperAssumption, Init
  PROVE  Inv
<1>1. /\ okCallbacks = <<>> /\ errorCallbacks = <<>> /\ curReqId = INVALID_REQ_ID
      /\ userData = "wrapper" /\ sessions = <<>> /\ held = {}
      /\ stack = <<>> /\ gone = FALSE
      /\ reqData = [r \in Requests |-> INVALID_REQ_ID] /\ auth = {}
      /\ outcome = [r \in Requests |-> "new"]
      /\ asked = [r \in Requests |-> {}] /\ told = [r \in Requests |-> "none"]
      /\ issued = 0 /\ restored = 0 /\ throws = 0
  BY DEF Init
<1>2. /\ IdMod \in Nat /\ IdMod > 0 /\ MaxRequests \in Nat /\ MaxRestored \in Nat
      /\ MaxThrows \in Nat /\ \A r \in Requests : r > 0
  BY DEF NClientWrapperAssumption, Requests
<1>3. DOMAIN sessions = {} /\ DOMAIN stack = {} /\ \A k \in Kinds : DOMAIN Entries(k) = {}
  BY <1>1 DEF Entries
<1>4. Typed
  <2>1. /\ curReqId \in 0..(IdMod - 1) /\ issued \in 0..MaxRequests
        /\ restored \in 0..MaxRestored /\ throws \in 0..MaxThrows
    BY <1>1, <1>2 DEF INVALID_REQ_ID
  <2>2. reqData \in [Requests -> 0..(IdMod - 1)]
    BY <1>1, <1>2 DEF INVALID_REQ_ID
  <2>3. /\ asked \in [Requests -> SUBSET Kinds]
        /\ outcome \in [Requests -> {"new", "pending", "ok", "error"}]
        /\ told \in [Requests -> {"none", "ok", "error", "twice"}]
    BY <1>1
  <2>4. /\ DOMAIN sessions \subseteq Handles /\ \A h \in DOMAIN sessions : sessions[h] \in Sessions
        /\ held \subseteq {Wrapper(h, s) : h \in Handles, s \in Sessions}
    BY <1>1, <1>3
  <2>5. gone \in BOOLEAN /\ auth \subseteq Requests
    BY <1>1
  <2> QED BY <2>1, <2>2, <2>3, <2>4, <2>5 DEF Typed
<1>5. StackOK /\ CallbacksOK
  BY <1>1, <1>3 DEF StackOK, CallbacksOK
<1>6. NumbersOK
  BY <1>1, <1>2 DEF NumbersOK, INVALID_REQ_ID
<1>7. EntriesOK
  BY <1>1, <1>3 DEF EntriesOK
<1>8. RequestsOK
  BY <1>1, <1>2 DEF RequestsOK
<1>9. HeldOK /\ SessionsAreHeld
  BY <1>1, <1>3 DEF HeldOK, SessionsAreHeld
<1> QED BY <1>4, <1>5, <1>6, <1>7, <1>8, <1>9 DEF Inv

LEMMA StepInv ==
  ASSUME NClientWrapperAssumption, Inv, [Next]_vars
  PROVE  Inv'
<1>1. CASE Request
  BY <1>1, RequestInv
<1>2. CASE RequestRefused
  BY <1>2, RequestRefusedInv
<1>3. CASE Tick \/ Disconnect \/ Destroy
  BY <1>3, CallsInv
<1>4. CASE RestoreSession
  BY <1>4, RestoreSessionInv
<1>5. CASE \E w \in held : DropSession(w)
  BY <1>5, DropSessionInv
<1>6. CASE \E r \in Requests : AuthenticateOk(r) \/ ReqOk(r) \/ ReqError(r)
  BY <1>6, AuthenticateOkInv, ReqOkInv, ReqErrorInv
<1>7. CASE CallbackReturns
  BY <1>7, CallbackReturnsInv
<1>8. CASE CallbackThrows
  BY <1>8, CallbackThrowsInv
<1>9. CASE CallReturns \/ DestroyReturns
  BY <1>9, CallReturnsInv
<1>10. CASE SetUserData \/ Gone \/ UNCHANGED vars
  BY <1>10, StutterInv DEF SetUserData, Gone
<1> QED BY <1>1, <1>2, <1>3, <1>4, <1>5, <1>6, <1>7, <1>8, <1>9, <1>10 DEF Next

-----------------------------------------------------------------------------
(* What the invariant implies.                                             *)

LEMMA ImpliesTypeOK ==
  ASSUME NClientWrapperAssumption, Inv
  PROVE  TypeOK
<1>1. \A m \in {okCallbacks, errorCallbacks} :
        /\ DOMAIN m \subseteq 1..(IdMod - 1)
        /\ \A id \in DOMAIN m : m[id] \in Requests
  <2>1. \A kind \in Kinds : /\ DOMAIN Entries(kind) \subseteq 1..(IdMod - 1)
                            /\ \A id \in DOMAIN Entries(kind) : Entries(kind)[id] \in Requests
    <3>1. ASSUME NEW kind \in Kinds, NEW id \in DOMAIN Entries(kind)
          PROVE  id \in 1..(IdMod - 1) /\ Entries(kind)[id] \in Requests
      <4>1. id \in 1..curReqId /\ curReqId \in 0..(IdMod - 1) /\ IdMod \in Nat
        BY NumbersGiven DEF Inv, Typed, NClientWrapperAssumption
      <4> QED BY <4>1 DEF Inv, EntriesOK
    <3> QED BY <3>1
  <2>2. okCallbacks = Entries("ok") /\ errorCallbacks = Entries("error")
        /\ "ok" \in Kinds /\ "error" \in Kinds
    BY DEF Entries, Kinds
  <2> QED BY <2>1, <2>2
<1>2. \A i \in DOMAIN stack : stack[i] \in FrameType
  BY Frames DEF Inv
<1> QED BY <1>1, <1>2 DEF Inv, Typed, RequestsOK, TypeOK, FrameType

LEMMA ImpliesEntriesLast ==
  ASSUME NClientWrapperAssumption, Inv
  PROVE  EntriesLast
<1> SUFFICES ASSUME NEW i \in DOMAIN stack, stack[i].op = "callback"
             PROVE  /\ stack[i].id \in DOMAIN Entries(stack[i].kind)
                    /\ \A j \in DOMAIN stack : stack[j].op = "callback" /\ i # j =>
                         <<stack[i].id, stack[i].kind>> # <<stack[j].id, stack[j].kind>>
  BY DEF EntriesLast, Callbacks, Entries
<1>1. \A j \in DOMAIN stack : stack[j].op = "callback" =>
        /\ stack[j].req \in Requests /\ stack[j].kind \in asked[stack[j].req]
        /\ reqData[stack[j].req] = stack[j].id
  BY Frames DEF Inv, CallbacksOK
<1>2. ~gone
  BY DEF Inv, StackOK
<1>3. stack[i].id \in DOMAIN Entries(stack[i].kind)
  BY <1>1, <1>2 DEF Inv, EntriesOK, InProgress
<1>4. \A j \in DOMAIN stack : stack[j].op = "callback" /\ i # j => stack[i].id # stack[j].id
  <2>1. \A j \in DOMAIN stack : stack[j].op = "callback" /\ i # j => stack[j].req # stack[i].req
    BY DEF Inv, CallbacksOK
  <2> QED BY <1>1, <2>1 DEF Inv, NumbersOK
<1> QED BY <1>3, <1>4

LEMMA ImpliesHandlesAreValid ==
  ASSUME NClientWrapperAssumption, Inv
  PROVE  HandlesAreValid
<1>1. ASSUME NEW w \in held
      PROVE  w.handle \in DOMAIN sessions /\ sessions[w.handle] = w.session
  BY DEF Inv, HeldOK
<1>2. ASSUME NEW i \in DOMAIN stack, stack[i].op = "callback", stack[i].handle # NoHandle
      PROVE  Given(stack[i]).handle \in DOMAIN sessions
             /\ sessions[Given(stack[i]).handle] = Given(stack[i]).session
  BY <1>2, WrapperFields DEF Given, Inv, CallbacksOK
<1> QED BY <1>1, <1>2 DEF HandlesAreValid, Callbacks

-----------------------------------------------------------------------------
(* The theorems.                                                           *)

\* The wrapper's maps, the table of sessions, the calls in progress and the
\* client below satisfy the inductive invariant in every state.
THEOREM AlwaysInv == Spec => []Inv
<1>1. Init => Inv
  BY InitInv, NClientWrapperAssumption
<1>2. Inv /\ [Next]_vars => Inv'
  BY StepInv, NClientWrapperAssumption
<1> QED BY <1>1, <1>2, PTL DEF Spec

\* Every number in the callback maps was given to a request, every handle is
\* an address of a session, and only calls and callbacks are in progress.
THEOREM TypeCorrect == Spec => []TypeOK
<1>1. Inv => TypeOK
  BY ImpliesTypeOK, NClientWrapperAssumption
<1> QED BY <1>1, AlwaysInv, PTL

\* reqOk..., authenticateOk and reqError call the callback given for the
\* request that was answered, once, and no other: whatever entries requests
\* that ended otherwise left in the maps, from whichever call the client
\* answers, and however deeply calls and callbacks are nested.
THEOREM CallbackIsReached == Spec => []CallbackReached
<1>1. Inv => CallbackReached
  BY DEF Inv, RequestsOK, CallbackReached
<1> QED BY <1>1, AlwaysInv, PTL

\* The iterator a callback function erases through once the application's
\* callback returned is valid, whatever the application did in the callback.
THEOREM IteratorsAreValid == Spec => []EntriesLast
<1>1. Inv => EntriesLast
  BY ImpliesEntriesLast, NClientWrapperAssumption
<1> QED BY <1>1, AlwaysInv, PTL

\* A session handle leads to the session it was handed out for while the
\* application or a callback has it, though NSession_destroy frees addresses
\* and saveSession enters others under them.
THEOREM HandlesStayValid == Spec => []HandlesAreValid
<1>1. Inv => HandlesAreValid
  BY ImpliesHandlesAreValid, NClientWrapperAssumption
<1> QED BY <1>1, AlwaysInv, PTL

\* g_sessions keeps no session that nobody has, but for those that answered an
\* authentication without success callback, which nothing ever removes.
THEOREM TableHoldsTheHeld == Spec => []SessionsAreHeld
<1>1. Inv => SessionsAreHeld
  BY DEF Inv
<1> QED BY <1>1, AlwaysInv, PTL

=============================================================================
