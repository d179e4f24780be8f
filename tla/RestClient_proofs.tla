-------------------------- MODULE RestClient_proofs --------------------------
(***************************************************************************)
(* What holds of RestClient and its transport for any number of requests,  *)
(* calls nested in one another and exceptions: its type, that onResponse   *)
(* finds the context of every response, that no request is lost, that a    *)
(* continuation never reaches a deleted client, and that the client keeps  *)
(* RequestPromise.                                                         *)
(***************************************************************************)
EXTENDS RestClient, SequenceLemmas, TLAPS

\* The calls that hold the mutex while they call back.
Holders == {"disconnect", "destroy"}

\* The callback of r is in progress.
Told(r) == \E i \in DOMAIN stack : stack[i] = Frame("callback", r)

\* ... and it is cancelAllRequests that runs it.
Cancelling(r) ==
  \E i \in DOMAIN stack :
    i > 1 /\ stack[i - 1].op \in Holders /\ stack[i] = Frame("callback", r)

-----------------------------------------------------------------------------
(* The inductive invariant.  That the application is told of a request     *)
(* once takes that it is in one of the transport's lists only, and there   *)
(* once; the exception is the request that is being cancelled, which is    *)
(* pending until its callback returns.  This is safe as cancelAllRequests  *)
(* has the mutex: nothing but its callback runs above it (StackOK), and    *)
(* the request it cancels stays the first of the list.                     *)

StackOK ==
  \A i \in DOMAIN stack :
    /\ stack[i].op \in Holders =>
         /\ i + 1 >= Len(stack)
         /\ i < Len(stack) => pending # <<>> /\ pending[1] = stack[i + 1].req
    /\ stack[i].op = "destroy" => i = 1
    /\ stack[i].op = "callback" =>
         /\ stack[i].req \in reqContexts
         /\ outcome[stack[i].req] \in {"ok", "error"}
         /\ ~IsFinished(stack[i].req)
         /\ IsPending(stack[i].req) => stack[i - 1].op \in Holders
         /\ \A j \in DOMAIN stack :
              j # i /\ stack[j].op = "callback" => stack[j].req # stack[i].req

PendingOK ==
  \A i \in DOMAIN pending :
    /\ pending[i] \in reqContexts /\ pending[i] \notin replied
    /\ outcome[pending[i]] = "pending" \/ Cancelling(pending[i])
    /\ \A j \in DOMAIN pending : j # i => pending[j] # pending[i]

FinishedOK ==
  \A i \in DOMAIN finished :
    /\ finished[i].req \in reqContexts /\ outcome[finished[i].req] = "pending"
    /\ finished[i].ok = (finished[i].req \in replied)
    /\ ~IsPending(finished[i].req)
    /\ \A j \in DOMAIN finished : j # i => finished[j].req # finished[i].req

RequestsOK ==
  \A r \in Requests :
    /\ outcome[r] # "twice"
    /\ outcome[r] = "new" <=> r > issued
    /\ outcome[r] = "new" => r \notin replied /\ r \notin reqContexts
    /\ outcome[r] = "pending" /\ ~freed => IsPending(r) \/ IsFinished(r)
    /\ r \in reqContexts => throws > 0 \/ outcome[r] = "pending" \/ Told(r)

LifeOK ==
  /\ alive = ~freed /\ ~touched
  /\ freed => stack = <<>> /\ pending = <<>> /\ finished = <<>>

Inv ==
  TypeOK /\ StackOK /\ PendingOK /\ FinishedOK /\ RequestsOK /\ LifeOK

-----------------------------------------------------------------------------
(* What the lists and the stack hold.                                      *)

LEMMA Elements ==
  ASSUME TypeOK
  PROVE  /\ \A i \in DOMAIN pending : pending[i] \in Requests
         /\ \A i \in DOMAIN finished : finished[i].req \in Requests /\ finished[i].ok \in BOOLEAN
         /\ DOMAIN stack = 1..Len(stack) /\ Len(stack) \in Nat
<1>1. \A i \in DOMAIN finished : finished[i] \in Response
  BY DEF TypeOK
<1>2. DOMAIN stack = 1..Len(stack) /\ Len(stack) \in Nat
  BY DEF TypeOK
<1>3. \A i \in DOMAIN pending : pending[i] \in Requests
  BY DEF TypeOK
<1> QED BY <1>1, <1>2, <1>3 DEF Response

\* A callback runs in the loop of the call below it.
LEMMA CallbackFrames ==
  ASSUME TypeOK, NEW i \in DOMAIN stack
  PROVE  /\ stack[i].op = "callback" =>
              /\ stack[i].req \in Requests /\ stack[i] = Frame("callback", stack[i].req)
              /\ i > 1 /\ i - 1 \in DOMAIN stack /\ i % 2 = 0
              /\ stack[i - 1].op # "callback"
         /\ stack[i].op # "callback" => i % 2 = 1
         /\ \A op : stack[i] = Frame("callback", op) =>
              stack[i].op = "callback" /\ stack[i].req = op
<1>1. DOMAIN stack = 1..Len(stack) /\ Len(stack) \in Nat /\ i \in Nat /\ i >= 1
  BY Elements
<1>2. stack[i] \in FrameType
  BY DEF TypeOK
<1>3. i % 2 = 1 \/ i % 2 = 0
  BY <1>1, Parity
<1>4. ASSUME stack[i].op = "callback"
      PROVE  /\ stack[i].req \in Requests /\ i % 2 = 0 /\ i > 1 /\ i - 1 \in DOMAIN stack
             /\ stack[i - 1].op # "callback"
  <2>1. stack[i].req \in Requests /\ i % 2 = 0
    BY <1>1, <1>3, <1>4 DEF TypeOK
  <2>2. i > 1 /\ i - 1 \in DOMAIN stack /\ (i - 1) % 2 = 1
    BY <1>1, <2>1
  <2> QED BY <2>1, <2>2 DEF TypeOK
<1>5. stack[i].op # "callback" => i % 2 = 1
  BY <1>3 DEF TypeOK
<1>6. stack[i].op = "callback" => stack[i] = Frame("callback", stack[i].req)
  BY <1>2 DEF FrameType, Frame
<1> QED BY <1>4, <1>5, <1>6 DEF Frame

LEMMA InPending ==
  \A r : IsPending(r) <=> \E i \in DOMAIN pending : pending[i] = r
BY DEF IsPending, Range

\* The innermost call is the last frame of the stack.
LEMMA Innermost ==
  ASSUME Inv, NEW op, Running(op)
  PROVE  /\ ~freed /\ stack # <<>> /\ Len(stack) \in Nat /\ Len(stack) >= 1
         /\ DOMAIN stack = 1..Len(stack) /\ stack[Len(stack)].op = op
BY DEF Inv, TypeOK, LifeOK, Running, Last

\* Only the callback of a call that holds the mutex can run above it.
LEMMA HolderIsNearTop ==
  ASSUME Inv, NEW op, Running(op)
  PROVE  /\ op # "callback" =>
              /\ Len(stack) % 2 = 1 /\ \A r : ~Cancelling(r)
              /\ \A i \in DOMAIN stack : i # Len(stack) => stack[i].op \notin Holders
         /\ op = "callback" =>
              /\ Len(stack) % 2 = 0 /\ Len(stack) > 1 /\ Len(stack) - 1 \in DOMAIN stack
              /\ \A i \in DOMAIN stack : i # Len(stack) - 1 => stack[i].op \notin Holders
              /\ \A r : Cancelling(r) <=> /\ stack[Len(stack)].req = r
                                          /\ stack[Len(stack) - 1].op \in Holders
         /\ MutexHeld <=> \E i \in DOMAIN stack : stack[i].op \in Holders
<1> DEFINE n == Len(stack)
<1>1. TypeOK /\ n \in Nat /\ n >= 1 /\ DOMAIN stack = 1..n /\ stack[n].op = op /\ n \in DOMAIN stack
  BY Innermost DEF Inv
<1>2. \A i \in DOMAIN stack : stack[i].op \in Holders => i + 1 >= n /\ stack[i].op # "callback"
  BY DEF Inv, StackOK, Holders
<1>3. \A r : Cancelling(r) => \E i \in DOMAIN stack :
        i > 1 /\ i - 1 \in DOMAIN stack /\ stack[i - 1].op \in Holders
        /\ stack[i].op = "callback" /\ stack[i].req = r
  BY <1>1, CallbackFrames DEF Cancelling
<1> HIDE DEF n
<1>4. ASSUME op # "callback"
      PROVE  /\ n % 2 = 1 /\ \A r : ~Cancelling(r)
             /\ \A i \in DOMAIN stack : i # n => stack[i].op \notin Holders
  <2>1. n % 2 = 1
    BY <1>1, <1>4, CallbackFrames
  <2>2. ASSUME NEW i \in DOMAIN stack, i # n, stack[i].op \in Holders
        PROVE  FALSE
    <3>1. i + 1 = n /\ i \in Nat
      BY <1>1, <1>2, <2>2
    <3>2. i % 2 = 1
      BY <1>1, <1>2, <2>2, CallbackFrames
    <3> QED BY <2>1, <3>1, <3>2, Parity
  <2>3. ASSUME NEW r, Cancelling(r)  PROVE FALSE
    BY <1>1, <1>2, <1>3, <1>4, <2>3
  <2> QED BY <2>1, <2>2, <2>3
<1>5. ASSUME op = "callback"
      PROVE  /\ n % 2 = 0 /\ n > 1 /\ n - 1 \in DOMAIN stack
             /\ \A i \in DOMAIN stack : i # n - 1 => stack[i].op \notin Holders
             /\ \A r : Cancelling(r) <=> stack[n].req = r /\ stack[n - 1].op \in Holders
  <2>1. n % 2 = 0 /\ n > 1 /\ n - 1 \in DOMAIN stack /\ stack[n] = Frame("callback", stack[n].req)
    BY <1>1, <1>5, CallbackFrames
  <2>2. \A i \in DOMAIN stack : i # n - 1 => stack[i].op \notin Holders
    BY <1>1, <1>2, <1>5
  <2>3. ASSUME NEW r, Cancelling(r)
        PROVE  stack[n].req = r /\ stack[n - 1].op \in Holders
    <3>1. PICK i \in DOMAIN stack :
            i > 1 /\ i - 1 \in DOMAIN stack /\ stack[i - 1].op \in Holders /\ stack[i].req = r
      BY <1>3, <2>3
    <3>2. i - 1 = n - 1
      BY <2>2, <3>1
    <3> QED BY <1>1, <3>1, <3>2
  <2> QED BY <1>1, <2>1, <2>2, <2>3 DEF Cancelling
<1> QED BY <1>4, <1>5 DEF n, MutexHeld, Holders

\* The application's code runs, and no call in progress holds the mutex.
LEMMA Caller ==
  ASSUME RestClientAssumption, Inv, NEW a, MayCall(a), ~MutexHeld \/ a = "destroy"
  PROVE  /\ ~freed /\ ~MutexHeld /\ Len(stack) % 2 = 0
         /\ a = "destroy" => stack = <<>>
         /\ \A r : ~Cancelling(r)
         /\ \A i \in DOMAIN stack : stack[i].op \notin Holders
<1>1. CASE stack = <<>>
  BY <1>1 DEF MayCall, MutexHeld, Cancelling
<1>2. CASE stack # <<>>
  <2>1. Running("callback") /\ a # "destroy" /\ ~MutexHeld
    BY <1>2 DEF MayCall, RestClientAssumption
  <2>2. /\ Len(stack) % 2 = 0 /\ \A i \in DOMAIN stack : stack[i].op \notin Holders
        /\ \A r : ~Cancelling(r)
    BY <2>1, HolderIsNearTop
  <2> QED BY <2>1, <2>2 DEF MayCall
<1> QED BY <1>1, <1>2

-----------------------------------------------------------------------------
(* One lemma per action.                                                   *)

\* tick(), disconnect() and the destructor are called.
LEMMA CallInv ==
  ASSUME MaxRequestsAssumption, Inv, NEW op \in {"tick", "disconnect", "destroy"}, Push(op, 0), ~freed, ~MutexHeld,
         Len(stack) % 2 = 0, \A r : ~Cancelling(r),
         \A i \in DOMAIN stack : stack[i].op \notin Holders,
         op = "destroy" => stack = <<>>,
         UNCHANGED <<transport, client, blocked, throws, replied>>
  PROVE  Inv'
<1> DEFINE f == Frame(op, 0)
           n == Len(stack)
<1>1. f \in FrameType /\ f.op = op /\ op # "callback"
  BY DEF MaxRequestsAssumption, FrameType, Frame
<1>2. UNCHANGED <<pending, finished, alive, running, freed, touched, reqContexts, issued,
                  outcome, blocked, throws, replied>>
  BY DEF transport, client
<1> HIDE DEF f
<1>4. /\ stack' \in Seq(FrameType) /\ n \in Nat /\ Len(stack') = n + 1
      /\ DOMAIN stack = 1..n /\ DOMAIN stack' = 1..(n + 1)
      /\ \A i \in DOMAIN stack : i \in DOMAIN stack' /\ i # n + 1 /\ stack'[i] = stack[i]
      /\ \A i \in DOMAIN stack' : i = n + 1 \/ i \in DOMAIN stack
      /\ stack'[n + 1] = f
  <2>1. stack \in Seq(FrameType) /\ stack' = Append(stack, f)
    BY DEF Inv, TypeOK, Push, f
  <2> QED BY <1>1, <2>1, Appended
<1>5. TypeOK'
  <2>1. (n + 1) % 2 = 1
    BY <1>4, Parity
  <2>2. ASSUME NEW i \in DOMAIN stack'
        PROVE  IF i % 2 = 1 THEN stack'[i].op # "callback"
               ELSE stack'[i].op = "callback" /\ stack'[i].req \in Requests
    BY <1>1, <1>4, <2>1 DEF Inv, TypeOK
  <2> QED BY <1>2, <1>4, <2>2 DEF Inv, TypeOK
<1>6. \A r : IsPending(r)' = IsPending(r) /\ IsFinished(r)' = IsFinished(r)
  BY <1>2 DEF IsPending, IsFinished
<1>7. StackOK'
  <2>1. \A i \in DOMAIN stack' : stack'[i].op = "callback" => i \in DOMAIN stack
    BY <1>1, <1>4
  <2>2. \A i \in DOMAIN stack : stack[i].op = "callback" => i - 1 \in DOMAIN stack
    BY CallbackFrames DEF Inv
  <2>3. ASSUME NEW i \in DOMAIN stack'
        PROVE  /\ stack'[i].op \in Holders => i = n + 1
               /\ stack'[i].op = "destroy" => i = 1
    <3>1. stack = <<>> => n + 1 = 1
      BY <1>4
    <3> QED BY <1>1, <1>4, <3>1 DEF Holders
  <2>4. ASSUME NEW i \in DOMAIN stack', stack'[i].op = "callback"
        PROVE  /\ stack'[i].req \in reqContexts' /\ outcome'[stack'[i].req] \in {"ok", "error"}
               /\ ~IsFinished(stack[i].req)'
               /\ IsPending(stack[i].req)' => stack'[i - 1].op \in Holders
               /\ \A j \in DOMAIN stack' :
                    j # i /\ stack'[j].op = "callback" => stack'[j].req # stack'[i].req
    BY <1>2, <1>4, <1>6, <2>1, <2>2, <2>4 DEF Inv, StackOK
  <2> QED BY <1>4, <2>3, <2>4 DEF StackOK
<1>8. PendingOK' /\ FinishedOK'
  BY <1>2, <1>6 DEF Inv, PendingOK, FinishedOK
<1>9. RequestsOK'
  <2>1. \A r \in Requests : Told(r) => Told(r)'
    BY <1>4 DEF Told
  <2> QED BY <1>2, <1>6, <2>1 DEF Inv, RequestsOK
<1>10. LifeOK'
  BY <1>2 DEF Inv, LifeOK
<1> QED BY <1>5, <1>7, <1>8, <1>9, <1>10 DEF Inv

\* ... and return.
LEMMA ReturnInv ==
  ASSUME Inv, NEW op \in {"tick", "disconnect"}, Running(op), Pop,
         UNCHANGED <<transport, client, blocked, throws, replied>>
  PROVE  Inv'
<1> DEFINE n == Len(stack)
<1>1. UNCHANGED <<pending, finished, alive, running, freed, touched, reqContexts, issued,
                  outcome, blocked, throws, replied>>
  BY DEF transport, client
<1>2. /\ ~freed /\ stack # <<>> /\ stack[n].op # "callback"
      /\ \A r : ~Cancelling(r)
      /\ \A i \in DOMAIN stack : i # n => stack[i].op \notin Holders
  BY Innermost, HolderIsNearTop
<1>3. /\ stack' \in Seq(FrameType)
      /\ \A i \in DOMAIN stack' : i \in DOMAIN stack /\ i # n /\ stack'[i] = stack[i]
      /\ \A i \in DOMAIN stack : i # n => i \in DOMAIN stack'
      /\ \A i \in DOMAIN stack' : i > 1 => i - 1 \in DOMAIN stack'
  BY <1>2, Popped DEF Inv, TypeOK, Pop, Front
<1> HIDE DEF n
<1>4. TypeOK'
  BY <1>1, <1>3 DEF Inv, TypeOK
<1>5. \A r : IsPending(r)' = IsPending(r) /\ IsFinished(r)' = IsFinished(r)
  BY <1>1 DEF IsPending, IsFinished
<1>6. StackOK'
  <2>1. ASSUME NEW i \in DOMAIN stack'
        PROVE  stack'[i].op \notin Holders /\ stack'[i].op # "destroy"
    BY <1>2, <1>3 DEF Holders
  <2>2. ASSUME NEW i \in DOMAIN stack', stack'[i].op = "callback"
        PROVE  /\ stack'[i].req \in reqContexts' /\ outcome'[stack'[i].req] \in {"ok", "error"}
               /\ ~IsFinished(stack[i].req)'
               /\ IsPending(stack[i].req)' => stack'[i - 1].op \in Holders
               /\ \A j \in DOMAIN stack' :
                    j # i /\ stack'[j].op = "callback" => stack'[j].req # stack'[i].req
    <3>1. i > 1
      BY <1>3, <2>2, CallbackFrames DEF Inv
    <3> QED BY <1>1, <1>3, <1>5, <2>2, <3>1 DEF Inv, StackOK
  <2> QED BY <2>1, <2>2 DEF StackOK
<1>7. PendingOK' /\ FinishedOK'
  BY <1>1, <1>2, <1>5 DEF Inv, PendingOK, FinishedOK
<1>8. RequestsOK'
  <2>1. \A r \in Requests : Told(r) => Told(r)'
    BY <1>2, <1>3 DEF Told, Frame
  <2> QED BY <1>1, <1>5, <2>1 DEF Inv, RequestsOK
<1>9. LifeOK'
  BY <1>1, <1>2 DEF Inv, LifeOK
<1> QED BY <1>4, <1>6, <1>7, <1>8, <1>9 DEF Inv

LEMMA RequestInv ==
  ASSUME MaxRequestsAssumption, RestClientAssumption, Inv, Request
  PROVE  Inv'
<1> DEFINE r == issued + 1
<1>1. /\ ~freed /\ \A q : ~Cancelling(q)
      /\ \A i \in DOMAIN stack : stack[i].op \notin Holders
  BY Caller DEF Request
<1>2. /\ reqContexts' = reqContexts \cup {r} /\ issued' = r
      /\ outcome' = [outcome EXCEPT ![r] = "pending"]
      /\ pending' = Append(pending, r)
      /\ running' \in {running, running \cup {r}}
      /\ UNCHANGED <<finished, alive, freed, touched, stack, blocked, throws, replied>>
  BY DEF Request, StartRequest
<1>3. r \in Requests /\ r > issued /\ issued \in Nat
  BY DEF Request, MaxRequestsAssumption, Inv, TypeOK, Requests
<1>4. outcome[r] = "new" /\ r \notin replied /\ r \notin reqContexts
  BY <1>3 DEF Inv, RequestsOK
<1>5. outcome'[r] = "pending" /\ \A q \in Requests : q # r => outcome'[q] = outcome[q]
  BY <1>2, <1>3 DEF Inv, TypeOK
<1>6. issued' \in 0..MaxRequests /\ \A q \in Requests : q > issued' <=> q > issued /\ q # r
  BY <1>2, <1>3 DEF Requests, MaxRequestsAssumption
<1> HIDE DEF r
<1>7. /\ pending' \in Seq(Requests) /\ pending' # <<>>
      /\ \A i \in DOMAIN pending : i \in DOMAIN pending' /\ i # Len(pending) + 1
                                   /\ pending'[i] = pending[i]
      /\ \A i \in DOMAIN pending' : i = Len(pending) + 1 \/ i \in DOMAIN pending
      /\ pending'[Len(pending) + 1] = r /\ Len(pending) + 1 \in DOMAIN pending'
  BY <1>2, <1>3, Appended DEF Inv, TypeOK
<1>8. \A q : (IsPending(q)' <=> IsPending(q) \/ q = r) /\ IsFinished(q)' = IsFinished(q)
  BY <1>2, <1>7 DEF IsPending, Range, IsFinished
<1>9. TypeOK'
  BY <1>2, <1>3, <1>6, <1>7 DEF Inv, TypeOK
<1>10. /\ \A i \in DOMAIN pending : pending[i] # r /\ pending[i] \in Requests
       /\ \A i \in DOMAIN finished : finished[i].req # r /\ finished[i].req \in Requests
       /\ \A i \in DOMAIN stack : stack[i].op = "callback" =>
            stack[i].req # r /\ stack[i].req \in Requests
  BY <1>4, Elements, CallbackFrames DEF Inv, PendingOK, FinishedOK, StackOK
<1>11. StackOK'
  BY <1>1, <1>2, <1>5, <1>8, <1>10 DEF Inv, StackOK, Holders
<1>12. PendingOK'
  <2>1. ASSUME NEW i \in DOMAIN pending'
        PROVE  /\ pending'[i] \in reqContexts' /\ pending'[i] \notin replied'
               /\ outcome'[pending'[i]] = "pending"
               /\ \A j \in DOMAIN pending' : j # i => pending'[j] # pending'[i]
    BY <1>1, <1>2, <1>4, <1>5, <1>7, <1>10 DEF Inv, PendingOK
  <2> QED BY <2>1 DEF PendingOK
<1>13. FinishedOK'
  BY <1>2, <1>5, <1>8, <1>10 DEF Inv, FinishedOK
<1>14. RequestsOK'
  <2>1. \A q : Told(q)' = Told(q)
    BY <1>2 DEF Told
  <2> QED BY <1>2, <1>4, <1>5, <1>6, <1>8, <2>1 DEF Inv, RequestsOK
<1>15. LifeOK'
  BY <1>1, <1>2 DEF Inv, LifeOK
<1> QED BY <1>9, <1>11, <1>12, <1>13, <1>14, <1>15 DEF Inv

\* A callback begins: the frames below it are as they were.
LEMMA CallbackBegins ==
  ASSUME MaxRequestsAssumption, TypeOK, NEW r \in Requests, Push("callback", r),
         Len(stack) % 2 = 1
  PROVE  /\ stack' \in Seq(FrameType) /\ Len(stack) \in Nat /\ Len(stack') = Len(stack) + 1
         /\ DOMAIN stack = 1..Len(stack) /\ DOMAIN stack' = 1..(Len(stack) + 1)
         /\ \A i \in DOMAIN stack : i \in DOMAIN stack' /\ i # Len(stack) + 1 /\ stack'[i] = stack[i]
         /\ \A i \in DOMAIN stack' : i = Len(stack) + 1 \/ i \in DOMAIN stack
         /\ stack'[Len(stack) + 1] = Frame("callback", r)
         /\ stack'[Len(stack) + 1].op = "callback" /\ stack'[Len(stack) + 1].req = r
         /\ \A i \in DOMAIN stack' :
              IF i % 2 = 1 THEN stack'[i].op # "callback"
              ELSE stack'[i].op = "callback" /\ stack'[i].req \in Requests
<1> DEFINE f == Frame("callback", r)
           n == Len(stack)
<1>1. f \in FrameType /\ f.op = "callback" /\ f.req = r
  BY DEF MaxRequestsAssumption, FrameType, Frame, Requests
<1>2. stack \in Seq(FrameType) /\ stack' = Append(stack, f)
  BY DEF TypeOK, Push
<1> HIDE DEF f
<1>3. /\ stack' \in Seq(FrameType) /\ n \in Nat /\ Len(stack') = n + 1
      /\ DOMAIN stack = 1..n /\ DOMAIN stack' = 1..(n + 1)
      /\ \A i \in DOMAIN stack : i \in DOMAIN stack' /\ i # n + 1 /\ stack'[i] = stack[i]
      /\ \A i \in DOMAIN stack' : i = n + 1 \/ i \in DOMAIN stack
      /\ stack'[n + 1] = f
  BY <1>1, <1>2, Appended
<1>4. (n + 1) % 2 # 1
  BY <1>3, Parity
<1> HIDE DEF n
<1>5. ASSUME NEW i \in DOMAIN stack'
      PROVE  IF i % 2 = 1 THEN stack'[i].op # "callback"
             ELSE stack'[i].op = "callback" /\ stack'[i].req \in Requests
  BY <1>1, <1>3, <1>4 DEF TypeOK
<1> QED BY <1>1, <1>3, <1>5 DEF n, f

\* The application is told of a request that was not told of.
LEMMA ToldOnce ==
  ASSUME Inv, NEW r \in Requests, NEW ok \in BOOLEAN, OnResponse(r, ok),
         r \in reqContexts, outcome[r] = "pending"
  PROVE  /\ outcome' = [outcome EXCEPT ![r] = IF ok THEN "ok" ELSE "error"]
         /\ outcome' \in [Requests -> {"new", "pending", "ok", "error", "twice"}]
         /\ outcome'[r] \in {"ok", "error"}
         /\ \A q \in Requests : q # r => outcome'[q] = outcome[q]
         /\ reqContexts' = reqContexts /\ Push("callback", r)
BY DEF Inv, TypeOK, OnResponse, Tell

LEMMA TickPopsInv ==
  ASSUME MaxRequestsAssumption, Inv, TickPops
  PROVE  Inv'
<1> DEFINE e == finished[1]
           r == e.req
           n == Len(stack)
<1>1. /\ Running("tick") /\ finished # <<>> /\ finished' = Tail(finished)
      /\ OnResponse(r, e.ok)
      /\ UNCHANGED <<pending, alive, running, freed, touched, issued, blocked, throws, replied>>
  BY DEF TickPops, PopFinished
<1>2. /\ ~freed /\ n % 2 = 1 /\ \A q : ~Cancelling(q)
      /\ \A i \in DOMAIN stack : stack[i].op \notin Holders
  BY <1>1, Innermost, HolderIsNearTop DEF Holders
<1>3. /\ finished' \in Seq(Response) /\ 1 \in DOMAIN finished /\ DOMAIN finished' \subseteq Nat
      /\ \A i \in DOMAIN finished' : i + 1 \in DOMAIN finished /\ i + 1 # 1
                                     /\ finished'[i] = finished[i + 1]
      /\ \A i \in DOMAIN finished : i # 1 => i - 1 \in DOMAIN finished'
                                             /\ finished'[i - 1] = finished[i]
  <2>1. finished \in Seq(Response)
    BY DEF Inv, TypeOK
  <2> QED BY <1>1, <2>1, Shifted
<1>4. /\ r \in Requests /\ e.ok \in BOOLEAN /\ r \in reqContexts /\ outcome[r] = "pending"
      /\ ~IsPending(r) /\ e.ok = (r \in replied) /\ IsFinished(r)
      /\ \A i \in DOMAIN finished : i # 1 => finished[i].req # r
  BY <1>3, Elements DEF Inv, FinishedOK, IsFinished
<1>5. /\ outcome' \in [Requests -> {"new", "pending", "ok", "error", "twice"}]
      /\ outcome'[r] \in {"ok", "error"}
      /\ \A q \in Requests : q # r => outcome'[q] = outcome[q]
      /\ reqContexts' = reqContexts /\ Push("callback", r)
  <2>1. /\ r \in Requests /\ e.ok \in BOOLEAN /\ OnResponse(r, e.ok)
        /\ r \in reqContexts /\ outcome[r] = "pending"
    BY <1>1, <1>4
  <2> HIDE DEF e, r
  <2> QED BY <2>1, ToldOnce
<1>6. /\ \A q : IsPending(q)' = IsPending(q)
      /\ \A q : IsFinished(q)' <=> IsFinished(q) /\ q # r
  <2> HIDE DEF e, r
  <2>1. \A i \in DOMAIN finished' : finished'[i].req # r
    BY <1>3, <1>4
  <2>2. ASSUME NEW q, IsFinished(q), q # r  PROVE IsFinished(q)'
    <3>1. PICK i \in DOMAIN finished : finished[i].req = q
      BY <2>2 DEF IsFinished
    <3>2. i # 1
      BY <2>2, <3>1 DEF e, r
    <3> QED BY <1>3, <3>1, <3>2 DEF IsFinished
  <2>3. ASSUME NEW q, IsFinished(q)'  PROVE IsFinished(q) /\ q # r
    BY <1>3, <2>1, <2>3 DEF IsFinished
  <2>4. \A q : IsPending(q)' = IsPending(q)
    BY <1>1 DEF IsPending
  <2> QED BY <2>2, <2>3, <2>4
<1> HIDE DEF e, r
<1>7. /\ stack' \in Seq(FrameType) /\ n \in Nat /\ Len(stack') = n + 1
      /\ DOMAIN stack = 1..n /\ DOMAIN stack' = 1..(n + 1)
      /\ \A i \in DOMAIN stack : i \in DOMAIN stack' /\ i # n + 1 /\ stack'[i] = stack[i]
      /\ \A i \in DOMAIN stack' : i = n + 1 \/ i \in DOMAIN stack
      /\ stack'[n + 1] = Frame("callback", r)
      /\ stack'[n + 1].op = "callback" /\ stack'[n + 1].req = r
      /\ \A i \in DOMAIN stack' :
           IF i % 2 = 1 THEN stack'[i].op # "callback"
           ELSE stack'[i].op = "callback" /\ stack'[i].req \in Requests
  BY <1>2, <1>4, <1>5, CallbackBegins DEF Inv
<1> HIDE DEF n
<1>8. TypeOK'
  BY <1>1, <1>3, <1>5, <1>7 DEF Inv, TypeOK
<1>9. \A i \in DOMAIN stack : stack[i].op = "callback" =>
        stack[i].req # r /\ stack[i].req \in Requests /\ i - 1 \in DOMAIN stack
  BY <1>4, CallbackFrames DEF Inv, StackOK
<1>10. StackOK'
  <2>1. ASSUME NEW i \in DOMAIN stack'
        PROVE  stack'[i].op \notin Holders
    BY <1>2, <1>7 DEF Holders
  <2>2. ASSUME NEW i \in DOMAIN stack', stack'[i].op = "callback"
        PROVE  /\ stack'[i].req \in reqContexts' /\ outcome'[stack'[i].req] \in {"ok", "error"}
               /\ ~IsFinished(stack[i].req)'
               /\ ~IsPending(stack[i].req)'
    <3>1. CASE i = n + 1
      BY <1>4, <1>5, <1>6, <1>7, <3>1
    <3>2. CASE i \in DOMAIN stack
      BY <1>2, <1>5, <1>6, <1>7, <1>9, <2>2, <3>2 DEF Inv, StackOK
    <3> QED BY <1>7, <3>1, <3>2
  <2>3. ASSUME NEW i \in DOMAIN stack', stack'[i].op = "callback",
               NEW j \in DOMAIN stack', stack'[j].op = "callback", j # i
        PROVE  stack'[j].req # stack'[i].req
    <3>1. CASE i = n + 1 \/ j = n + 1
      BY <1>7, <1>9, <2>3, <3>1
    <3>2. CASE i \in DOMAIN stack /\ j \in DOMAIN stack
      BY <1>7, <2>3, <3>2 DEF Inv, StackOK
    <3> QED BY <1>7, <3>1, <3>2
  <2> QED BY <2>1, <2>2, <2>3 DEF StackOK, Holders
<1>11. PendingOK'
  <2>1. \A i \in DOMAIN pending : pending[i] \in Requests /\ pending[i] # r
    BY <1>4, Elements, InPending DEF Inv
  <2> QED BY <1>1, <1>2, <1>5, <2>1 DEF Inv, PendingOK
<1>12. FinishedOK'
  <2>1. ASSUME NEW i \in DOMAIN finished'
        PROVE  /\ finished'[i].req \in reqContexts' /\ outcome'[finished'[i].req] = "pending"
               /\ finished'[i].ok = (finished'[i].req \in replied')
               /\ ~IsPending(finished[i].req)'
    BY <1>1, <1>3, <1>4, <1>5, <1>6, Elements DEF Inv, FinishedOK
  <2>2. ASSUME NEW i \in DOMAIN finished', NEW j \in DOMAIN finished', j # i
        PROVE  finished'[j].req # finished'[i].req
    <3>1. i + 1 # j + 1 /\ i + 1 \in DOMAIN finished /\ j + 1 \in DOMAIN finished
      BY <1>3, <2>2
    <3> QED BY <1>3, <3>1 DEF Inv, FinishedOK
  <2> QED BY <2>1, <2>2 DEF FinishedOK
<1>13. RequestsOK'
  <2>1. \A q \in Requests : Told(q) \/ q = r => Told(q)'
    BY <1>7 DEF Told
  <2> QED BY <1>1, <1>4, <1>5, <1>6, <2>1 DEF Inv, RequestsOK
<1>14. LifeOK'
  BY <1>1, <1>2 DEF Inv, LifeOK
<1> QED BY <1>8, <1>10, <1>11, <1>12, <1>13, <1>14 DEF Inv

LEMMA CancelNextInv ==
  ASSUME MaxRequestsAssumption, Inv, CancelNext
  PROVE  Inv'
<1> DEFINE r == pending[1]
           n == Len(stack)
<1>1. /\ Running("disconnect") \/ Running("destroy")
      /\ pending # <<>> /\ OnResponse(r, FALSE)
      /\ UNCHANGED <<pending, finished, alive, running, freed, touched, issued, blocked,
                     throws, replied>>
  BY DEF CancelNext, transport
<1>2. /\ ~freed /\ n % 2 = 1 /\ \A q : ~Cancelling(q)
      /\ \A i \in DOMAIN stack : i # n => stack[i].op \notin Holders
      /\ n \in DOMAIN stack /\ stack[n].op \in Holders
  BY <1>1, Innermost, HolderIsNearTop DEF Holders
<1>3. /\ r \in Requests /\ r \in reqContexts /\ outcome[r] = "pending" /\ r \notin replied
      /\ IsPending(r)
  <2>1. 1 \in DOMAIN pending
    BY <1>1, Shifted DEF Inv, TypeOK
  <2> QED BY <1>2, <2>1, Elements, InPending DEF Inv, PendingOK
<1>4. /\ outcome' \in [Requests -> {"new", "pending", "ok", "error", "twice"}]
      /\ outcome'[r] \in {"ok", "error"}
      /\ \A q \in Requests : q # r => outcome'[q] = outcome[q]
      /\ reqContexts' = reqContexts /\ Push("callback", r)
  BY <1>1, <1>3, ToldOnce
<1>5. \A q : IsPending(q)' = IsPending(q) /\ IsFinished(q)' = IsFinished(q)
  BY <1>1 DEF IsPending, IsFinished
<1>6. /\ stack' \in Seq(FrameType) /\ n \in Nat /\ Len(stack') = n + 1
      /\ DOMAIN stack = 1..n /\ DOMAIN stack' = 1..(n + 1)
      /\ \A i \in DOMAIN stack : i \in DOMAIN stack' /\ i # n + 1 /\ stack'[i] = stack[i]
      /\ \A i \in DOMAIN stack' : i = n + 1 \/ i \in DOMAIN stack
      /\ stack'[n + 1] = Frame("callback", r)
      /\ stack'[n + 1].op = "callback" /\ stack'[n + 1].req = r
      /\ \A i \in DOMAIN stack' :
           IF i % 2 = 1 THEN stack'[i].op # "callback"
           ELSE stack'[i].op = "callback" /\ stack'[i].req \in Requests
  BY <1>2, <1>3, <1>4, CallbackBegins DEF Inv
<1>7. n + 1 > 1 /\ (n + 1) - 1 = n /\ n + 1 \in DOMAIN stack'
  BY <1>2, <1>6
<1> HIDE DEF r, n
<1>8. TypeOK'
  BY <1>1, <1>4, <1>6 DEF Inv, TypeOK
<1>9. \A i \in DOMAIN stack : stack[i].op = "callback" =>
        stack[i].req # r /\ stack[i].req \in Requests /\ i - 1 \in DOMAIN stack
  BY <1>3, CallbackFrames DEF Inv, StackOK
<1>10. \A i \in DOMAIN finished : finished[i].req # r /\ finished[i].req \in Requests
  BY <1>3, Elements DEF Inv, FinishedOK
<1>11. ~IsFinished(r)
  BY <1>10 DEF IsFinished
<1>12. StackOK'
  <2>1. ASSUME NEW i \in DOMAIN stack', stack'[i].op \in Holders
        PROVE  /\ i + 1 >= Len(stack') /\ pending' # <<>> /\ pending'[1] = stack'[i + 1].req
               /\ i = 1 \/ stack'[i].op # "destroy"
    <3>1. i = n
      BY <1>2, <1>6, <2>1 DEF Holders
    <3>2. stack'[n].op = "destroy" => n = 1
      BY <1>2, <1>6 DEF Inv, StackOK
    <3> QED BY <1>1, <1>6, <3>1, <3>2 DEF r
  <2>2. ASSUME NEW i \in DOMAIN stack', stack'[i].op = "callback"
        PROVE  /\ stack'[i].req \in reqContexts' /\ outcome'[stack'[i].req] \in {"ok", "error"}
               /\ ~IsFinished(stack[i].req)'
               /\ IsPending(stack[i].req)' => stack'[i - 1].op \in Holders
    <3>1. CASE i = n + 1
      BY <1>2, <1>3, <1>4, <1>5, <1>6, <1>7, <1>11, <3>1
    <3>2. CASE i \in DOMAIN stack
      BY <1>2, <1>4, <1>5, <1>6, <1>9, <2>2, <3>2 DEF Inv, StackOK
    <3> QED BY <1>6, <3>1, <3>2
  <2>3. ASSUME NEW i \in DOMAIN stack', stack'[i].op = "callback",
               NEW j \in DOMAIN stack', stack'[j].op = "callback", j # i
        PROVE  stack'[j].req # stack'[i].req
    <3>1. CASE i = n + 1 \/ j = n + 1
      BY <1>6, <1>9, <2>3, <3>1
    <3>2. CASE i \in DOMAIN stack /\ j \in DOMAIN stack
      BY <1>6, <2>3, <3>2 DEF Inv, StackOK
    <3> QED BY <1>6, <3>1, <3>2
  <2> QED BY <2>1, <2>2, <2>3 DEF StackOK, Holders
<1>13. PendingOK'
  <2>1. \A q : q = r => Cancelling(q)'
    <3>1. stack'[(n + 1) - 1].op \in Holders
      BY <1>2, <1>6, <1>7
    <3> QED BY <1>6, <1>7, <3>1, Zenon DEF Cancelling
  <2>2. \A i \in DOMAIN pending : pending[i] # r => outcome'[pending[i]] = "pending"
    BY <1>2, <1>4, Elements DEF Inv, PendingOK
  <2>3. \A i \in DOMAIN pending' : outcome'[pending'[i]] = "pending" \/ Cancelling(pending[i])'
    <3>1. ASSUME NEW i \in DOMAIN pending', NEW q, q = pending[i]
          PROVE  outcome'[q] = "pending" \/ Cancelling(q)'
      BY <1>1, <2>1, <2>2, <3>1
    <3> QED BY <1>1, <3>1 DEF Cancelling
  <2> QED BY <1>1, <1>4, <2>3 DEF Inv, PendingOK
<1>14. FinishedOK'
  BY <1>1, <1>4, <1>5, <1>10 DEF Inv, FinishedOK
<1>15. RequestsOK'
  <2>1. \A q \in Requests : Told(q) \/ q = r => Told(q)'
    BY <1>6, <1>7 DEF Told
  <2>2. ~(r > issued)
    BY <1>3 DEF Inv, RequestsOK
  <2> QED BY <1>1, <1>3, <1>4, <1>5, <2>1, <2>2 DEF Inv, RequestsOK
<1>16. LifeOK'
  BY <1>1, <1>2 DEF Inv, LifeOK
<1> QED BY <1>8, <1>12, <1>13, <1>14, <1>15, <1>16 DEF Inv

LEMMA DestroyReturnsInv ==
  ASSUME MaxRequestsAssumption, Inv, DestroyReturns
  PROVE  Inv'
<1>1. /\ Running("destroy") /\ Pop /\ reqContexts' = {}
      /\ alive' = FALSE /\ freed' = TRUE /\ pending' = <<>> /\ finished' = <<>>
      /\ UNCHANGED <<running, touched, issued, outcome, blocked, throws, replied>>
  BY DEF DestroyReturns, FreeTransport
<1>2. stack' = <<>>
  <2>1. Len(stack) = 1 /\ stack # <<>>
    <3>1. /\ stack # <<>> /\ Len(stack) \in DOMAIN stack
          /\ stack[Len(stack)].op = "destroy"
      BY <1>1, Innermost
    <3> QED BY <3>1 DEF Inv, StackOK
  <2>2. stack' \in Seq(FrameType) /\ Len(stack') = 0
    BY <1>1, <2>1, Popped DEF Inv, TypeOK, Pop, Front
  <2> QED BY <2>2
<1>3. TypeOK'
  <2>1. /\ stack' \in Seq(FrameType) /\ DOMAIN stack' = {}
        /\ pending' \in Seq(Requests) /\ finished' \in Seq(Response)
    BY <1>1, <1>2
  <2> QED BY <1>1, <2>1 DEF Inv, TypeOK
<1>4. StackOK' /\ PendingOK' /\ FinishedOK'
  BY <1>1, <1>2 DEF StackOK, PendingOK, FinishedOK
<1>5. RequestsOK'
  BY <1>1 DEF Inv, RequestsOK
<1>6. LifeOK'
  BY <1>1, <1>2 DEF Inv, LifeOK
<1> QED BY <1>3, <1>4, <1>5, <1>6 DEF Inv

LEMMA CallbackReturnsInv ==
  ASSUME Inv, CallbackReturns
  PROVE  Inv'
<1> DEFINE n == Len(stack)
           r == stack[n].req
<1>1. /\ Running("callback") /\ Pop /\ reqContexts' = reqContexts \ {r}
      /\ pending' = IF MutexHeld THEN Tail(pending) ELSE pending
      /\ UNCHANGED <<finished, alive, running, freed, touched, issued, outcome, blocked,
                     throws, replied>>
  BY DEF CallbackReturns, Last
<1>2. /\ ~freed /\ stack # <<>> /\ n \in Nat /\ n \in DOMAIN stack /\ n - 1 \in DOMAIN stack
      /\ (n - 1) + 1 = n /\ n - 1 < n /\ stack[n].op = "callback"
      /\ \A i \in DOMAIN stack : i # n - 1 => stack[i].op \notin Holders
      /\ \A q : Cancelling(q) => q = r
      /\ MutexHeld <=> stack[n - 1].op \in Holders
  BY <1>1, Innermost, HolderIsNearTop
<1>3. /\ stack' \in Seq(FrameType) /\ Len(stack') = n - 1
      /\ \A i \in DOMAIN stack' : i \in DOMAIN stack /\ i # n /\ stack'[i] = stack[i] /\ i < n
      /\ \A i \in DOMAIN stack : i # n => i \in DOMAIN stack'
      /\ \A i \in DOMAIN stack' : i > 1 => i - 1 \in DOMAIN stack'
  <2>1. stack \in Seq(FrameType) /\ stack' = SubSeq(stack, 1, Len(stack) - 1)
    BY <1>1 DEF Inv, TypeOK, Pop, Front
  <2> HIDE DEF r
  <2> QED BY <1>2, <2>1, Popped
<1>4. /\ r \in Requests /\ stack[n] = Frame("callback", r)
      /\ outcome[r] \in {"ok", "error"} /\ ~IsFinished(r)
      /\ IsPending(r) => MutexHeld
      /\ \A i \in DOMAIN stack : i # n /\ stack[i].op = "callback" => stack[i].req # r
  BY <1>2, CallbackFrames DEF Inv, StackOK
<1>5. /\ pending' \in Seq(Requests)
      /\ \A q : IsPending(q)' <=> IsPending(q) /\ q # r
      /\ Distinct(pending')
  <2>1. pending \in Seq(Requests) /\ Distinct(pending)
    BY DEF Inv, TypeOK, PendingOK, Distinct
  <2>2. CASE MutexHeld
    <3>1. pending # <<>> /\ pending[1] = r
      BY <1>2, <2>2 DEF Inv, StackOK
    <3>2. pending' = Tail(pending)
      BY <1>1, <2>2
    <3>3. /\ pending' \in Seq(Requests) /\ Distinct(pending') /\ 1 \in DOMAIN pending
          /\ \A i \in DOMAIN pending' : i + 1 \in DOMAIN pending /\ i + 1 # 1
                                        /\ pending'[i] = pending[i + 1]
          /\ \A i \in DOMAIN pending : i # 1 => i - 1 \in DOMAIN pending'
                                                /\ pending'[i - 1] = pending[i]
      <4> HIDE DEF r
      <4>1. pending # <<>>
        BY <3>1
      <4>2. pending' \in Seq(Requests) /\ Distinct(pending') /\ 1 \in DOMAIN pending
        BY <2>1, <3>2, <4>1, Shifted
      <4>3. \A i \in DOMAIN pending' : i + 1 \in DOMAIN pending /\ i + 1 # 1
                                       /\ pending'[i] = pending[i + 1]
        BY <2>1, <3>2, <4>1, Shifted
      <4>4. \A i \in DOMAIN pending : i # 1 => i - 1 \in DOMAIN pending'
                                              /\ pending'[i - 1] = pending[i]
        BY <2>1, <3>2, <4>1, Shifted
      <4> QED BY <4>2, <4>3, <4>4
    <3> HIDE DEF r
    <3>4. ASSUME NEW q, IsPending(q)'  PROVE IsPending(q) /\ q # r
      <4>1. PICK i \in DOMAIN pending' : pending'[i] = q
        BY <3>4 DEF IsPending, Range
      <4> QED BY <2>1, <3>1, <3>3, <4>1 DEF IsPending, Range, Distinct
    <3>5. ASSUME NEW q, IsPending(q), q # r  PROVE IsPending(q)'
      <4>1. PICK i \in DOMAIN pending : pending[i] = q
        BY <3>5 DEF IsPending, Range
      <4>2. i # 1
        BY <3>1, <3>5, <4>1
      <4> QED BY <3>3, <4>1, <4>2 DEF IsPending, Range
    <3> QED BY <3>3, <3>4, <3>5
  <2>3. CASE ~MutexHeld
    BY <1>1, <1>4, <2>1, <2>3 DEF IsPending, Distinct
  <2> QED BY <2>2, <2>3
<1>6. \A q : IsFinished(q)' = IsFinished(q)
  BY <1>1 DEF IsFinished
<1> HIDE DEF r, n
<1>7. TypeOK'
  BY <1>1, <1>3, <1>5 DEF Inv, TypeOK
<1>8. StackOK'
  <2>1. ASSUME NEW i \in DOMAIN stack', stack'[i].op \in Holders
        PROVE  /\ i + 1 >= Len(stack') /\ ~(i < Len(stack'))
               /\ stack'[i].op = "destroy" => i = 1
    <3>1. i = n - 1 /\ stack'[i] = stack[i] /\ i \in DOMAIN stack
      BY <1>2, <1>3, <2>1
    <3>2. stack[i].op = "destroy" => i = 1
      BY <3>1 DEF Inv, StackOK
    <3> QED BY <1>2, <1>3, <3>1, <3>2
  <2>2. ASSUME NEW i \in DOMAIN stack', stack'[i].op = "callback"
        PROVE  /\ stack'[i].req \in reqContexts' /\ outcome'[stack'[i].req] \in {"ok", "error"}
               /\ ~IsFinished(stack[i].req)'
               /\ IsPending(stack[i].req)' => stack'[i - 1].op \in Holders
               /\ \A j \in DOMAIN stack' :
                    j # i /\ stack'[j].op = "callback" => stack'[j].req # stack'[i].req
    <3>1. i > 1
      BY <1>3, <2>2, CallbackFrames DEF Inv
    <3> QED BY <1>1, <1>3, <1>4, <1>5, <1>6, <2>2, <3>1 DEF Inv, StackOK
  <2> QED BY <2>1, <2>2 DEF StackOK, Holders
<1>9. PendingOK'
  <2>1. ASSUME NEW i \in DOMAIN pending', NEW q, q = pending'[i]
        PROVE  q \in reqContexts' /\ q \notin replied' /\ outcome'[q] = "pending"
    <3>1. IsPending(q)'
      BY <2>1 DEF IsPending, Range
    <3>2. IsPending(q) /\ q # r
      BY <1>5, <3>1
    <3> QED BY <1>1, <1>2, <3>2, InPending DEF Inv, PendingOK
  <2> QED BY <1>5, <2>1 DEF PendingOK, Distinct
<1>10. FinishedOK'
  <2>1. \A i \in DOMAIN finished : finished[i].req # r
    BY <1>4 DEF IsFinished
  <2> QED BY <1>1, <1>5, <2>1 DEF Inv, FinishedOK
<1>11. RequestsOK'
  <2>1. \A q \in Requests : Told(q) /\ q # r => Told(q)'
    BY <1>3, <1>4 DEF Told, Frame
  <2> QED BY <1>1, <1>4, <1>5, <1>6, <2>1 DEF Inv, RequestsOK
<1>12. LifeOK'
  BY <1>1, <1>2 DEF Inv, LifeOK
<1> QED BY <1>7, <1>8, <1>9, <1>10, <1>11, <1>12 DEF Inv

LEMMA CallbackThrowsInv ==
  ASSUME RestClientAssumption, Inv, CallbackThrows
  PROVE  Inv'
<1>1. /\ Running("callback") /\ throws < MaxThrows /\ stack' = <<>> /\ throws' = throws + 1
      /\ outcome' = [r \in Requests |->
           IF IsPending(r) /\ outcome[r] # "twice" THEN "pending" ELSE outcome[r]]
      /\ UNCHANGED <<pending, finished, alive, running, freed, touched, reqContexts, issued,
                     blocked, replied>>
  BY DEF CallbackThrows, transport
<1>2. ~freed
  BY <1>1, Innermost
<1>3. throws' \in 0..MaxThrows /\ throws' > 0
  BY <1>1 DEF RestClientAssumption, Inv, TypeOK
<1>4. outcome' \in [Requests -> {"new", "pending", "ok", "error", "twice"}]
  BY <1>1 DEF Inv, TypeOK
<1>5. /\ \A r : IsPending(r)' = IsPending(r) /\ IsFinished(r)' = IsFinished(r)
      /\ \A r \in Requests : /\ IsPending(r) => outcome'[r] = "pending"
                             /\ ~IsPending(r) => outcome'[r] = outcome[r]
  BY <1>1 DEF IsPending, IsFinished, Inv, RequestsOK
<1>6. TypeOK'
  BY <1>1, <1>3, <1>4 DEF Inv, TypeOK
<1>7. StackOK'
  BY <1>1 DEF StackOK
<1>8. PendingOK'
  <2>1. \A i \in DOMAIN pending : pending[i] \in Requests /\ IsPending(pending[i])
    BY Elements, InPending DEF Inv
  <2> QED BY <1>1, <1>5, <2>1 DEF Inv, PendingOK
<1>9. FinishedOK'
  BY <1>1, <1>5, Elements DEF Inv, FinishedOK
<1>10. RequestsOK'
  <2>1. \A r \in Requests : IsPending(r) => r \in reqContexts
    BY InPending DEF Inv, PendingOK
  <2> QED BY <1>1, <1>3, <1>5, <2>1 DEF Inv, RequestsOK
<1>11. LifeOK'
  BY <1>1, <1>2 DEF Inv, LifeOK
<1> QED BY <1>6, <1>7, <1>8, <1>9, <1>10, <1>11 DEF Inv

\* A task completes; it finds the request pending.
LEMMA Moved ==
  ASSUME Inv, ~MutexHeld, NEW r \in Requests, NEW ok \in BOOLEAN, NEW k \in DOMAIN pending,
         pending[k] = r, pending' = RemoveAt(pending, k),
         finished' = Append(finished, [req |-> r, ok |-> ok]),
         replied' = IF ok THEN replied \cup {r} ELSE replied, running' \subseteq Requests,
         UNCHANGED <<alive, freed, touched, reqContexts, stack, blocked, issued, throws, outcome>>
  PROVE  Inv'
<1> DEFINE e == [req |-> r, ok |-> ok]
           n == Len(finished)
<1>1. /\ \A i \in DOMAIN stack : stack[i].op \notin Holders
      /\ \A q : ~Cancelling(q)
  <2>1. \A i \in DOMAIN stack : stack[i].op \notin Holders
    BY DEF MutexHeld, Holders
  <2>2. \A i \in DOMAIN stack : stack[i].op = "callback" => i - 1 \in DOMAIN stack
    BY CallbackFrames DEF Inv
  <2>3. \A i \in DOMAIN stack : \A q : stack[i] = Frame("callback", q) => stack[i].op = "callback"
    BY DEF Frame
  <2> QED BY <2>1, <2>2, <2>3 DEF Cancelling
<1>2. /\ pending' \in Seq(Requests) /\ Distinct(pending')
      /\ \A q : IsPending(q)' <=> IsPending(q) /\ q # r
  <2>1. pending \in Seq(Requests) /\ Distinct(pending)
    BY DEF Inv, TypeOK, PendingOK, Distinct
  <2>2. pending' \in Seq(Requests) /\ OneLess(pending', pending, k)
    <3> DEFINE t == SubSeq(pending, 1, k - 1) \o SubSeq(pending, k + 1, Len(pending))
    <3>1. t \in Seq(Requests) /\ OneLess(t, pending, k)
      BY <2>1, Removed, Zenon
    <3>2. pending' = t
      BY DEF RemoveAt
    <3> HIDE DEF t
    <3> QED BY <3>1, <3>2, Zenon
  <2> HIDE DEF e, n
  <2>3. ASSUME NEW q, IsPending(q)'  PROVE IsPending(q) /\ q # r
    <3>1. PICK j \in DOMAIN pending' : pending'[j] = q
      BY <2>3 DEF IsPending, Range
    <3>2. PICK i \in DOMAIN pending : i # k /\ pending[i] = q
      BY <2>2, <3>1, Zenon DEF OneLess
    <3> QED BY <2>1, <3>2, Zenon DEF IsPending, Range, Distinct
  <2>4. ASSUME NEW q, IsPending(q), q # r  PROVE IsPending(q)'
    <3>1. PICK i \in DOMAIN pending : pending[i] = q
      BY <2>4 DEF IsPending, Range
    <3>2. PICK j \in DOMAIN pending' : pending'[j] = q
      BY <2>2, <2>4, <3>1, Zenon DEF OneLess
    <3> QED BY <3>2, Zenon DEF IsPending, Range
  <2> QED BY <2>1, <2>2, <2>3, <2>4 DEF OneLess
<1>3. /\ IsPending(r) /\ r \in reqContexts /\ outcome[r] = "pending" /\ r \notin replied
      /\ ~freed
  <2>1. r \in reqContexts /\ outcome[r] = "pending" /\ r \notin replied
    BY <1>1 DEF Inv, PendingOK
  <2> QED BY <2>1, InPending DEF Inv, LifeOK
<1>4. \A i \in DOMAIN finished : finished[i].req # r /\ finished[i].req \in Requests
  BY <1>3, Elements DEF Inv, FinishedOK
<1>5. e \in Response /\ e.req = r /\ e.ok = ok
  BY DEF Response
<1> HIDE DEF e
<1>6. /\ finished' \in Seq(Response)
      /\ \A i \in DOMAIN finished : i \in DOMAIN finished' /\ i # n + 1 /\ finished'[i] = finished[i]
      /\ \A i \in DOMAIN finished' : i = n + 1 \/ i \in DOMAIN finished
      /\ finished'[n + 1] = e /\ n + 1 \in DOMAIN finished'
  <2>1. finished \in Seq(Response) /\ finished' = Append(finished, e)
    BY DEF Inv, TypeOK, e
  <2> QED BY <1>5, <2>1, Appended
<1> HIDE DEF n
<1>7. \A q : IsFinished(q)' <=> IsFinished(q) \/ q = r
  BY <1>5, <1>6 DEF IsFinished
<1>8. /\ replied' \subseteq Requests /\ ok = (r \in replied')
      /\ \A q : q # r => (q \in replied' <=> q \in replied)
  BY <1>3 DEF Inv, TypeOK
<1>9. TypeOK'
  BY <1>2, <1>6, <1>8 DEF Inv, TypeOK
<1>10. StackOK'
  <2>1. \A i \in DOMAIN stack : stack[i].op = "callback" =>
          stack[i].req # r /\ i - 1 \in DOMAIN stack
    BY <1>1, <1>3, CallbackFrames DEF Inv, StackOK
  <2> QED BY <1>1, <1>2, <1>7, <2>1 DEF Inv, StackOK, Holders
<1>11. PendingOK'
  <2>1. ASSUME NEW i \in DOMAIN pending', NEW q, q = pending'[i]
        PROVE  q \in reqContexts' /\ q \notin replied' /\ outcome'[q] = "pending"
    <3>1. IsPending(q)'
      BY <2>1 DEF IsPending, Range
    <3>2. IsPending(q) /\ q # r
      BY <1>2, <3>1
    <3> QED BY <1>1, <1>8, <3>2, InPending DEF Inv, PendingOK
  <2> QED BY <1>2, <2>1 DEF PendingOK, Distinct
<1>12. FinishedOK'
  <2>1. ASSUME NEW i \in DOMAIN finished'
        PROVE  /\ finished'[i].req \in reqContexts' /\ outcome'[finished'[i].req] = "pending"
               /\ finished'[i].ok = (finished'[i].req \in replied')
               /\ ~IsPending(finished[i].req)'
    <3>1. CASE i = n + 1
      BY <1>2, <1>3, <1>5, <1>6, <1>8, <3>1
    <3>2. CASE i \in DOMAIN finished
      BY <1>2, <1>4, <1>6, <1>8, <3>2 DEF Inv, FinishedOK
    <3> QED BY <1>6, <3>1, <3>2
  <2>2. ASSUME NEW i \in DOMAIN finished', NEW j \in DOMAIN finished', j # i
        PROVE  finished'[j].req # finished'[i].req
    BY <1>4, <1>5, <1>6, <2>2 DEF Inv, FinishedOK
  <2> QED BY <2>1, <2>2 DEF FinishedOK
<1>13. RequestsOK'
  <2>1. \A q : Told(q)' = Told(q)
    BY DEF Told
  <2> QED BY <1>2, <1>3, <1>7, <1>8, <2>1 DEF Inv, RequestsOK
<1>14. LifeOK'
  BY <1>3 DEF Inv, LifeOK
<1> QED BY <1>9, <1>10, <1>11, <1>12, <1>13, <1>14 DEF Inv

\* Nothing happens but that a task is gone.
LEMMA SameInv ==
  ASSUME Inv, running' \subseteq Requests,
         UNCHANGED <<pending, finished, alive, freed, touched, reqContexts, stack, blocked,
                     issued, throws, outcome, replied>>
  PROVE  Inv'
<1>1. TypeOK'
  BY DEF Inv, TypeOK
<1>2. \A r : IsPending(r)' = IsPending(r) /\ IsFinished(r)' = IsFinished(r)
             /\ Told(r)' = Told(r) /\ Cancelling(r)' = Cancelling(r)
  BY DEF IsPending, IsFinished, Told, Cancelling
<1>3. StackOK'
  BY <1>2 DEF Inv, StackOK
<1>4. PendingOK' /\ FinishedOK'
  BY <1>2 DEF Inv, PendingOK, FinishedOK
<1>5. RequestsOK' /\ LifeOK'
  BY <1>2 DEF Inv, RequestsOK, LifeOK
<1> QED BY <1>1, <1>3, <1>4, <1>5 DEF Inv

LEMMA ContinueInv ==
  ASSUME Inv, NEW r \in Requests, Continue(r)
  PROVE  Inv'
<1>1. PICK ok \in BOOLEAN :
        /\ ~MutexHeld /\ Completes(r, ok)
        /\ replied' = IF ok /\ IsPending(r) THEN replied \cup {r} ELSE replied
        /\ UNCHANGED <<reqContexts, issued, outcome, stack, blocked, throws>>
  BY DEF Continue, client
<1>2. running' \subseteq Requests /\ UNCHANGED <<alive, freed>>
  BY <1>1 DEF Completes, Inv, TypeOK
<1>3. UNCHANGED touched
  <2>1. ~touched /\ touched \in BOOLEAN /\ alive = ~freed
    BY DEF Inv, TypeOK, LifeOK
  <2>2. CASE alive
    BY <1>1, <2>1, <2>2, Zenon DEF Completes
  <2>3. CASE ~alive
    BY <1>1, <2>3 DEF Completes
  <2> QED BY <2>2, <2>3
<1>4. CASE alive /\ IsPending(r)
  <2>1. PICK k \in DOMAIN pending :
          /\ pending[k] = r /\ pending' = RemoveAt(pending, k)
          /\ finished' = Append(finished, [req |-> r, ok |-> ok])
    BY <1>1, <1>4 DEF Completes, FinishReq
  <2>2. replied' = IF ok THEN replied \cup {r} ELSE replied
    BY <1>1, <1>4
  <2> QED BY <1>1, <1>2, <1>3, <2>1, <2>2, Moved
<1>5. CASE ~IsPending(r)
  <2>1. UNCHANGED <<pending, finished>>
    BY <1>1, <1>5, InPending DEF Completes, FinishReq
  <2> QED BY <1>1, <1>2, <1>3, <1>5, <2>1, SameInv
<1>6. CASE ~alive
  <2>1. UNCHANGED <<pending, finished>> /\ ~IsPending(r)
    <3>1. UNCHANGED <<pending, finished>>
      BY <1>1, <1>6 DEF Completes
    <3>2. pending = <<>>
      BY <1>6 DEF Inv, LifeOK
    <3> QED BY <3>1, <3>2, InPending
  <2> QED BY <1>1, <1>2, <1>3, <2>1, SameInv
<1> QED BY <1>4, <1>5, <1>6

-----------------------------------------------------------------------------
(* The theorems.                                                           *)

LEMMA InitInv ==
  ASSUME MaxRequestsAssumption, RestClientAssumption, Init
  PROVE  Inv
<1>1. /\ pending = <<>> /\ finished = <<>> /\ running = {} /\ alive = TRUE /\ freed = FALSE
      /\ touched = FALSE /\ reqContexts = {} /\ stack = <<>> /\ blocked = FALSE
      /\ issued = 0 /\ throws = 0 /\ outcome = [r \in Requests |-> "new"] /\ replied = {}
  BY DEF Init, TransportInit
<1>2. TypeOK
  <2>1. outcome \in [Requests -> {"new", "pending", "ok", "error", "twice"}]
    BY <1>1
  <2>2. issued \in 0..MaxRequests /\ throws \in 0..MaxThrows
    BY <1>1 DEF MaxRequestsAssumption, RestClientAssumption
  <2>3. /\ pending \in Seq(Requests) /\ finished \in Seq(Response) /\ stack \in Seq(FrameType)
        /\ DOMAIN stack = {}
    BY <1>1
  <2> QED BY <1>1, <2>1, <2>2, <2>3 DEF TypeOK
<1>3. StackOK /\ PendingOK /\ FinishedOK
  BY <1>1 DEF StackOK, PendingOK, FinishedOK
<1>5. LifeOK
  BY <1>1 DEF LifeOK
<1>4. RequestsOK
  BY <1>1 DEF MaxRequestsAssumption, RequestsOK, Requests
<1> QED BY <1>2, <1>3, <1>4, <1>5 DEF Inv

LEMMA StepInv ==
  ASSUME MaxRequestsAssumption, RestClientAssumption, Inv, [Next]_vars
  PROVE  Inv'
<1>1. CASE Request
  BY <1>1, RequestInv
<1>2. CASE Tick \/ Disconnect \/ Destroy
  <2>1. PICK op \in {"tick", "disconnect", "destroy"} :
          /\ MayCall(op) /\ (~MutexHeld \/ op = "destroy") /\ Push(op, 0)
          /\ UNCHANGED <<transport, client, blocked, throws, replied>>
    BY <1>2 DEF Tick, Disconnect, Destroy
  <2>2. /\ ~freed /\ ~MutexHeld /\ Len(stack) % 2 = 0
        /\ op = "destroy" => stack = <<>>
        /\ \A r : ~Cancelling(r)
        /\ \A i \in DOMAIN stack : stack[i].op \notin Holders
    BY <2>1, Caller
  <2> QED BY <2>1, <2>2, CallInv
<1>3. CASE TickReturns \/ DisconnectReturns
  <2>1. PICK op \in {"tick", "disconnect"} :
          /\ Running(op) /\ Pop
          /\ UNCHANGED <<transport, client, blocked, throws, replied>>
    BY <1>3 DEF TickReturns, DisconnectReturns
  <2> QED BY <2>1, ReturnInv
<1>4. CASE TickPops
  BY <1>4, TickPopsInv
<1>5. CASE CancelNext
  BY <1>5, CancelNextInv
<1>6. CASE DestroyReturns
  BY <1>6, DestroyReturnsInv
<1>7. CASE CallbackReturns
  BY <1>7, CallbackReturnsInv
<1>8. CASE CallbackThrows
  BY <1>8, CallbackThrowsInv
<1>9. CASE \E r \in Requests : Continue(r)
  BY <1>9, ContinueInv
<1>10. CASE CallBlocks
  <2>1. /\ blocked' = TRUE
        /\ UNCHANGED <<pending, finished, alive, running, freed, touched, reqContexts, stack,
                       issued, throws, outcome, replied>>
    BY <1>10 DEF CallBlocks, transport, client
  <2>2. TypeOK'
    BY <2>1 DEF Inv, TypeOK
  <2>3. \A r : IsPending(r)' = IsPending(r) /\ IsFinished(r)' = IsFinished(r)
               /\ Told(r)' = Told(r) /\ Cancelling(r)' = Cancelling(r)
    BY <2>1 DEF IsPending, IsFinished, Told, Cancelling
  <2>4. StackOK' /\ PendingOK' /\ FinishedOK'
    BY <2>1, <2>3 DEF Inv, StackOK, PendingOK, FinishedOK
  <2>5. RequestsOK' /\ LifeOK'
    BY <2>1, <2>3 DEF Inv, RequestsOK, LifeOK
  <2> QED BY <2>2, <2>4, <2>5 DEF Inv
<1>11. CASE Gone \/ UNCHANGED vars
  <2>1. UNCHANGED vars /\ running \subseteq Requests
    BY <1>11 DEF Gone, Inv, TypeOK
  <2> QED BY <2>1, SameInv DEF vars
<1> QED BY <1>1, <1>2, <1>3, <1>4, <1>5, <1>6, <1>7, <1>8, <1>9, <1>10, <1>11 DEF Next

\* The inductive invariant holds in every state the client can be in.
THEOREM AlwaysInv ==
  ASSUME MaxRequestsAssumption, RestClientAssumption
  PROVE  Spec => []Inv
<1>1. Init => Inv
  BY InitInv
<1>2. Inv /\ [Next]_vars => Inv'
  BY StepInv
<1> QED BY <1>1, <1>2, PTL DEF Spec

\* The lists of the transport, the contexts and the nested calls have their
\* types: callbacks run in the loops of tick() and cancelAllRequests() only.
THEOREM TypeCorrect ==
  ASSUME MaxRequestsAssumption, RestClientAssumption
  PROVE  Spec => []TypeOK
<1>1. Inv => TypeOK
  BY DEF Inv
<1> QED BY <1>1, AlwaysInv, PTL

\* onResponse finds the context of whatever the transport hands it, and the
\* iterator it erases after the callback is still valid, however tick(),
\* disconnect() and the requests made in callbacks nest.
THEOREM ContextIsFound ==
  ASSUME MaxRequestsAssumption, RestClientAssumption
  PROVE  Spec => []ContextFound
<1>1. ASSUME Inv  PROVE ContextFound
  <2>1. ASSUME NEW r \in Requests, IsPending(r) \/ IsFinished(r)
        PROVE  r \in reqContexts
    BY <1>1, <2>1, InPending DEF Inv, PendingOK, FinishedOK, IsFinished
  <2> QED BY <1>1, <2>1 DEF Inv, StackOK, ContextFound
<1> QED BY <1>1, AlwaysInv, PTL

\* A request the application was not told of is in one of the transport's
\* lists, and no context is left over unless a callback threw - also if
\* disconnect() cancels while answers come in.
THEOREM NoRequestIsLost ==
  ASSUME MaxRequestsAssumption, RestClientAssumption
  PROVE  Spec => []NoRequestLost
<1>1. Inv => NoRequestLost
  BY DEF Inv, RequestsOK, NoRequestLost, Told
<1> QED BY <1>1, AlwaysInv, PTL

\* A continuation that completes after the client was deleted finds the
\* context it shares with the transport dead and does not touch the client.
THEOREM NeverTouchedAfterFree ==
  ASSUME MaxRequestsAssumption, RestClientAssumption
  PROVE  Spec => []NoTouchAfterFree
<1>1. Inv => NoTouchAfterFree
  BY DEF Inv, LifeOK, NoTouchAfterFree
<1> QED BY <1>1, AlwaysInv, PTL

-----------------------------------------------------------------------------
(* The client keeps RequestPromise.                                        *)

LEMMA StepPromise ==
  ASSUME MaxRequestsAssumption, RestClientAssumption, Inv, [Next]_vars
  PROVE  [Promise!PromiseNext]_Promise!promise
<1>1. CASE Request
  <2> DEFINE r == issued + 1
  <2>1. r \in Requests /\ r > issued
    BY <1>1 DEF Request, MaxRequestsAssumption, Inv, TypeOK, Requests
  <2>2. outcome[r] = "new"
    BY <2>1 DEF Inv, RequestsOK
  <2>3. Promise!Issue(r)
    BY <1>1, <2>2 DEF Request, Promise!Issue
  <2> QED BY <2>1, <2>3 DEF Promise!PromiseNext
<1>2. CASE TickPops
  <2> DEFINE e == finished[1]
             r == e.req
  <2>1. OnResponse(r, e.ok) /\ UNCHANGED replied /\ finished # <<>>
    BY <1>2 DEF TickPops, PopFinished
  <2>2. 1 \in DOMAIN finished
    BY <2>1, Shifted DEF Inv, TypeOK
  <2>3. /\ r \in Requests /\ e.ok \in BOOLEAN /\ r \in reqContexts /\ outcome[r] = "pending"
        /\ e.ok = (r \in replied)
    BY <2>2, Elements DEF Inv, FinishedOK
  <2> HIDE DEF e, r
  <2>4. outcome' = [outcome EXCEPT ![r] = IF e.ok THEN "ok" ELSE "error"]
    BY <2>1, <2>3, ToldOnce
  <2>5. Promise!Succeed(r) \/ Promise!Fail(r)
    BY <2>1, <2>3, <2>4 DEF Promise!Succeed, Promise!Fail
  <2> QED BY <2>3, <2>5 DEF Promise!PromiseNext
<1>3. CASE CancelNext
  <2> DEFINE r == pending[1]
  <2>1. /\ OnResponse(r, FALSE) /\ UNCHANGED replied /\ pending # <<>>
        /\ Running("disconnect") \/ Running("destroy")
    BY <1>3 DEF CancelNext
  <2>2. 1 \in DOMAIN pending
    BY <2>1, Shifted DEF Inv, TypeOK
  <2>3. \A q : ~Cancelling(q)
    BY <2>1, HolderIsNearTop
  <2>4. r \in Requests /\ r \in reqContexts /\ outcome[r] = "pending" /\ r \notin replied
    BY <2>2, <2>3, Elements DEF Inv, PendingOK
  <2> HIDE DEF r
  <2>5. outcome' = [outcome EXCEPT ![r] = "error"]
    BY <2>1, <2>4, ToldOnce
  <2>6. Promise!Fail(r)
    BY <2>1, <2>4, <2>5 DEF Promise!Fail
  <2> QED BY <2>4, <2>6 DEF Promise!PromiseNext
<1>4. CASE CallbackThrows
  <2> DEFINE r == stack[Len(stack)].req
  <2>1. /\ Running("callback") /\ throws < MaxThrows /\ UNCHANGED replied
        /\ outcome' = [q \in Requests |->
             IF IsPending(q) /\ outcome[q] # "twice" THEN "pending" ELSE outcome[q]]
    BY <1>4 DEF CallbackThrows
  <2>2. /\ Len(stack) \in DOMAIN stack /\ stack[Len(stack)].op = "callback"
        /\ \A q : Cancelling(q) => q = r
    BY <2>1, Innermost, HolderIsNearTop
  <2>3. r \in Requests /\ outcome[r] \in {"ok", "error"}
    BY <2>2, CallbackFrames DEF Inv, StackOK
  <2> HIDE DEF r
  <2>4. ASSUME NEW q \in Requests, q # r
        PROVE  outcome'[q] = outcome[q]
    BY <2>1, <2>2, <2>4, InPending DEF Inv, PendingOK
  <2>5. MaxThrows > 0
    BY <2>1 DEF RestClientAssumption, Inv, TypeOK
  <2>6. outcome \in [Requests -> {"new", "pending", "ok", "error", "twice"}]
    BY DEF Inv, TypeOK
  <2>7. CASE IsPending(r)
    <3>1. outcome' = [outcome EXCEPT ![r] = "pending"]
      BY <2>1, <2>3, <2>4, <2>6, <2>7
    <3>2. Promise!Untell(r)
      BY <2>1, <2>3, <2>5, <3>1 DEF Promise!Untell
    <3> QED BY <2>3, <3>2 DEF Promise!PromiseNext
  <2>8. CASE ~IsPending(r)
    <3>1. outcome' = outcome
      BY <2>1, <2>4, <2>6, <2>8
    <3> QED BY <2>1, <3>1 DEF Promise!promise
  <2> QED BY <2>7, <2>8
<1>5. CASE \E r \in Requests : Continue(r)
  <2>1. PICK r \in Requests, ok \in BOOLEAN :
          /\ ~MutexHeld /\ UNCHANGED outcome
          /\ replied' = IF ok /\ IsPending(r) THEN replied \cup {r} ELSE replied
    BY <1>5 DEF Continue, client
  <2>2. CASE ok /\ IsPending(r)
    <3>1. ~Cancelling(r)
      <4>1. \A i \in DOMAIN stack : stack[i].op = "callback" => i - 1 \in DOMAIN stack
        BY CallbackFrames DEF Inv
      <4> QED BY <2>1, <4>1 DEF Cancelling, MutexHeld, Holders, Frame
    <3>2. outcome[r] = "pending" /\ r \notin replied
      BY <2>2, <3>1, InPending DEF Inv, PendingOK
    <3>3. Promise!Reply(r)
      BY <2>1, <2>2, <3>2 DEF Promise!Reply
    <3> QED BY <3>3 DEF Promise!PromiseNext
  <2>3. CASE ~(ok /\ IsPending(r))
    BY <2>1, <2>3 DEF Promise!promise
  <2> QED BY <2>2, <2>3
<1>6. ASSUME \/ Tick \/ Disconnect \/ Destroy \/ CallBlocks \/ TickReturns \/ DisconnectReturns
             \/ DestroyReturns \/ CallbackReturns \/ Gone \/ UNCHANGED vars
      PROVE  UNCHANGED Promise!promise
  BY <1>6 DEF Tick, Disconnect, Destroy, CallBlocks, TickReturns, DisconnectReturns,
              DestroyReturns, CallbackReturns, Gone, client, vars, Promise!promise
<1> QED BY <1>1, <1>2, <1>3, <1>4, <1>5, <1>6 DEF Next

\* The client implements RequestPromise: the application is told of a request
\* once (again only if its callback threw out of disconnect()), and of success
\* just when the server answered that request with success before disconnect()
\* or the destructor cancelled it.
THEOREM PromiseKept ==
  ASSUME MaxRequestsAssumption, RestClientAssumption
  PROVE  Spec => KeepsPromise
<1>1. Init => Promise!PromiseInit
  BY DEF Init, Promise!PromiseInit
<1>2. Inv /\ [Next]_vars => [Promise!PromiseNext]_Promise!promise
  BY StepPromise
<1> QED BY <1>1, <1>2, AlwaysInv, PTL DEF Spec, KeepsPromise, Promise!PromiseSpec

=============================================================================
