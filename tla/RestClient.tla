----------------------------- MODULE RestClient -----------------------------
(***************************************************************************)
(* The HTTP client of the Nakama API: every API call makes a context       *)
(* (_reqContexts) and a request of the transport; the transport's answer   *)
(* is handed to onResponse, which calls the application back and then      *)
(* deletes the context.                                                    *)
(*                                                                         *)
(* tick() and disconnect() run callbacks, and callbacks may call the client*)
(* again, so the state includes the stack of calls in progress on the      *)
(* application's thread.  disconnect() holds the transport's mutex, which  *)
(* is not recursive, while it calls back.                                  *)
(***************************************************************************)
EXTENDS NHttpClientCppRest

CONSTANTS
  UserCalls,        (* what the application calls outside callbacks        *)
  TickCalls,        (* ... in callbacks that tick() runs                   *)
  CancelCalls,      (* ... in callbacks that disconnect() runs             *)
  BadPaths,         (* a request's address may fail to parse               *)
  MaxDepth,         (* calls and callbacks nested in one another           *)
  MaxThrows         (* callbacks that end with an exception                *)

Calls == {"request", "tick", "disconnect", "destroy"}

ASSUME RestClientAssumption ==
  /\ UserCalls \subseteq Calls
  /\ TickCalls \subseteq Calls \ {"destroy"}
  /\ CancelCalls \subseteq Calls \ {"destroy"}
  /\ BadPaths \in BOOLEAN /\ MaxDepth \in Nat /\ MaxThrows \in Nat

VARIABLES
  reqContexts,      \* _reqContexts
  stack,            \* the calls and callbacks in progress, the innermost last
  blocked,          \* the thread waits for the mutex it holds
  issued, throws,   \* auxiliary: how many of each so far
  outcome,          \* auxiliary: what the application was told of each request
  replied           \* auxiliary: the requests answered with success

client == <<reqContexts, issued, outcome>>
vars == <<pending, finished, alive, running, freed, touched, reqContexts, stack,
          blocked, issued, throws, outcome, replied>>

Frame(op, r) == [op |-> op, req |-> r]
FrameType == [op : {"tick", "disconnect", "destroy", "callback"}, req : 0..MaxRequests]

Init ==
  /\ TransportInit
  /\ reqContexts = {} /\ stack = <<>> /\ blocked = FALSE
  /\ issued = 0 /\ throws = 0
  /\ outcome = [r \in Requests |-> "new"] /\ replied = {}

-----------------------------------------------------------------------------
Running(op) == stack # <<>> /\ Last(stack).op = op
Push(op, r) == stack' = Append(stack, Frame(op, r))
Pop == stack' = Front(stack)

\* cancelAllRequests holds the mutex until it returns.
MutexHeld == \E i \in DOMAIN stack : stack[i].op \in {"disconnect", "destroy"}

\* The application's code runs, and may make call a.
MayCall(a) ==
  /\ ~blocked /\ ~freed
  /\ \/ stack = <<>> /\ a \in UserCalls
     \/ /\ Running("callback") /\ Len(stack) < MaxDepth
        /\ a \in IF MutexHeld THEN CancelCalls ELSE TickCalls

\* Every call soon locks the mutex (createReqContext, popFinishedReq,
\* cancelAllRequests of the transport): held, it is held by the caller.
CallBlocks ==
  /\ MutexHeld /\ \E a \in Calls : MayCall(a)
  /\ blocked' = TRUE
  /\ UNCHANGED <<transport, client, stack, throws, replied>>

\* The API calls: authenticateDevice, ..., rpc.  Each catches what is thrown
\* on the way and logs it; the request is not made and its context stays.
Request ==
  /\ MayCall("request") /\ ~MutexHeld /\ issued < MaxRequests
  /\ LET r == issued + 1 IN
       /\ reqContexts' = reqContexts \cup {r}
       /\ issued' = r
       /\ outcome' = [outcome EXCEPT ![r] = "pending"]
       /\ \E t \in IF BadPaths THEN BOOLEAN ELSE {FALSE} : StartRequest(r, t)
  /\ UNCHANGED <<stack, blocked, throws, replied>>

Tick ==
  /\ MayCall("tick") /\ ~MutexHeld
  /\ Push("tick", 0)
  /\ UNCHANGED <<transport, client, blocked, throws, replied>>

Disconnect ==
  /\ MayCall("disconnect") /\ ~MutexHeld
  /\ Push("disconnect", 0)
  /\ UNCHANGED <<transport, client, blocked, throws, replied>>

\* ~RestClient begins with disconnect().
Destroy ==
  /\ MayCall("destroy")
  /\ Push("destroy", 0)
  /\ UNCHANGED <<transport, client, blocked, throws, replied>>

-----------------------------------------------------------------------------
(* The loops of tick() and cancelAllRequests().                            *)

\* The application is told o of request r; a second time is noted.
Tell(r, o) == [outcome EXCEPT ![r] = IF @ = "pending" THEN o ELSE "twice"]

\* Mutant: the context is deleted before its callback runs.
OnResponse_ErasesFirst(r, ok) ==
  /\ Push("callback", r)
  /\ outcome' = IF r \in reqContexts THEN Tell(r, IF ok THEN "ok" ELSE "error") ELSE outcome
  /\ reqContexts' = reqContexts \ {r}

\* Mutant: errors go to the log only.
OnResponse_SuccessOnly(r, ok) ==
  /\ Push("callback", r)
  /\ outcome' = IF r \in reqContexts /\ ok THEN Tell(r, "ok") ELSE outcome
  /\ UNCHANGED reqContexts

\* onResponse calls the request's callback, or the default error callback if
\* it has none or if its context is not found.
OnResponse(r, ok) ==
  /\ Push("callback", r)
  /\ outcome' = IF r \in reqContexts THEN Tell(r, IF ok THEN "ok" ELSE "error") ELSE outcome
  /\ UNCHANGED reqContexts

\* tick() takes one response after the other.
TickPops ==
  /\ Running("tick")
  /\ PopFinished
  /\ OnResponse(finished[1].req, finished[1].ok)
  /\ UNCHANGED <<issued, blocked, throws, replied>>

TickReturns ==
  /\ Running("tick") /\ finished = <<>>
  /\ Pop
  /\ UNCHANGED <<transport, client, blocked, throws, replied>>

\* A request is told that it is cancelled, and popped when it returns.
CancelNext ==
  /\ Running("disconnect") \/ Running("destroy")
  /\ pending # <<>>
  /\ OnResponse(pending[1], FALSE)
  /\ UNCHANGED <<transport, issued, blocked, throws, replied>>

DisconnectReturns ==
  /\ Running("disconnect") /\ pending = <<>>
  /\ Pop
  /\ UNCHANGED <<transport, client, blocked, throws, replied>>

\* The rest of ~RestClient: contexts that are left are deleted, and with the
\* transport the responses that wait for tick().
DestroyReturns ==
  /\ Running("destroy") /\ pending = <<>>
  /\ Pop
  /\ reqContexts' = {}
  /\ FreeTransport
  /\ UNCHANGED <<issued, outcome, blocked, throws, replied>>

\* Mutant: the context is left behind.
CallbackReturns_KeepsContext ==
  /\ Running("callback") /\ ~blocked
  /\ Pop
  /\ pending' = IF MutexHeld THEN Tail(pending) ELSE pending
  /\ UNCHANGED <<reqContexts, finished, alive, running, freed, touched, issued, outcome, blocked,
                 throws, replied>>

\* The callback returns: onResponse deletes the context, and
\* cancelAllRequests pops the request.
CallbackReturns ==
  /\ Running("callback") /\ ~blocked
  /\ Pop
  /\ reqContexts' = reqContexts \ {Last(stack).req}
  /\ pending' = IF MutexHeld THEN Tail(pending) ELSE pending
  /\ UNCHANGED <<finished, alive, running, freed, touched, issued, outcome, blocked,
                 throws, replied>>

\* The callback throws, through everything in progress and out of tick() or
\* disconnect(); out of the destructor it would end the program.  A request
\* that was being cancelled is still pending and will be told again.
CallbackThrows ==
  /\ Running("callback") /\ ~blocked /\ throws < MaxThrows
  /\ \A i \in DOMAIN stack : stack[i].op # "destroy"
  /\ stack' = <<>> /\ throws' = throws + 1
  /\ outcome' = [r \in Requests |->
       IF IsPending(r) /\ outcome[r] # "twice" THEN "pending" ELSE outcome[r]]
  /\ UNCHANGED <<transport, reqContexts, issued, blocked, replied>>

-----------------------------------------------------------------------------
(* The task pool.                                                          *)

\* The mutex is taken, also to find that the transport is dead.
Continue(r) ==
  /\ ~MutexHeld
  /\ \E ok \in BOOLEAN :
       /\ Completes(r, ok)
       /\ replied' = IF ok /\ IsPending(r) THEN replied \cup {r} ELSE replied
  /\ UNCHANGED <<client, stack, blocked, throws>>

Gone == freed /\ UNCHANGED vars

Next ==
  \/ Request \/ Tick \/ Disconnect \/ Destroy \/ CallBlocks
  \/ TickPops \/ TickReturns \/ CancelNext \/ DisconnectReturns \/ DestroyReturns
  \/ CallbackReturns \/ CallbackThrows
  \/ (\E r \in Requests : Continue(r))
  \/ Gone

Spec == Init /\ [][Next]_vars

(***************************************************************************)
(* Fairness: the application calls tick() again and again (README, "Tick"),*)
(* and its callbacks return, whatever else they call before; the SDK       *)
(* completes every exchange, if only by a timeout.                         *)
(***************************************************************************)
Fairness ==
  /\ SF_vars(Tick /\ stack = <<>>)
  /\ WF_vars(TickPops) /\ WF_vars(TickReturns)
  /\ WF_vars(CancelNext) /\ WF_vars(DisconnectReturns) /\ WF_vars(DestroyReturns)
  /\ SF_vars(CallbackReturns)
  /\ \A r \in Requests : SF_vars(Continue(r))

FairSpec == Spec /\ Fairness

-----------------------------------------------------------------------------
(* Properties                                                              *)

\* Types; callbacks run in a loop of tick() or cancelAllRequests() only, and
\* such a loop runs in a callback or outermost.
TypeOK ==
  /\ pending \in Seq(Requests) /\ finished \in Seq(Response)
  /\ running \subseteq Requests
  /\ alive \in BOOLEAN /\ freed \in BOOLEAN /\ touched \in BOOLEAN
  /\ reqContexts \subseteq Requests
  /\ stack \in Seq(FrameType)
  /\ \A i \in DOMAIN stack :
       IF i % 2 = 1 THEN stack[i].op # "callback"
       ELSE stack[i].op = "callback" /\ stack[i].req \in Requests
  /\ blocked \in BOOLEAN
  /\ issued \in 0..MaxRequests /\ throws \in 0..MaxThrows
  /\ outcome \in [Requests -> {"new", "pending", "ok", "error", "twice"}]
  /\ replied \subseteq Requests

\* The client keeps its promise: the application is told of every request at
\* most once, and of success just when the server answered it with success -
\* also when disconnect() races with the answer.
Promise == INSTANCE RequestPromise WITH
  Requests <- Requests, outcome <- outcome, replied <- replied,
  Throws <- MaxThrows > 0
KeepsPromise == Promise!PromiseSpec

\* onResponse always finds its context, so that nobody is told "Not found
\* request context." instead of an answer, and the iterator it erases after
\* the callback is valid: no callback in progress shares its context with
\* another, or with a response that waits.
ContextFound ==
  /\ \A r \in Requests : IsPending(r) \/ IsFinished(r) => r \in reqContexts
  /\ \A i \in DOMAIN stack : stack[i].op = "callback" =>
       /\ stack[i].req \in reqContexts /\ ~IsFinished(stack[i].req)
       /\ \A j \in DOMAIN stack :
            j # i /\ stack[j].op = "callback" => stack[j].req # stack[i].req

\* No request is lost: until the application is told of it, it is pending or
\* finished, so that the next tick() or disconnect() tells it; and a context
\* that is left has not been answered, or is being answered - unless its
\* callback threw out of tick().
NoRequestLost ==
  ~freed =>
    \A r \in Requests :
      /\ outcome[r] = "pending" => IsPending(r) \/ IsFinished(r)
      /\ r \in reqContexts =>
           \/ throws > 0
           \/ outcome[r] = "pending"
           \/ \E i \in DOMAIN stack : stack[i] = Frame("callback", r)

\* Late responses never reach a client that was deleted (CHANGELOG 2.3.0).
NoTouchAfterFree == ~touched

\* Every request whose exchange was started is answered, unless the client
\* is destroyed or a cancel callback blocks the thread (DisconnectCompletes).
Answered ==
  \A r \in Requests :
    r \in running ~> outcome[r] # "pending" \/ freed \/ blocked

-----------------------------------------------------------------------------
(* What the headers say and the code does not keep.                        *)

\* disconnect(): "kills all outgoing exchanges immediately without waiting."
DisconnectCompletes == Running("disconnect") ~> ~MutexHeld

=============================================================================
