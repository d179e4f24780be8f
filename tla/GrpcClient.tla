----------------------------- MODULE GrpcClient -----------------------------
(***************************************************************************)
(* The gRPC client of the Nakama API.  Every API call makes a context      *)
(* (_reqContexts) and starts an operation whose tag is that context; gRPC  *)
(* puts finished operations on the completion queue (_cq), and tick() takes*)
(* them from there and hands them to onResponse.                           *)
(*                                                                         *)
(* gRPC is external: operations finish in any order, with a response, an   *)
(* error status or not ok; a queue that was shut down takes no new         *)
(* operation but delivers those it has.  There is no lock: everything runs *)
(* on the application's thread, and the state includes the calls and       *)
(* callbacks in progress on it.                                            *)
(***************************************************************************)
EXTENDS Naturals, SequencesExt

CONSTANTS
  MaxRequests,      (* requests the application makes                      *)
  UserCalls,        (* what it calls outside callbacks                     *)
  CallbackCalls,    (* ... and in callbacks                                *)
  MaxDepth,         (* calls and callbacks nested in one another           *)
  MaxThrows         (* callbacks that end with an exception                *)

Calls == {"request", "tick", "disconnect", "destroy"}

ASSUME GrpcClientAssumption ==
  /\ MaxRequests \in Nat /\ MaxDepth \in Nat /\ MaxThrows \in Nat
  /\ UserCalls \subseteq Calls
  /\ CallbackCalls \subseteq Calls \ {"destroy"}

Requests == 1..MaxRequests

VARIABLES
  reqContexts,      \* _reqContexts
  inFlight,         \* gRPC: the operations that have not finished
  cq,               \* gRPC: _cq, the finished ones in the order they finished
  shut,             \* gRPC: _cq was shut down
  stack,            \* the calls of tick() and the callbacks in progress
  freed,            \* auxiliary: the client was deleted
  issued, throws,   \* auxiliary: how many of each so far
  outcome,          \* auxiliary: what the application was told of each request
  replied           \* auxiliary: the requests answered with success

grpc == <<inFlight, cq, shut>>
vars == <<reqContexts, inFlight, cq, shut, stack, freed, issued, throws, outcome, replied>>

Frame(op, r) == [op |-> op, req |-> r]
Event == [req : Requests, ok : BOOLEAN]

Init ==
  /\ reqContexts = {} /\ inFlight = {} /\ cq = <<>> /\ shut = FALSE
  /\ stack = <<>> /\ freed = FALSE /\ issued = 0 /\ throws = 0
  /\ outcome = [r \in Requests |-> "new"] /\ replied = {}

-----------------------------------------------------------------------------
(* Calls of the application.                                               *)

Running(op) == stack # <<>> /\ Last(stack).op = op

MayCall(a) ==
  /\ ~freed
  /\ \/ stack = <<>> /\ a \in UserCalls
     \/ Running("callback") /\ Len(stack) < MaxDepth /\ a \in CallbackCalls

CreateReqContext(r) == reqContexts' = reqContexts \cup {r}

\* authenticateDevice, ..., rpc: a context, its callbacks, and the operation.
\* Nothing may be started on a queue that was shut down: gRPC aborts.
Request ==
  /\ MayCall("request") /\ issued < MaxRequests /\ ~shut
  /\ LET r == issued + 1 IN
       /\ CreateReqContext(r)
       /\ inFlight' = inFlight \cup {r}
       /\ issued' = r
       /\ outcome' = [outcome EXCEPT ![r] = "pending"]
  /\ UNCHANGED <<cq, shut, stack, freed, throws, replied>>

Tick ==
  /\ MayCall("tick")
  /\ stack' = Append(stack, Frame("tick", 0))
  /\ UNCHANGED <<reqContexts, grpc, freed, issued, throws, outcome, replied>>

\* Mutant: disconnect() throws away what has finished.
Disconnect_Drops ==
  /\ MayCall("disconnect")
  /\ shut' = TRUE /\ cq' = <<>>
  /\ UNCHANGED <<reqContexts, inFlight, stack, freed, issued, throws, outcome, replied>>

\* disconnect() shuts the queue down, which cancels nothing.
Disconnect ==
  /\ MayCall("disconnect")
  /\ shut' = TRUE
  /\ UNCHANGED <<reqContexts, inFlight, cq, stack, freed, issued, throws, outcome, replied>>

\* ~GrpcClient deletes the contexts that are left.
Destroy ==
  /\ MayCall("destroy")
  /\ shut' = TRUE /\ freed' = TRUE /\ reqContexts' = {} /\ cq' = <<>>
  /\ UNCHANGED <<inFlight, stack, issued, throws, outcome, replied>>

-----------------------------------------------------------------------------
(* The loop of tick().                                                     *)

\* The application is told o of request r; a second time is noted.
Tell(r, o) == [outcome EXCEPT ![r] = IF @ = "pending" THEN o ELSE "twice"]

\* Mutants: the context is deleted before its callback runs; an operation that
\* is not ok is dropped; the tag is not passed on.
OnResponse_ErasesFirst(e) ==
  /\ stack' = Append(stack, Frame("callback", e.req))
  /\ outcome' = IF e.req \in reqContexts
                THEN Tell(e.req, IF e.ok THEN "ok" ELSE "error") ELSE outcome
  /\ reqContexts' = reqContexts \ {e.req}

OnResponse_OkOnly(e) ==
  /\ stack' = Append(stack, Frame("callback", e.req))
  /\ outcome' = IF e.req \in reqContexts /\ e.ok THEN Tell(e.req, "ok") ELSE outcome
  /\ UNCHANGED reqContexts

OnResponse_NullTag(e) ==
  /\ stack' = Append(stack, Frame("callback", 0))
  /\ outcome' = Tell(e.req, IF e.ok THEN "ok" ELSE "error")
  /\ UNCHANGED reqContexts

\* onResponse and reqError: the callback of the request for what came of it, or
\* the default error callback if it has none or its context is not found.
OnResponse(e) ==
  /\ stack' = Append(stack, Frame("callback", e.req))
  /\ outcome' = IF e.req \in reqContexts
                THEN Tell(e.req, IF e.ok THEN "ok" ELSE "error") ELSE outcome
  /\ UNCHANGED reqContexts

\* Mutant: the event leaves the queue with its callback only.
GotEvent_KeepsEvent ==
  /\ Running("tick") /\ cq # <<>>
  /\ OnResponse(Head(cq))
  /\ UNCHANGED <<inFlight, cq, shut, freed, issued, throws, replied>>

\* AsyncNext: GOT_EVENT.
GotEvent ==
  /\ Running("tick") /\ cq # <<>>
  /\ OnResponse(Head(cq))
  /\ cq' = Tail(cq)
  /\ UNCHANGED <<inFlight, shut, freed, issued, throws, replied>>

\* AsyncNext: TIMEOUT or, if the queue is shut down and drained, SHUTDOWN.
TickReturns ==
  /\ Running("tick") /\ cq = <<>>
  /\ stack' = Front(stack)
  /\ UNCHANGED <<reqContexts, grpc, freed, issued, throws, outcome, replied>>

\* Mutant: the context is left behind.
CallbackReturns_KeepsContext ==
  /\ Running("callback")
  /\ stack' = Front(stack)
  /\ UNCHANGED <<reqContexts, grpc, freed, issued, throws, outcome, replied>>

\* The callback returns: the context is deleted.
CallbackReturns ==
  /\ Running("callback")
  /\ stack' = Front(stack)
  /\ reqContexts' = reqContexts \ {Last(stack).req}
  /\ UNCHANGED <<grpc, freed, issued, throws, outcome, replied>>

\* The callback throws out of tick(): the event is gone, its context stays.
CallbackThrows ==
  /\ Running("callback") /\ throws < MaxThrows
  /\ stack' = <<>> /\ throws' = throws + 1
  /\ UNCHANGED <<reqContexts, grpc, freed, issued, outcome, replied>>

-----------------------------------------------------------------------------
(* gRPC: external.                                                         *)

Finish(r) ==
  /\ ~freed /\ r \in inFlight
  /\ inFlight' = inFlight \ {r}
  /\ \E ok \in BOOLEAN :
       /\ cq' = Append(cq, [req |-> r, ok |-> ok])
       /\ replied' = IF ok THEN replied \cup {r} ELSE replied
  /\ UNCHANGED <<reqContexts, shut, stack, freed, issued, throws, outcome>>

Gone == freed /\ UNCHANGED vars

Next ==
  \/ Request \/ Tick \/ Disconnect \/ Destroy
  \/ GotEvent \/ TickReturns \/ CallbackReturns \/ CallbackThrows
  \/ (\E r \in Requests : Finish(r))
  \/ Gone

Spec == Init /\ [][Next]_vars

(***************************************************************************)
(* Fairness: the application calls tick() again and again (README, "Tick"),*)
(* its callbacks return whatever else they call, and gRPC finishes every   *)
(* operation, if only with an error.                                       *)
(***************************************************************************)
Fairness ==
  /\ SF_vars(Tick /\ stack = <<>>)
  /\ WF_vars(GotEvent \/ TickReturns)
  /\ SF_vars(CallbackReturns)
  /\ \A r \in Requests : WF_vars(Finish(r))

FairSpec == Spec /\ Fairness

-----------------------------------------------------------------------------
(* Properties                                                              *)

\* Types; calls of tick() and callbacks alternate.
TypeOK ==
  /\ reqContexts \subseteq Requests /\ inFlight \subseteq Requests
  /\ cq \in Seq(Event) /\ shut \in BOOLEAN /\ freed \in BOOLEAN
  /\ \A i \in DOMAIN stack :
       stack[i] \in IF i % 2 = 1 THEN {Frame("tick", 0)}
                    ELSE {Frame("callback", r) : r \in Requests}
  /\ issued \in 0..MaxRequests /\ throws \in 0..MaxThrows
  /\ outcome \in [Requests -> {"new", "pending", "ok", "error", "twice"}]
  /\ replied \subseteq Requests

\* Every tag gRPC still has is a context that exists - an operation writes the
\* status into it and onResponse reads it -, and so is that of every callback
\* in progress, each its own.  The destructor does not see to it: it deletes
\* contexts whose operations go on.
TagsAreContexts ==
  /\ ~freed => \A r \in Requests :
       r \in inFlight \/ (\E i \in DOMAIN cq : cq[i].req = r) => r \in reqContexts
  /\ \A i, j \in DOMAIN stack :
       stack[i].op = "callback" =>
         /\ stack[i].req \in reqContexts
         /\ stack[j].op = "callback" /\ i # j => stack[j].req # stack[i].req

\* No request is lost: until the application is told, its operation goes on or
\* waits for tick(), after disconnect() too; and a context that is left is of
\* such a request or of a callback in progress, unless one threw.
NoRequestLost ==
  ~freed => \A r \in Requests :
    /\ outcome[r] = "pending" => r \in inFlight \/ \E i \in DOMAIN cq : cq[i].req = r
    /\ r \in reqContexts =>
         \/ throws > 0 \/ outcome[r] = "pending"
         \/ \E i \in DOMAIN stack : stack[i] = Frame("callback", r)

\* The client keeps its promise: it tells the outcome of a request once, and
\* success just when the server answered it with success.
Promise == INSTANCE RequestPromise WITH
  Requests <- Requests, outcome <- outcome, replied <- replied, Throws <- FALSE
KeepsPromise == Promise!PromiseSpec

\* Every request is answered unless the client is deleted: disconnect() does
\* not keep what goes on from being delivered by later calls of tick().
Answered == \A r \in Requests : outcome[r] = "pending" ~> outcome[r] # "pending" \/ freed

=============================================================================
