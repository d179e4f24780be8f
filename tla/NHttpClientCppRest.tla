------------------------- MODULE NHttpClientCppRest -------------------------
(***************************************************************************)
(* The HTTP transport: requests whose exchange is going on                 *)
(* (_pendingRequests), those whose response waits for tick()               *)
(* (_finishedRequests), and the tasks of the C++ REST SDK, whose           *)
(* continuations move a request from the one list to the other on a thread *)
(* of the task pool, under the mutex of the shared context, and only while *)
(* the transport is alive.                                                 *)
(*                                                                         *)
(* The actions here say what happens to the two lists; who holds the mutex *)
(* and what the callbacks do is in RestClient.  A request of the transport *)
(* is named by the request of the client it is made for: both are unique   *)
(* (nextReqId only grows).                                                 *)
(***************************************************************************)
EXTENDS Naturals, SequencesExt

CONSTANT MaxRequests      (* requests the application makes *)

ASSUME MaxRequestsAssumption == MaxRequests \in Nat

Requests == 1..MaxRequests

VARIABLES
  pending,    \* _pendingRequests, in the order in which they were made
  finished,   \* _finishedRequests, in the order in which they ended
  alive,      \* alive, in the context the continuations share
  running,    \* the SDK's tasks that have not completed
  freed,      \* auxiliary: the transport's destructor has returned
  touched     \* auxiliary: a continuation reached the transport after that

transport == <<pending, finished, alive, running, freed, touched>>

Response == [req : Requests, ok : BOOLEAN]

TransportInit ==
  /\ pending = <<>> /\ finished = <<>> /\ running = {}
  /\ alive = TRUE /\ freed = FALSE /\ touched = FALSE

\* Where request r is.
IsPending(r) == r \in Range(pending)
IsFinished(r) == \E i \in DOMAIN finished : finished[i].req = r

-----------------------------------------------------------------------------
\* Mutant: the context gets the number after the one its task knows.
StartRequest_WrongId(r, throws) ==
  /\ pending' = Append(pending, r + 1)
  /\ running' = IF throws THEN running ELSE running \cup {r}
  /\ UNCHANGED <<finished, alive, freed, touched>>

\* request(): a context is created, and the exchange started unless the
\* address does not parse - which throws, and leaves the context.
StartRequest(r, throws) ==
  /\ pending' = Append(pending, r)
  /\ running' = IF throws THEN running ELSE running \cup {r}
  /\ UNCHANGED <<finished, alive, freed, touched>>

\* Mutant: the response is queued, but the request stays.
FinishReq_KeepsPending(r, ok) ==
  IF IsPending(r)
  THEN finished' = Append(finished, [req |-> r, ok |-> ok]) /\ UNCHANGED pending
  ELSE UNCHANGED <<pending, finished>>

\* finishReq: a request that is not pending any more is ignored.
FinishReq(r, ok) ==
  \/ \E i \in DOMAIN pending :
       /\ pending[i] = r
       /\ pending' = RemoveAt(pending, i)
       /\ finished' = Append(finished, [req |-> r, ok |-> ok])
  \/ ~IsPending(r) /\ UNCHANGED <<pending, finished>>

\* The task completes: with a response, which may be an error, or an
\* exception.  Its continuation does nothing once the transport is dead.
Completes(r, ok) ==
  /\ r \in running
  /\ running' = running \ {r}
  /\ IF alive
     THEN FinishReq(r, ok) /\ touched' = (touched \/ freed)
     ELSE UNCHANGED <<pending, finished, touched>>
  /\ UNCHANGED <<alive, freed>>

\* popFinishedReq
PopFinished ==
  /\ finished # <<>>
  /\ finished' = Tail(finished)
  /\ UNCHANGED <<pending, alive, running, freed, touched>>

\* Mutant: the destructor does not tell the continuations.
FreeTransport_SaysNothing ==
  /\ freed' = TRUE
  /\ pending' = <<>> /\ finished' = <<>>
  /\ UNCHANGED <<alive, running, touched>>

\* ~NHttpClientCppRest
FreeTransport ==
  /\ alive' = FALSE /\ freed' = TRUE
  /\ pending' = <<>> /\ finished' = <<>>
  /\ UNCHANGED <<running, touched>>

=============================================================================
