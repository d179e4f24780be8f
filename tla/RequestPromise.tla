--------------------------- MODULE RequestPromise ---------------------------
(***************************************************************************)
(* What a client promises about the requests the application makes, with   *)
(* no word about how it keeps track of them: the application is told the   *)
(* outcome of a request at most once (again only if the callback that was  *)
(* told threw), never before it made the request, and is told of success   *)
(* if and only if the server did answer that very request with success.    *)
(* NRtClient, RestClient and GrpcClient implement it; they give a request  *)
(* another outcome ("twice") when they tell the application again.         *)
(***************************************************************************)
CONSTANTS Requests,
          Throws    (* callbacks of the application may throw *)

VARIABLES outcome,   \* what the application knows of each request
          replied    \* the requests the server has answered with success

promise == <<outcome, replied>>

PromiseInit ==
  /\ outcome = [r \in Requests |-> "new"]
  /\ replied = {}

Issue(r) ==
  /\ outcome[r] = "new"
  /\ outcome' = [outcome EXCEPT ![r] = "pending"]
  /\ UNCHANGED replied

\* A request that cannot be sent fails at once.
Refuse(r) ==
  /\ outcome[r] = "new"
  /\ outcome' = [outcome EXCEPT ![r] = "error"]
  /\ UNCHANGED replied

Reply(r) ==
  /\ outcome[r] = "pending" /\ r \notin replied
  /\ replied' = replied \cup {r}
  /\ UNCHANGED outcome

Succeed(r) ==
  /\ outcome[r] = "pending" /\ r \in replied
  /\ outcome' = [outcome EXCEPT ![r] = "ok"]
  /\ UNCHANGED replied

Fail(r) ==
  /\ outcome[r] = "pending" /\ r \notin replied
  /\ outcome' = [outcome EXCEPT ![r] = "error"]
  /\ UNCHANGED replied

\* The callback threw: the outcome may be told again.
Untell(r) ==
  /\ Throws
  /\ outcome[r] \in {"ok", "error"}
  /\ outcome' = [outcome EXCEPT ![r] = "pending"]
  /\ UNCHANGED replied

PromiseNext ==
  \E r \in Requests :
    Issue(r) \/ Refuse(r) \/ Reply(r) \/ Succeed(r) \/ Fail(r) \/ Untell(r)

PromiseSpec == PromiseInit /\ [][PromiseNext]_promise

=============================================================================
