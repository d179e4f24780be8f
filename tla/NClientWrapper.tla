--------------------------- MODULE NClientWrapper ---------------------------
(***************************************************************************)
(* The C++ wrapper of the C API and the C API below it.  The wrapper keeps *)
(* the application's callbacks in maps, one per kind, by a number that it  *)
(* passes through the C API as reqData; the static function the C API calls*)
(* finds the wrapper by the user data of the client and the callback by    *)
(* the number, calls it and erases it through the iterator.                *)
(*                                                                         *)
(* Sessions cross the C API as handles, which are addresses.  saveSession  *)
(* keeps them alive in a table (g_sessions) until NSession_destroy, which  *)
(* the destructor of NSessionWrapper calls; the address may then be that of*)
(* the next session.                                                       *)
(*                                                                         *)
(* Below, a client that keeps RequestPromise is external.  It calls back in*)
(* tick(), disconnect() and its destructor (RestClient) and in the request *)
(* itself (NRtClient), and again if a callback threw.                      *)
(***************************************************************************)
EXTENDS Naturals, SequencesExt

CONSTANTS
  MaxRequests,      (* requests the application makes                      *)
  Asks,             (* the callbacks it gives, as sets of kinds            *)
  MaxRestored,      (* sessions it restores from a token                   *)
  Handles,          (* addresses of sessions                               *)
  IdMod,            (* reqData is counted modulo IdMod, 2^32 or 2^64       *)
  UserCalls,        (* what the application calls outside callbacks        *)
  CallbackCalls,    (* ... and in callbacks                                *)
  MaxDepth,         (* calls and callbacks nested in one another           *)
  MaxThrows         (* callbacks that end with an exception                *)

Calls == {"request", "tick", "disconnect", "setUserData", "destroy"}
Kinds == {"ok", "error"}
NoHandle == 0
INVALID_REQ_ID == 0

ASSUME NClientWrapperAssumption ==
  /\ MaxRequests \in Nat /\ MaxRestored \in Nat /\ MaxDepth \in Nat /\ MaxThrows \in Nat
  /\ Asks \subseteq SUBSET Kinds /\ NoHandle \notin Handles
  /\ IdMod \in Nat /\ IdMod > MaxRequests
  /\ UserCalls \subseteq Calls /\ CallbackCalls \subseteq Calls \ {"destroy"}

Requests == 1..MaxRequests
Sessions == 1..(MaxRequests + MaxRestored)

VARIABLES
  okCallbacks,      \* _authSuccessCallbacks, _reqOkEmptyCallbacks, ...: number -> request
  errorCallbacks,   \* _reqErrorCallbacks: number -> request
  curReqId,         \* _curReqId
  userData,         \* what NClient_getUserData returns
  sessions,         \* g_sessions: handle -> session
  held,             \* the NSessionWrappers the application keeps
  stack,            \* the calls and callbacks in progress
  gone,             \* auxiliary: the client and its wrapper were deleted
  reqData, auth,    \* the client: number of each request, and those for a session
  outcome,          \* the client: what it told of each request
  asked,            \* auxiliary: the callbacks the application gave
  told,             \* auxiliary: what the application was told
  issued, restored, throws   \* auxiliary: how many of each so far

maps == <<okCallbacks, errorCallbacks>>
table == <<sessions, held>>
client == <<reqData, auth, asked, issued, curReqId>>
vars == <<okCallbacks, errorCallbacks, curReqId, userData, sessions, held, stack, gone,
          reqData, auth, outcome, asked, told, issued, restored, throws>>

CallFrame(op) == [op |-> op, req |-> 0, id |-> INVALID_REQ_ID, kind |-> "ok", handle |-> NoHandle]
CallbackFrame(r, id, kind, h) == [op |-> "callback", req |-> r, id |-> id, kind |-> kind, handle |-> h]

Wrapper(h, s) == [handle |-> h, session |-> s]

Init ==
  /\ okCallbacks = <<>> /\ errorCallbacks = <<>> /\ curReqId = INVALID_REQ_ID
  /\ userData = "wrapper"
  /\ sessions = <<>> /\ held = {}
  /\ stack = <<>> /\ gone = FALSE
  /\ reqData = [r \in Requests |-> INVALID_REQ_ID] /\ auth = {}
  /\ outcome = [r \in Requests |-> "new"]
  /\ asked = [r \in Requests |-> {}] /\ told = [r \in Requests |-> "none"]
  /\ issued = 0 /\ restored = 0 /\ throws = 0

-----------------------------------------------------------------------------
(* Maps and handles.                                                       *)

Without(f, k) == [x \in DOMAIN f \ {k} |-> f[x]]

\* std::map::emplace keeps an element that is there.
Emplace(f, k, v) == [x \in DOMAIN f \cup {k} |-> IF x \in DOMAIN f THEN f[x] ELSE v]

Running(op) == stack # <<>> /\ Last(stack).op = op
Callbacks == {i \in DOMAIN stack : stack[i].op = "callback"}

\* The application's code runs, and may make call a.
AppRuns == stack = <<>> \/ Running("callback")
MayCall(a) ==
  /\ ~gone /\ \A i \in DOMAIN stack : stack[i].op # "destroy"
  /\ \/ stack = <<>> /\ a \in UserCalls
     \/ Running("callback") /\ Len(stack) < MaxDepth /\ a \in CallbackCalls

\* An address no living session has: those in the table, and those the client
\* holds while it calls back.
FreeHandles == Handles \ (DOMAIN sessions \cup {stack[i].handle : i \in DOMAIN stack})

\* saveSession: the C API enters every session it is about to hand out.
SaveSession(h, s) == sessions' = Emplace(sessions, h, s)

\* Mutant: a session stays in the table.
NSessionDestroy_Forgets(S) == UNCHANGED sessions

\* NSession_destroy, for the session wrappers in S.
NSessionDestroy(S) ==
  sessions' = [h \in DOMAIN sessions \ {w.handle : w \in S} |-> sessions[h]]

-----------------------------------------------------------------------------
(* Callbacks.                                                              *)

\* reqOk..., authenticateOk, reqError: the callback entered in m under id is
\* called, if the user data leads to the wrapper and there is one.
Call(m, id, kind, h) ==
  IF userData = "wrapper" /\ id # INVALID_REQ_ID /\ id \in DOMAIN m
  THEN /\ stack' = Append(stack, CallbackFrame(m[id], id, kind, h))
       /\ told' = [told EXCEPT ![m[id]] = IF @ = "none" THEN kind ELSE "twice"]
  ELSE UNCHANGED <<stack, told>>

\* Mutant: the entry is erased before its callback is called.
Invoke_ErasesFirst(m, id, kind, h) ==
  /\ Call(m, id, kind, h)
  /\ IF kind = "ok" THEN okCallbacks' = Without(okCallbacks, id) /\ UNCHANGED errorCallbacks
                    ELSE errorCallbacks' = Without(errorCallbacks, id) /\ UNCHANGED okCallbacks

\* Entries stay while their callbacks run.
Invoke(m, id, kind, h) == Call(m, id, kind, h) /\ UNCHANGED maps

-----------------------------------------------------------------------------
(* Calls of the application.                                               *)

\* Mutant: a request with an error callback only has no number.
NextReqId_OkOnly(asks) == IF "ok" \notin asks THEN INVALID_REQ_ID ELSE curReqId + 1

\* getNextReqId, which a request without callbacks does not need.
NextReqId(asks) ==
  LET n == (curReqId + 1) % IdMod IN
  IF asks = {} THEN INVALID_REQ_ID ELSE IF n = INVALID_REQ_ID THEN n + 1 ELSE n

\* The first half of every API method: callbacks are entered in the maps.
Register(r, asks, isAuth, id) ==
  /\ okCallbacks' = IF "ok" \in asks THEN Emplace(okCallbacks, id, r) ELSE okCallbacks
  /\ curReqId' = IF asks = {} THEN curReqId ELSE id
  /\ reqData' = [reqData EXCEPT ![r] = id]
  /\ auth' = IF isAuth THEN auth \cup {r} ELSE auth
  /\ asked' = [asked EXCEPT ![r] = asks]
  /\ issued' = r

Registered(r, asks, id) == IF "error" \in asks THEN Emplace(errorCallbacks, id, r) ELSE errorCallbacks

\* authenticateDevice, ..., rpc: the client takes the request.
Request ==
  /\ MayCall("request") /\ issued < MaxRequests
  /\ \E asks \in Asks, isAuth \in BOOLEAN :
       LET r == issued + 1  id == NextReqId(asks) IN
       /\ Register(r, asks, isAuth, id)
       /\ errorCallbacks' = Registered(r, asks, id)
       /\ outcome' = [outcome EXCEPT ![r] = "pending"]
  /\ UNCHANGED <<userData, table, stack, gone, told, restored, throws>>

Tick ==
  /\ MayCall("tick")
  /\ stack' = Append(stack, CallFrame("tick"))
  /\ UNCHANGED <<maps, client, userData, table, gone, outcome, told, restored, throws>>

Disconnect ==
  /\ MayCall("disconnect")
  /\ stack' = Append(stack, CallFrame("disconnect"))
  /\ UNCHANGED <<maps, client, userData, table, gone, outcome, told, restored, throws>>

\* Mutant, which is what NRtClientWrapper does: the application's user data
\* replaces the pointer to the wrapper.
SetUserData_OfClient ==
  /\ MayCall("setUserData")
  /\ userData' = "application"
  /\ UNCHANGED <<maps, client, table, stack, gone, outcome, told, restored, throws>>

\* setUserData: the wrapper keeps it to itself.
SetUserData ==
  /\ MayCall("setUserData")
  /\ UNCHANGED vars

\* ~NClientWrapper: destroyNakamaClient first.
Destroy ==
  /\ MayCall("destroy")
  /\ stack' = Append(stack, CallFrame("destroy"))
  /\ UNCHANGED <<maps, client, userData, table, gone, outcome, told, restored, throws>>

\* restoreSession, which needs no client.
RestoreSession ==
  /\ AppRuns /\ restored < MaxRestored
  /\ restored' = restored + 1
  /\ \E h \in FreeHandles :
       /\ SaveSession(h, MaxRequests + restored')
       /\ held' = held \cup {Wrapper(h, MaxRequests + restored')}
  /\ UNCHANGED <<maps, client, userData, stack, gone, outcome, told, throws>>

\* The application lets go of a session: ~NSessionWrapper.
DropSession(w) ==
  /\ AppRuns /\ w \in held
  /\ held' = held \ {w}
  /\ NSessionDestroy({w})
  /\ UNCHANGED <<maps, client, userData, stack, gone, outcome, told, restored, throws>>

-----------------------------------------------------------------------------
(* The client calls back, through the C API.                               *)

\* ... in a request it refuses,
RequestRefused ==
  /\ MayCall("request") /\ issued < MaxRequests
  /\ \E asks \in Asks :
       LET r == issued + 1  id == NextReqId(asks)  m == Registered(r, asks, id) IN
       /\ Register(r, asks, FALSE, id)
       /\ errorCallbacks' = m
       /\ outcome' = [outcome EXCEPT ![r] = "error"]
       /\ Call(m, id, "error", NoHandle)
  /\ UNCHANGED <<userData, table, gone, restored, throws>>

ClientTells(r, kind) ==
  /\ outcome[r] = "pending"
  /\ outcome' = [outcome EXCEPT ![r] = kind]
  /\ UNCHANGED <<client, userData, gone, restored, throws>>

\* ... with a session, which is saved whether or not anyone wants it,
AuthenticateOk(r) ==
  /\ Running("tick") /\ r \in auth
  /\ ClientTells(r, "ok")
  /\ \E h \in FreeHandles :
       /\ SaveSession(h, r)
       /\ Invoke(okCallbacks, reqData[r], "ok", h)
  /\ UNCHANGED held

\* ... with another answer,
ReqOk(r) ==
  /\ Running("tick") /\ r \notin auth
  /\ ClientTells(r, "ok")
  /\ Invoke(okCallbacks, reqData[r], "ok", NoHandle)
  /\ UNCHANGED table

\* ... or with an error, also while it cancels or is deleted.
ReqError(r) ==
  /\ \E op \in {"tick", "disconnect", "destroy"} : Running(op)
  /\ ClientTells(r, "error")
  /\ Invoke(errorCallbacks, reqData[r], "error", NoHandle)
  /\ UNCHANGED table

\* The NSessionWrapper a callback was given.
Given(f) == Wrapper(f.handle, f.req)

Erase(f) ==
  IF f.kind = "ok"
  THEN okCallbacks' = Without(okCallbacks, f.id) /\ UNCHANGED errorCallbacks
  ELSE errorCallbacks' = Without(errorCallbacks, f.id) /\ UNCHANGED okCallbacks

\* Mutant: the C API destroys the session it handed out.
CallbackReturns_DestroysSession ==
  /\ Running("callback")
  /\ LET f == Last(stack) IN
       /\ stack' = Front(stack)
       /\ Erase(f)
       /\ held' \in {held} \cup IF f.handle # NoHandle THEN {held \cup {Given(f)}} ELSE {}
       /\ NSessionDestroy({Given(f)})
  /\ UNCHANGED <<client, userData, gone, outcome, told, restored, throws>>

\* The callback returns: its entry is erased, and the session unless the
\* application keeps it.
CallbackReturns ==
  /\ Running("callback")
  /\ LET f == Last(stack) IN
       /\ stack' = Front(stack)
       /\ Erase(f)
       /\ \/ f.handle # NoHandle /\ held' = held \cup {Given(f)} /\ UNCHANGED sessions
          \/ UNCHANGED held /\ NSessionDestroy({Given(f)})
  /\ UNCHANGED <<client, userData, gone, outcome, told, restored, throws>>

\* The callback throws, through everything in progress; entries stay.  The
\* client may tell again of a request it was cancelling or delivering.
CallbackThrows ==
  /\ Running("callback") /\ throws < MaxThrows
  /\ \A i \in DOMAIN stack : stack[i].op # "destroy"
  /\ stack' = <<>> /\ throws' = throws + 1
  /\ LET given == {Given(stack[i]) : i \in {j \in Callbacks : stack[j].handle # NoHandle}} IN
     \E kept \in SUBSET given : held' = held \cup kept /\ NSessionDestroy(given \ kept)
  /\ \E S \in {{}} \cup {{stack[i].req} : i \in {j \in Callbacks : stack[j].handle = NoHandle}} :
       /\ outcome' = [r \in Requests |-> IF r \in S THEN "pending" ELSE outcome[r]]
       /\ told' = [r \in Requests |-> IF r \in S THEN "none" ELSE told[r]]
  /\ UNCHANGED <<maps, client, userData, gone, restored>>

CallReturns ==
  /\ Running("tick") \/ Running("disconnect")
  /\ stack' = Front(stack)
  /\ UNCHANGED <<maps, client, userData, table, gone, outcome, told, restored, throws>>

\* The client is deleted, and the rest of the wrapper.
DestroyReturns ==
  /\ Running("destroy")
  /\ stack' = Front(stack) /\ gone' = TRUE
  /\ okCallbacks' = <<>> /\ errorCallbacks' = <<>>
  /\ UNCHANGED <<client, userData, table, outcome, told, restored, throws>>

Gone == gone /\ stack = <<>> /\ UNCHANGED vars

Next ==
  \/ Request \/ RequestRefused \/ Tick \/ Disconnect \/ SetUserData \/ Destroy \/ RestoreSession
  \/ (\E w \in held : DropSession(w))
  \/ (\E r \in Requests : AuthenticateOk(r) \/ ReqOk(r) \/ ReqError(r))
  \/ CallbackReturns \/ CallbackThrows \/ CallReturns \/ DestroyReturns
  \/ Gone

Spec == Init /\ [][Next]_vars

-----------------------------------------------------------------------------
(* Properties                                                              *)

\* Types; the numbers in the maps are those given to requests.
TypeOK ==
  /\ \A m \in {okCallbacks, errorCallbacks} :
       /\ DOMAIN m \subseteq 1..(IdMod - 1)
       /\ \A id \in DOMAIN m : m[id] \in Requests
  /\ curReqId \in 0..(IdMod - 1) /\ userData \in {"wrapper", "application"}
  /\ DOMAIN sessions \subseteq Handles /\ \A h \in DOMAIN sessions : sessions[h] \in Sessions
  /\ held \subseteq {Wrapper(h, s) : h \in Handles, s \in Sessions}
  /\ \A i \in DOMAIN stack :
       stack[i] \in {CallFrame(op) : op \in {"tick", "disconnect", "destroy"}} \cup
                    {CallbackFrame(r, id, k, h) : r \in Requests, id \in 1..(IdMod - 1),
                                                  k \in Kinds, h \in Handles \cup {NoHandle}}
  /\ gone \in BOOLEAN /\ auth \subseteq Requests
  /\ reqData \in [Requests -> 0..(IdMod - 1)] /\ asked \in [Requests -> SUBSET Kinds]
  /\ outcome \in [Requests -> {"new", "pending", "ok", "error"}]
  /\ told \in [Requests -> {"none", "ok", "error", "twice"}]
  /\ issued \in 0..MaxRequests /\ restored \in 0..MaxRestored /\ throws \in 0..MaxThrows

\* What the client tells reaches the callback given for it and no other, once:
\* from tick(), disconnect(), the destructor and the request itself, whatever
\* entries earlier requests left in the maps.
CallbackReached ==
  \A r \in Requests :
    told[r] = IF outcome[r] \in asked[r] THEN outcome[r] ELSE "none"

\* The iterator through which an entry is erased is valid when its callback
\* returns: the entry is there, and no other callback in progress shares it.
EntriesLast ==
  \A i \in Callbacks :
    /\ stack[i].id \in DOMAIN (IF stack[i].kind = "ok" THEN okCallbacks ELSE errorCallbacks)
    /\ \A j \in Callbacks :
         i # j => <<stack[i].id, stack[i].kind>> # <<stack[j].id, stack[j].kind>>

\* A handle leads to its own session as long as the application, or a callback
\* in progress, has the session wrapper, though addresses are used again.
HandlesAreValid ==
  \A w \in held \cup {Given(stack[i]) : i \in {j \in Callbacks : stack[j].handle # NoHandle}} :
    w.handle \in DOMAIN sessions /\ sessions[w.handle] = w.session

\* The table keeps a session no longer than the application - except those
\* that arrived for a request without success callback, which stay for good.
SessionsAreHeld ==
  \A h \in DOMAIN sessions :
    \/ Wrapper(h, sessions[h]) \in held
    \/ \E i \in Callbacks : stack[i].handle = h
    \/ sessions[h] \in auth /\ "ok" \notin asked[sessions[h]]

=============================================================================
