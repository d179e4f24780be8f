---------------------- MODULE NWebsocketRefinement_proofs ----------------------
(***************************************************************************)
(* NWebsocketCppRest implements RtTransport, for any number of clients,    *)
(* frames and sends: what NRtClient relies on in its transport.            *)
(*                                                                         *)
(* A ping is queued like any event but calls no callback, so the queue of  *)
(* RtTransport is Delivery(queue), a recursive function of the queue.      *)
(* What the proofs need of it is shown by induction on the length.         *)
(***************************************************************************)
EXTENDS NWebsocketOrder_proofs, FiniteSetTheorems

-----------------------------------------------------------------------------
(* Induction.                                                              *)

\* A set of naturals that is not empty has a least member: of the intervals
\* 1..n that end in it one has none of the others as a strict subset.
LEMMA Least ==
  ASSUME NEW m \in Nat, NEW T \in SUBSET (0..m), T # {}
  PROVE  \E n \in T : \A k \in T : n <= k
<1> DEFINE S == 1..m
           U == {1..n : n \in T}
<1>1. IsFiniteSet(S)
  BY FS_Interval
<1>2. IsWellFoundedOn(StrictSubsetOrdering(S), FiniteSubsetsOf(S)) /\ FiniteSubsetsOf(S) = SUBSET S
  BY <1>1, FS_StrictSubsetOrderingWellFounded, FS_FiniteSubsetsOfFinite
<1>3. U \subseteq SUBSET S /\ U # {}
  <2>1. \A n \in T : 1..n \subseteq 1..m
    OBVIOUS
  <2> QED BY <2>1
<1> DEFINE R == StrictSubsetOrdering(S)
           P == SUBSET S
<1>8. IsWellFoundedOn(R, P) /\ U \subseteq P /\ U # {}
  BY <1>2, <1>3
<1> HIDE DEF U, R, P
<1>9. \E u \in U : \A v \in U : <<v, u>> \notin R
  BY <1>8, WFMin
<1>4. \E u \in U : \A v \in U : <<v, u>> \notin StrictSubsetOrdering(S)
  BY <1>9 DEF R
<1>5. PICK u \in U : \A v \in U : <<v, u>> \notin StrictSubsetOrdering(S)
  BY <1>4
<1>6. PICK n \in T : u = 1..n
  BY DEF U
<1>7. ASSUME NEW k \in T, k < n  PROVE FALSE
  <2>1. 1..k \in U
    BY DEF U
  <2>2. 1..k \subseteq 1..n /\ n \in 1..n /\ n \notin 1..k
    BY <1>7
  <2>3. <<1..k, u>> \in StrictSubsetOrdering(S)
    BY <1>3, <1>6, <2>1, <2>2 DEF StrictSubsetOrdering
  <2> QED BY <1>5, <2>1, <2>3
<1> QED BY <1>7

\* Induction up to m.
LEMMA UpTo ==
  ASSUME NEW m \in Nat, NEW S, 0 \in S, \A n \in 0..m : n \in S => n + 1 \in S \/ n = m
  PROVE  0..m \subseteq S
<1> SUFFICES ASSUME (0..m) \ S # {} PROVE FALSE
  OBVIOUS
<1>1. PICK n \in (0..m) \ S : \A k \in (0..m) \ S : n <= k
  BY Least
<1>2. n # 0 /\ n - 1 \in 0..m /\ n - 1 # m /\ n - 1 + 1 = n
  BY <1>1
<1>3. n - 1 \in S
  BY <1>1, <1>2
<1> QED BY <1>1, <1>2, <1>3

-----------------------------------------------------------------------------
(* What the application will be told of.                                   *)

\* f tells, for each n up to m, what the application is told of by the first n
\* events of q.
Tells(f, q, m) ==
  f = [n \in 0..m |-> IF n = 0 THEN <<>>
        ELSE IF q[n].type = "ping" THEN f[n - 1] ELSE Append(f[n - 1], Seen(q[n]))]
\* There is such a function.
LEMMA ToldExists ==
  ASSUME NEW S, NEW q \in Seq(S), NEW m \in Nat
  PROVE  \E f : Tells(f, q, m)
<1> DEFINE G == {n \in 0..m : \E f : Tells(f, q, n)}
<1>1. 0 \in G
  <2> DEFINE f == [n \in 0..0 |-> <<>>]
  <2>1. Tells(f, q, 0)
    BY DEF Tells
  <2> QED BY <2>1
<1>2. ASSUME NEW n \in 0..m, n \in G, n # m  PROVE n + 1 \in G
  <2>1. PICK f : Tells(f, q, n)
    BY <1>2
  <2> DEFINE g == [k \in 0..(n + 1) |->
                     IF k = n + 1
                     THEN IF q[k].type = "ping" THEN f[n] ELSE Append(f[n], Seen(q[k]))
                     ELSE f[k]]
  <2>0. \A k \in 0..n : k \in 0..(n + 1) /\ k # n + 1
    OBVIOUS
  <2>4. \A k \in 0..n : g[k] = f[k]
    BY <2>0
  <2>2. \A k \in 0..n : g[k] = f[k] /\ f[k] = IF k = 0 THEN <<>>
        ELSE IF q[k].type = "ping" THEN f[k - 1] ELSE Append(f[k - 1], Seen(q[k]))
    BY <2>1, <2>4 DEF Tells
  <2>3. \A k \in 0..(n + 1) : g[k] = IF k = 0 THEN <<>>
        ELSE IF q[k].type = "ping" THEN g[k - 1] ELSE Append(g[k - 1], Seen(q[k]))
    <3> TAKE k \in 0..(n + 1)
    <3>1. CASE k = n + 1
      <4>1. g[k] = IF q[k].type = "ping" THEN f[n] ELSE Append(f[n], Seen(q[k]))
        BY <3>1
      <4>2. g[k - 1] = f[n] /\ k # 0
        BY <3>1, <2>2
      <4> QED BY <4>1, <4>2
    <3>2. CASE k # n + 1
      <4>1. k \in 0..n /\ (k # 0 => k - 1 \in 0..n)
        BY <3>2
      <4> QED BY <2>2, <4>1
    <3> QED BY <3>1, <3>2
  <2>5. DOMAIN g = 0..(n + 1) /\ g = [k \in DOMAIN g |-> g[k]]
    OBVIOUS
  <2> HIDE DEF g
  <2>6. Tells(g, q, n + 1)
    BY <2>3, <2>5 DEF Tells
  <2> QED BY <1>2, <2>6
<1> HIDE DEF G
<1>3. 0..m \subseteq G
  BY <1>1, <1>2, UpTo
<1> QED BY <1>3 DEF G

\* Delivery(q) is its last value.
LEMMA DeliveryIs ==
  ASSUME NEW S, NEW q \in Seq(S)
  PROVE  \E f : Tells(f, q, Len(q)) /\ Delivery(q) = f[Len(q)]
<1>1. Len(q) \in Nat
  OBVIOUS
<1> DEFINE f == CHOOSE g : Tells(g, q, Len(q))
<1>2. Tells(f, q, Len(q))
  BY <1>1, ToldExists
<1>3. Delivery(q) = f[Len(q)]
  BY DEF Delivery, Tells
<1> QED BY <1>2, <1>3

\* It says of no event nothing, and of n what it says of n - 1 and of the nth.
LEMMA ToldAt ==
  ASSUME NEW q, NEW m \in Nat, NEW f, Tells(f, q, m)
  PROVE  /\ f[0] = <<>>
         /\ \A n \in 1..m : f[n] = IF q[n].type = "ping" THEN f[n - 1]
                                   ELSE Append(f[n - 1], Seen(q[n]))
         /\ \A n \in 0..m : n # m =>
              f[n + 1] = IF q[n + 1].type = "ping" THEN f[n]
                         ELSE Append(f[n], Seen(q[n + 1]))
<1>1. \A n \in 0..m : f[n] = IF n = 0 THEN <<>>
        ELSE IF q[n].type = "ping" THEN f[n - 1] ELSE Append(f[n - 1], Seen(q[n]))
  BY DEF Tells
<1>2. 0 \in 0..m /\ \A n \in 1..m : n \in 0..m /\ n # 0
  OBVIOUS
<1>3. f[0] = <<>> /\ \A n \in 1..m : f[n] = IF q[n].type = "ping" THEN f[n - 1]
                                   ELSE Append(f[n - 1], Seen(q[n]))
  BY <1>1, <1>2
<1>4. \A n \in 0..m : n # m => n + 1 \in 1..m /\ n + 1 - 1 = n
  OBVIOUS
<1> QED
  <2>1. ASSUME NEW n \in 0..m, n # m
        PROVE  f[n + 1] = IF q[n + 1].type = "ping" THEN f[n] ELSE Append(f[n], Seen(q[n + 1]))
    <3>1. n + 1 \in 1..m /\ n + 1 - 1 = n
      BY <1>4, <2>1
    <3>2. f[n + 1] = IF q[n + 1].type = "ping" THEN f[n + 1 - 1]
                     ELSE Append(f[n + 1 - 1], Seen(q[n + 1]))
      BY <1>3, <3>1
    <3> QED BY <3>1, <3>2
  <2> QED BY <1>3, <2>1

\* It is a sequence of events as the application sees them.
LEMMA DeliveryType ==
  ASSUME NEW S, NEW q \in Seq(S)
  PROVE  Delivery(q) \in Seq({Seen(e) : e \in S})
<1> DEFINE T == {Seen(e) : e \in S}
           m == Len(q)
<1>1. m \in Nat /\ \A n \in 1..m : q[n] \in S
  OBVIOUS
<1>2. PICK f : Tells(f, q, m) /\ Delivery(q) = f[m]
  BY DeliveryIs
<1> DEFINE G == {n \in 0..m : f[n] \in Seq(T)}
<1>3. 0 \in G
  <2>1. f[0] = <<>> /\ 0 \in 0..m
    BY <1>1, <1>2, ToldAt
  <2> HIDE DEF T
  <2>2. <<>> \in Seq(T)
    OBVIOUS
  <2> QED BY <2>1, <2>2
<1>4. ASSUME NEW n \in 0..m, n \in G, n # m  PROVE n + 1 \in G
  <2>1. n + 1 \in 1..m /\ n + 1 - 1 = n /\ n + 1 # 0 /\ n + 1 \in 0..m
    BY <1>1, <1>4
  <2>2. f[n + 1] = IF q[n + 1].type = "ping" THEN f[n] ELSE Append(f[n], Seen(q[n + 1]))
    BY <1>1, <1>2, <1>4, ToldAt
  <2>3. Seen(q[n + 1]) \in T /\ f[n] \in Seq(T)
    BY <1>1, <1>4, <2>1
  <2> HIDE DEF T
  <2>4. f[n + 1] \in Seq(T)
    BY <2>2, <2>3
  <2> QED BY <2>1, <2>4
<1> HIDE DEF G
<1>5. 0..m \subseteq G
  BY <1>1, <1>3, <1>4, UpTo
<1> QED BY <1>1, <1>2, <1>5 DEF G

\* Two queues that begin with the same n events are told of alike.
LEMMA ToldAgree ==
  ASSUME NEW q, NEW p, NEW m \in Nat, NEW n \in Nat, m <= n, NEW f, NEW g,
         Tells(f, q, m), Tells(g, p, n), \A k \in 1..m : p[k] = q[k]
  PROVE  f[m] = g[m]
<1> DEFINE G == {k \in 0..m : f[k] = g[k]}
<1>1. 0 \in G
  <2>1. f[0] = <<>>
    BY ToldAt
  <2>2. g[0] = <<>>
    BY ToldAt
  <2> QED BY <2>1, <2>2
<1>2. ASSUME NEW k \in 0..m, k \in G, k # m  PROVE k + 1 \in G
  <2>1. k + 1 \in 1..m /\ k + 1 - 1 = k /\ k + 1 # 0 /\ k + 1 \in 0..m /\ k + 1 \in 0..n
    BY <1>2
  <2>2. /\ f[k + 1] = IF q[k + 1].type = "ping" THEN f[k] ELSE Append(f[k], Seen(q[k + 1]))
        /\ g[k + 1] = IF p[k + 1].type = "ping" THEN g[k] ELSE Append(g[k], Seen(p[k + 1]))
    BY <1>2, <2>1, ToldAt
  <2> QED BY <1>2, <2>1, <2>2
<1> HIDE DEF G
<1>3. 0..m \subseteq G
  BY <1>1, <1>2, UpTo
<1> QED BY <1>3 DEF G

LEMMA DeliveryNone == Delivery(<<>>) = <<>>
<1>1. PICK f : Tells(f, <<>>, Len(<<>>)) /\ Delivery(<<>>) = f[Len(<<>>)]
  <2>1. <<>> \in Seq({})
    OBVIOUS
  <2> QED BY <2>1, DeliveryIs
<1>2. Len(<<>>) = 0
  OBVIOUS
<1> QED BY <1>1, <1>2, ToldAt

\* An event queued last is delivered last, if at all.
LEMMA DeliveryAppend ==
  ASSUME NEW S, NEW q \in Seq(S), NEW e \in S
  PROVE  Delivery(Append(q, e)) =
           IF e.type = "ping" THEN Delivery(q) ELSE Append(Delivery(q), Seen(e))
<1> DEFINE p == Append(q, e)
           m == Len(q)
<1>1. /\ p \in Seq(S) /\ m \in Nat /\ Len(p) = m + 1 /\ m <= m + 1
      /\ p[m + 1] = e /\ \A k \in 1..m : p[k] = q[k]
  BY AppendProperties
<1> HIDE DEF p
<1>2. PICK f : Tells(f, q, m) /\ Delivery(q) = f[m]
  BY DeliveryIs
<1>3. PICK g : Tells(g, p, m + 1) /\ Delivery(p) = g[m + 1]
  BY <1>1, DeliveryIs
<1>4. m + 1 \in Nat /\ m \in 0..(m + 1) /\ m # m + 1
  BY <1>1
<1> HIDE DEF m
<1>5. f[m] = g[m]
  <2>1. Tells(f, q, m) /\ Tells(g, p, m + 1)
    BY <1>2, <1>3
  <2> QED BY <1>1, <1>4, <2>1, ToldAgree
<1>6. g[m + 1] = IF e.type = "ping" THEN g[m] ELSE Append(g[m], Seen(e))
  <2>1. g[m + 1] = IF p[m + 1].type = "ping" THEN g[m] ELSE Append(g[m], Seen(p[m + 1]))
    BY <1>3, <1>4, ToldAt
  <2> QED BY <1>1, <2>1
<1> QED BY <1>2, <1>3, <1>5, <1>6 DEF p, m

\* What the application is told of first is the first event, or nothing.
First(e) == IF e.type = "ping" THEN <<>> ELSE <<Seen(e)>>

LEMMA DeliverySplit ==
  ASSUME NEW S, NEW q \in Seq(S), q # <<>>
  PROVE  Delivery(q) = First(Head(q)) \o Delivery(Tail(q))
<1> DEFINE h == Head(q)
           t == Tail(q)
           m == Len(t)
           T == {Seen(e) : e \in S}
           P == First(h)
<1>1. /\ t \in Seq(S) /\ m \in Nat /\ Len(q) = m + 1 /\ h = q[1] /\ h \in S
      /\ \A k \in 1..m : t[k] = q[k + 1] /\ t[k] \in S
  <2>1. t \in Seq(S) /\ m = Len(q) - 1 /\ Len(q) \in Nat /\ h = q[1] /\ h \in S /\ Len(q) > 0
    OBVIOUS
  <2>2. \A k \in 1..m : t[k] = q[k + 1]
    OBVIOUS
  <2> QED BY <2>1, <2>2
<1>2. P \in Seq(T) /\ P \o <<>> = P
  <2>1. Seen(h) \in T
    BY <1>1
  <2> HIDE DEF T, h
  <2>2. P \in Seq(T)
    BY <2>1 DEF First
  <2> QED BY <2>2, ConcatEmptySeq
<1> HIDE DEF h, t, m, T, P
<1>3. PICK f : Tells(f, q, m + 1) /\ Delivery(q) = f[m + 1]
  BY <1>1, DeliveryIs
<1>4. PICK g : Tells(g, t, m) /\ Delivery(t) = g[m]
  BY <1>1, DeliveryIs DEF m
<1> DEFINE G == {k \in 0..m : f[k + 1] = P \o g[k] /\ g[k] \in Seq(T)}
<1>5. 0 \in G
  <2>1. f[0] = <<>> /\ g[0] = <<>> /\ 0 \in 0..m
    BY <1>1, <1>3, <1>4, ToldAt
  <2>2. f[1] = IF h.type = "ping" THEN f[0] ELSE Append(f[0], Seen(h))
    <3>1. m + 1 \in Nat /\ 0 \in 0..(m + 1) /\ 0 # m + 1 /\ 0 + 1 = 1
      BY <1>1
    <3> QED BY <1>1, <1>3, <3>1, ToldAt
  <2>3. f[1] = P
    BY <2>1, <2>2 DEF First, P
  <2>4. <<>> \in Seq(T)
    OBVIOUS
  <2>5. 0 + 1 = 1
    OBVIOUS
  <2> QED BY <1>2, <2>1, <2>3, <2>4, <2>5
<1>6. ASSUME NEW k \in 0..m, k \in G, k # m  PROVE k + 1 \in G
  <2>1. /\ k + 1 \in 1..m /\ k + 1 \in 0..m /\ k + 2 \in 0..(m + 1)
        /\ k + 1 \in 0..(m + 1) /\ k + 1 # m + 1 /\ k + 1 + 1 = k + 2 /\ m + 1 \in Nat
    BY <1>1, <1>6
  <2>2. g[k + 1] = IF t[k + 1].type = "ping" THEN g[k] ELSE Append(g[k], Seen(t[k + 1]))
    BY <1>1, <1>4, <1>6, ToldAt
  <2>3. f[k + 2] = IF t[k + 1].type = "ping" THEN f[k + 1] ELSE Append(f[k + 1], Seen(t[k + 1]))
    BY <1>1, <1>3, <2>1, ToldAt
  <2>4. f[k + 1] = P \o g[k] /\ g[k] \in Seq(T) /\ Seen(t[k + 1]) \in T
    BY <1>1, <1>6, <2>1 DEF T
  <2>5. P \o Append(g[k], Seen(t[k + 1])) = Append(P \o g[k], Seen(t[k + 1]))
    <3> DEFINE w == g[k]
               z == Seen(t[k + 1])
    <3>1. P \in Seq(T) /\ w \in Seq(T) /\ z \in T
      BY <1>2, <2>4
    <3> HIDE DEF w, z, G
    <3>2. P \o Append(w, z) = Append(P \o w, z)
      BY <3>1, AddedLast
    <3> QED BY <3>2 DEF w, z
  <2>6. g[k + 1] \in Seq(T)
    BY <2>2, <2>4
  <2>7. f[k + 2] = P \o g[k + 1]
    BY <2>2, <2>3, <2>4, <2>5
  <2> QED BY <2>1, <2>6, <2>7
<1> HIDE DEF G
<1>7. 0..m \subseteq G
  BY <1>1, <1>5, <1>6, UpTo
<1>8. f[m + 1] = P \o g[m]
  BY <1>1, <1>7 DEF G
<1> QED BY <1>3, <1>4, <1>8 DEF P, h, t

LEMMA DeliveryHead ==
  ASSUME NEW S, NEW q \in Seq(S), q # <<>>
  PROVE  IF Head(q).type = "ping" THEN Delivery(q) = Delivery(Tail(q))
         ELSE /\ Delivery(q) # <<>> /\ Head(Delivery(q)) = Seen(Head(q))
              /\ Tail(Delivery(q)) = Delivery(Tail(q))
<1> DEFINE T == {Seen(e) : e \in S}
           d == Delivery(Tail(q))
           s == Seen(Head(q))
<1>1. Tail(q) \in Seq(S) /\ Head(q) \in S
  OBVIOUS
<1>2. d \in Seq(T) /\ s \in T
  BY <1>1, DeliveryType
<1>3. Delivery(q) = First(Head(q)) \o d
  BY DeliverySplit
<1> HIDE DEF T, d, s
<1>4. CASE Head(q).type = "ping"
  BY <1>2, <1>3, <1>4, ConcatEmptySeq DEF First, d
<1>5. CASE Head(q).type # "ping"
  <2>1. Delivery(q) = <<s>> \o d
    BY <1>3, <1>5 DEF First, s
  <2>2. <<s>> \o d # <<>> /\ Head(<<s>> \o d) = s /\ Tail(<<s>> \o d) = d
    BY <1>2
  <2> QED BY <1>5, <2>1, <2>2 DEF s, d
<1> QED BY <1>4, <1>5

-----------------------------------------------------------------------------
(* The connections as RtTransport sees them.                               *)

LEMMA ConnsAre ==
  ASSUME WsppAssumption, Inv, OrderInv
  PROVE  /\ Attempts = {c \in Clients : IsAttempt(ws[c])}
         /\ Live = {c \in Clients : IsAttempt(ws[c]) /\ ws[c].shutdown \notin Past}
         /\ Kept = {c \in Live : c # wsClient /\ c # victim}
         /\ Current = IF wsClient \in Attempts THEN wsClient ELSE NoClient
         /\ \A c \in Clients : Sending[c] = Outstanding(c) /\ Outstanding(c) \in Nat
<1>1. \A c \in Clients : Outstanding(c) \in Nat
  <2> TAKE c \in Clients
  <2>1. ws[c].inFlight \in Nat /\ ws[c].failed \in Nat
    BY OrderFacts DEF WsType, WsppAssumption
  <2> QED BY <2>1 DEF Outstanding
<1> QED BY <1>1 DEF Attempts, Live, Kept, Current, Sending, IsAttempt, Past

\* No client that has been destroyed is a connection that has not ended: the
\* call that let go of it may return.
LEMMA VictimEnded ==
  ASSUME WsppAssumption, Inv, OrderInv, VictimGone
  PROVE  /\ victim \notin Live /\ Kept = {c \in Live : c # wsClient}
         /\ Transport!Returned
<1>1. victim \notin Live
  <2> SUFFICES ASSUME victim \in Live PROVE FALSE
    OBVIOUS
  <2>1. victim \in Clients /\ IsAttempt(ws[victim]) /\ ws[victim].shutdown \notin Past
    BY ConnsAre
  <2>2. ws[victim].state = "DESTROYED" /\ Life(ws[victim])
    BY <2>1, OrderFacts DEF VictimGone
  <2> QED BY <2>1, <2>2 DEF IsAttempt, Life, Past
<1>2. Kept = {c \in Live : c # wsClient}
  BY <1>1 DEF Kept
<1>3. wsClient \in Live => Current = wsClient
  BY ConnsAre
<1> QED BY <1>1, <1>2, <1>3 DEF Transport!Returned

LEMMA ConnsSame ==
  ASSUME \A d \in Clients : (IsAttempt(ws'[d]) <=> IsAttempt(ws[d])) /\ SamePast(d)
  PROVE  UNCHANGED <<Attempts, Live>>
<1>1. Attempts' = Attempts
  BY DEF Attempts, IsAttempt
<1>2. Live' = Live
  BY <1>1 DEF Live, SamePast, Past, Attempts
<1> QED BY <1>1, <1>2

LEMMA SendingSame ==
  ASSUME \A d \in Clients : SameSends(d)
  PROVE  Sending' = Sending
BY DEF Sending, SameSends, Outstanding

LEMMA SendingOne ==
  ASSUME NEW c \in Clients, Only(c)
  PROVE  Sending' = [Sending EXCEPT ![c] = Outstanding(c)'] /\ Sending[c] = Outstanding(c)
BY DEF Sending, Only, Outstanding

LEMMA UnansweredSame ==
  ASSUME \A d \in Clients : SameOpening(d)
  PROVE  Unanswered' = Unanswered
BY DEF Unanswered, SameOpening

\* What a step of client c alone leaves as it was.
LEMMA DoesConns ==
  ASSUME NEW c \in Clients, Does(c), UNCHANGED <<wsClient, victim>>
  PROVE  /\ UNCHANGED <<Attempts, Current>>
         /\ SamePast(c) => UNCHANGED <<Live, Kept>>
         /\ SameSends(c) => Sending' = Sending
         /\ SameOpening(c) => Unanswered' = Unanswered
<1>1. \A d \in Clients : d # c => ws'[d] = ws[d]
  BY DEF Does, Only
<1>2. \A d \in Clients : IsAttempt(ws'[d]) <=> IsAttempt(ws[d])
  BY <1>1 DEF Does, Goes
<1>3. Attempts' = Attempts
  BY <1>2 DEF Attempts, IsAttempt
<1>4. Current' = Current
  BY <1>3 DEF Current
<1>5. ASSUME SamePast(c)  PROVE UNCHANGED <<Live, Kept>>
  <2>1. \A d \in Clients : SamePast(d)
    BY <1>1, <1>5 DEF SamePast
  <2>2. Live' = Live
    BY <1>2, <2>1, ConnsSame
  <2> QED BY <2>2 DEF Kept
<1>6. SameSends(c) => Sending' = Sending
  <2>1. SameSends(c) => \A d \in Clients : SameSends(d)
    BY <1>1 DEF SameSends
  <2> QED BY <2>1, SendingSame
<1>7. SameOpening(c) => Unanswered' = Unanswered
  <2>1. SameOpening(c) => \A d \in Clients : SameOpening(d)
    BY <1>1 DEF SameOpening
  <2> QED BY <2>1, UnansweredSame
<1> QED BY <1>3, <1>4, <1>5, <1>6, <1>7

\* Delivering is a Boolean.
LEMMA DeliveringSame ==
  /\ ~Delivering /\ ~Delivering' => Delivering' = Delivering
  /\ Delivering \in BOOLEAN
BY DEF Delivering

\* A thread of a client queues an event: no callback runs meanwhile.
LEMMA Enqueued ==
  ASSUME Inv, NEW e \in EventType, ExecuteInUserThread(e), UNCHANGED pc
  PROVE  /\ ~Delivering /\ ~Delivering'
         /\ Delivery(queue)' = IF e.type = "ping" THEN Delivery(queue)
                               ELSE Append(Delivery(queue), Seen(e))
<1>1. pc # "callback" /\ queue' = Append(queue, e) /\ queue \in Seq(EventType)
  BY DEF ExecuteInUserThread, MutexHeld, Inv, TypeOK
<1> QED BY <1>1, DeliveryAppend DEF Delivering

-----------------------------------------------------------------------------
(* Steps of the clients' threads.                                          *)

LEMMA WsStepTransport ==
  ASSUME WsppAssumption, NWebsocketAssumption, Inv, Inv', OrderInv, NEW c \in Clients, WsStep(c)
  PROVE  Transport!ConnStep(c) \/ UNCHANGED Transport!transport
<1>0. /\ Lives /\ ws \in [Clients -> WsType] /\ ws' \in [Clients -> WsType]
      /\ Life(ws[c]) /\ ws[c] \in WsType
  BY OrderFacts DEF Inv, TypeOK
<1>1. UNCHANGED <<pc, op, victim, connected, wsClient>>
  BY DEF WsStep, ClientStep, FrameStep, OnSocketMessage, OnOpened, OnClosed,
     OnSendFailed, notQueue, user
<1>2. /\ ClientStep(c) => Alone(c) \/ SendRuns(c, wsClient = c)
      /\ FrameStep(c) \/ OnSocketMessage(c) => Alone(c)
      /\ OnOpened(c) => ConnectContinues(c)
      /\ OnSendFailed(c) => SendContinues(c)
      /\ OnClosed(c) => ShutdownHandler(c)
  BY DEF ClientStep, FrameStep, OnSocketMessage, OnOpened, OnSendFailed, OnClosed, Alone
<1>3. /\ Does(c)
      /\ Alone(c) => SamePast(c) /\ SameSends(c) /\ SameOpening(c)
      /\ SendRuns(c, wsClient = c) \/ OnSendFailed(c) => SamePast(c) /\ SameOpening(c)
      /\ OnOpened(c) => SamePast(c) /\ SameSends(c)
      /\ OnClosed(c) => SameSends(c) /\ SameOpening(c)
  BY <1>0, <1>2, AloneGoes, SendRunsGoes, OpenedGoes, SendEndsGoes, ClosedGoes DEF WsStep
<1>4. /\ UNCHANGED <<Attempts, Current>>
      /\ SamePast(c) => UNCHANGED <<Live, Kept>>
      /\ SameSends(c) => Sending' = Sending
      /\ SameOpening(c) => Unanswered' = Unanswered
  BY <1>1, <1>3, DoesConns
<1>5. UNCHANGED queue => Delivering' = Delivering /\ Delivery(queue)' = Delivery(queue)
  BY <1>1 DEF Delivering
<1>6. CASE UNCHANGED queue /\ Alone(c)
  BY <1>1, <1>3, <1>4, <1>5, <1>6 DEF Transport!transport
<1>7. CASE UNCHANGED queue /\ SendRuns(c, wsClient = c)
  <2>1. /\ Outstanding(c) \in Nat /\ Outstanding(c) > 0
        /\ Outstanding(c)' \in {Outstanding(c), Outstanding(c) - 1}
    BY <1>0, <1>7, SendRunsGoes
  <2>2. UNCHANGED <<connected, Current, Delivering, Attempts, Unanswered, Live, Kept>>
        /\ Delivery(queue)' = Delivery(queue)
    BY <1>1, <1>3, <1>4, <1>5, <1>7
  <2>3. Sending' = [Sending EXCEPT ![c] = Outstanding(c)'] /\ Sending[c] = Outstanding(c)
    BY <1>3, SendingOne DEF Does
  <2>4. CASE Outstanding(c)' = Outstanding(c)
    <3>1. Sending' = Sending
      BY <2>3, <2>4 DEF Sending
    <3> QED BY <2>2, <3>1 DEF Transport!transport
  <2>5. CASE Outstanding(c)' = Outstanding(c) - 1
    <3>1. Sending' = [Sending EXCEPT ![c] = @ - 1] /\ Sending[c] > 0
      BY <2>1, <2>3, <2>5
    <3>2. Transport!SendEnds(c, TRUE)
      BY <2>2, <3>1 DEF Transport!SendEnds, Transport!links
    <3> QED BY <3>2 DEF Transport!ConnStep
  <2> QED BY <2>1, <2>4, <2>5
<1>8. CASE OnSocketMessage(c)
  <2> DEFINE e == Event(ws[c].io, c)
  <2>1. ws[c].io \in {"message", "ping"} /\ ExecuteInUserThread(e)
    BY <1>8 DEF OnSocketMessage, FrameHandled, WsppAssumption
  <2>2. e \in EventType /\ e.client = c /\ e.type = ws[c].io
    BY <2>1 DEF Event, EventType, EventTypes
  <2>3. c \in Live
    BY <1>0, <2>1, ConnsAre DEF Life, IsAttempt, Past, WsType
  <2>4. UNCHANGED <<connected, Current, Attempts, Unanswered, Live, Kept, Sending>>
    BY <1>1, <1>2, <1>3, <1>4, <1>8
  <2> HIDE DEF e
  <2>5. /\ ~Delivering /\ ~Delivering'
        /\ Delivery(queue)' = IF e.type = "ping" THEN Delivery(queue)
                              ELSE Append(Delivery(queue), Seen(e))
    BY <1>1, <2>1, <2>2, Enqueued
  <2>6. CASE ws[c].io = "ping"
    BY <2>2, <2>4, <2>5, <2>6, DeliveringSame DEF Transport!transport
  <2>7. CASE ws[c].io = "message"
    <3>1. Seen(e) = Transport!Event("message", c, [type |-> "message"])
      BY <2>2, <2>7 DEF Seen, Transport!Event
    <3>2. Transport!Message(c, [type |-> "message"])
      BY <2>2, <2>3, <2>4, <2>5, <2>7, <3>1, DeliveringSame
      DEF Transport!Message, Transport!Enqueue, Transport!links
    <3> QED BY <3>2 DEF Transport!ConnStep
  <2> QED BY <2>1, <2>6, <2>7
<1>9. CASE OnOpened(c)
  <2> DEFINE type == IF ws[c].connectTce = "set" THEN "opened" ELSE "error"
             e == Event(type, c)
  <2>1. ExecuteInUserThread(e) /\ ConnectContinues(c)
    BY <1>9 DEF OnOpened
  <2>2. type \in {"opened", "error"} /\ e \in EventType /\ e.client = c /\ e.type = type
    BY DEF Event, EventType, EventTypes
  <2>3. ws[c].opening /\ ~ws'[c].opening /\ \A d \in Clients : d # c => ws'[d] = ws[d]
    BY <1>0, <2>1, OpenedGoes DEF Does, Only
  <2>4. c \in Unanswered /\ Unanswered' = Unanswered \ {c}
    BY <2>3 DEF Unanswered
  <2>5. UNCHANGED <<connected, Current, Attempts, Live, Kept, Sending>>
    BY <1>1, <1>3, <1>4, <1>9
  <2> HIDE DEF e, type
  <2>6. /\ ~Delivering /\ ~Delivering'
        /\ Delivery(queue)' = Append(Delivery(queue), Seen(e))
    BY <1>1, <2>1, <2>2, Enqueued
  <2>7. Seen(e) = Transport!Event(type, c, Transport!NoMessage)
    BY <2>2 DEF Seen, Transport!Event, Transport!NoMessage
  <2>8. Transport!Answer(c, type)
    BY <2>4, <2>5, <2>6, <2>7, DeliveringSame DEF Transport!Answer, Transport!Enqueue
  <2> QED BY <2>2, <2>8 DEF Transport!ConnStep
<1>10. CASE OnClosed(c)
  <2> DEFINE e == [type |-> "closed", client |-> c, remote |-> ws[c].remote]
  <2>1. ExecuteInUserThread(e) /\ ShutdownHandler(c)
    BY <1>10 DEF OnClosed
  <2>2. e \in EventType /\ e.client = c /\ e.type = "closed"
    BY <1>0 DEF EventType, EventTypes, WsType
  <2>3. /\ ws[c].shutdown = "handler" /\ ws'[c].shutdown = "signal"
        /\ ws[c].state = "CLOSED" /\ ws[c].connectTce # "unset"
        /\ \A d \in Clients : d # c => ws'[d] = ws[d]
    BY <1>0, <2>1, ClosedGoes DEF Does, Only
  <2>4. c \in Live
    BY <2>3, ConnsAre DEF IsAttempt, Past
  <2>5. UNCHANGED <<connected, Current, Attempts, Unanswered, Sending>>
    BY <1>1, <1>3, <1>4, <1>10
  <2>6. Live' = Live \ {c}
    BY <2>3, <2>5 DEF Live, Attempts
  <2>7. Kept' = Kept \ {c}
    BY <1>1, <2>6 DEF Kept
  <2> HIDE DEF e
  <2>8. /\ ~Delivering /\ ~Delivering'
        /\ Delivery(queue)' = Append(Delivery(queue), Seen(e))
    BY <1>1, <2>1, <2>2, Enqueued
  <2>9. Seen(e) = Transport!Event("closed", c, Transport!NoMessage)
    BY <2>2 DEF Seen, Transport!Event, Transport!NoMessage
  <2>10. Transport!End(c)
    BY <2>4, <2>5, <2>6, <2>7, <2>8, <2>9, DeliveringSame DEF Transport!End, Transport!Enqueue
  <2> QED BY <2>10 DEF Transport!ConnStep
<1>11. CASE OnSendFailed(c)
  <2> DEFINE e == Event("error", c)
  <2>1. ExecuteInUserThread(e) /\ SendContinues(c)
    BY <1>11 DEF OnSendFailed
  <2>2. e \in EventType /\ e.client = c /\ e.type = "error"
    BY DEF Event, EventType, EventTypes
  <2>3. /\ Outstanding(c) \in Nat /\ Outstanding(c) > 0
        /\ Outstanding(c)' = Outstanding(c) - 1
    BY <1>0, <2>1, SendEndsGoes
  <2>4. Sending' = [Sending EXCEPT ![c] = Outstanding(c)'] /\ Sending[c] = Outstanding(c)
    BY <1>3, SendingOne DEF Does
  <2>5. Sending' = [Sending EXCEPT ![c] = @ - 1] /\ Sending[c] > 0
    BY <2>3, <2>4
  <2>6. UNCHANGED <<connected, Current, Attempts, Unanswered, Live, Kept>>
    BY <1>1, <1>3, <1>4, <1>11
  <2> HIDE DEF e
  <2>7. /\ ~Delivering /\ ~Delivering'
        /\ Delivery(queue)' = Append(Delivery(queue), Seen(e))
    BY <1>1, <2>1, <2>2, Enqueued
  <2>8. Seen(e) = Transport!Event("error", c, Transport!NoMessage)
    BY <2>2 DEF Seen, Transport!Event, Transport!NoMessage
  <2>9. Transport!SendEnds(c, FALSE)
    BY <2>5, <2>6, <2>7, <2>8, DeliveringSame
    DEF Transport!SendEnds, Transport!Enqueue, Transport!links
  <2> QED BY <2>9 DEF Transport!ConnStep
<1>12. ClientStep(c) \/ FrameStep(c) => UNCHANGED queue
  BY DEF ClientStep, FrameStep
<1> QED BY <1>2, <1>6, <1>7, <1>8, <1>9, <1>10, <1>11, <1>12 DEF WsStep

-----------------------------------------------------------------------------
(* Steps of the application's thread.                                      *)

\* A call that waited for a destructor returns: nothing changes but who waits.
LEMMA ReturnsTransport ==
  ASSUME WsppAssumption, Inv, OrderInv, VictimGone, victim' = NoClient,
         UNCHANGED <<ws, wsClient, connected, queue>>, Delivering' = Delivering
  PROVE  UNCHANGED Transport!transport
<1>1. UNCHANGED <<Attempts, Unanswered, Sending>> /\ Delivery(queue)' = Delivery(queue)
  BY DEF Attempts, Unanswered, Sending, Outstanding
<1>2. UNCHANGED <<Current, Live>>
  BY <1>1 DEF Current, Live
<1>3. Kept' = Kept
  <2>1. NoClient \notin Live
    BY <1>1, ConnsAre, OrderFacts
  <2>2. Kept' = {c \in Live : c # wsClient}
    BY <1>2, <2>1 DEF Kept
  <2> QED BY <2>2, VictimEnded
<1> QED BY <1>1, <1>2, <1>3 DEF Transport!transport

\* Steps that leave the clients as they are.
SameClients == UNCHANGED <<ws, wsClient, victim>>

LEMMA SameClientsConns ==
  ASSUME SameClients
  PROVE  UNCHANGED <<Attempts, Unanswered, Live, Kept, Current, Sending>>
<1>1. UNCHANGED <<Attempts, Unanswered, Sending>>
  BY DEF SameClients, Attempts, Unanswered, Sending, Outstanding
<1>2. UNCHANGED <<Current, Live>>
  BY <1>1 DEF SameClients, Current, Live
<1> QED BY <1>1, <1>2 DEF SameClients, Kept

\* While tick() runs its loop no call is in progress.
LEMMA NoCall ==
  ASSUME WsppAssumption, Inv, OrderInv, op = "none"
  PROVE  VictimGone /\ victim = NoClient /\ Transport!Returned
<1>1. VictimGone /\ victim = NoClient
  BY DEF Inv, CallOK, VictimGone
<1> QED BY <1>1, VictimEnded

\* tick() delivers the first event; a ping calls no callback.
LEMMA FireTransport ==
  ASSUME WsppAssumption, Inv, OrderInv, Fire
  PROVE  Transport!Deliver \/ UNCHANGED Transport!transport
<1>1. /\ pc = "drain" /\ pc' = "callback" /\ op = "none" /\ UNCHANGED queue
      /\ queue \in Seq(EventType) /\ queue # <<>>
  BY DEF Fire, Inv, CallOK, TypeOK
<1>2. UNCHANGED <<Attempts, Unanswered, Live, Kept, Current, Sending>>
      /\ Delivery(queue)' = Delivery(queue)
  BY <1>1, SameClientsConns DEF Fire, SameClients
<1> DEFINE h == Head(queue)
<1>3. CASE h.type = "ping"
  <2>1. connected' = connected
    BY <1>3 DEF Fire
  <2>2. ~Delivering /\ ~Delivering'
    BY <1>1, <1>3 DEF Delivering
  <2> QED BY <1>2, <2>1, <2>2, DeliveringSame DEF Transport!transport
<1>4. CASE h.type # "ping"
  <2>1. ~Delivering /\ Delivering'
    BY <1>1, <1>4 DEF Delivering
  <2>2. Delivery(queue) # <<>> /\ Head(Delivery(queue)).type = h.type
    <3>1. Delivery(queue) # <<>> /\ Head(Delivery(queue)) = Seen(h)
      BY <1>1, <1>4, DeliveryHead
    <3>2. Seen(h).type = h.type
      BY DEF Seen
    <3> HIDE DEF h
    <3> QED BY <3>1, <3>2
  <2>3. connected' = CASE h.type = "opened" -> TRUE
                       [] h.type = "closed" -> FALSE
                       [] OTHER -> connected
    BY DEF Fire
  <2> HIDE DEF h
  <2>4. connected' = CASE Head(Delivery(queue)).type = "opened" -> TRUE
                       [] Head(Delivery(queue)).type = "closed" -> FALSE
                       [] OTHER -> connected
    BY <2>2, <2>3
  <2>5. Delivering' = TRUE
    BY <2>1 DEF Delivering
  <2>6. Transport!Returned
    BY <1>1, NoCall
  <2> QED BY <1>2, <2>1, <2>2, <2>4, <2>5, <2>6 DEF Transport!Deliver, Transport!links
<1> QED BY <1>3, <1>4

\* The callback returns, and the event is popped.
LEMMA CallbackReturnsTransport ==
  ASSUME WsppAssumption, Inv, OrderInv, CallbackReturns
  PROVE  Transport!DeliverReturns \/ UNCHANGED Transport!transport
<1>1. /\ pc = "callback" /\ pc' = "drain" /\ op = "none" /\ queue' = Tail(queue)
      /\ queue \in Seq(EventType) /\ queue # <<>> /\ UNCHANGED connected
  BY DEF CallbackReturns, Inv, TypeOK
<1>2. UNCHANGED <<Attempts, Unanswered, Live, Kept, Current, Sending>>
  BY SameClientsConns DEF CallbackReturns, SameClients
<1>3. ~Delivering'
  BY <1>1 DEF Delivering
<1>4. CASE Head(queue).type = "ping"
  <2>1. Delivery(queue)' = Delivery(queue)
    BY <1>1, <1>4, DeliveryHead
  <2>2. ~Delivering
    BY <1>4 DEF Delivering
  <2> QED BY <1>1, <1>2, <1>3, <2>1, <2>2, DeliveringSame DEF Transport!transport
<1>5. CASE Head(queue).type # "ping"
  <2>1. Delivery(queue)' = Tail(Delivery(queue))
    BY <1>1, <1>5, DeliveryHead
  <2>2. Delivering /\ Delivering' = FALSE
    BY <1>1, <1>5 DEF Delivering
  <2>3. Transport!Returned
    BY <1>1, NoCall
  <2> QED BY <1>1, <1>2, <2>1, <2>2, <2>3 DEF Transport!DeliverReturns, Transport!links
<1> QED BY <1>4, <1>5

\* The callback throws, and the event stays the first.
LEMMA CallbackThrowsTransport ==
  ASSUME WsppAssumption, Inv, OrderInv, CallbackThrows
  PROVE  Transport!DeliverThrows
<1>1. /\ pc = "callback" /\ pc' = "idle" /\ op = "none" /\ Head(queue).type # "ping"
      /\ UNCHANGED <<connected, queue>>
  BY DEF CallbackThrows, transport
<1>2. UNCHANGED <<Attempts, Unanswered, Live, Kept, Current, Sending>>
  BY SameClientsConns DEF CallbackThrows, SameClients, transport
<1>3. Delivery(queue)' = Delivery(queue)
  BY <1>1
<1>4. Delivering /\ Delivering' = FALSE
  BY <1>1 DEF Delivering
<1>5. Transport!Returned
  BY <1>1, NoCall
<1> QED BY <1>1, <1>2, <1>3, <1>4, <1>5 DEF Transport!DeliverThrows, Transport!links

\* What a call that lets go of the client leaves of the connections.
LEMMA LetGoTransport ==
  ASSUME WsppAssumption, Inv, OrderInv, op = "none", wsClient # NoClient,
         UNCHANGED <<Attempts, Live>>,
         wsClient' = NoClient \/ (wsClient' \in Clients \ Attempts),
         victim' = IF ws[wsClient].inFlight = 0 THEN wsClient ELSE NoClient
  PROVE  Transport!LetGo /\ (Current = NoClient => Kept' = Kept)
<1> DEFINE c == wsClient
<1>1. /\ c \in Clients /\ ws[c] \in WsType /\ NoClient \notin Attempts /\ NoClient \notin Live
      /\ Live \subseteq Attempts /\ NoClient \notin Clients
  BY OrderFacts, ConnsAre
<1>2. Kept = {d \in Live : d # c}
  BY NoCall, VictimEnded
<1>3. Current' = NoClient
  BY <1>1 DEF Current
<1>4. Kept' = {d \in Live : d # victim'}
  BY <1>1 DEF Kept
<1>5. Sending[c] = Outstanding(c) /\ (ws[c].inFlight # 0 => Outstanding(c) > 0)
  <2>1. ws[c].inFlight \in Nat /\ ws[c].failed \in Nat
    BY <1>1 DEF WsType, WsppAssumption
  <2> QED BY <1>1, <2>1, ConnsAre DEF Outstanding
<1>6. c \in Live => Current = c
  BY <1>1, ConnsAre
<1> HIDE DEF c
<1>7. CASE victim' = c
  BY <1>2, <1>3, <1>4, <1>7 DEF Transport!LetGo, NoClient, Transport!NoConn
<1>8. CASE victim' = NoClient /\ ws[c].inFlight # 0
  <2>1. Kept' = Live
    BY <1>1, <1>4, <1>8
  <2>2. c \notin Live => Kept' = Kept
    BY <1>2, <2>1
  <2>3. c \in Live => Kept' = Kept \cup {Current} /\ Sending[Current] > 0 /\ Current \in Live
    BY <1>2, <1>5, <1>6, <1>8, <2>1
  <2>4. Current = NoClient => c \notin Live
    BY <1>1, <1>6
  <2>5. Current' = Transport!NoConn
    BY <1>3 DEF NoClient, Transport!NoConn
  <2> QED BY <2>2, <2>3, <2>4, <2>5 DEF Transport!LetGo
<1> QED BY <1>7, <1>8 DEF c

\* disconnect(), by whoever calls it.
LEMMA DisconnectingTransport ==
  ASSUME WsppAssumption, Inv, OrderInv, NEW o, op = "none", Disconnecting(o)
  PROVE  Transport!Disconnect
<1> DEFINE c == wsClient
           k == Close(ws[c])
<1> USE OrderFacts
<1>1. /\ c \in Clients /\ ws[c] \in WsType /\ Life(ws[c]) /\ ws[c].state # "DESTROYED"
      /\ ws' = [ws EXCEPT ![c] = Release(k)] /\ wsClient' = NoClient
      /\ victim' = IF k.inFlight = 0 THEN c ELSE NoClient
      /\ connected' = FALSE /\ UNCHANGED <<pc, queue>>
  <2>1. c \in Clients /\ ws[c] \in WsType /\ Life(ws[c]) /\ ws[c].state # "DESTROYED"
    BY DEF Disconnecting, Owned
  <2> QED BY <2>1 DEF Disconnecting, LetGo
<1>2. /\ k.inFlight = ws[c].inFlight
      /\ IsAttempt(ws'[c]) <=> IsAttempt(ws[c])
      /\ SamePast(c) /\ SameSends(c) /\ SameOpening(c)
  <2>1. /\ k \in WsType /\ k.inFlight = ws[c].inFlight /\ k.failed = ws[c].failed
        /\ k.opening = ws[c].opening /\ k.shutdown = ws[c].shutdown
        /\ k.connectTce = ws[c].connectTce
        /\ k.state = IF ws[c].state = "CONNECTED" THEN "CLOSING" ELSE ws[c].state
    BY <1>1 DEF Close, WsType
  <2> HIDE DEF k
  <2>2. /\ ws'[c].inFlight = k.inFlight /\ ws'[c].failed = k.failed
        /\ ws'[c].opening = k.opening /\ ws'[c].shutdown = k.shutdown
        /\ ws'[c].connectTce = k.connectTce /\ ws'[c].state = k.state
    BY <1>1, <2>1 DEF Release, WsType
  <2> QED BY <2>1, <2>2 DEF SamePast, SameSends, SameOpening, IsAttempt
<1> HIDE DEF k
<1>3. \A d \in Clients : d # c => ws'[d] = ws[d]
  BY <1>1
<1>4. /\ \A d \in Clients : (IsAttempt(ws'[d]) <=> IsAttempt(ws[d])) /\ SamePast(d)
      /\ \A d \in Clients : SameSends(d) /\ SameOpening(d)
  BY <1>2, <1>3 DEF SamePast, SameSends, SameOpening
<1>5. UNCHANGED <<Attempts, Live, Sending, Unanswered>>
  BY <1>4, ConnsSame, SendingSame, UnansweredSame
<1>6. c # NoClient /\ Transport!LetGo
  BY <1>1, <1>2, <1>5, LetGoTransport
<1>7. Transport!Returned
  BY NoCall
<1>8. Delivery(queue)' = Delivery(queue) /\ Delivering' = Delivering
  BY <1>1 DEF Delivering
<1> QED BY <1>1, <1>5, <1>6, <1>7, <1>8 DEF Transport!Disconnect

\* connect() makes a client, and lets go of the one it had.
LEMMA ConnectStartTransport ==
  ASSUME WsppAssumption, Inv, OrderInv, ConnectStart
  PROVE  Transport!Replace \/ UNCHANGED Transport!transport
<1> DEFINE n == created + 1
           c == wsClient
<1> USE OrderFacts
<1>1. /\ n \in Clients /\ c # n /\ ws[n] = FreshWs /\ op = "none" /\ victim = NoClient
      /\ wsClient' = n /\ UNCHANGED <<pc, queue, connected>>
  <2>1. n \in Clients /\ n \in Nat /\ created < n /\ c # n
    BY DEF ConnectStart, Clients, NoClient
  <2>2. ws[n] = FreshWs
    BY <2>1 DEF Inv, TypeOK
  <2> QED BY <2>1, <2>2 DEF ConnectStart, MayCall, Inv, CallOK
<1>2. /\ ws'[n] = [FreshWs EXCEPT !.state = "CREATED"]
      /\ \A d \in Clients : d # n /\ d # c => ws'[d] = ws[d]
      /\ c # NoClient => /\ c \in Clients /\ ws'[c] = Release(ws[c])
                         /\ victim' = IF ws[c].inFlight = 0 THEN c ELSE NoClient
      /\ c = NoClient => victim' = NoClient
  <2>1. CASE c = NoClient
    BY <1>1, <2>1 DEF ConnectStart, Create
  <2>2. CASE c # NoClient
    <3>1. c \in Clients
      BY <2>2
    <3>2. Create(n)[c] = ws[c] /\ Create(n)[n] = [ws[n] EXCEPT !.state = "CREATED"]
      BY <1>1, <3>1 DEF Create
    <3>3. /\ ws' = [Create(n) EXCEPT ![c] = Release(@)]
          /\ victim' = IF Create(n)[c].inFlight = 0 THEN c ELSE NoClient
      BY <2>2 DEF ConnectStart, LetGo
    <3> QED BY <1>1, <2>2, <3>1, <3>2, <3>3 DEF Create
  <2> QED BY <2>1, <2>2
<1> HIDE DEF n
<1>3. ASSUME NEW d \in Clients
      PROVE  /\ IsAttempt(ws'[d]) <=> IsAttempt(ws[d])
             /\ SamePast(d) /\ SameSends(d) /\ SameOpening(d)
  <2>1. CASE d = n
    BY <1>1, <1>2, <2>1 DEF FreshWs, IsAttempt, SamePast, SameSends, SameOpening
  <2>2. CASE d # n /\ d # c
    BY <1>2, <2>2 DEF SamePast, SameSends, SameOpening
  <2>3. CASE d = c /\ d # n
    <3>1. ws'[c] = Release(ws[c]) /\ ws[c] \in WsType
      BY <1>2, <2>3
    <3> QED BY <2>3, <3>1 DEF Release, WsType, IsAttempt, SamePast, SameSends, SameOpening
  <2> QED BY <2>1, <2>2, <2>3
<1>4. UNCHANGED <<Attempts, Live, Sending, Unanswered>>
  BY <1>3, ConnsSame, SendingSame, UnansweredSame
<1>5. n \notin Attempts
  BY <1>1, ConnsAre DEF IsAttempt, FreshWs
<1>6. c # NoClient => Transport!LetGo /\ (Current = NoClient => Kept' = Kept)
  BY <1>1, <1>2, <1>4, <1>5, LetGoTransport
<1>7. Delivery(queue)' = Delivery(queue) /\ Delivering' = Delivering
  BY <1>1 DEF Delivering
<1>8. CASE Current # NoClient
  <2>1. c # NoClient
    BY <1>8 DEF Current
  <2>2. Transport!Returned
    BY <1>1, NoCall
  <2>3. Current # Transport!NoConn
    BY <1>8 DEF NoClient, Transport!NoConn
  <2> QED BY <1>1, <1>4, <1>6, <1>7, <2>1, <2>2, <2>3 DEF Transport!Replace
<1>9. CASE Current = NoClient
  <2>1. Current' = NoClient
    BY <1>1, <1>4, <1>5 DEF Current
  <2>2. Kept' = Kept
    <3>1. CASE c # NoClient
      BY <1>6, <1>9, <3>1
    <3>2. CASE c = NoClient
      <4>1. n \notin Live
        BY <1>5, ConnsAre
      <4> QED BY <1>1, <1>2, <1>4, <3>2, <4>1, ConnsAre DEF Kept
    <3> QED BY <3>1, <3>2
  <2> QED BY <1>1, <1>4, <1>7, <1>9, <2>1, <2>2 DEF Transport!transport
<1> QED BY <1>8, <1>9

\* connect() starts the attempt.
LEMMA ConnectGoTransport ==
  ASSUME WsppAssumption, Inv, OrderInv, ConnectGo
  PROVE  Transport!Connect(wsClient)
<1> DEFINE c == wsClient
<1> USE OrderFacts
<1>1. /\ c \in Clients /\ ws[c].state = "CREATED" /\ ws[c] \in WsType /\ Life(ws[c])
      /\ c # NoClient /\ VictimGone
      /\ UNCHANGED <<pc, queue, connected, wsClient>> /\ victim' = NoClient
  BY DEF ConnectGo, Owned
<1>2. ws[c].connectTce = "unset" /\ ws[c].shutdown = "none" /\ ~IsAttempt(ws[c])
  BY <1>1 DEF Life, IsAttempt
<1>3. /\ ws'[c] = [ws[c] EXCEPT !.state = "CONNECTING", !.opening = TRUE]
      /\ \A d \in Clients : d # c => ws'[d] = ws[d]
  BY <1>1 DEF ConnectGo, Connect
<1>4. /\ ws'[c].state = "CONNECTING" /\ ws'[c].opening /\ ws'[c].shutdown = "none"
      /\ SameSends(c)
  BY <1>1, <1>2, <1>3 DEF WsType, SameSends
<1>5. Attempts' = Attempts \cup {c} /\ c \notin Attempts
  <2>1. c \notin Attempts /\ \A d \in Clients : d \in Attempts' <=> d \in Attempts \cup {c}
    BY <1>1, <1>2, <1>3, <1>4 DEF Attempts, IsAttempt
  <2>2. Attempts' \subseteq Clients /\ Attempts \cup {c} \subseteq Clients
    BY <1>1 DEF Attempts
  <2> QED BY <2>1, <2>2
<1>6. Live' = Live \cup {c}
  <2>1. Attempts \subseteq Clients
    BY DEF Attempts
  <2>2. \A d \in Attempts : ws'[d] = ws[d]
    BY <1>3, <1>5, <2>1
  <2> QED BY <1>4, <1>5, <2>2 DEF Live
<1>7. Unanswered' = Unanswered \cup {c}
  BY <1>1, <1>3, <1>4 DEF Unanswered
<1>8. Sending' = Sending
  <2>1. \A d \in Clients : SameSends(d)
    BY <1>3, <1>4 DEF SameSends
  <2> QED BY <2>1, SendingSame
<1>9. Current = NoClient /\ Current' = c
  BY <1>1, <1>5 DEF Current
<1>10. Kept' = Kept /\ Transport!Returned
  <2>1. Kept = {d \in Live : d # c} /\ Transport!Returned
    BY <1>1, VictimEnded
  <2>2. NoClient \notin Live
    BY ConnsAre
  <2>3. Kept' = {d \in Live \cup {c} : d # c}
    BY <1>1, <1>6, <2>2 DEF Kept
  <2> QED BY <2>1, <2>3
<1>11. Delivery(queue)' = Delivery(queue) /\ Delivering' = Delivering
  BY <1>1 DEF Delivering
<1>12. Current = Transport!NoConn
  BY <1>9 DEF NoClient, Transport!NoConn
<1> QED
  BY <1>1, <1>5, <1>6, <1>7, <1>8, <1>9, <1>10, <1>11, <1>12 DEF Transport!Connect

\* ... unless the address is no URI: an error event is queued at once.
LEMMA ConnectBadUrlTransport ==
  ASSUME WsppAssumption, Inv, OrderInv, ConnectBadUrl
  PROVE  Transport!BadUrl(wsClient) \/ UNCHANGED Transport!transport
<1> DEFINE c == wsClient
           e == Event("error", c)
<1> USE OrderFacts
<1>1. /\ c \in Clients /\ ws[c].state = "CREATED" /\ Life(ws[c]) /\ c # NoClient /\ VictimGone
      /\ UNCHANGED <<ws, pc, connected, wsClient>> /\ victim' = NoClient
  BY DEF ConnectBadUrl, Owned
<1>2. CASE MutexHeld
  <2>1. Attempts' = Attempts /\ Unanswered' = Unanswered /\ Sending' = Sending
    BY <1>1 DEF Attempts, Unanswered, Sending, Outstanding
  <2>2. Live' = Live /\ Current' = Current
    BY <1>1, <2>1 DEF Live, Current
  <2>3. Kept' = Kept
    <3>1. Kept = {d \in Live : d # c} /\ NoClient \notin Live
      BY <1>1, VictimEnded, ConnsAre
    <3> QED BY <1>1, <2>2, <3>1 DEF Kept
  <2>4. UNCHANGED queue
    BY <1>2 DEF ConnectBadUrl
  <2>5. Delivery(queue)' = Delivery(queue) /\ Delivering' = Delivering
    BY <1>1, <2>4 DEF Delivering
  <2> QED BY <1>1, <2>1, <2>2, <2>3, <2>5 DEF Transport!transport
<1>3. CASE ~MutexHeld
  <2>1. Attempts' = Attempts /\ Unanswered' = Unanswered /\ Sending' = Sending
    BY <1>1 DEF Attempts, Unanswered, Sending, Outstanding
  <2>2. Live' = Live /\ Current' = Current
    BY <1>1, <2>1 DEF Live, Current
  <2>3. Kept' = Kept /\ Transport!Returned
    <3>1. Kept = {d \in Live : d # c} /\ NoClient \notin Live /\ Transport!Returned
      BY <1>1, VictimEnded, ConnsAre
    <3> QED BY <1>1, <2>2, <3>1 DEF Kept
  <2>4. queue' = Append(queue, e) /\ queue \in Seq(EventType) /\ pc # "callback"
    BY <1>3 DEF ConnectBadUrl, MutexHeld, Inv, TypeOK
  <2>5. e \in EventType /\ e.type = "error" /\ e.client = c
    BY <1>1 DEF Event, EventType, EventTypes
  <2>6. Current = Transport!NoConn
    <3>1. ~IsAttempt(ws[c])
      BY <1>1 DEF Life, IsAttempt
    <3> QED BY <1>1, <3>1, ConnsAre DEF NoClient, Transport!NoConn
  <2> HIDE DEF e
  <2>7. Delivery(queue)' = Append(Delivery(queue), Seen(e))
    BY <2>4, <2>5, DeliveryAppend
  <2>8. Seen(e) = Transport!Event("error", c, Transport!NoMessage)
    BY <2>5 DEF Seen, Transport!Event, Transport!NoMessage
  <2>9. ~Delivering /\ ~Delivering'
    BY <1>1, <2>4 DEF Delivering
  <2> QED
    BY <1>1, <2>1, <2>2, <2>3, <2>6, <2>7, <2>8, <2>9, DeliveringSame
    DEF Transport!BadUrl, Transport!links
<1> QED BY <1>2, <1>3

LEMMA SendDataTransport ==
  ASSUME WsppAssumption, Inv, OrderInv, SendData
  PROVE  Transport!Send(wsClient)
<1> DEFINE c == wsClient
<1> USE OrderFacts
<1>1. /\ c \in Clients /\ ws[c] \in WsType /\ op = "none" /\ connected
      /\ UNCHANGED <<pc, victim, queue, connected, wsClient>>
  BY DEF SendData, MayCall, user, transport
<1>2. /\ \A d \in Clients : d # c => ws'[d] = ws[d]
      /\ ws'[c] = IF ws[c].connectTce = "unset" THEN [ws[c] EXCEPT !.failed = @ + 1]
                  ELSE [ws[c] EXCEPT !.inFlight = @ + 1]
  BY <1>1 DEF SendData, Send
<1>3. /\ IsAttempt(ws'[c]) <=> IsAttempt(ws[c])
      /\ SamePast(c) /\ SameOpening(c)
      /\ Outstanding(c)' = Outstanding(c) + 1
  <2>1. /\ ws'[c].state = ws[c].state /\ ws'[c].connectTce = ws[c].connectTce
        /\ ws'[c].shutdown = ws[c].shutdown /\ ws'[c].opening = ws[c].opening
    BY <1>1, <1>2 DEF WsType
  <2>2. ws'[c].inFlight + ws'[c].failed = ws[c].inFlight + ws[c].failed + 1
    <3>1. ws[c].inFlight \in Nat /\ ws[c].failed \in Nat
      BY <1>1 DEF WsType, WsppAssumption
    <3>2. \/ ws'[c].failed = ws[c].failed + 1 /\ ws'[c].inFlight = ws[c].inFlight
          \/ ws'[c].inFlight = ws[c].inFlight + 1 /\ ws'[c].failed = ws[c].failed
      BY <1>1, <1>2 DEF WsType
    <3> QED BY <3>1, <3>2
  <2>3. Outstanding(c)' = Outstanding(c) + 1
    BY <1>1, <2>2 DEF Outstanding
  <2> QED BY <2>1, <2>3 DEF IsAttempt, SamePast, SameOpening
<1>4. UNCHANGED <<Attempts, Live, Unanswered>>
  <2>1. \A d \in Clients : /\ IsAttempt(ws'[d]) <=> IsAttempt(ws[d])
                           /\ SamePast(d) /\ SameOpening(d)
    BY <1>2, <1>3 DEF SamePast, SameOpening
  <2> QED BY <2>1, ConnsSame, UnansweredSame
<1>5. UNCHANGED <<Current, Kept>>
  BY <1>1, <1>4 DEF Current, Kept
<1>6. Sending' = [Sending EXCEPT ![c] = @ + 1]
  <2>1. Sending' = [Sending EXCEPT ![c] = Outstanding(c)'] /\ Sending[c] = Outstanding(c)
    BY <1>1, <1>2, SendingOne DEF Only
  <2> QED BY <1>3, <2>1
<1>7. Delivery(queue)' = Delivery(queue) /\ Delivering' = Delivering
  BY <1>1 DEF Delivering
<1>8. Transport!Returned
  BY <1>1, NoCall
<1> QED BY <1>1, <1>4, <1>5, <1>6, <1>7, <1>8 DEF Transport!Send, Transport!links

\* Steps RtTransport does not see.
LEMMA QuietTransport ==
  ASSUME WsppAssumption, Inv, OrderInv,
         \/ TickLock \/ TickUnlock \/ DisconnectReturns \/ DestroyReturns
         \/ wsClient = NoClient /\ Destroy
         \/ UNCHANGED vars
  PROVE  UNCHANGED Transport!transport
<1>1. ASSUME SameClients, UNCHANGED <<queue, connected>>, Delivering' = Delivering
      PROVE  UNCHANGED Transport!transport
  BY <1>1, SameClientsConns DEF Transport!transport
<1>2. CASE TickLock
  <2>1. VictimGone /\ ~Delivering /\ ~Delivering'
    BY <1>2, NoCall DEF TickLock, Delivering
  <2> QED BY <1>2, <2>1, ReturnsTransport, DeliveringSame DEF TickLock, transport
<1>3. CASE TickUnlock
  BY <1>1, <1>3 DEF TickUnlock, transport, SameClients, Delivering
<1>4. CASE DisconnectReturns \/ DestroyReturns
  <2>1. op = "destroy" => pc = "idle"
    BY DEF OrderInv, Owned
  <2>2. UNCHANGED queue /\ (pc = "callback" <=> pc' = "callback")
    BY <1>4, <2>1 DEF DisconnectReturns, DestroyReturns, transport
  <2>3. Delivering' = Delivering
    BY <2>2 DEF Delivering
  <2> QED BY <1>4, <2>2, <2>3, ReturnsTransport DEF DisconnectReturns, DestroyReturns, transport
<1>5. CASE wsClient = NoClient /\ Destroy
  BY <1>1, <1>5 DEF Destroy, transport, SameClients, Delivering
<1>6. CASE UNCHANGED vars
  BY <1>1, <1>6 DEF vars, SameClients, Delivering
<1> QED BY <1>2, <1>3, <1>4, <1>5, <1>6

LEMMA InitTransport ==
  ASSUME WsppAssumption, Init
  PROVE  Transport!Init
<1>1. \A c \in Clients : ws[c] = FreshWs
  BY DEF Init, WsInit
<1>2. Attempts = {} /\ Unanswered = {}
  BY <1>1 DEF Attempts, Unanswered, FreshWs
<1>3. Live = {} /\ Kept = {} /\ Current = NoClient
  BY <1>2 DEF Live, Kept, Current
<1>4. Sending = [c \in Clients |-> 0]
  BY <1>1 DEF Sending, Outstanding, FreshWs
<1>5. Delivering = FALSE
  BY DEF Init, Delivering
<1>6. Delivery(queue) = <<>>
  BY DeliveryNone DEF Init
<1> QED BY <1>2, <1>3, <1>4, <1>5, <1>6 DEF Init, Transport!Init, NoClient, Transport!NoConn

LEMMA StepTransport ==
  ASSUME WsppAssumption, NWebsocketAssumption, Inv, OrderInv, [Next]_vars
  PROVE  [Transport!Next]_(Transport!transport)
<1>0. Inv' /\ (wsClient # NoClient => wsClient \in Clients)
  BY StepInv, OrderFacts
<1>1. ASSUME NEW c \in Clients, WsStep(c)
      PROVE  Transport!ConnStep(c) \/ UNCHANGED Transport!transport
  BY <1>0, <1>1, WsStepTransport
<1>2. CASE TickTimeout \/ Disconnect
  <2>1. Transport!Disconnect
    BY <1>2, DisconnectingTransport DEF TickTimeout, Disconnect, MayCall
  <2> QED BY <2>1 DEF Transport!Next, Transport!UserStep
<1>3. CASE Destroy /\ wsClient # NoClient
  <2>1. Transport!Disconnect
    BY <1>3, DisconnectingTransport DEF Destroy, MayCall
  <2> QED BY <2>1 DEF Transport!Next, Transport!UserStep
<1>4. CASE Fire
  BY <1>4, FireTransport DEF Transport!Next, Transport!UserStep
<1>5. CASE CallbackReturns
  BY <1>5, CallbackReturnsTransport DEF Transport!Next, Transport!UserStep
<1>6. CASE CallbackThrows
  BY <1>6, CallbackThrowsTransport DEF Transport!Next, Transport!UserStep
<1>7. CASE ConnectStart
  BY <1>7, ConnectStartTransport DEF Transport!Next, Transport!UserStep
<1>8. CASE ConnectGo
  <2>1. wsClient \in Clients
    BY <1>0, <1>8 DEF ConnectGo, Inv, CallOK
  <2> QED BY <1>8, <2>1, ConnectGoTransport DEF Transport!Next, Transport!UserStep
<1>9. CASE ConnectBadUrl
  <2>1. wsClient \in Clients
    BY <1>0, <1>9 DEF ConnectBadUrl, Inv, CallOK
  <2> QED BY <1>9, <2>1, ConnectBadUrlTransport DEF Transport!Next, Transport!UserStep
<1>10. CASE SendData
  <2>1. wsClient \in Clients
    BY <1>0, <1>10 DEF SendData
  <2> QED BY <1>10, <2>1, SendDataTransport DEF Transport!Next, Transport!UserStep
<1>11. CASE \/ TickLock \/ TickUnlock \/ DisconnectReturns \/ DestroyReturns
            \/ wsClient = NoClient /\ Destroy
            \/ Gone \/ UNCHANGED vars
  BY <1>11, QuietTransport DEF Gone
<1>12. (\E c \in Clients : WsStep(c)) =>
         Transport!Next \/ UNCHANGED Transport!transport
  BY <1>1 DEF Transport!Next
<1> QED
  BY <1>2, <1>3, <1>4, <1>5, <1>6, <1>7, <1>8, <1>9, <1>10, <1>11, <1>12
  DEF Next, UserStep

-----------------------------------------------------------------------------
(* The theorem.                                                            *)

\* NWebsocketCppRest implements RtTransport: whatever the threads do, connect()
\* and disconnect() return only when the end of the old connection is queued
\* (or a send keeps it), every attempt is answered at most once and ends at
\* most once, and events reach the application in the order in which they were
\* queued, never one behind the back of a callback.
THEOREM TransportKept == Spec => ImplementsTransport
<1>1. Init => Transport!Init
  BY InitTransport, WsppAssumption
<1>2. Inv /\ OrderInv /\ [Next]_vars => [Transport!Next]_(Transport!transport)
  BY StepTransport, WsppAssumption, NWebsocketAssumption
<1> QED BY <1>1, <1>2, AlwaysOrder, PTL DEF Spec, ImplementsTransport, Transport!Spec

================================================================================
