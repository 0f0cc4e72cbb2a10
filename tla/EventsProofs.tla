---------------------------- MODULE EventsProofs -----------------------------
(***************************************************************************)
(* Proofs about live updates: for any topics, queue sizes, sockets, events *)
(* and orders of logins, drops, reconnects, subscriptions and frames.      *)
(*                                                                         *)
(* The inductive invariant joins the two ends of a socket.  The messages   *)
(* under way to the server, applied to the subscriptions it has, give the  *)
(* topics the browser wants; what is under way to the browser, followed by *)
(* what the queue still holds, is in order and no older than what is       *)
(* shown.                                                                  *)
(***************************************************************************)
EXTENDS Events, FiniteSetTheorems, TLAPS

\* The hub, as long as start() never met the socket of before stop(): while
\* it runs it has a socket or one timer that will make one.
HubInv ==
    ~overlap =>
      /\ running => \/ current # 0 /\ timers = {}
                    \/ current = 0 /\ timers = {handle}
      /\ running => \A s \in Sockets : s # current => sock[s] \in {"none", "closed"}
      /\ ~running => current = 0 /\ timers = {} /\ \A s \in Sockets : s \notin Live

\* this.socket has not closed; nothing was sent on a socket before it opens.
SocketInv ==
    /\ current # 0 => sock[current] \in {"connecting", "open", "lost"}
    /\ \A s \in Sockets : sock[s] \in {"none", "connecting"} =>
         up[s] = <<>> /\ down[s] = <<>> /\ \A t \in Topics : ~Subscribed(s, t)

\* What the messages q make of a subscription to t (subscribed or not): the
\* last of them about t decides.
Agrees(q, subscribed, wanted, t) ==
    \/ \E i \in 1..Len(q) :
         /\ q[i].topic = t /\ \A j \in 1..Len(q) : j > i => q[j].topic # t
         /\ (q[i].action = "subscribe") = wanted
    \/ (\A i \in 1..Len(q) : q[i].topic # t) /\ subscribed = wanted

AgreeInv ==
    current # 0 /\ sock[current] = "open" =>
      \A t \in Topics :
        Agrees(up[current], Subscribed(current, t), listeners[t] > 0, t)

\* A queue q and the frames d before it carry topic t's events, of which n is
\* the newest, in order.
InOrder(q, d, n, t) ==
    /\ q # NoQueue => \A i \in 1..Len(q) :
         /\ 0 < q[i] /\ q[i] <= n
         /\ \A j \in 1..Len(q) : i < j => q[i] < q[j]
         /\ \A j \in 1..Len(d) : d[j].topic = t => d[j].data <= q[i]
    /\ \A i \in 1..Len(d) : d[i].topic = t =>
         /\ d[i].data <= n
         /\ \A j \in 1..Len(d) : i < j /\ d[j].topic = t => d[i].data <= d[j].data

OrderInv ==
    \A s \in Sockets, t \in Topics : InOrder(queue[s][t], down[s], last[t], t)

\* Nothing of t older than v is in queue q or among the frames d.
NotOlder(q, d, v, t) ==
    /\ q # NoQueue => \A i \in 1..Len(q) : v <= q[i]
    /\ \A i \in 1..Len(d) : d[i].topic = t => v <= d[i].data

\* Nothing older than what is shown is under way on this.socket.
ShownInv ==
    \A t \in Topics :
      /\ shown[t] <= last[t]
      /\ ~overlap /\ current # 0 =>
           NotOlder(queue[current][t], down[current], shown[t], t)

UsesInv == \A t \in Topics : listeners[t] <= uses

\* The inductive invariant.
IInv == TypeOK /\ UsesInv /\ HubInv /\ SocketInv /\ AgreeInv /\ OrderInv /\ ShownInv
-----------------------------------------------------------------------------
(* Sequences.                                                               *)

LEMMA ElementFacts ==
    ASSUME NEW S, NEW q \in Seq(S)
    PROVE  Len(q) \in Nat /\ \A n \in 1..Len(q) : q[n] \in S
  OBVIOUS

LEMMA EmptyFacts == \A S : <<>> \in Seq(S) /\ Len(<<>>) = 0
  OBVIOUS

LEMMA TailFacts ==
    ASSUME NEW S, NEW q \in Seq(S), q # <<>>
    PROVE  /\ Head(q) \in S /\ Head(q) = q[1] /\ 1 \in 1..Len(q)
           /\ Tail(q) \in Seq(S) /\ Len(Tail(q)) = Len(q) - 1
           /\ \A n \in 1..Len(Tail(q)) : Tail(q)[n] = q[n+1] /\ n+1 \in 1..Len(q)
  OBVIOUS

LEMMA AppendFacts ==
    ASSUME NEW S, NEW q \in Seq(S), NEW x \in S
    PROVE  /\ Append(q, x) \in Seq(S) /\ Len(Append(q, x)) = Len(q) + 1
           /\ \A n \in 1..Len(q) : Append(q, x)[n] = q[n]
           /\ Append(q, x)[Len(q) + 1] = x
  OBVIOUS

LEMMA JoinFacts ==
    ASSUME NEW S, NEW q \in Seq(S), NEW r \in Seq(S)
    PROVE  /\ q \o r \in Seq(S) /\ Len(q \o r) = Len(q) + Len(r)
           /\ \A n \in 1..Len(q) : (q \o r)[n] = q[n]
           /\ \A n \in 1..Len(r) : (q \o r)[Len(q) + n] = r[n]
  OBVIOUS

\* SetToSeq has every member of the set, once.
LEMMA SetToSeqFacts ==
    ASSUME NEW S, IsFiniteSet(S)
    PROVE  /\ SetToSeq(S) \in Seq(S)
           /\ \A x \in S : \E n \in 1..Len(SetToSeq(S)) : SetToSeq(S)[n] = x
           /\ \A n, m \in 1..Len(SetToSeq(S)) :
                SetToSeq(S)[n] = SetToSeq(S)[m] => n = m
  <1> DEFINE n == Cardinality(S)
             q == SetToSeq(S)
  <1>1. n \in Nat /\ ExistsBijection(1..n, S)
    BY FS_CardinalityType
  <1>2. \E f \in [1..n -> S] : IsInjective(f)
    BY <1>1 DEF ExistsBijection, Bijection, Injection, IsInjective
  <1>3. q \in [1..n -> S] /\ IsInjective(q)
    BY <1>2 DEF SetToSeq
  <1>4. q \in Injection(1..n, S)
    BY <1>3 DEF Injection, IsInjective
  <1>5. IsFiniteSet(1..n) /\ Cardinality(1..n) = n
    BY <1>1, FS_Interval
  <1>6. q \in Surjection(1..n, S)
    BY <1>4, <1>5, FS_Injection
  <1>7. q \in Seq(S) /\ Len(q) = n
    BY <1>1, <1>3
  <1>8. QED
    BY <1>3, <1>6, <1>7 DEF Surjection, IsInjective
-----------------------------------------------------------------------------
(* What the messages under way come to.                                     *)

\* The message that joins them decides about its topic.
LEMMA AgreesAppend ==
    ASSUME NEW q \in Seq(Messages), NEW m \in Messages, NEW t,
           NEW subscribed \in BOOLEAN, NEW wanted \in BOOLEAN
    PROVE  /\ m.topic = t /\ (m.action = "subscribe") = wanted
                => Agrees(Append(q, m), subscribed, wanted, t)
           /\ m.topic # t /\ Agrees(q, subscribed, wanted, t)
                => Agrees(Append(q, m), subscribed, wanted, t)
  <1> DEFINE r == Append(q, m)
  <1>1. /\ Len(q) \in Nat /\ Len(r) = Len(q) + 1 /\ r[Len(q) + 1] = m
        /\ \A n \in 1..Len(q) : r[n] = q[n]
    BY AppendFacts, ElementFacts
  <1> HIDE DEF r
  <1>2. ASSUME m.topic = t, (m.action = "subscribe") = wanted
        PROVE  Agrees(r, subscribed, wanted, t)
    <2>1. Len(r) \in 1..Len(r) /\ r[Len(r)] = m
      BY <1>1
    <2>2. \A j \in 1..Len(r) : ~(j > Len(r))
      BY <1>1
    <2>3. QED
      BY <1>2, <2>1, <2>2 DEF Agrees
  <1>3. ASSUME m.topic # t, Agrees(q, subscribed, wanted, t)
        PROVE  Agrees(r, subscribed, wanted, t)
    <2>1. CASE (\A i \in 1..Len(q) : q[i].topic # t) /\ subscribed = wanted
      <3>1. ASSUME NEW i \in 1..Len(r)
            PROVE  r[i].topic # t
        <4>1. i \in 1..Len(q) \/ i = Len(q) + 1
          BY <1>1
        <4>2. QED
          BY <1>1, <1>3, <2>1, <4>1
      <3>2. QED
        BY <2>1, <3>1 DEF Agrees
    <2>2. ASSUME NEW i \in 1..Len(q), q[i].topic = t,
                 \A j \in 1..Len(q) : j > i => q[j].topic # t,
                 (q[i].action = "subscribe") = wanted
          PROVE  Agrees(r, subscribed, wanted, t)
      <3>1. i \in 1..Len(r) /\ r[i] = q[i]
        BY <1>1
      <3>2. ASSUME NEW j \in 1..Len(r), j > i
            PROVE  r[j].topic # t
        <4>1. j \in 1..Len(q) \/ j = Len(q) + 1
          BY <1>1
        <4>2. QED
          BY <1>1, <1>3, <2>2, <3>2, <4>1
      <3>3. QED
        BY <2>2, <3>1, <3>2 DEF Agrees
    <2>3. QED
      BY <1>3, <2>1, <2>2 DEF Agrees
  <1>4. QED
    BY <1>2, <1>3 DEF r

\* The message that leaves them has been obeyed.
LEMMA AgreesTail ==
    ASSUME NEW q \in Seq(Messages), q # <<>>, NEW t,
           NEW subscribed \in BOOLEAN, NEW wanted \in BOOLEAN,
           Agrees(q, subscribed, wanted, t)
    PROVE  Agrees(Tail(q), IF Head(q).topic = t THEN Head(q).action = "subscribe"
                                                ELSE subscribed, wanted, t)
  <1> DEFINE r == Tail(q)
             now == IF Head(q).topic = t THEN Head(q).action = "subscribe" ELSE subscribed
  <1>1. /\ Len(q) \in Nat /\ Len(r) = Len(q) - 1 /\ Head(q) = q[1] /\ 1 \in 1..Len(q)
        /\ \A n \in 1..Len(r) : r[n] = q[n+1] /\ n+1 \in 1..Len(q)
    BY TailFacts, ElementFacts
  <1>n. now = IF q[1].topic = t THEN q[1].action = "subscribe" ELSE subscribed
    BY <1>1
  <1> HIDE DEF r, now
  <1>2. CASE (\A i \in 1..Len(q) : q[i].topic # t) /\ subscribed = wanted
    <2>1. \A i \in 1..Len(r) : r[i].topic # t
      BY <1>1, <1>2
    <2>2. now = wanted
      BY <1>n, <1>1, <1>2
    <2>3. QED
      BY <2>1, <2>2 DEF Agrees, r, now
  <1>3. ASSUME NEW i \in 1..Len(q), q[i].topic = t,
               \A j \in 1..Len(q) : j > i => q[j].topic # t,
               (q[i].action = "subscribe") = wanted
        PROVE  Agrees(r, now, wanted, t)
    <2>1. CASE i = 1
      <3>1. \A j \in 1..Len(r) : r[j].topic # t
        BY <1>1, <1>3, <2>1
      <3>2. now = wanted
        BY <1>n, <1>3, <2>1
      <3>3. QED
        BY <3>1, <3>2 DEF Agrees
    <2>2. CASE i # 1
      <3>1. i-1 \in 1..Len(r) /\ r[i-1] = q[i]
        BY <1>1, <2>2
      <3>2. \A j \in 1..Len(r) : j > i-1 => r[j].topic # t
        BY <1>1, <1>3, <2>2, SMTT(30)
      <3>3. QED
        BY <1>3, <3>1, <3>2 DEF Agrees
    <2>3. QED
      BY <2>1, <2>2
  <1>4. QED
    BY <1>2, <1>3 DEF Agrees, r, now
LEMMA Bounds ==
    /\ IsFiniteSet(Topics) /\ QueueMax \in Nat \ {0} /\ MaxEvents \in Nat /\ MaxUses \in Nat
    /\ MaxStops \in Nat /\ MaxSockets \in Nat
    /\ 0 \notin Sockets /\ NoQueue \in Seq(0..MaxEvents) /\ Len(NoQueue) = 1
  BY BoundsAssumption DEF Sockets, NoQueue

LEMMA SubscriptionsFacts ==
    /\ Subscriptions \in Seq(Messages)
    /\ \A n \in 1..Len(Subscriptions) :
         Subscriptions[n].action = "subscribe" /\ Subscriptions[n].topic \in Wanted
    /\ \A t \in Wanted : \E n \in 1..Len(Subscriptions) :
         /\ Subscriptions[n].topic = t
         /\ \A m \in 1..Len(Subscriptions) : Subscriptions[m].topic = t => m = n
  <1> DEFINE M(t) == [action |-> "subscribe", topic |-> t]
             S == {M(t) : t \in Wanted}
  <1>1. IsFiniteSet(Wanted)
    BY Bounds, FS_Subset DEF Wanted
  <1>2. IsFiniteSet(S)
    <2> DEFINE f == [t \in Wanted |-> M(t)]
    <2>1. f \in Surjection(Wanted, S)
      BY DEF Surjection
    <2>2. QED
      BY <1>1, <2>1, FS_Surjection
  <1> DEFINE q == SetToSeq(S)
  <1>3. /\ q \in Seq(S)
        /\ \A x \in S : \E n \in 1..Len(q) : q[n] = x
        /\ \A n, m \in 1..Len(q) : q[n] = q[m] => n = m
    BY <1>2, SetToSeqFacts
  <1>4. Subscriptions = q
    BY DEF Subscriptions
  <1> HIDE DEF q, S
  <1>5. \A n \in 1..Len(q) : q[n] \in S
    BY <1>3, ElementFacts
  <1>6. \A x \in S : x \in Messages /\ x.action = "subscribe" /\ x.topic \in Wanted
                     /\ x = M(x.topic)
    BY DEF S, Messages, Wanted
  <1>7. q \in Seq(Messages)
    BY <1>3, <1>5, <1>6
  <1>8. ASSUME NEW t \in Wanted
        PROVE  \E n \in 1..Len(q) : /\ q[n].topic = t
                                    /\ \A m \in 1..Len(q) : q[m].topic = t => m = n
    <2>1. M(t) \in S
      BY DEF S
    <2>2. PICK n \in 1..Len(q) : q[n] = M(t)
      BY <1>3, <2>1
    <2>3. \A m \in 1..Len(q) : q[m].topic = t => q[m] = M(t)
      BY <1>5, <1>6
    <2>4. QED
      BY <1>3, <2>2, <2>3, SMTT(30)
  <1>9. QED
    BY <1>4, <1>5, <1>6, <1>7, <1>8

\* Repeating what is wanted settles every topic, whatever came before.
LEMMA AgreesSubscriptions ==
    ASSUME NEW q \in Seq(Messages), NEW t \in Topics, NEW subscribed \in BOOLEAN,
           t \notin Wanted => Agrees(q, subscribed, FALSE, t)
    PROVE  Agrees(q \o Subscriptions, subscribed, t \in Wanted, t)
  <1> DEFINE u == Subscriptions
             r == q \o u
  <1>1. /\ u \in Seq(Messages)
        /\ \A n \in 1..Len(u) : u[n].action = "subscribe" /\ u[n].topic \in Wanted
        /\ t \in Wanted => \E n \in 1..Len(u) :
             u[n].topic = t /\ \A m \in 1..Len(u) : u[m].topic = t => m = n
    BY SubscriptionsFacts
  <1> HIDE DEF u
  <1>2. /\ Len(q) \in Nat /\ Len(u) \in Nat /\ Len(r) = Len(q) + Len(u)
        /\ \A n \in 1..Len(q) : r[n] = q[n]
        /\ \A n \in 1..Len(u) : r[Len(q) + n] = u[n]
    BY <1>1, JoinFacts, ElementFacts
  <1> HIDE DEF r
  <1>3. \A j \in 1..Len(r) : \/ j \in 1..Len(q) /\ r[j] = q[j]
                             \/ j > Len(q) /\ j - Len(q) \in 1..Len(u)
                                /\ r[j] = u[j - Len(q)]
    <2>1. ASSUME NEW j \in 1..Len(r), j > Len(q)
          PROVE  j - Len(q) \in 1..Len(u) /\ j = Len(q) + (j - Len(q))
      BY <1>2, <2>1
    <2>2. ASSUME NEW j \in 1..Len(r), ~(j > Len(q))
          PROVE  j \in 1..Len(q)
      BY <1>2, <2>2
    <2>3. QED
      BY <1>2, <2>1, <2>2
  <1>4. CASE t \in Wanted
    <2>1. PICK n \in 1..Len(u) :
            u[n].topic = t /\ \A m \in 1..Len(u) : u[m].topic = t => m = n
      BY <1>1, <1>4
    <2> DEFINE i == Len(q) + n
    <2>2. i \in 1..Len(r) /\ r[i].topic = t /\ r[i].action = "subscribe"
      BY <1>1, <1>2, <2>1
    <2>3. ASSUME NEW j \in 1..Len(r), j > i
          PROVE  r[j].topic # t
      <3>1. j > Len(q) /\ j - Len(q) # n
        BY <1>2, <2>3
      <3>2. j - Len(q) \in 1..Len(u) /\ r[j] = u[j - Len(q)]
        BY <1>2, <1>3, <3>1
      <3>3. QED
        BY <2>1, <3>1, <3>2
    <2> HIDE DEF i
    <2>4. Agrees(r, subscribed, TRUE, t)
      BY <2>2, <2>3 DEF Agrees
    <2>5. (t \in Wanted) = TRUE
      BY <1>4
    <2>6. QED
      BY <2>4, <2>5 DEF r, u
  <1>5. CASE t \notin Wanted
    <2>1. ASSUME NEW j \in 1..Len(r), j > Len(q)
          PROVE  r[j].topic # t
      <3>1. j - Len(q) \in 1..Len(u) /\ r[j] = u[j - Len(q)]
        BY <1>2, <1>3, <2>1
      <3>2. QED
        BY <1>1, <1>5, <3>1
    <2>2. Agrees(r, subscribed, FALSE, t)
      <3>1. CASE (\A i \in 1..Len(q) : q[i].topic # t) /\ subscribed = FALSE
        <4>1. \A j \in 1..Len(r) : r[j].topic # t
          BY <1>3, <2>1, <3>1
        <4>2. QED
          BY <3>1, <4>1 DEF Agrees
      <3>2. ASSUME NEW i \in 1..Len(q), q[i].topic = t,
                   \A j \in 1..Len(q) : j > i => q[j].topic # t,
                   (q[i].action = "subscribe") = FALSE
            PROVE  Agrees(r, subscribed, FALSE, t)
        <4>1. i \in 1..Len(r) /\ r[i] = q[i]
          BY <1>2
        <4>2. \A j \in 1..Len(r) : j > i => r[j].topic # t
          BY <1>3, <2>1, <3>2
        <4>3. QED
          BY <3>2, <4>1, <4>2 DEF Agrees
      <3>3. QED
        BY <1>5, <3>1, <3>2 DEF Agrees
    <2>3. (t \in Wanted) = FALSE
      BY <1>5
    <2>4. QED
      BY <2>2, <2>3 DEF r, u
  <1>6. QED
    BY <1>4, <1>5 DEF r, u
-----------------------------------------------------------------------------
(* The bus.                                                                 *)

\* A full queue loses its oldest item.
LEMMA PutFacts ==
    ASSUME NEW S, NEW q \in Seq(S), NEW e \in S, Len(q) <= QueueMax
    PROVE  /\ Put(q, e) \in Seq(S) /\ Len(Put(q, e)) <= QueueMax
           /\ \E d \in {0, 1} :
                /\ Len(Put(q, e)) = Len(q) - d + 1
                /\ Put(q, e)[Len(q) - d + 1] = e
                /\ \A n \in 1..(Len(q) - d) : Put(q, e)[n] = q[n+d] /\ n+d \in 1..Len(q)
  <1>0. Len(q) \in Nat /\ QueueMax \in Nat \ {0}
    BY Bounds
  <1>1. CASE Len(q) < QueueMax
    <2>1. Put(q, e) = Append(q, e)
      BY <1>1 DEF Put
    <2>2. QED
      BY <1>0, <1>1, <2>1, AppendFacts
  <1>2. CASE ~(Len(q) < QueueMax)
    <2>1. q # <<>> /\ Len(q) = QueueMax
      BY <1>0, <1>2
    <2> DEFINE r == Tail(q)
    <2>2. Put(q, e) = Append(r, e)
      BY <1>2 DEF Put
    <2>3. /\ r \in Seq(S) /\ Len(r) = Len(q) - 1
          /\ \A n \in 1..Len(r) : r[n] = q[n+1] /\ n+1 \in 1..Len(q)
      BY <2>1, TailFacts
    <2> HIDE DEF r
    <2>4. /\ Append(r, e) \in Seq(S) /\ Len(Append(r, e)) = Len(r) + 1
          /\ \A n \in 1..Len(r) : Append(r, e)[n] = r[n]
          /\ Append(r, e)[Len(r) + 1] = e
      BY <2>3, AppendFacts
    <2>5. QED
      BY <1>0, <2>1, <2>2, <2>3, <2>4
  <1>3. QED
    BY <1>1, <1>2

\* connect makes the first unused socket this.socket.
LEMMA ConnectFacts ==
    ASSUME connect, sock \in [Sockets -> {"none", "connecting", "open", "closing", "lost", "closed"}]
    PROVE  \E s \in Sockets : /\ sock[s] = "none" /\ current' = s
                              /\ sock' = [sock EXCEPT ![s] = "connecting"]
  BY DEF connect, Unused-----------------------------------------------------------------------------
(* Types, and the bounds of queues and counters.                            *)

States == {"none", "connecting", "open", "closing", "lost", "closed"}

LEMMA TypeStep == TypeOK /\ UsesInv /\ [Next]_vars => TypeOK' /\ UsesInv'
  <1> SUFFICES ASSUME TypeOK, UsesInv, [Next]_vars
               PROVE  TypeOK' /\ UsesInv'
    OBVIOUS
  <1> USE DEF hubVars, busVars
  <1>0. /\ sock \in [Sockets -> States] /\ current \in {0} \cup Sockets
        /\ up \in [Sockets -> Seq(Messages)] /\ down \in [Sockets -> Seq(Updates)]
        /\ queue \in [Sockets -> [Topics -> Seq(0..MaxEvents)]]
        /\ listeners \in [Topics -> 0..MaxUses] /\ uses \in 0..MaxUses
        /\ last \in [Topics -> 0..MaxEvents]
    BY DEF TypeOK, States
  <1>00. /\ QueueMax \in Nat \ {0} /\ MaxEvents \in Nat /\ MaxUses \in Nat /\ MaxStops \in Nat
         /\ 0 \notin Sockets /\ NoQueue \in Seq(0..MaxEvents) /\ Len(NoQueue) = 1
         /\ <<>> \in Seq(0..MaxEvents) /\ Len(<<>>) = 0
         /\ <<>> \in Seq(Messages) /\ <<>> \in Seq(Updates)
    BY Bounds, EmptyFacts
  <1>a. ASSUME NEW m \in Messages, NEW s \in Sockets
        PROVE  Append(up[s], m) \in Seq(Messages)
    BY <1>0, AppendFacts
  <1>b. ASSUME NEW a \in {"subscribe", "unsubscribe"}, NEW t \in Topics, Send(a, t)
        PROVE  up' \in [Sockets -> Seq(Messages)]
    <2>1. [action |-> a, topic |-> t] \in Messages
      BY DEF Messages
    <2>2. CASE current # 0 /\ sock[current] = "open"
      <3>1. up' = [up EXCEPT ![current] = Append(@, [action |-> a, topic |-> t])]
        BY <1>b, <2>2 DEF Send
      <3> HIDE DEF Messages
      <3>2. Append(up[current], [action |-> a, topic |-> t]) \in Seq(Messages)
        BY <1>0, <1>a, <2>1, <2>2
      <3>3. QED
        BY <1>0, <2>2, <3>1, <3>2
    <2>3. CASE ~(current # 0 /\ sock[current] = "open")
      BY <1>b, <1>0, <2>3 DEF Send
    <2>4. QED
      BY <2>2, <2>3
  <1>c. connect => /\ sock' \in [Sockets -> States] /\ current' \in {0} \cup Sockets
    <2>1. ASSUME NEW s \in Sockets, current' = s, sock' = [sock EXCEPT ![s] = "connecting"]
          PROVE  sock' \in [Sockets -> States] /\ current' \in {0} \cup Sockets
      BY <1>0, <2>1 DEF States
    <2>2. QED
      BY <1>0, <2>1, ConnectFacts DEF States
  <1>1. CASE start
    BY <1>1, <1>c DEF start, TypeOK, UsesInv, States
  <1>2. CASE stop
    <2>1. stops' \in 0..MaxStops
      BY <1>2, <1>00 DEF stop, TypeOK
    <2>2. sock' \in [Sockets -> States]
      BY <1>0, <1>2 DEF stop, States
    <2>3. QED
      BY <1>2, <2>1, <2>2 DEF stop, TypeOK, UsesInv, States, Cleared
  <1>3. ASSUME NEW t \in Topics, subscribe(t)
        PROVE  TypeOK' /\ UsesInv'
    <2>1. up' \in [Sockets -> Seq(Messages)]
      BY <1>0, <1>3, <1>b DEF subscribe
    <2>2. /\ uses < MaxUses /\ uses' = uses + 1
          /\ listeners' = [listeners EXCEPT ![t] = @ + 1]
      BY <1>3 DEF subscribe
    <2>3. uses' \in 0..MaxUses /\ UsesInv' /\ listeners' \in [Topics -> 0..MaxUses]
      BY <1>0, <1>00, <2>2 DEF UsesInv
    <2>4. QED
      BY <1>3, <2>1, <2>3 DEF subscribe, TypeOK
  <1>4. ASSUME NEW t \in Topics, unsubscribe(t)
        PROVE  TypeOK' /\ UsesInv'
    <2>1. up' \in [Sockets -> Seq(Messages)]
      BY <1>0, <1>4, <1>b DEF unsubscribe
    <2>2. listeners[t] > 0 /\ listeners' = [listeners EXCEPT ![t] = @ - 1] /\ uses' = uses
      BY <1>4 DEF unsubscribe
    <2>3. UsesInv' /\ listeners' \in [Topics -> 0..MaxUses]
      BY <1>0, <1>00, <2>2 DEF UsesInv
    <2>4. shown' \in [Topics -> 0..MaxEvents]
      <3>1. shown \in [Topics -> 0..MaxEvents] /\ 0 \in 0..MaxEvents
        BY <1>00 DEF TypeOK
      <3>2. shown' = [shown EXCEPT ![t] = 0] \/ shown' = shown
        BY <1>4 DEF unsubscribe
      <3>3. QED
        BY <3>1, <3>2
    <2>5. QED
      BY <1>4, <2>1, <2>3, <2>4 DEF unsubscribe, TypeOK
  <1>5. ASSUME NEW t \in Topics, publish(t)
        PROVE  TypeOK' /\ UsesInv'
    <2>1. /\ last[t] < MaxEvents /\ last' = [last EXCEPT ![t] = @ + 1]
          /\ UNCHANGED <<hubVars, sock, up, down, sent>>
      BY <1>5 DEF publish
    <2>2. last' \in [Topics -> 0..MaxEvents] /\ last[t] + 1 \in 0..MaxEvents
      BY <1>0, <1>00, <2>1
    <2>3. ASSUME NEW s \in Sockets, NEW u \in Topics
          PROVE  queue'[s][u] \in Seq(0..MaxEvents) /\ Len(queue'[s][u]) <= QueueMax
      <3>1. queue[s][u] \in Seq(0..MaxEvents) /\ Len(queue[s][u]) <= QueueMax
        BY <1>0 DEF TypeOK
      <3>2. /\ Put(queue[s][u], last[t] + 1) \in Seq(0..MaxEvents)
            /\ Len(Put(queue[s][u], last[t] + 1)) <= QueueMax
        BY <2>2, <3>1, PutFacts
      <3>3. queue'[s][u] \in {queue[s][u], Put(queue[s][u], last[t] + 1)}
        BY <1>0, <1>5 DEF publish
      <3>4. QED
        BY <3>1, <3>2, <3>3
    <2>4. queue' \in [Sockets -> [Topics -> Seq(0..MaxEvents)]]
      <3>1. queue' = [s \in Sockets |-> [u \in Topics |-> queue'[s][u]]]
        BY <1>0, <1>5 DEF publish
      <3>2. QED
        BY <2>3, <3>1
    <2>5. QED
      BY <2>1, <2>2, <2>3, <2>4 DEF TypeOK, UsesInv
  <1>6. ASSUME NEW s \in Sockets, Open(s)
        PROVE  TypeOK' /\ UsesInv'
    <2>1. sock' \in [Sockets -> States]
      BY <1>0, <1>6 DEF Open, States
    <2>2. up' \in [Sockets -> Seq(Messages)]
      <3>1. CASE current # 0 /\ sock'[current] = "open"
        <4>1. up[current] \o Subscriptions \in Seq(Messages)
          BY <1>0, <3>1, SubscriptionsFacts, JoinFacts
        <4>2. up' = [up EXCEPT ![current] = @ \o Subscriptions]
          BY <1>6, <3>1 DEF Open
        <4>3. QED
          BY <1>0, <3>1, <4>1, <4>2
      <3>2. CASE ~(current # 0 /\ sock'[current] = "open")
        BY <1>0, <1>6, <3>2 DEF Open
      <3>3. QED
        BY <3>1, <3>2
    <2>3. QED
      BY <1>6, <2>1, <2>2 DEF Open, TypeOK, UsesInv, States
  <1>7. ASSUME NEW s \in Sockets, Fail(s)
        PROVE  TypeOK' /\ UsesInv'
    <2>1. /\ sock' \in [Sockets -> States] /\ up' \in [Sockets -> Seq(Messages)]
          /\ down' \in [Sockets -> Seq(Updates)]
      BY <1>0, <1>00, <1>7 DEF Fail, States
    <2>2. queue' = [queue EXCEPT ![s] = NoQueues] /\ UNCHANGED <<hubVars, last, sent>>
      BY <1>7 DEF Fail
    <2>3. queue' \in [Sockets -> [Topics -> Seq(0..MaxEvents)]]
      BY <1>0, <1>00, <2>2 DEF NoQueues
    <2>4. ASSUME NEW o \in Sockets, NEW t \in Topics
          PROVE  Len(queue'[o][t]) <= QueueMax
      <3>1. queue'[o][t] \in {queue[o][t], NoQueue}
        BY <1>0, <2>2 DEF NoQueues
      <3>2. Len(queue[o][t]) <= QueueMax /\ Len(NoQueue) <= QueueMax
        BY <1>00 DEF TypeOK
      <3>3. QED
        BY <3>1, <3>2
    <2>5. QED
      BY <2>1, <2>2, <2>3, <2>4 DEF TypeOK, UsesInv, States
  <1>8. ASSUME NEW s \in Sockets, Closed(s)
        PROVE  TypeOK' /\ UsesInv'
    <2>1. sock' \in [Sockets -> States] /\ current' \in {0} \cup Sockets
      BY <1>0, <1>8 DEF Closed, States
    <2>2. QED
      BY <1>8, <2>1 DEF Closed, TypeOK, UsesInv, States
  <1>9. ASSUME NEW s \in Sockets, TimerFires(s)
        PROVE  TypeOK' /\ UsesInv'
    BY <1>9, <1>c DEF TimerFires, TypeOK, UsesInv, States
  <1>10. ASSUME NEW s \in Sockets, Message(s)
         PROVE  TypeOK' /\ UsesInv'
    <2>1. down[s] \in Seq(Updates) /\ down[s] # <<>>
      BY <1>0, <1>10 DEF Message
    <2>2. Head(down[s]) \in Updates /\ Tail(down[s]) \in Seq(Updates)
      BY <2>1, TailFacts
    <2>3. down' \in [Sockets -> Seq(Updates)]
      <3> HIDE DEF Updates
      <3>1. QED
        BY <1>0, <1>10, <2>2 DEF Message
    <2>4. Head(down[s]).topic \in Topics /\ Head(down[s]).data \in 0..MaxEvents
      BY <1>00, <2>2 DEF Updates
    <2>5. shown' \in [Topics -> 0..MaxEvents]
      BY <1>10, <2>4 DEF Message, TypeOK
    <2>6. QED
      BY <1>10, <2>3, <2>5 DEF Message, TypeOK, UsesInv
  <1>11. ASSUME NEW s \in Sockets, Receive(s)
         PROVE  TypeOK' /\ UsesInv'
    <2>1. up[s] \in Seq(Messages) /\ up[s] # <<>>
      BY <1>0, <1>11 DEF Receive
    <2>2. Head(up[s]) \in Messages /\ Tail(up[s]) \in Seq(Messages)
      BY <2>1, TailFacts
    <2>3. up' \in [Sockets -> Seq(Messages)]
      <3> HIDE DEF Messages
      <3>1. QED
        BY <1>0, <1>11, <2>2 DEF Receive
    <2>4. PICK t \in Topics : t = Head(up[s]).topic
      BY <2>2 DEF Messages
    <2>5. /\ \E q \in {<<>>, NoQueue, queue[s][t]} : queue' = [queue EXCEPT ![s][t] = q]
          /\ \E e \in {sent[s][t], last[t]} : sent' = [sent EXCEPT ![s][t] = e]
          /\ UNCHANGED <<hubVars, sock, down, last>>
      BY <1>0, <1>11, <2>4 DEF Receive, TypeOK
    <2>6. queue' \in [Sockets -> [Topics -> Seq(0..MaxEvents)]]
      <3>1. PICK q \in {<<>>, NoQueue, queue[s][t]} : queue' = [queue EXCEPT ![s][t] = q]
        BY <2>5
      <3>2. queue[s][t] \in Seq(0..MaxEvents)
        BY <1>0
      <3>3. q \in Seq(0..MaxEvents)
        BY <1>00, <3>2, Zenon
      <3>4. QED
        BY <1>0, <3>1, <3>3
    <2>9. ASSUME NEW o \in Sockets, NEW v \in Topics
          PROVE  Len(queue'[o][v]) <= QueueMax
      <3>1. queue'[o][v] \in {queue[o][v], <<>>, NoQueue}
        BY <1>0, <2>5
      <3>2. /\ Len(queue[o][v]) <= QueueMax /\ Len(NoQueue) <= QueueMax
            /\ Len(<<>>) <= QueueMax
        BY <1>00 DEF TypeOK
      <3>3. QED
        BY <3>1, <3>2
    <2>7. sent' \in [Sockets -> [Topics -> 0..MaxEvents]]
      BY <1>0, <2>5 DEF TypeOK
    <2>8. QED
      BY <2>3, <2>5, <2>6, <2>7, <2>9 DEF TypeOK, UsesInv
  <1>12. ASSUME NEW s \in Sockets, Disconnect(s)
         PROVE  TypeOK' /\ UsesInv'
    <2>2. queue' = [queue EXCEPT ![s] = NoQueues]
          /\ UNCHANGED <<hubVars, sock, up, down, last, sent>>
      BY <1>12 DEF Disconnect
    <2>3. queue' \in [Sockets -> [Topics -> Seq(0..MaxEvents)]]
      BY <1>0, <1>00, <2>2 DEF NoQueues
    <2>4. ASSUME NEW o \in Sockets, NEW t \in Topics
          PROVE  Len(queue'[o][t]) <= QueueMax
      <3>1. queue'[o][t] \in {queue[o][t], NoQueue}
        BY <1>0, <2>2 DEF NoQueues
      <3>2. Len(queue[o][t]) <= QueueMax /\ Len(NoQueue) <= QueueMax
        BY <1>00 DEF TypeOK
      <3>3. QED
        BY <3>1, <3>2
    <2>5. QED
      BY <2>2, <2>3, <2>4 DEF TypeOK, UsesInv
  <1>13. CASE UNCHANGED vars
    BY <1>13 DEF vars, TypeOK, UsesInv  <1>14. ASSUME NEW s \in Sockets, NEW t \in Topics, Forward(s, t)
         PROVE  TypeOK' /\ UsesInv'
    <2> DEFINE e == Head(queue[s][t])
               m == [topic |-> t, data |-> e]
    <2>1. queue[s][t] \in Seq(0..MaxEvents) /\ queue[s][t] # <<>> /\ Len(queue[s][t]) <= QueueMax
      BY <1>0, <1>14 DEF Forward, TypeOK
    <2>2. /\ e \in 0..MaxEvents /\ Tail(queue[s][t]) \in Seq(0..MaxEvents)
          /\ Len(Tail(queue[s][t])) <= QueueMax
      <3>1. /\ e \in 0..MaxEvents /\ Tail(queue[s][t]) \in Seq(0..MaxEvents)
            /\ Len(Tail(queue[s][t])) = Len(queue[s][t]) - 1
        BY <2>1, TailFacts
      <3>2. Len(queue[s][t]) \in Nat
        BY <2>1, ElementFacts
      <3> HIDE DEF e
      <3>3. QED
        BY <1>00, <2>1, <3>1, <3>2
    <2>3. /\ down' = [down EXCEPT ![s] = Append(@, m)]
          /\ queue' = [queue EXCEPT ![s][t] = Tail(@)]
          /\ sent' = [sent EXCEPT ![s][t] = e]
          /\ UNCHANGED <<hubVars, sock, up, last>>
      BY <1>14 DEF Forward, Taken
    <2>4. m \in Updates
      BY <2>2 DEF Updates
    <2> HIDE DEF e, m
    <2>5. Append(down[s], m) \in Seq(Updates)
      BY <1>0, <2>4, AppendFacts
    <2>6. down' \in [Sockets -> Seq(Updates)]
      <3> HIDE DEF Updates
      <3>1. QED
        BY <1>0, <2>3, <2>5
    <2>7. /\ queue' \in [Sockets -> [Topics -> Seq(0..MaxEvents)]]
          /\ \A o \in Sockets, u \in Topics : Len(queue'[o][u]) <= QueueMax
      BY <1>0, <2>2, <2>3 DEF TypeOK
    <2>8. sent' \in [Sockets -> [Topics -> 0..MaxEvents]]
      BY <2>2, <2>3 DEF TypeOK
    <2>9. QED
      BY <2>3, <2>6, <2>7, <2>8 DEF TypeOK, UsesInv
  <1>15. QED
    BY <1>1, <1>2, <1>3, <1>4, <1>5, <1>6, <1>7, <1>8, <1>9, <1>10, <1>11, <1>12, <1>13, <1>14
       DEF Next, Publisher, ServerStep-----------------------------------------------------------------------------
(* The hub and its sockets.                                                 *)

\* The steps that leave the hub and the state of the sockets alone.
HubIdle == UNCHANGED <<running, current, timers, handle, overlap, sock>>

LEMMA HubSteps ==
    ASSUME [Next]_vars
    PROVE  \/ HubIdle \/ start \/ stop
           \/ \E s \in Sockets : Open(s) \/ Fail(s) \/ Closed(s) \/ TimerFires(s)
  <1> USE DEF HubIdle, hubVars, busVars
  <1>1. ASSUME NEW t \in Topics, subscribe(t) \/ unsubscribe(t) \/ publish(t)
        PROVE  HubIdle
    BY <1>1 DEF subscribe, unsubscribe, publish
  <1>2. ASSUME NEW s \in Sockets, Message(s) \/ ServerStep(s)
        PROVE  HubIdle
    BY <1>2 DEF Message, ServerStep, Receive, Disconnect, Forward
  <1>3. CASE UNCHANGED vars
    BY <1>3 DEF vars
  <1>4. QED
    BY <1>1, <1>2, <1>3 DEF Next, Publisher

LEMMA HubStep == TypeOK /\ HubInv /\ [Next]_vars => HubInv'
  <1> SUFFICES ASSUME TypeOK, HubInv, [Next]_vars, ~overlap'
               PROVE  HubInv'
    BY DEF HubInv
  <1> USE DEF Live
  <1>0. /\ sock \in [Sockets -> States] /\ current \in {0} \cup Sockets
        /\ timers \subseteq Sockets /\ 0 \notin Sockets
    BY Bounds DEF TypeOK, States
  <1>00. /\ running => \/ current # 0 /\ timers = {}
                       \/ current = 0 /\ timers = {handle}
         /\ running => \A s \in Sockets : s # current => sock[s] \in {"none", "closed"}
         /\ ~running => current = 0 /\ timers = {} /\ \A s \in Sockets : s \notin Live
    <2>1. ~overlap
      BY HubSteps DEF HubIdle, start, stop, Open, Fail, Closed, TimerFires, hubVars
    <2>2. QED
      BY <2>1 DEF HubInv
  <1>1. CASE HubIdle
    BY <1>00, <1>1 DEF HubIdle, HubInv
  <1>2. CASE start
    <2>1. \A s \in Sockets : sock[s] \in {"none", "closed"}
      BY <1>0, <1>00, <1>2 DEF start, States
    <2>2. PICK s \in Sockets : current' = s /\ sock' = [sock EXCEPT ![s] = "connecting"]
      BY <1>0, <1>2, ConnectFacts DEF start, States
    <2>3. running' /\ timers' = {}
      BY <1>00, <1>2 DEF start
    <2>4. QED
      BY <1>0, <2>1, <2>2, <2>3 DEF HubInv
  <1>3. CASE stop
    BY <1>0, <1>00, <1>3 DEF stop, HubInv, Cleared
  <1>4. ASSUME NEW s \in Sockets, Open(s) \/ Fail(s)
        PROVE  HubInv'
    <2>1. /\ UNCHANGED hubVars /\ s \in Live
          /\ sock' = [sock EXCEPT ![s] = "open"] \/ sock' = [sock EXCEPT ![s] = "lost"]
      BY <1>4 DEF Open, Fail
    <2>2. running /\ s = current
      BY <1>0, <1>00, <2>1
    <2>3. QED
      BY <1>0, <1>00, <2>1, <2>2 DEF HubInv, hubVars
  <1>5. ASSUME NEW s \in Sockets, Closed(s)
        PROVE  HubInv'
    <2>1. /\ sock[s] \in {"closing", "lost"} /\ sock' = [sock EXCEPT ![s] = "closed"]
          /\ running' = running /\ current' = IF current = s THEN 0 ELSE current
      BY <1>5 DEF Closed
    <2>2. CASE running
      <3>1. s = current /\ timers = {} /\ timers' = {s} /\ handle' = s
        BY <1>0, <1>00, <1>5, <2>1, <2>2 DEF Closed
      <3>2. QED
        BY <1>0, <1>00, <2>1, <2>2, <3>1 DEF HubInv
    <2>3. CASE ~running
      <3>1. timers' = timers
        BY <1>5, <2>3 DEF Closed
      <3>2. QED
        BY <1>0, <1>00, <2>1, <2>3, <3>1 DEF HubInv
    <2>4. QED
      BY <2>2, <2>3
  <1>6. ASSUME NEW o \in Sockets, TimerFires(o)
        PROVE  HubInv'
    <2>1. o \in timers /\ timers' = timers \ {o} /\ running' = running
      BY <1>6 DEF TimerFires
    <2>2. running /\ timers = {o} /\ current = 0
      BY <1>00, <2>1
    <2>3. PICK s \in Sockets : current' = s /\ sock' = [sock EXCEPT ![s] = "connecting"]
      BY <1>0, <1>6, ConnectFacts DEF TimerFires, States
    <2>4. QED
      BY <1>0, <1>00, <2>1, <2>2, <2>3 DEF HubInv
  <1>7. QED
    BY <1>1, <1>2, <1>3, <1>4, <1>5, <1>6, HubSteps

\* The subscriptions that a step of the bus leaves alone.
LEMMA QueuesKept ==
    ASSUME TypeOK, [Next]_vars, NEW s \in Sockets, NEW t \in Topics, ~Subscribed(s, t),
           ~Receive(s)
    PROVE  ~Subscribed(s, t)'
  <1> USE DEF hubVars, busVars
  <1>0. /\ queue \in [Sockets -> [Topics -> Seq(0..MaxEvents)]] /\ queue[s][t] = NoQueue
    BY DEF TypeOK, Subscribed
  <1> SUFFICES queue'[s][t] = NoQueue
    BY DEF Subscribed
  <1>1. ASSUME NEW u \in Topics, publish(u)
        PROVE  queue'[s][t] = NoQueue
    BY <1>0, <1>1 DEF publish, Subscribed
  <1>2. ASSUME NEW o \in Sockets, Fail(o) \/ Disconnect(o)
        PROVE  queue'[s][t] = NoQueue
    BY <1>0, <1>2 DEF Fail, Disconnect, NoQueues
  <1>3. ASSUME NEW o \in Sockets, Receive(o)
        PROVE  queue'[s][t] = NoQueue
    <2>1. o # s
      BY <1>3
    <2>2. queue'[s] = queue[s]
      BY <1>0, <1>3, <2>1 DEF Receive
    <2>3. QED
      BY <1>0, <2>2
  <1>4. ASSUME NEW o \in Sockets, NEW u \in Topics, Forward(o, u)
        PROVE  queue'[s][t] = NoQueue
    <2>1. ~(o = s /\ u = t)
      BY <1>0, <1>4 DEF Forward, Subscribed
    <2>2. QED
      BY <1>0, <1>4, <2>1 DEF Forward
  <1>5. CASE UNCHANGED queue
    BY <1>0, <1>5
  <1>6. ASSUME NEW o \in Sockets, Open(o) \/ Closed(o) \/ TimerFires(o) \/ Message(o)
        PROVE  UNCHANGED queue
    BY <1>6 DEF Open, Closed, TimerFires, Message
  <1>7. ASSUME NEW u \in Topics, subscribe(u) \/ unsubscribe(u)
        PROVE  UNCHANGED queue
    BY <1>7 DEF subscribe, unsubscribe
  <1>8. CASE start \/ stop \/ UNCHANGED vars
    BY <1>5, <1>8 DEF start, stop, vars
  <1>9. QED
    BY <1>1, <1>2, <1>3, <1>4, <1>5, <1>6, <1>7, <1>8 DEF Next, Publisher, ServerStep
LEMMA SocketStep == TypeOK /\ SocketInv /\ [Next]_vars => SocketInv'
  <1> SUFFICES ASSUME TypeOK, SocketInv, [Next]_vars
               PROVE  SocketInv'
    OBVIOUS
  <1> USE DEF hubVars, busVars
  <1>0. /\ sock \in [Sockets -> States] /\ current \in {0} \cup Sockets /\ 0 \notin Sockets
        /\ up \in [Sockets -> Seq(Messages)] /\ down \in [Sockets -> Seq(Updates)]
    BY Bounds DEF TypeOK, States
  <1>1. /\ current' # 0 => sock'[current'] \in {"connecting", "open", "lost"}
        /\ \A s \in Sockets : sock'[s] \in {"none", "connecting"} =>
             sock[s] \in {"none", "connecting"}
    <2>1. CASE HubIdle
      BY <2>1 DEF HubIdle, SocketInv
    <2>2. CASE stop
      BY <1>0, <2>2 DEF stop
    <2>3. CASE connect
      <3>1. PICK s \in Sockets : /\ sock[s] = "none" /\ current' = s
                                 /\ sock' = [sock EXCEPT ![s] = "connecting"]
        BY <1>0, <2>3, ConnectFacts DEF States
      <3>2. QED
        BY <1>0, <3>1
    <2>4. ASSUME NEW s \in Sockets, Open(s) \/ Fail(s) \/ Closed(s)
          PROVE  /\ current' # 0 => sock'[current'] \in {"connecting", "open", "lost"}
                 /\ \A o \in Sockets : sock'[o] \in {"none", "connecting"} =>
                      sock[o] \in {"none", "connecting"}
      BY <1>0, <2>4 DEF Open, Fail, Closed, SocketInv
    <2>5. QED
      BY <2>1, <2>2, <2>3, <2>4, HubSteps DEF start, TimerFires
  <1>2. ASSUME NEW s \in Sockets, sock'[s] \in {"none", "connecting"}
        PROVE  up'[s] = <<>> /\ down'[s] = <<>> /\ \A t \in Topics : ~Subscribed(s, t)'
    <2>0. /\ sock[s] \in {"none", "connecting"}
          /\ up[s] = <<>> /\ down[s] = <<>> /\ \A t \in Topics : ~Subscribed(s, t)
      BY <1>1, <1>2 DEF SocketInv
    <2>1. \A t \in Topics : ~Subscribed(s, t)'
      BY <2>0, QueuesKept DEF Receive
    <2>2. ASSUME NEW a, NEW t, Send(a, t)
          PROVE  up'[s] = <<>>
      BY <1>0, <2>0, <2>2 DEF Send
    <2>3. ASSUME NEW t \in Topics, subscribe(t) \/ unsubscribe(t)
          PROVE  up'[s] = <<>> /\ down'[s] = <<>>
      BY <2>0, <2>2, <2>3 DEF subscribe, unsubscribe
    <2>4. ASSUME NEW o \in Sockets, Open(o)
          PROVE  up'[s] = <<>> /\ down'[s] = <<>>
      <3>1. up' = up \/ (current # s /\ up' = [up EXCEPT ![current] = @ \o Subscriptions])
        BY <1>2, <2>4 DEF Open
      <3>2. QED
        BY <1>0, <2>0, <2>4, <3>1 DEF Open
    <2>5. ASSUME NEW o \in Sockets, Fail(o)
          PROVE  up'[s] = <<>> /\ down'[s] = <<>>
      BY <1>0, <2>0, <2>5 DEF Fail
    <2>6. ASSUME NEW o \in Sockets, Message(o) \/ Receive(o)
          PROVE  up'[s] = <<>> /\ down'[s] = <<>>
      <3>1. o # s
        BY <2>0, <2>6 DEF Message, Receive
      <3>2. QED
        BY <1>0, <2>0, <2>6, <3>1 DEF Message, Receive
    <2>7. ASSUME NEW o \in Sockets, NEW t \in Topics, Forward(o, t)
          PROVE  up'[s] = <<>> /\ down'[s] = <<>>
      <3>1. o # s
        BY <2>0, <2>7 DEF Forward
      <3>2. QED
        BY <1>0, <2>0, <2>7, <3>1 DEF Forward
    <2>8. CASE start \/ stop \/ UNCHANGED vars
      BY <2>0, <2>1, <2>8 DEF start, stop, vars
    <2>9. ASSUME NEW o \in Sockets, Closed(o) \/ TimerFires(o) \/ Disconnect(o)
          PROVE  up'[s] = <<>> /\ down'[s] = <<>>
      BY <2>0, <2>9 DEF Closed, TimerFires, Disconnect
    <2>10. ASSUME NEW t \in Topics, publish(t)
           PROVE  up'[s] = <<>> /\ down'[s] = <<>>
      BY <2>0, <2>10 DEF publish
    <2>11. QED
      BY <2>1, <2>3, <2>4, <2>5, <2>6, <2>7, <2>8, <2>9, <2>10 DEF Next, Publisher, ServerStep
  <1>3. QED
    BY <1>1, <1>2 DEF SocketInv
-----------------------------------------------------------------------------
(* The server's subscriptions and the browser's topics.                     *)

\* Publishing and forwarding change what a queue holds, not whether it is
\* there.
LEMMA StaysSubscribed ==
    ASSUME TypeOK, OrderInv, NEW s \in Sockets, NEW t \in Topics,
           NEW o \in Sockets, NEW u \in Topics, publish(u) \/ Forward(o, u)
    PROVE  Subscribed(s, t)' = Subscribed(s, t)
  <1>0. /\ queue \in [Sockets -> [Topics -> Seq(0..MaxEvents)]]
        /\ last \in [Topics -> 0..MaxEvents] /\ Len(queue[s][t]) <= QueueMax
    BY DEF TypeOK
  <1>00. MaxEvents \in Nat /\ Len(NoQueue) = 1 /\ NoQueue[1] = 0 /\ 1 \in 1..1
    BY Bounds DEF NoQueue
  <1>1. CASE publish(u)
    <2>1. queue'[s][t] = IF t = u /\ Subscribed(s, t) THEN Put(queue[s][t], last[u] + 1)
                         ELSE queue[s][t]
      BY <1>0, <1>1 DEF publish
    <2>2. CASE t = u /\ Subscribed(s, t)
      <3>1. last[u] + 1 \in 0..MaxEvents /\ last[u] + 1 # 0
        BY <1>0, <1>00, <1>1 DEF publish
      <3> DEFINE q == queue[s][t]
                 r == Put(q, last[u] + 1)
      <3>2. q \in Seq(0..MaxEvents) /\ Len(q) <= QueueMax
        BY <1>0
      <3>3. r[Len(r)] = last[u] + 1
        <4> DEFINE S == 0..MaxEvents
                   e == last[u] + 1
        <4>1. q \in Seq(S) /\ e \in S /\ Len(q) <= QueueMax
          BY <3>1, <3>2
        <4> HIDE DEF S, q, e
        <4>2. \E d \in {0, 1} : /\ Len(Put(q, e)) = Len(q) - d + 1
                                /\ Put(q, e)[Len(q) - d + 1] = e
          BY <4>1, PutFacts
        <4>3. QED
          BY <4>2 DEF e
      <3> HIDE DEF r
      <3>4. r # NoQueue
        BY <1>00, <3>1, <3>3
      <3>5. QED
        BY <2>1, <2>2, <3>4 DEF Subscribed, r
    <2>3. CASE ~(t = u /\ Subscribed(s, t))
      BY <2>1, <2>3 DEF Subscribed
    <2>4. QED
      BY <2>2, <2>3
  <1>2. CASE Forward(o, u)
    <2>1. queue' = [queue EXCEPT ![o][u] = Tail(@)] /\ Subscribed(o, u) /\ queue[o][u] # <<>>
      BY <1>2 DEF Forward, Taken
    <2>2. CASE s = o /\ t = u
      <3> DEFINE q == queue[o][u]
      <3>1. q \in Seq(0..MaxEvents) /\ q # <<>> /\ \A i \in 1..Len(q) : 0 < q[i]
        BY <1>0, <2>1 DEF OrderInv, InOrder, Subscribed
      <3>2. Tail(q) \in Seq(0..MaxEvents) /\ \A i \in 1..Len(Tail(q)) : 0 < Tail(q)[i]
        BY <3>1, TailFacts
      <3>3. Tail(q) # NoQueue
        <4> DEFINE r == Tail(q)
        <4>1. \A i \in 1..Len(r) : 0 < r[i]
          BY <3>2
        <4> HIDE DEF r
        <4>2. r # NoQueue
          BY <1>00, <4>1
        <4>3. QED
          BY <4>2 DEF r
      <3>4. queue'[s][t] = Tail(q)
        BY <1>0, <2>1, <2>2
      <3> HIDE DEF q
      <3>5. QED
        BY <2>1, <2>2, <3>3, <3>4 DEF Subscribed
    <2>3. CASE ~(s = o /\ t = u)
      BY <1>0, <2>1, <2>3 DEF Subscribed
    <2>4. QED
      BY <2>2, <2>3
  <1>3. QED
    BY <1>1, <1>2
LEMMA AgreeStep ==
    TypeOK /\ SocketInv /\ OrderInv /\ AgreeInv /\ [Next]_vars => AgreeInv'
  <1> SUFFICES ASSUME TypeOK, SocketInv, OrderInv, AgreeInv, [Next]_vars,
                      NEW c, c = current', c # 0, sock'[c] = "open", NEW t \in Topics
               PROVE  Agrees(up'[c], queue'[c][t] # NoQueue, listeners'[t] > 0, t)
    BY DEF AgreeInv, Subscribed
  <1> USE DEF hubVars, busVars
  <1>0. /\ sock \in [Sockets -> States] /\ current \in {0} \cup Sockets /\ 0 \notin Sockets
        /\ up \in [Sockets -> Seq(Messages)]
        /\ queue \in [Sockets -> [Topics -> Seq(0..MaxEvents)]]
        /\ listeners \in [Topics -> 0..MaxUses] /\ MaxUses \in Nat
    BY Bounds DEF TypeOK, States
  <1>1. ~connect /\ ~stop /\ c = current /\ c \in Sockets
    <2>1. ~connect
      BY <1>0, ConnectFacts DEF States
    <2>2. ~stop
      BY DEF stop
    <2>3. CASE \E s \in Sockets : Open(s) \/ Fail(s) \/ Closed(s)
      BY <1>0, <2>1, <2>2, <2>3 DEF Open, Fail, Closed
    <2>4. CASE HubIdle
      BY <1>0, <2>1, <2>2, <2>4 DEF HubIdle
    <2>5. QED
      BY <2>1, <2>2, <2>3, <2>4, HubSteps DEF start, TimerFires
  <1> DEFINE was == queue[c][t] # NoQueue
  <1>2. sock[c] = "open" => Agrees(up[c], was, listeners[t] > 0, t)
    BY <1>0, <1>1 DEF AgreeInv, Subscribed
  <1>3. ASSUME sock[c] = "open", up'[c] = up[c],
               (queue'[c][t] # NoQueue) = was, listeners' = listeners
        PROVE  Agrees(up'[c], queue'[c][t] # NoQueue, listeners'[t] > 0, t)
    BY <1>2, <1>3
  <1>4. ASSUME NEW s \in Sockets, Open(s)
        PROVE  Agrees(up'[c], queue'[c][t] # NoQueue, listeners'[t] > 0, t)
    <2>1. /\ up' = [up EXCEPT ![c] = @ \o Subscriptions] /\ queue' = queue
          /\ listeners' = listeners /\ sock' = [sock EXCEPT ![s] = "open"]
          /\ sock[s] = "connecting"
      BY <1>1, <1>4 DEF Open
    <2>2. (t \in Wanted) = (listeners[t] > 0)
      BY DEF Wanted
    <2>3. t \notin Wanted => Agrees(up[c], was, FALSE, t)
      <3>1. CASE s = c
        <4>1. up[c] = <<>> /\ was = FALSE
          BY <1>1, <2>1, <3>1 DEF SocketInv, Subscribed
        <4>2. Len(up[c]) = 0
          BY <4>1, EmptyFacts
        <4> HIDE DEF was
        <4>3. QED
          BY <4>1, <4>2 DEF Agrees
      <3>2. CASE s # c
        <4>1. sock[c] = "open"
          BY <1>0, <1>1, <2>1, <3>2
        <4>2. Agrees(up[c], was, t \in Wanted, t)
          BY <1>2, <2>2, <4>1
        <4>3. t \notin Wanted => (t \in Wanted) = FALSE
          OBVIOUS
        <4>4. QED
          BY <4>2, <4>3
      <3>3. QED
        BY <3>1, <3>2
    <2>4. Agrees(up[c] \o Subscriptions, was, t \in Wanted, t)
      <3>1. up[c] \in Seq(Messages) /\ was \in BOOLEAN
        BY <1>0, <1>1
      <3> HIDE DEF was
      <3>2. QED
        BY <2>3, <3>1, AgreesSubscriptions
    <2>5. up'[c] = up[c] \o Subscriptions
      BY <1>0, <1>1, <2>1
    <2>6. QED
      BY <2>1, <2>2, <2>4, <2>5
  <1>5. ASSUME NEW s \in Sockets, Fail(s) \/ Closed(s) \/ Disconnect(s)
        PROVE  Agrees(up'[c], queue'[c][t] # NoQueue, listeners'[t] > 0, t)
    <2>1. s # c
      BY <1>0, <1>1, <1>5 DEF Fail, Closed, Disconnect
    <2>2. /\ sock[c] = "open" /\ up'[c] = up[c] /\ queue'[c] = queue[c]
          /\ listeners' = listeners
      BY <1>0, <1>1, <1>5, <2>1 DEF Fail, Closed, Disconnect
    <2>3. QED
      BY <1>3, <2>2
  <1>6. ASSUME NEW s \in Sockets, Message(s)
        PROVE  Agrees(up'[c], queue'[c][t] # NoQueue, listeners'[t] > 0, t)
    BY <1>3, <1>6 DEF Message
  <1>7. ASSUME NEW s \in Sockets, Receive(s)
        PROVE  Agrees(up'[c], queue'[c][t] # NoQueue, listeners'[t] > 0, t)
    <2>1. /\ sock' = sock /\ listeners' = listeners /\ up[s] # <<>>
          /\ up' = [up EXCEPT ![s] = Tail(@)]
      BY <1>7 DEF Receive
    <2>2. CASE s # c
      BY <1>0, <1>1, <1>3, <1>7, <2>1, <2>2 DEF Receive
    <2>3. CASE s = c
      <3> DEFINE h == Head(up[c])
                 now == IF h.topic = t THEN h.action = "subscribe" ELSE was
      <3>1. h.topic \in Topics
        <4>1. h \in Messages
          BY <1>0, <1>1, <2>1, <2>3, TailFacts
        <4>2. QED
          BY <4>1 DEF Messages
      <3>2. (queue'[c][t] # NoQueue) = now
        <4>1. <<>> # NoQueue
          BY DEF NoQueue
        <4>2. queue' = IF (h.action = "subscribe") # Subscribed(c, h.topic)
                       THEN [queue EXCEPT ![c][h.topic] = IF h.action = "subscribe"
                                                          THEN <<>> ELSE NoQueue]
                       ELSE queue
          BY <1>7, <2>3 DEF Receive
        <4> HIDE DEF h
        <4>3. CASE h.topic # t
          BY <1>0, <1>1, <3>1, <4>2, <4>3
        <4>4. CASE h.topic = t
          BY <1>0, <1>1, <3>1, <4>1, <4>2, <4>4 DEF Subscribed
        <4>5. QED
          BY <4>3, <4>4
      <3>3. Agrees(up[c], was, listeners[t] > 0, t)
        BY <1>2, <2>1
      <3>4. up[c] \in Seq(Messages) /\ was \in BOOLEAN /\ (listeners[t] > 0) \in BOOLEAN
        BY <1>0, <1>1
      <3>5. Agrees(Tail(up[c]), now, listeners[t] > 0, t)
        <4> HIDE DEF was
        <4>1. QED
          BY <2>1, <2>3, <3>3, <3>4, AgreesTail, ZenonT(30)
      <3>6. up'[c] = Tail(up[c])
        BY <1>0, <1>1, <2>1, <2>3
      <3> HIDE DEF now
      <3>7. QED
        BY <2>1, <3>2, <3>5, <3>6
    <2>4. QED
      BY <2>2, <2>3
  <1>8. ASSUME NEW o \in Sockets, NEW u \in Topics, publish(u) \/ Forward(o, u)
        PROVE  Agrees(up'[c], queue'[c][t] # NoQueue, listeners'[t] > 0, t)
    <2>1. (queue'[c][t] # NoQueue) = was
      BY <1>1, <1>8, StaysSubscribed DEF Subscribed
    <2>2. UNCHANGED <<sock, up, listeners>>
      BY <1>8 DEF publish, Forward
    <2>3. QED
      BY <1>3, <2>1, <2>2
  <1>9. CASE UNCHANGED vars
    BY <1>3, <1>9 DEF vars
  <1>10. ASSUME NEW u \in Topics, subscribe(u) \/ unsubscribe(u)
         PROVE  Agrees(up'[c], queue'[c][t] # NoQueue, listeners'[t] > 0, t)
    <2>0. /\ sock[c] = "open" /\ queue' = queue /\ \A v \in Topics : listeners[v] \in Nat
      BY <1>0, <1>10 DEF subscribe, unsubscribe
    <2>1. Agrees(up[c], was, listeners[t] > 0, t)
      BY <1>2, <2>0
    <2>2. ASSUME NEW a \in {"subscribe", "unsubscribe"}, Send(a, u),
                 u # t => listeners'[t] = listeners[t],
                 u = t => (listeners'[t] > 0) = (a = "subscribe")
          PROVE  Agrees(up'[c], was, listeners'[t] > 0, t)
      <3> DEFINE m == [action |-> a, topic |-> u]
                 wanted == listeners'[t] > 0
      <3>1. m \in Messages /\ m.topic = u /\ m.action = a
        BY DEF Messages
      <3>2. up' = [up EXCEPT ![c] = Append(@, m)]
        BY <1>1, <2>0, <2>2 DEF Send
      <3>3. up'[c] = Append(up[c], m) /\ up[c] \in Seq(Messages)
        BY <1>0, <1>1, <3>2
      <3>4. was \in BOOLEAN /\ wanted \in BOOLEAN
        OBVIOUS
      <3>5. u # t => Agrees(up[c], was, wanted, t)
        BY <2>1, <2>2
      <3>6. u = t => (a = "subscribe") = wanted
        BY <2>2
      <3> HIDE DEF was, wanted, m
      <3>7. Agrees(Append(up[c], m), was, wanted, t)
        BY <3>1, <3>3, <3>4, <3>5, <3>6, AgreesAppend
      <3>8. QED
        BY <3>3, <3>7 DEF wanted
    <2>3. CASE subscribe(u)
      <3>1. listeners' = [listeners EXCEPT ![u] = @ + 1]
        BY <2>3 DEF subscribe
      <3>2. CASE listeners[u] = 0
        <4>1. Send("subscribe", u)
          BY <2>3, <3>2 DEF subscribe
        <4>2. listeners'[u] > 0 /\ (u # t => listeners'[t] = listeners[t])
          BY <1>0, <2>0, <3>1
        <4>3. QED
          BY <2>0, <2>2, <4>1, <4>2
      <3>3. CASE listeners[u] # 0
        <4>1. up' = up
          BY <2>3, <3>3 DEF subscribe
        <4>2. (listeners'[t] > 0) = (listeners[t] > 0)
          BY <1>0, <2>0, <3>1, <3>3
        <4>3. QED
          BY <2>0, <2>1, <4>1, <4>2
      <3>4. QED
        BY <3>2, <3>3
    <2>4. CASE unsubscribe(u)
      <3>1. listeners[u] > 0 /\ listeners' = [listeners EXCEPT ![u] = @ - 1]
        BY <2>4 DEF unsubscribe
      <3>2. CASE listeners[u] = 1
        <4>1. Send("unsubscribe", u)
          BY <2>4, <3>2 DEF unsubscribe
        <4>2. ~(listeners'[u] > 0) /\ (u # t => listeners'[t] = listeners[t])
          BY <1>0, <2>0, <3>1, <3>2
        <4>3. QED
          BY <2>0, <2>2, <4>1, <4>2
      <3>3. CASE listeners[u] # 1
        <4>1. up' = up
          BY <2>4, <3>3 DEF unsubscribe
        <4>2. (listeners'[t] > 0) = (listeners[t] > 0)
          BY <1>0, <2>0, <3>1, <3>3
        <4>3. QED
          BY <2>0, <2>1, <4>1, <4>2
      <3>4. QED
        BY <3>2, <3>3
    <2>5. QED
      BY <1>10, <2>3, <2>4
  <1>11. QED
    BY <1>1, <1>4, <1>5, <1>6, <1>7, <1>8, <1>9, <1>10
       DEF Next, Publisher, ServerStep, start, TimerFires
-----------------------------------------------------------------------------
(* The order of events.                                                     *)

LEMMA UpdateFacts ==
    ASSUME NEW d \in Seq(Updates)
    PROVE  Len(d) \in Nat /\ \A i \in 1..Len(d) : d[i].data \in Nat
  <1>1. Len(d) \in Nat /\ \A i \in 1..Len(d) : d[i] \in Updates
    BY ElementFacts
  <1>2. \A x \in Updates : x.data \in Nat
    BY Bounds DEF Updates
  <1>3. QED
    BY <1>1, <1>2

LEMMA NumberFacts ==
    ASSUME NEW q \in Seq(0..MaxEvents)
    PROVE  q \in Seq(Nat) /\ Len(q) \in Nat /\ \A i \in 1..Len(q) : q[i] \in Nat
  BY Bounds

\* An event is published: it is newer than all that is under way.
LEMMA InOrderPut ==
    ASSUME NEW q \in Seq(0..MaxEvents), Len(q) <= QueueMax, NEW d \in Seq(Updates),
           NEW n \in Nat, n < MaxEvents, NEW t, InOrder(q, d, n, t)
    PROVE  /\ q # NoQueue => InOrder(Put(q, n + 1), d, n + 1, t)
           /\ q = NoQueue => InOrder(q, d, n + 1, t)
  <1>0. Len(d) \in Nat /\ \A i \in 1..Len(d) : d[i].data \in Nat
    BY UpdateFacts
  <1>1. ASSUME q = NoQueue
        PROVE  InOrder(q, d, n + 1, t)
    <2>1. \A i \in 1..Len(d) : d[i].topic = t =>
            /\ d[i].data <= n
            /\ \A j \in 1..Len(d) : i < j /\ d[j].topic = t => d[i].data <= d[j].data
      BY DEF InOrder
    <2>2. \A i \in 1..Len(d) : d[i].topic = t => d[i].data <= n + 1
      <3>1. \A x \in Nat : x <= n => x <= n + 1
        OBVIOUS
      <3>2. QED
        BY <1>0, <2>1, <3>1
    <2>3. QED
      BY <1>1, <2>1, <2>2, Zenon DEF InOrder
  <1>2. ASSUME q # NoQueue
        PROVE  InOrder(Put(q, n + 1), d, n + 1, t)
    <2> DEFINE e == n + 1
               r == Put(q, e)
               S == 0..MaxEvents
    <2>0. q \in Seq(S) /\ e \in S /\ e \in Nat
      BY Bounds
    <2>1. Len(q) \in Nat /\ \A i \in 1..Len(q) : q[i] \in Nat
      BY NumberFacts
    <2> HIDE DEF e, S
    <2>2. PICK k \in {0, 1} :
                /\ Len(r) = Len(q) - k + 1
                /\ r[Len(q) - k + 1] = e
                /\ \A i \in 1..(Len(q) - k) : r[i] = q[i+k] /\ i+k \in 1..Len(q)
      BY <2>0, PutFacts
    <2> HIDE DEF r
    <2>3. \A i \in 1..Len(r) : \/ r[i] = e /\ i = Len(r)
                               \/ i < Len(r) /\ r[i] = q[i+k] /\ i+k \in 1..Len(q)
      <3>1. ASSUME NEW i \in 1..Len(r), i # Len(r)
            PROVE  i \in 1..(Len(q) - k) /\ i < Len(r)
        BY <2>1, <2>2, <3>1
      <3>2. QED
        BY <2>2, <3>1
    <2>4. ASSUME NEW i \in 1..Len(r)
          PROVE  /\ 0 < r[i] /\ r[i] <= e
                 /\ \A j \in 1..Len(r) : i < j => r[i] < r[j]
                 /\ \A j \in 1..Len(d) : d[j].topic = t => d[j].data <= r[i]
      <3>1. CASE i = Len(r)
        <4>1. r[i] = e
          BY <2>3, <3>1
        <4>2. \A j \in 1..Len(d) : d[j].topic = t => d[j].data <= n
          BY DEF InOrder
        <4>3. Len(r) \in Nat
          BY <2>1, <2>2
        <4>4. QED
          BY <1>0, <2>0, <3>1, <4>1, <4>2, <4>3 DEF e
      <3>2. CASE i # Len(r)
        <4>1. r[i] = q[i+k] /\ i+k \in 1..Len(q)
          BY <2>3, <3>2
        <4>2. /\ 0 < q[i+k] /\ q[i+k] <= n /\ q[i+k] \in Nat
              /\ \A j \in 1..Len(q) : i+k < j => q[i+k] < q[j]
              /\ \A j \in 1..Len(d) : d[j].topic = t => d[j].data <= q[i+k]
          BY <1>2, <2>1, <4>1 DEF InOrder
        <4>3. ASSUME NEW j \in 1..Len(r), i < j
              PROVE  r[i] < r[j]
          <5>1. CASE r[j] = e
            BY <4>1, <4>2, <5>1 DEF e
          <5>2. CASE r[j] = q[j+k] /\ j+k \in 1..Len(q)
            <6>1. i+k < j+k
              BY <4>3
            <6>2. QED
              BY <4>1, <4>2, <5>2, <6>1
          <5>3. QED
            BY <2>3, <5>1, <5>2
        <4>4. QED
          BY <4>1, <4>2, <4>3 DEF e
      <3>3. QED
        BY <3>1, <3>2
    <2>5. \A i \in 1..Len(d) : d[i].topic = t =>
            /\ d[i].data <= e
            /\ \A j \in 1..Len(d) : i < j /\ d[j].topic = t => d[i].data <= d[j].data
      BY <1>0 DEF InOrder, e
    <2>6. QED
      BY <2>4, <2>5 DEF InOrder, r, e
  <1>3. QED
    BY <1>1, <1>2

\* The oldest item of the queue becomes the newest frame.
LEMMA InOrderTaken ==
    ASSUME NEW q \in Seq(0..MaxEvents), q # <<>>, q # NoQueue, NEW d \in Seq(Updates),
           NEW n \in Nat, NEW t \in Topics, InOrder(q, d, n, t)
    PROVE  InOrder(Tail(q), Append(d, [topic |-> t, data |-> Head(q)]), n, t)
  <1> DEFINE m == [topic |-> t, data |-> Head(q)]
             r == Tail(q)
             f == Append(d, m)
  <1>0. Len(d) \in Nat /\ \A i \in 1..Len(d) : d[i].data \in Nat
    BY UpdateFacts
  <1>1. Len(q) \in Nat /\ \A i \in 1..Len(q) : q[i] \in Nat
    BY NumberFacts
  <1>2. /\ Head(q) = q[1] /\ 1 \in 1..Len(q) /\ Head(q) \in 0..MaxEvents
        /\ Len(r) = Len(q) - 1
        /\ \A i \in 1..Len(r) : r[i] = q[i+1] /\ i+1 \in 1..Len(q)
    BY TailFacts
  <1>3. m \in Updates /\ m.topic = t /\ m.data = q[1]
    BY <1>2 DEF Updates
  <1> HIDE DEF m, r
  <1>4. /\ Len(f) = Len(d) + 1 /\ f[Len(d) + 1] = m
        /\ \A i \in 1..Len(d) : f[i] = d[i]
    BY <1>3, AppendFacts
  <1> HIDE DEF f
  <1>5. \A i \in 1..Len(f) : (i \in 1..Len(d) /\ f[i] = d[i]) \/ (i = Len(d) + 1 /\ f[i] = m)
    <2>1. \A i \in 1..Len(f) : i \in 1..Len(d) \/ i = Len(d) + 1
      BY <1>0, <1>4
    <2>2. QED
      BY <1>4, <2>1
  <1>6. /\ \A i \in 1..Len(q) :
             /\ 0 < q[i] /\ q[i] <= n
             /\ \A j \in 1..Len(q) : i < j => q[i] < q[j]
             /\ \A j \in 1..Len(d) : d[j].topic = t => d[j].data <= q[i]
        /\ \A i \in 1..Len(d) : d[i].topic = t =>
             /\ d[i].data <= n
             /\ \A j \in 1..Len(d) : i < j /\ d[j].topic = t => d[i].data <= d[j].data
    BY DEF InOrder
  <1>7. ASSUME NEW i \in 1..Len(r)
        PROVE  /\ 0 < r[i] /\ r[i] <= n
               /\ \A j \in 1..Len(r) : i < j => r[i] < r[j]
               /\ \A j \in 1..Len(f) : f[j].topic = t => f[j].data <= r[i]
    <2>1. r[i] = q[i+1] /\ i+1 \in 1..Len(q) /\ 1 < i+1
      BY <1>2
    <2>2. \A j \in 1..Len(r) : i < j => r[i] < r[j]
      BY <1>2, <1>6, <2>1, SMTT(30)
    <2>3. q[1] <= q[i+1]
      BY <1>1, <1>2, <1>6, <2>1
    <2>4. \A j \in 1..Len(f) : f[j].topic = t => f[j].data <= r[i]
      BY <1>3, <1>5, <1>6, <2>1, <2>3
    <2>5. QED
      BY <1>6, <2>1, <2>2, <2>4
  <1>8. ASSUME NEW i \in 1..Len(f), f[i].topic = t
        PROVE  /\ f[i].data <= n
               /\ \A j \in 1..Len(f) : i < j /\ f[j].topic = t => f[i].data <= f[j].data
    <2>1. CASE i = Len(d) + 1
      <3>1. \A j \in 1..Len(f) : ~(i < j)
        BY <1>0, <1>4, <2>1
      <3>2. f[i] = m
        BY <1>4, <2>1
      <3>3. QED
        BY <1>2, <1>3, <1>6, <3>1, <3>2
    <2>2. CASE i \in 1..Len(d) /\ f[i] = d[i]
      BY <1>2, <1>3, <1>5, <1>6, <1>8, <2>2
    <2>3. QED
      BY <1>5, <2>1, <2>2
  <1>9. QED
    BY <1>7, <1>8 DEF InOrder, r, f, m

\* Another topic's frame joins; a frame is read; the queue goes or begins.
LEMMA InOrderOther ==
    ASSUME NEW q \in Seq(0..MaxEvents), NEW d \in Seq(Updates), NEW n \in Nat, NEW t,
           NEW m \in Updates, InOrder(q, d, n, t)
    PROVE  /\ m.topic # t => InOrder(q, Append(d, m), n, t)
           /\ d # <<>> => InOrder(q, Tail(d), n, t)
           /\ InOrder(NoQueue, d, n, t) /\ InOrder(<<>>, d, n, t)
           /\ InOrder(NoQueue, <<>>, n, t)
  <1> USE DEF InOrder
  <1>0. Len(d) \in Nat
    BY UpdateFacts
  <1>1. ASSUME m.topic # t
        PROVE  InOrder(q, Append(d, m), n, t)
    <2> DEFINE f == Append(d, m)
    <2>1. /\ Len(f) = Len(d) + 1 /\ f[Len(d) + 1] = m
          /\ \A i \in 1..Len(d) : f[i] = d[i]
      BY AppendFacts
    <2> HIDE DEF f
    <2>2. \A i \in 1..Len(f) : f[i].topic = t => i \in 1..Len(d) /\ f[i] = d[i]
      <3>1. \A i \in 1..Len(f) : i \in 1..Len(d) \/ i = Len(d) + 1
        BY <1>0, <2>1
      <3>2. QED
        BY <1>1, <2>1, <3>1
    <2>3. InOrder(q, f, n, t)
      BY <2>2
    <2>4. QED
      BY <2>3 DEF f
  <1>2. ASSUME d # <<>>
        PROVE  InOrder(q, Tail(d), n, t)
    <2> DEFINE f == Tail(d)
    <2>1. Len(f) \in Nat /\ \A i \in 1..Len(f) : f[i] = d[i+1] /\ i+1 \in 1..Len(d)
      BY <1>0, <1>2, TailFacts, ElementFacts
    <2> HIDE DEF f
    <2>2. ASSUME NEW i \in 1..Len(f), f[i].topic = t
          PROVE  /\ f[i].data <= n
                 /\ \A j \in 1..Len(f) : i < j /\ f[j].topic = t => f[i].data <= f[j].data
      <3>1. f[i] = d[i+1] /\ i+1 \in 1..Len(d)
        BY <2>1
      <3>2. ASSUME NEW j \in 1..Len(f), i < j, f[j].topic = t
            PROVE  f[i].data <= f[j].data
        <4>1. f[j] = d[j+1] /\ j+1 \in 1..Len(d) /\ i+1 < j+1
          BY <2>1, <3>2
        <4>2. QED
          BY <2>2, <3>1, <3>2, <4>1
      <3>3. QED
        BY <2>2, <3>1, <3>2
    <2>3. ASSUME q # NoQueue, NEW i \in 1..Len(q)
          PROVE  \A j \in 1..Len(f) : f[j].topic = t => f[j].data <= q[i]
      BY <2>1, <2>3
    <2>4. InOrder(q, f, n, t)
      BY <2>2, <2>3
    <2>5. QED
      BY <2>4 DEF f
  <1>3. InOrder(NoQueue, d, n, t)
    OBVIOUS
  <1>4. Len(<<>>) = 0 /\ \A i \in 1..0 : FALSE
    BY EmptyFacts
  <1>5. InOrder(<<>>, d, n, t) /\ InOrder(NoQueue, <<>>, n, t)
    BY <1>4
  <1>6. QED
    BY <1>1, <1>2, <1>3, <1>5
LEMMA OrderStep == TypeOK /\ OrderInv /\ [Next]_vars => OrderInv'
  <1> SUFFICES ASSUME TypeOK, OrderInv, [Next]_vars, NEW s \in Sockets, NEW t \in Topics
               PROVE  InOrder(queue'[s][t], down'[s], last'[t], t)
    BY DEF OrderInv
  <1> USE DEF hubVars, busVars
  <1>0. /\ down \in [Sockets -> Seq(Updates)] /\ MaxEvents \in Nat
        /\ queue \in [Sockets -> [Topics -> Seq(0..MaxEvents)]]
        /\ last \in [Topics -> 0..MaxEvents]
        /\ \A o \in Sockets, u \in Topics : Len(queue[o][u]) <= QueueMax
    BY Bounds DEF TypeOK
  <1>1. /\ queue[s][t] \in Seq(0..MaxEvents) /\ down[s] \in Seq(Updates) /\ last[t] \in Nat
        /\ InOrder(queue[s][t], down[s], last[t], t)
    BY <1>0 DEF OrderInv
  <1>2. /\ InOrder(NoQueue, down[s], last[t], t) /\ InOrder(<<>>, down[s], last[t], t)
        /\ InOrder(NoQueue, <<>>, last[t], t)
        /\ down[s] # <<>> => InOrder(queue[s][t], Tail(down[s]), last[t], t)
    <2>1. [topic |-> t, data |-> 0] \in Updates
      BY <1>0 DEF Updates
    <2>2. QED
      BY <1>1, <2>1, InOrderOther
  <1>3. CASE UNCHANGED <<queue, down, last>>
    BY <1>1, <1>3
  <1>4. ASSUME NEW u \in Topics, publish(u)
        PROVE  InOrder(queue'[s][t], down'[s], last'[t], t)
    <2>1. CASE u # t
      <3>1. queue'[s][t] = queue[s][t] /\ down' = down /\ last'[t] = last[t]
        BY <1>0, <1>4, <2>1 DEF publish
      <3>2. QED
        BY <1>1, <3>1
    <2>2. CASE u = t
      <3>1. /\ queue'[s][t] = IF queue[s][t] # NoQueue THEN Put(queue[s][t], last[t] + 1)
                                                      ELSE queue[s][t]
            /\ down' = down /\ last'[t] = last[t] + 1 /\ last[t] < MaxEvents
        BY <1>0, <1>4, <2>2 DEF publish, Subscribed
      <3>2. /\ queue[s][t] # NoQueue =>
                 InOrder(Put(queue[s][t], last[t] + 1), down[s], last[t] + 1, t)
            /\ queue[s][t] = NoQueue => InOrder(queue[s][t], down[s], last[t] + 1, t)
        BY <1>0, <1>1, <3>1, InOrderPut
      <3>3. QED
        BY <3>1, <3>2
    <2>3. QED
      BY <2>1, <2>2
  <1>5. ASSUME NEW o \in Sockets, Fail(o) \/ Disconnect(o)
        PROVE  InOrder(queue'[s][t], down'[s], last'[t], t)
    <2>1. /\ queue' = [queue EXCEPT ![o] = NoQueues] /\ last' = last
          /\ down' = [down EXCEPT ![o] = <<>>] \/ down' = down
      BY <1>5 DEF Fail, Disconnect
    <2>2. CASE o = s
      <3>1. queue'[s][t] = NoQueue /\ down'[s] \in {<<>>, down[s]}
        BY <1>0, <2>1, <2>2 DEF NoQueues
      <3>2. QED
        BY <1>2, <2>1, <3>1
    <2>3. CASE o # s
      BY <1>0, <1>1, <2>1, <2>3
    <2>4. QED
      BY <2>2, <2>3
  <1>6. ASSUME NEW o \in Sockets, Message(o)
        PROVE  InOrder(queue'[s][t], down'[s], last'[t], t)
    <2>1. /\ queue' = queue /\ last' = last /\ down[o] # <<>>
          /\ down' = [down EXCEPT ![o] = Tail(@)]
      BY <1>6 DEF Message
    <2>2. (o = s /\ down'[s] = Tail(down[s])) \/ down'[s] = down[s]
      BY <1>0, <2>1
    <2>3. QED
      BY <1>1, <1>2, <2>1, <2>2
  <1>7. ASSUME NEW o \in Sockets, Receive(o)
        PROVE  InOrder(queue'[s][t], down'[s], last'[t], t)
    <2>1. /\ down' = down /\ last' = last
          /\ \/ queue' = queue
             \/ \E q \in {<<>>, NoQueue} : queue' = [queue EXCEPT ![o][Head(up[o]).topic] = q]
      BY <1>7 DEF Receive
    <2>2. queue'[s][t] \in {queue[s][t], <<>>, NoQueue}
      BY <1>0, <2>1, SMTT(30)
    <2>3. QED
      BY <1>1, <1>2, <2>1, <2>2
  <1>8. ASSUME NEW o \in Sockets, NEW u \in Topics, Forward(o, u)
        PROVE  InOrder(queue'[s][t], down'[s], last'[t], t)
    <2> DEFINE m == [topic |-> u, data |-> Head(queue[o][u])]
    <2>1. /\ queue[o][u] # NoQueue /\ queue[o][u] # <<>> /\ last' = last
          /\ down' = [down EXCEPT ![o] = Append(@, m)]
          /\ queue' = [queue EXCEPT ![o][u] = Tail(@)]
      BY <1>8 DEF Forward, Taken, Subscribed
    <2>2. m \in Updates /\ m.topic = u
      <3>1. Head(queue[o][u]) \in 0..MaxEvents
        BY <1>0, <2>1, TailFacts
      <3>2. QED
        BY <3>1 DEF Updates
    <2>3. CASE o # s
      <3>1. queue'[s] = queue[s] /\ down'[s] = down[s]
        BY <1>0, <2>1, <2>3
      <3>2. QED
        BY <1>1, <2>1, <3>1
    <2>4. CASE o = s /\ u # t
      <3>1. queue'[s][t] = queue[s][t] /\ down'[s] = Append(down[s], m)
        BY <1>0, <2>1, <2>4
      <3> HIDE DEF m
      <3>2. QED
        BY <1>1, <2>1, <2>2, <2>4, <3>1, InOrderOther
    <2>5. CASE o = s /\ u = t
      <3>1. queue'[s][t] = Tail(queue[s][t]) /\ down'[s] = Append(down[s], m)
        BY <1>0, <2>1, <2>5
      <3>2. InOrder(Tail(queue[s][t]), Append(down[s], [topic |-> t, data |-> Head(queue[s][t])]),
                    last[t], t)
        BY <1>1, <2>1, <2>5, InOrderTaken
      <3>3. m = [topic |-> t, data |-> Head(queue[s][t])]
        BY <2>5
      <3> HIDE DEF m
      <3>4. QED
        BY <2>1, <3>1, <3>2, <3>3
    <2>6. QED
      BY <2>3, <2>4, <2>5
  <1>9. CASE start \/ stop \/ UNCHANGED vars
    BY <1>3, <1>9 DEF start, stop, vars
  <1>10. ASSUME NEW o \in Sockets, Open(o) \/ Closed(o) \/ TimerFires(o)
         PROVE  UNCHANGED <<queue, down, last>>
    BY <1>10 DEF Open, Closed, TimerFires
  <1>11. ASSUME NEW u \in Topics, subscribe(u) \/ unsubscribe(u)
         PROVE  UNCHANGED <<queue, down, last>>
    BY <1>11 DEF subscribe, unsubscribe
  <1>12. QED
    BY <1>3, <1>4, <1>5, <1>6, <1>7, <1>8, <1>9, <1>10, <1>11
       DEF Next, Publisher, ServerStep
-----------------------------------------------------------------------------
(* What is shown.                                                           *)

\* What is under way stays no older than v.
LEMMA NotOlderKept ==
    ASSUME NEW q \in Seq(0..MaxEvents), Len(q) <= QueueMax, NEW d \in Seq(Updates),
           NEW v \in Nat, NEW n \in Nat, n < MaxEvents, v <= n, NEW t, NotOlder(q, d, v, t)
    PROVE  q # NoQueue => NotOlder(Put(q, n + 1), d, v, t)
  <1> DEFINE e == n + 1
             r == Put(q, e)
             S == 0..MaxEvents
  <1>0. q \in Seq(S) /\ e \in S /\ v <= e
    BY Bounds
  <1>1. Len(q) \in Nat /\ \A i \in 1..Len(q) : q[i] \in Nat
    BY NumberFacts
  <1> HIDE DEF e, S
  <1>2. PICK k \in {0, 1} :
              /\ Len(r) = Len(q) - k + 1
              /\ r[Len(q) - k + 1] = e
              /\ \A i \in 1..(Len(q) - k) : r[i] = q[i+k] /\ i+k \in 1..Len(q)
    BY <1>0, PutFacts
  <1> HIDE DEF r
  <1>3. ASSUME NEW i \in 1..Len(r), q # NoQueue
        PROVE  v <= r[i]
    <2>1. i \in 1..(Len(q) - k) \/ i = Len(q) - k + 1
      BY <1>1, <1>2
    <2>2. QED
      BY <1>0, <1>2, <1>3, <2>1 DEF NotOlder
  <1>4. QED
    BY <1>3 DEF NotOlder, r, e

LEMMA NotOlderTaken ==
    ASSUME NEW q \in Seq(0..MaxEvents), q # <<>>, q # NoQueue, NEW d \in Seq(Updates),
           NEW v \in Nat, NEW u \in Topics, NotOlder(q, d, v, u)
    PROVE  NotOlder(Tail(q), Append(d, [topic |-> u, data |-> Head(q)]), v, u)
  <1> DEFINE m == [topic |-> u, data |-> Head(q)]
             r == Tail(q)
             f == Append(d, m)
  <1>1. /\ Head(q) = q[1] /\ 1 \in 1..Len(q) /\ Head(q) \in 0..MaxEvents
        /\ \A i \in 1..Len(r) : r[i] = q[i+1] /\ i+1 \in 1..Len(q)
    BY TailFacts
  <1>2. m \in Updates /\ m.topic = u /\ m.data = q[1]
    BY <1>1 DEF Updates
  <1> HIDE DEF m, r
  <1>3. /\ Len(d) \in Nat /\ Len(f) = Len(d) + 1 /\ f[Len(d) + 1] = m
        /\ \A i \in 1..Len(d) : f[i] = d[i]
    BY <1>2, AppendFacts, UpdateFacts
  <1> HIDE DEF f
  <1>4. \A i \in 1..Len(f) : i \in 1..Len(d) \/ i = Len(d) + 1
    BY <1>3
  <1>5. \A i \in 1..Len(f) : f[i].topic = u => v <= f[i].data
    BY <1>1, <1>2, <1>3, <1>4 DEF NotOlder
  <1>6. \A i \in 1..Len(r) : v <= r[i]
    BY <1>1 DEF NotOlder
  <1>7. QED
    BY <1>5, <1>6 DEF NotOlder, r, f, m

LEMMA NotOlderOther ==
    ASSUME NEW q \in Seq(0..MaxEvents), NEW d \in Seq(Updates), NEW v, NEW t,
           NEW m \in Updates, NotOlder(q, d, v, t)
    PROVE  /\ m.topic # t => NotOlder(q, Append(d, m), v, t)
           /\ d # <<>> => NotOlder(q, Tail(d), v, t)
           /\ NotOlder(NoQueue, d, v, t) /\ NotOlder(<<>>, d, v, t)
  <1> USE DEF NotOlder
  <1>0. Len(d) \in Nat
    BY UpdateFacts
  <1>1. ASSUME m.topic # t
        PROVE  NotOlder(q, Append(d, m), v, t)
    <2> DEFINE f == Append(d, m)
    <2>1. /\ Len(f) = Len(d) + 1 /\ f[Len(d) + 1] = m
          /\ \A i \in 1..Len(d) : f[i] = d[i]
      BY AppendFacts
    <2> HIDE DEF f
    <2>2. \A i \in 1..Len(f) : i \in 1..Len(d) \/ i = Len(d) + 1
      BY <1>0, <2>1
    <2>3. NotOlder(q, f, v, t)
      BY <1>1, <2>1, <2>2
    <2>4. QED
      BY <2>3 DEF f
  <1>2. ASSUME d # <<>>
        PROVE  NotOlder(q, Tail(d), v, t)
    <2> DEFINE f == Tail(d)
    <2>1. \A i \in 1..Len(f) : f[i] = d[i+1] /\ i+1 \in 1..Len(d)
      BY <1>2, TailFacts
    <2> HIDE DEF f
    <2>2. NotOlder(q, f, v, t)
      BY <2>1
    <2>3. QED
      BY <2>2 DEF f
  <1>3. Len(<<>>) = 0 /\ \A i \in 1..0 : FALSE
    BY EmptyFacts
  <1>4. NotOlder(NoQueue, d, v, t) /\ NotOlder(<<>>, d, v, t)
    BY <1>3
  <1>5. QED
    BY <1>1, <1>2, <1>4
\* Without overlap, a socket that is open is this.socket.
LEMMA OpenIsCurrent ==
    ASSUME TypeOK, HubInv, ~overlap, NEW s \in Sockets, sock[s] = "open"
    PROVE  s = current /\ current # 0
  BY Bounds DEF HubInv, Live, TypeOK

LEMMA OverlapStays == ASSUME [Next]_vars, ~overlap' PROVE ~overlap
  BY HubSteps DEF HubIdle, start, stop, Open, Fail, Closed, TimerFires, hubVars

\* What is shown is replaced by the frame read, or goes with its last listener.
LEMMA ShownChanges ==
    ASSUME TypeOK, [Next]_vars, NEW t \in Topics
    PROVE  \/ shown'[t] = shown[t]
           \/ listeners'[t] = 0 /\ shown'[t] = 0 /\ UNCHANGED <<current, queue, down, last>>
           \/ \E s \in Sockets : /\ Message(s) /\ Head(down[s]).topic = t
                                 /\ shown'[t] = Head(down[s]).data
  <1> USE DEF hubVars, busVars
  <1>0. /\ shown \in [Topics -> 0..MaxEvents] /\ listeners \in [Topics -> 0..MaxUses]
        /\ MaxUses \in Nat /\ down \in [Sockets -> Seq(Updates)]
    BY Bounds DEF TypeOK
  <1>1. ASSUME NEW u \in Topics, unsubscribe(u)
        PROVE  \/ shown'[t] = shown[t]
               \/ listeners'[t] = 0 /\ shown'[t] = 0 /\ UNCHANGED <<current, queue, down, last>>
    <2>1. CASE listeners[u] = 1 /\ u = t
      BY <1>0, <1>1, <2>1 DEF unsubscribe
    <2>2. CASE ~(listeners[u] = 1 /\ u = t)
      BY <1>0, <1>1, <2>2 DEF unsubscribe
    <2>3. QED
      BY <2>1, <2>2
  <1>2. ASSUME NEW s \in Sockets, Message(s)
        PROVE  shown'[t] = shown[t] \/ (Head(down[s]).topic = t /\ shown'[t] = Head(down[s]).data)
    BY <1>0, <1>2 DEF Message
  <1>3. ASSUME NEW s \in Sockets,
               Open(s) \/ Fail(s) \/ Closed(s) \/ TimerFires(s) \/ ServerStep(s)
        PROVE  shown' = shown
    BY <1>3 DEF Open, Fail, Closed, TimerFires, ServerStep, Receive, Disconnect, Forward
  <1>4. ASSUME NEW u \in Topics, subscribe(u) \/ publish(u)
        PROVE  shown' = shown
    BY <1>4 DEF subscribe, publish
  <1>5. start \/ stop \/ UNCHANGED vars => shown' = shown
    BY DEF start, stop, vars
  <1>6. QED
    BY <1>1, <1>2, <1>3, <1>4, <1>5 DEF Next, Publisher

LEMMA ShownStep ==
    TypeOK /\ UsesInv /\ HubInv /\ SocketInv /\ OrderInv /\ ShownInv /\ [Next]_vars
      => ShownInv'
  <1> SUFFICES ASSUME TypeOK, UsesInv, HubInv, SocketInv, OrderInv, ShownInv, [Next]_vars,
                      NEW t \in Topics
               PROVE  /\ shown'[t] <= last'[t]
                      /\ ~overlap' /\ current' # 0 =>
                           NotOlder(queue'[current'][t], down'[current'], shown'[t], t)
    BY DEF ShownInv
  <1> USE DEF hubVars, busVars
  <1>0. /\ sock \in [Sockets -> States] /\ current \in {0} \cup Sockets /\ 0 \notin Sockets
        /\ down \in [Sockets -> Seq(Updates)] /\ MaxEvents \in Nat
        /\ queue \in [Sockets -> [Topics -> Seq(0..MaxEvents)]]
        /\ last \in [Topics -> 0..MaxEvents] /\ shown \in [Topics -> 0..MaxEvents]
        /\ \A o \in Sockets, u \in Topics : Len(queue[o][u]) <= QueueMax
    BY Bounds DEF TypeOK, States
  <1>1. /\ last[t] \in Nat /\ shown[t] \in Nat /\ shown[t] <= last[t]
        /\ last'[t] \in {last[t], last[t] + 1}
    <2>1. last' = last \/ \E u \in Topics : publish(u)
      BY DEF Next, Publisher, start, stop, subscribe, unsubscribe, Open, Fail, Closed,
             TimerFires, Message, ServerStep, Receive, Disconnect, Forward, vars
    <2>2. last'[t] \in {last[t], last[t] + 1}
      BY <1>0, <2>1 DEF publish
    <2>3. QED
      BY <1>0, <2>2 DEF ShownInv
  \* A frame that is read.
  <1>2. ASSUME NEW s \in Sockets, Message(s), Head(down[s]).topic = t,
               shown'[t] = Head(down[s]).data
        PROVE  /\ shown'[t] <= last[t]
               /\ NotOlder(queue[s][t], Tail(down[s]), shown'[t], t)
    <2> DEFINE d == down[s]
               q == queue[s][t]
               f == Tail(d)
    <2>1. d # <<>> /\ d \in Seq(Updates) /\ InOrder(q, d, last[t], t)
      BY <1>0, <1>2 DEF Message, OrderInv
    <2>2. /\ Head(d) = d[1] /\ 1 \in 1..Len(d) /\ Len(d) \in Nat
          /\ \A i \in 1..Len(f) : f[i] = d[i+1] /\ i+1 \in 1..Len(d)
      BY <2>1, TailFacts, ElementFacts
    <2>3. d[1].topic = t /\ shown'[t] = d[1].data
      BY <1>2, <2>2
    <2> HIDE DEF d, q, f
    <2>4. shown'[t] <= last[t]
      BY <2>1, <2>2, <2>3 DEF InOrder
    <2>5. \A i \in 1..Len(f) : f[i].topic = t => shown'[t] <= f[i].data
      <3>1. ASSUME NEW i \in 1..Len(f), f[i].topic = t
            PROVE  shown'[t] <= f[i].data
        <4>1. f[i] = d[i+1] /\ i+1 \in 1..Len(d) /\ 1 < i+1
          BY <2>2
        <4>2. QED
          BY <2>1, <2>2, <2>3, <3>1, <4>1 DEF InOrder
      <3>2. QED
        BY <3>1
    <2>6. q # NoQueue => \A i \in 1..Len(q) : shown'[t] <= q[i]
      BY <2>1, <2>2, <2>3 DEF InOrder
    <2>7. QED
      BY <2>4, <2>5, <2>6 DEF NotOlder, d, q, f
  <1>3. shown'[t] <= last'[t]
    <2>1. shown'[t] \in {shown[t], 0} \/ shown'[t] <= last[t]
      BY <1>2, ShownChanges
    <2>2. shown'[t] \in Nat
      <3>1. TypeOK'
        BY TypeStep
      <3>2. QED
        BY <1>0, <3>1 DEF TypeOK
    <2>3. QED
      BY <1>1, <2>1, <2>2
  <1>4. SUFFICES ASSUME ~overlap', current' # 0
                 PROVE  NotOlder(queue'[current'][t], down'[current'], shown'[t], t)
    BY <1>3
  <1>5. ~overlap
    BY <1>4, OverlapStays
  <1> DEFINE c == current
             q == queue[c][t]
             d == down[c]
             v == shown[t]
  <1>6. c # 0 => /\ c \in Sockets /\ NotOlder(q, d, v, t)
                 /\ q \in Seq(0..MaxEvents) /\ d \in Seq(Updates)
    BY <1>0, <1>5 DEF ShownInv
  <1>7. c # 0 => /\ NotOlder(NoQueue, d, v, t) /\ NotOlder(<<>>, d, v, t)
                 /\ d # <<>> => NotOlder(q, Tail(d), v, t)
    <2>1. [topic |-> t, data |-> 0] \in Updates
      BY <1>0 DEF Updates
    <2> HIDE DEF q, d, v, c
    <2>2. QED
      BY <1>6, <2>1, NotOlderOther
  <1>8. NotOlder(NoQueue, <<>>, v, t)
    <2>1. Len(<<>>) = 0 /\ \A i \in 1..0 : FALSE
      BY EmptyFacts
    <2>2. QED
      BY <2>1 DEF NotOlder
  \* A new socket has carried nothing.
  <1>9. CASE connect /\ UNCHANGED <<queue, down, shown>>
    <2>1. PICK s \in Sockets : sock[s] = "none" /\ current' = s
      BY <1>0, <1>9, ConnectFacts DEF States
    <2>2. queue[s][t] = NoQueue /\ down[s] = <<>>
      BY <2>1 DEF SocketInv, Subscribed
    <2>3. QED
      BY <1>8, <1>9, <2>1, <2>2
  <1>10. CASE current' = current /\ UNCHANGED <<queue, down, shown>>
    BY <1>4, <1>6, <1>10
  <1>11. CASE stop
    BY <1>4, <1>11 DEF stop
  <1>12. ASSUME NEW s \in Sockets, Open(s) \/ Closed(s)
         PROVE  current' = current /\ UNCHANGED <<queue, down, shown>>
    BY <1>4, <1>12 DEF Open, Closed
  <1>13. ASSUME NEW s \in Sockets, Fail(s) \/ Disconnect(s)
         PROVE  NotOlder(queue'[current'][t], down'[current'], shown'[t], t)
    <2>1. /\ queue' = [queue EXCEPT ![s] = NoQueues] /\ shown' = shown /\ current' = c
          /\ down' = [down EXCEPT ![s] = <<>>] \/ down' = down
      BY <1>13 DEF Fail, Disconnect
    <2>2. c # 0
      BY <1>4, <2>1
    <2>3. CASE s = c
      <3>1. queue'[c][t] = NoQueue /\ down'[c] \in {<<>>, d}
        BY <1>0, <1>6, <2>1, <2>2, <2>3 DEF NoQueues
      <3>2. QED
        BY <1>7, <1>8, <2>1, <2>2, <3>1
    <2>4. CASE s # c
      BY <1>0, <1>6, <2>1, <2>2, <2>4
    <2>5. QED
      BY <2>3, <2>4
  <1>14. ASSUME NEW s \in Sockets, Message(s)
         PROVE  NotOlder(queue'[current'][t], down'[current'], shown'[t], t)
    <2>1. s = c /\ c # 0
      BY <1>5, <1>14, OpenIsCurrent DEF Message
    <2>2. /\ queue' = queue /\ current' = c /\ d # <<>>
          /\ down' = [down EXCEPT ![c] = Tail(@)]
      BY <1>14, <2>1 DEF Message
    <2>3. down'[c] = Tail(d)
      BY <1>0, <1>6, <2>1, <2>2
    <2>4. CASE shown'[t] = v
      BY <1>7, <2>1, <2>2, <2>3, <2>4
    <2>5. CASE Head(d).topic = t /\ shown'[t] = Head(d).data
      BY <1>2, <1>14, <2>1, <2>2, <2>3, <2>5
    <2>6. shown'[t] = v \/ (Head(d).topic = t /\ shown'[t] = Head(d).data)
      BY <1>0, <1>14, <2>1 DEF Message
    <2>7. QED
      BY <2>4, <2>5, <2>6
  <1>15. ASSUME NEW s \in Sockets, Receive(s)
         PROVE  NotOlder(queue'[current'][t], down'[current'], shown'[t], t)
    <2>1. /\ down' = down /\ shown' = shown /\ current' = c
          /\ \/ queue' = queue
             \/ \E r \in {<<>>, NoQueue} : queue' = [queue EXCEPT ![s][Head(up[s]).topic] = r]
      BY <1>15 DEF Receive
    <2>2. c # 0
      BY <1>4, <2>1
    <2>3. queue'[c][t] \in {q, <<>>, NoQueue}
      <3>1. CASE queue' = queue
        BY <3>1
      <3>2. ASSUME NEW r \in {<<>>, NoQueue},
                   queue' = [queue EXCEPT ![s][Head(up[s]).topic] = r]
            PROVE  queue'[c][t] \in {q, r}
        <4>1. queue \in [Sockets -> [Topics -> Seq(0..MaxEvents)]] /\ c \in Sockets
          BY <1>0, <1>6, <2>2
        <4> HIDE DEF c
        <4>2. QED
          BY <3>2, <4>1
      <3>3. QED
        BY <2>1, <3>1, <3>2
    <2>4. QED
      BY <1>6, <1>7, <2>1, <2>2, <2>3
  <1>16. ASSUME NEW u \in Topics, publish(u)
         PROVE  NotOlder(queue'[current'][t], down'[current'], shown'[t], t)
    <2>1. /\ down' = down /\ shown' = shown /\ current' = c /\ last[u] < MaxEvents
      BY <1>16 DEF publish
    <2>2. c # 0
      BY <1>4, <2>1
    <2>3. queue'[c][t] = IF u = t /\ q # NoQueue THEN Put(q, last[t] + 1) ELSE q
      BY <1>0, <1>6, <1>16, <2>2 DEF publish, Subscribed
    <2>4. CASE u = t /\ q # NoQueue
      <3>1. Len(q) <= QueueMax
        BY <1>0, <1>6, <2>2
      <3> HIDE DEF q, d, v, c
      <3>2. v \in Nat /\ v <= last[t]
        BY <1>1 DEF v
      <3>3. NotOlder(Put(q, last[t] + 1), d, v, t)
        BY <1>1, <1>6, <2>1, <2>2, <2>4, <3>1, <3>2, NotOlderKept
      <3>4. QED
        BY <2>1, <2>3, <2>4, <3>3 DEF d, v
    <2>5. CASE ~(u = t /\ q # NoQueue)
      BY <1>6, <2>1, <2>2, <2>3, <2>5
    <2>6. QED
      BY <2>4, <2>5
  <1>17. ASSUME NEW s \in Sockets, NEW u \in Topics, Forward(s, u)
         PROVE  NotOlder(queue'[current'][t], down'[current'], shown'[t], t)
    <2> DEFINE m == [topic |-> u, data |-> Head(queue[s][u])]
    <2>1. /\ queue[s][u] # NoQueue /\ queue[s][u] # <<>> /\ shown' = shown /\ current' = c
          /\ down' = [down EXCEPT ![s] = Append(@, m)]
          /\ queue' = [queue EXCEPT ![s][u] = Tail(@)]
      BY <1>17 DEF Forward, Taken, Subscribed
    <2>2. c # 0
      BY <1>4, <2>1
    <2>3. m \in Updates /\ m.topic = u
      <3>1. Head(queue[s][u]) \in 0..MaxEvents
        BY <1>0, <2>1, TailFacts
      <3>2. QED
        BY <3>1 DEF Updates
    <2>4. CASE s # c
      <3>1. queue'[c] = queue[c] /\ down'[c] = d
        BY <1>0, <1>6, <2>1, <2>2, <2>4
      <3>2. QED
        BY <1>6, <2>1, <2>2, <3>1
    <2>5. CASE s = c /\ u # t
      <3>1. queue'[c][t] = q /\ down'[c] = Append(d, m)
        BY <1>0, <1>6, <2>1, <2>2, <2>5
      <3> HIDE DEF m, q, d, v
      <3>2. NotOlder(q, Append(d, m), v, t)
        BY <1>6, <2>2, <2>3, <2>5, NotOlderOther
      <3>3. QED
        BY <2>1, <3>1, <3>2 DEF v
    <2>6. CASE s = c /\ u = t
      <3>1. queue'[c][t] = Tail(q) /\ down'[c] = Append(d, m)
        BY <1>0, <1>6, <2>1, <2>2, <2>6
      <3>2. m = [topic |-> t, data |-> Head(q)] /\ q # <<>> /\ q # NoQueue
        BY <2>1, <2>6
      <3>3. v \in Nat
        BY <1>1
      <3> HIDE DEF m, q, d, v
      <3>4. NotOlder(Tail(q), Append(d, [topic |-> t, data |-> Head(q)]), v, t)
        BY <1>6, <2>2, <3>2, <3>3, NotOlderTaken
      <3>5. QED
        BY <2>1, <3>1, <3>2, <3>4 DEF v
    <2>7. QED
      BY <2>4, <2>5, <2>6
  <1>18. ASSUME NEW u \in Topics, subscribe(u) \/ unsubscribe(u)
         PROVE  NotOlder(queue'[current'][t], down'[current'], shown'[t], t)
    <2>1. UNCHANGED <<queue, down>> /\ current' = c
      BY <1>18 DEF subscribe, unsubscribe
    <2>2. c # 0
      BY <1>4, <2>1
    <2>3. shown'[t] = v \/ shown'[t] = 0
      BY <1>0, <1>18 DEF subscribe, unsubscribe
    <2>4. NotOlder(q, d, 0, t)
      <3>1. \A i \in 1..Len(q) : q[i] \in Nat
        BY <1>6, <2>2, NumberFacts
      <3>2. \A i \in 1..Len(d) : d[i].data \in Nat
        BY <1>6, <2>2, UpdateFacts
      <3> HIDE DEF q, d
      <3>3. QED
        BY <3>1, <3>2 DEF NotOlder
    <2>5. QED
      BY <1>6, <2>1, <2>2, <2>3, <2>4
  <1>19. CASE UNCHANGED vars
    BY <1>10, <1>19 DEF vars
  <1>20. CASE start \/ \E s \in Sockets : TimerFires(s)
    BY <1>9, <1>20 DEF start, TimerFires
  <1>21. QED
    BY <1>10, <1>11, <1>12, <1>13, <1>14, <1>15, <1>16, <1>17, <1>18, <1>19, <1>20
       DEF Next, Publisher, ServerStep
-----------------------------------------------------------------------------
(* The theorems.                                                            *)

\* The inductive invariant holds in every reachable state.
THEOREM Invariance == Spec => []IInv
  <1>1. Init => IInv
    <2> SUFFICES ASSUME Init
                 PROVE  IInv
      OBVIOUS
    <2>0. /\ QueueMax \in Nat \ {0} /\ MaxEvents \in Nat /\ MaxUses \in Nat
          /\ MaxStops \in Nat /\ 0 \notin Sockets
          /\ NoQueue \in Seq(0..MaxEvents) /\ Len(NoQueue) = 1
          /\ <<>> \in Seq(Messages) /\ <<>> \in Seq(Updates) /\ Len(<<>>) = 0
      BY Bounds, EmptyFacts
    <2>1. TypeOK
      <3>1. /\ up \in [Sockets -> Seq(Messages)] /\ down \in [Sockets -> Seq(Updates)]
        BY <2>0 DEF Init
      <3>2. /\ queue \in [Sockets -> [Topics -> Seq(0..MaxEvents)]]
            /\ \A s \in Sockets, t \in Topics : Len(queue[s][t]) <= QueueMax
        <4>1. queue = [s \in Sockets |-> [t \in Topics |-> NoQueue]]
          BY DEF Init, NoQueues
        <4>2. \A s \in Sockets, t \in Topics : queue[s][t] = NoQueue
          BY <4>1
        <4>3. 1 <= QueueMax
          BY <2>0
        <4>4. QED
          BY <2>0, <4>1, <4>2, <4>3
      <3>3. 0 \in 0..MaxEvents /\ 0 \in 0..MaxUses /\ 0 \in 0..MaxStops
        BY <2>0
      <3>4. QED
        BY <3>1, <3>2, <3>3 DEF Init, TypeOK
    <2>2. UsesInv /\ HubInv /\ AgreeInv
      BY DEF Init, UsesInv, HubInv, Live, AgreeInv
    <2>3. SocketInv
      BY DEF Init, SocketInv, Subscribed, NoQueues
    <2>4. ASSUME NEW s \in Sockets, NEW t \in Topics
          PROVE  InOrder(queue[s][t], down[s], last[t], t)
      <3>1. queue[s][t] = NoQueue /\ down[s] = <<>>
        BY DEF Init, NoQueues
      <3>2. \A i \in 1..0 : FALSE
        OBVIOUS
      <3>3. QED
        BY <2>0, <3>1, <3>2 DEF InOrder
    <2>5. ShownInv
      BY DEF Init, ShownInv
    <2>6. QED
      BY <2>1, <2>2, <2>3, <2>4, <2>5 DEF IInv, OrderInv
  <1>2. IInv /\ [Next]_vars => IInv'
    BY TypeStep, HubStep, SocketStep, AgreeStep, OrderStep, ShownStep DEF IInv
  <1>3. QED
    BY <1>1, <1>2, PTL DEF Spec

\* Queues never grow beyond _QUEUE_MAXSIZE, whatever the producers publish and
\* however slow the socket is; all variables have their types.
THEOREM TypeCorrect == Spec => []TypeOK
  <1>1. IInv => TypeOK
    BY DEF IInv
  <1>2. QED
    BY Invariance, <1>1, PTL

\* WsHub has one socket at a time, through any drops, reconnect timers,
\* logouts and logins, unless start() overtakes a close event.
THEOREM OneAtATime == Spec => []OneSocket
  <1>1. IInv => OneSocket
    <2> SUFFICES ASSUME IInv, ~overlap
                 PROVE  Cardinality(Live) <= 1
      BY DEF OneSocket
    <2>1. Live \subseteq {current}
      BY DEF IInv, HubInv, Live
    <2>2. IsFiniteSet({current}) /\ Cardinality({current}) = 1
      BY FS_Singleton
    <2>3. Cardinality(Live) <= Cardinality({current})
      BY <2>1, <2>2, FS_Subset
    <2>4. QED
      BY <2>2, <2>3
  <1>2. QED
    BY Invariance, <1>1, PTL

\* Reconnects and the subscribe and unsubscribe messages that are dropped or
\* repeated on the way leave the server with the topics that have listeners.
THEOREM ServerForwardsTheWanted == Spec => []SubscriptionsAgree
  <1>1. IInv => SubscriptionsAgree
    <2> SUFFICES ASSUME IInv, current # 0, sock[current] = "open", up[current] = <<>>,
                        NEW t \in Topics
                 PROVE  Subscribed(current, t) = (t \in Wanted)
      BY DEF SubscriptionsAgree, Wanted
    <2>1. Agrees(up[current], Subscribed(current, t), listeners[t] > 0, t)
      BY DEF IInv, AgreeInv
    <2>2. Len(up[current]) = 0 /\ \A i \in 1..0 : FALSE
      BY EmptyFacts
    <2>3. Subscribed(current, t) = (listeners[t] > 0)
      BY <2>1, <2>2 DEF Agrees
    <2>4. QED
      BY <2>3 DEF Wanted
  <1>2. QED
    BY Invariance, <1>1, PTL

\* A component's value is never replaced by an older event, across full
\* queues, resubscriptions and new sockets.
THEOREM ShownNeverGoesBack == Spec => NeverGoesBack
  <1> DEFINE Forth(t) == ~overlap' /\ listeners'[t] > 0 => shown'[t] >= shown[t]
  <1>1. ASSUME IInv, [Next]_vars, NEW t \in Topics
        PROVE  Forth(t)
    <2>1. SUFFICES ASSUME ~overlap', listeners'[t] > 0
                   PROVE  shown'[t] >= shown[t]
      OBVIOUS
    <2>2. TypeOK /\ HubInv /\ ShownInv /\ shown[t] \in Nat /\ ~overlap
      BY <1>1, <2>1, Bounds, OverlapStays DEF IInv, TypeOK
    <2>3. CASE shown'[t] = shown[t]
      BY <2>2, <2>3
    <2>4. CASE listeners'[t] = 0
      BY <2>1, <2>4
    <2>5. ASSUME NEW s \in Sockets, Message(s), Head(down[s]).topic = t,
                 shown'[t] = Head(down[s]).data
          PROVE  shown'[t] >= shown[t]
      <3>1. s = current /\ current # 0 /\ down[s] # <<>> /\ down[s] \in Seq(Updates)
        BY <2>2, <2>5, OpenIsCurrent DEF Message, TypeOK
      <3>2. Head(down[s]) = down[s][1] /\ 1 \in 1..Len(down[s])
        BY <3>1, TailFacts
      <3>3. NotOlder(queue[s][t], down[s], shown[t], t)
        BY <2>2, <3>1 DEF ShownInv
      <3>4. shown[t] <= down[s][1].data
        BY <2>5, <3>2, <3>3 DEF NotOlder
      <3>5. down[s][1].data \in Nat
        BY <3>1, <3>2, UpdateFacts
      <3>6. QED
        BY <2>2, <2>5, <3>2, <3>4, <3>5
    <2>6. QED
      BY <1>1, <2>2, <2>3, <2>4, <2>5, ShownChanges
  <1>2. IInv /\ [Next]_vars => [\A t \in Topics : Forth(t)]_vars
    BY <1>1
  <1>3. QED
    BY Invariance, <1>2, PTL DEF Spec, NeverGoesBack
==============================================================================
