------------------------------ MODULE RpcProofs ------------------------------
(***************************************************************************)
(* Proofs about the RPC link for any number of calls, connections, events  *)
(* and upsets: no waiting call is forgotten, events arrive in order, and   *)
(* the link implements RpcService.                                         *)
(*                                                                         *)
(* All three rest on there being one read loop at a time: the loop that    *)
(* fails the calls of the pending table is that of the connection they     *)
(* were written to, and what is on its way to the web is on one queue.     *)
(***************************************************************************)
EXTENDS Rpc, TLAPS

\* Calls that have not been written to a connection.
Unsent == {c \in Calls : pc[c] \in {"idle", "lock", "open"}}

\* There is a read loop exactly while there is a writer, and it is the
\* writer's.
LoopInv ==
    /\ writer = NoConn => readers = {}
    /\ writer # NoConn => readers = {writer} /\ writer \in 1..conns

\* A call has a future and an entry in the table from the moment it is
\* written, and remembers a connection that was made.
FutureInv ==
    \A c \in Calls :
        /\ c \in Unsent => fut[c] = "none"
        /\ pc[c] \in {"drain", "await"} \/ c \in pending => fut[c] # "none"
        /\ fut[c] # "none" => via[c] \in 1..conns

\* The inductive invariant behind WaitingIsWatched.
WatchInv == TypeOK /\ LoopInv /\ FutureInv /\ WaitingIsWatched

\* The events of a queue are numbered upwards.
Rising(q) ==
    \A m, n \in 1..Len(q) :
        m < n /\ IsEvent(q[m]) /\ IsEvent(q[n]) => q[m].num < q[n].num

\* They are above all of s, and none is above p.
Fresh(q, s, p) ==
    \A n \in 1..Len(q) : IsEvent(q[n]) =>
        q[n].num <= p /\ \A m \in 1..Len(s) : s[m] < q[n].num

\* Only the connection that is read has frames for the web on it.  The events
\* among them are numbered upwards, above all that were seen, and none above
\* the last one published.
EventInv ==
    /\ \A k \in Conns : k \notin readers => toWeb[k] = <<>>
    /\ \A k \in Conns : Rising(toWeb[k]) /\ Fresh(toWeb[k], seen, published)
    /\ \A m \in 1..Len(seen) : seen[m] <= published

\* A request is in one place of one queue at most, and only before its task
\* is started.
RequestInv ==
    /\ \A k \in Conns : \A n \in 1..Len(toAgent[k]) :
         /\ toAgent[k][n] \notin Unsent
         /\ task[toAgent[k][n]].at = "none"
         /\ done[toAgent[k][n]] = 0
    /\ \A k, l \in Conns : \A m \in 1..Len(toAgent[k]), n \in 1..Len(toAgent[l]) :
         toAgent[k][m] = toAgent[l][n] => k = l /\ m = n

\* The work of a call is done once, by its task, and an "ok" on its way back
\* or in its future stands for it.
OnceInv ==
    /\ \A c \in Calls :
         /\ done[c] \in {0, 1}
         /\ c \in Unsent => done[c] = 0 /\ task[c].at = "none"
         /\ task[c].at = "handle" => done[c] = 0
         /\ task[c].at = "handled" => done[c] = 1
         /\ fut[c] = "ok" => done[c] = 1
    /\ \A k \in Conns : \A n \in 1..Len(toWeb[k]) :
         toWeb[k][n].answer = "ok" => done[toWeb[k][n].id] = 1

-----------------------------------------------------------------------------
\* What is in a sequence over a set is in the set.
LEMMA ElementFacts ==
    ASSUME NEW S, NEW q \in Seq(S)
    PROVE  \A n \in 1..Len(q) : q[n] \in S
  OBVIOUS

\* What a queue is after its head leaves it.
LEMMA TailFacts ==
    ASSUME NEW S, NEW q \in Seq(S), q # <<>>
    PROVE  /\ Head(q) \in S /\ Head(q) = q[1] /\ 1 \in 1..Len(q)
           /\ Tail(q) \in Seq(S)
           /\ Len(Tail(q)) = Len(q) - 1
           /\ \A n \in 1..Len(Tail(q)) : Tail(q)[n] = q[n+1] /\ n+1 \in 1..Len(q)
  OBVIOUS

\* What a queue is after a frame joins it.
LEMMA AppendFacts ==
    ASSUME NEW S, NEW q \in Seq(S), NEW x \in S
    PROVE  /\ Append(q, x) \in Seq(S)
           /\ Len(Append(q, x)) = Len(q) + 1
           /\ \A n \in 1..Len(q) : Append(q, x)[n] = q[n]
           /\ Append(q, x)[Len(q) + 1] = x
  OBVIOUS

\* A member of the longer queue is the new one, or was there before.
LEMMA AppendedTo ==
    ASSUME NEW S, NEW q \in Seq(S), NEW x \in S
    PROVE  \A n \in 1..Len(Append(q, x)) :
             \/ n = Len(q) + 1 /\ Append(q, x)[n] = x
             \/ n \in 1..Len(q) /\ Append(q, x)[n] = q[n]
  OBVIOUS

\* A call that writes its request keeps the types.
LEMMA WrittenType ==
    ASSUME TypeOK, NEW c \in Calls, NEW k \in Conns, Written(c, k)
    PROVE  /\ pc' \in [Calls -> {"idle", "lock", "open", "drain", "await", "done"}]
           /\ fut' \in [Calls -> {"none", "waiting", "ok", "error", "lost"}]
           /\ via' \in [Calls -> Conns \cup {NoConn}]
           /\ pending' \subseteq Calls
           /\ toAgent' \in [Conns -> Seq(Calls)]
  BY DEF TypeOK, Written

\* What is sent is appended to queues of frames.
LEMMA SentType ==
    ASSUME TypeOK, NEW ks, NEW frame \in Frames
    PROVE  Sent(ks, frame) \in [Conns -> Seq(Frames)]
  BY AppendFacts DEF TypeOK, Sent

\* Every step keeps the types.
LEMMA TypeStep ==
    ASSUME TypeOK, [Next]_vars
    PROVE  TypeOK'
  <1> USE NoConnAssumption, BoundsAssumption
      DEF TypeOK, Upset, callVars, connVars, agentVars
  <1>1. ASSUME NEW c \in Calls, CallAtOnce(c) \/ LockFindsConnection(c)
        PROVE  TypeOK'
    <2>1. writer \in Conns /\ Written(c, writer)
      BY <1>1 DEF CallAtOnce, LockFindsConnection, Connected
    <2>2. QED
      BY <1>1, <2>1, WrittenType DEF CallAtOnce, LockFindsConnection
  <1>2. ASSUME NEW c \in Calls, CallQueues(c)
        PROVE  TypeOK'
    BY <1>2 DEF CallQueues
  <1>3. ASSUME NEW c \in Calls, LockOpens(c)
        PROVE  TypeOK'
    BY <1>3 DEF LockOpens
  <1>4. ASSUME NEW c \in Calls, Opened(c)
        PROVE  TypeOK'
    <2>1. /\ conns + 1 \in Conns /\ conns + 1 \in 0..MaxConns
          /\ Written(c, conns + 1)
      BY <1>4 DEF Opened, Conns
    <2>2. QED
      BY <1>4, <2>1, WrittenType DEF Opened
  <1>5. ASSUME NEW c \in Calls, OpenFails(c)
        PROVE  TypeOK'
    BY <1>5 DEF OpenFails
  <1>6. ASSUME NEW c \in Calls, Drained(c)
        PROVE  TypeOK'
    BY <1>6 DEF Drained
  <1>7. ASSUME NEW c \in Calls, DrainFails(c)
        PROVE  TypeOK'
    BY <1>7 DEF DrainFails
  <1>8. ASSUME NEW c \in Calls, Return(c)
        PROVE  TypeOK'
    BY <1>8 DEF Return
  <1>9. ASSUME NEW k \in Conns, ReadResponse(k)
        PROVE  TypeOK'
    <2>1. Head(toWeb[k]) \in Frames /\ Tail(toWeb[k]) \in Seq(Frames)
      BY <1>9, TailFacts DEF ReadResponse
    <2>2. Head(toWeb[k]).answer \in {"ok", "error"}
      BY <1>9, <2>1 DEF ReadResponse, Frames, IsEvent
    <2>3. QED
      BY <1>9, <2>1, <2>2 DEF ReadResponse, Resolved
  <1>10. ASSUME NEW k \in Conns, ReadEvent(k)
         PROVE  TypeOK'
    <2>1. Head(toWeb[k]) \in Frames /\ Tail(toWeb[k]) \in Seq(Frames)
      BY <1>10, TailFacts DEF ReadEvent
    <2>2. Head(toWeb[k]).num \in 1..MaxEvents
      BY <1>10, <2>1, NoCallAssumption DEF ReadEvent, Frames, IsEvent
    <2>3. QED
      BY <1>10, <2>1, <2>2, SMTT(30) DEF ReadEvent
  <1>11. ASSUME NEW k \in Conns, ReadLoopEnds(k)
         PROVE  TypeOK'
    BY <1>11 DEF ReadLoopEnds, Failed
  <1>12. ASSUME close
         PROVE  TypeOK'
    BY <1>12 DEF close, Connected
  <1>13. ASSUME NEW k \in Conns, HandleConnection(k) \/ ConnectionEnds(k)
         PROVE  TypeOK'
    BY <1>13 DEF HandleConnection, ConnectionEnds
  <1>14. ASSUME NEW k \in Conns, HandleLine(k)
         PROVE  TypeOK'
    <2>1. Head(toAgent[k]) \in Calls /\ Tail(toAgent[k]) \in Seq(Calls)
      BY <1>14, TailFacts DEF HandleLine
    <2>2. QED
      BY <1>14, <2>1 DEF HandleLine, Consumed
  <1>15. ASSUME NEW c \in Calls, Handle(c) \/ HandleRaises(c)
         PROVE  TypeOK'
    <2>1. CASE Handle(c)
      <3>1. task' = [task EXCEPT ![c].at = "handled"] /\ done' = [done EXCEPT ![c] = @ + 1]
        BY <2>1 DEF Handle
      <3>2. task' \in [Calls -> [at : {"none", "handle", "handled", "error"},
                                 conn : Conns \cup {NoConn}]]
        BY <3>1
      <3>3. done' \in [Calls -> Nat]
        BY <3>1
      <3>4. QED
        BY <2>1, <3>2, <3>3 DEF Handle
    <2>2. CASE HandleRaises(c)
      BY <2>2 DEF HandleRaises
    <2>3. QED
      BY <1>15, <2>1, <2>2
  <1>16. ASSUME NEW c \in Calls, Respond(c)
         PROVE  TypeOK'
    <2> DEFINE frame == [id |-> c, num |-> 0,
                         answer |-> IF task[c].at = "error" THEN "error" ELSE "ok"]
    <2>1. frame \in Frames
      BY DEF Frames
    <2>2. toWeb' \in [Conns -> Seq(Frames)]
      BY <1>16, <2>1, SentType DEF Respond
    <2>3. task' \in [Calls -> [at : {"none", "handle", "handled", "error"},
                               conn : Conns \cup {NoConn}]]
      BY <1>16 DEF Respond, NoTask
    <2>4. QED
      BY <1>16, <2>2, <2>3 DEF Respond
  <1>17. ASSUME Publish
         PROVE  TypeOK'
    <2>1. [id |-> NoCall, num |-> published + 1, answer |-> "event"] \in Frames
      BY <1>17 DEF Publish, Frames
    <2>2. toWeb' \in [Conns -> Seq(Frames)]
      BY <1>17, <2>1, SentType DEF Publish
    <2>3. QED
      BY <1>17, <2>2 DEF Publish
  <1>18. ASSUME Crash
         PROVE  TypeOK'
    <2>1. ended' \subseteq Conns
      BY <1>18 DEF Crash, Conns
    <2>2. task' \in [Calls -> [at : {"none", "handle", "handled", "error"},
                               conn : Conns \cup {NoConn}]]
      BY <1>18 DEF Crash, NoTask
    <2>3. toAgent' \in [Conns -> Seq(Calls)] /\ upsets' \in 0..MaxUpsets
      BY <1>18 DEF Crash
    <2>4. QED
      BY <1>18, <2>1, <2>2, <2>3 DEF Crash
  <1>19. ASSUME Start
         PROVE  TypeOK'
    BY <1>19 DEF Start
  <1>20. CASE UNCHANGED vars
    BY <1>20 DEF vars
  <1>21. QED
    BY <1>1, <1>2, <1>3, <1>4, <1>5, <1>6, <1>7, <1>8, <1>9, <1>10, <1>11, <1>12,
       <1>13, <1>14, <1>15, <1>16, <1>17, <1>18, <1>19, <1>20
       DEF Next, CallStep, ReadStep, ServerStep, TaskStep
-----------------------------------------------------------------------------
(* No waiting call is forgotten.                                            *)

\* Every step keeps the loop, the futures and the pending table in step.
LEMMA WatchStep ==
    ASSUME WatchInv, [Next]_vars
    PROVE  LoopInv' /\ FutureInv' /\ WaitingIsWatched'
  <1> DEFINE Goal == LoopInv' /\ FutureInv' /\ WaitingIsWatched'
  <1> USE NoConnAssumption
      DEF WatchInv, LoopInv, FutureInv, WaitingIsWatched, Unsent, callVars, connVars,
          agentVars
  <1>0. /\ pc \in [Calls -> {"idle", "lock", "open", "drain", "await", "done"}]
        /\ fut \in [Calls -> {"none", "waiting", "ok", "error", "lost"}]
        /\ via \in [Calls -> Conns \cup {NoConn}]
        /\ conns \in Nat /\ pending \subseteq Calls /\ toWeb \in [Conns -> Seq(Frames)]
    BY DEF TypeOK
  <1>1. ASSUME NEW c \in Calls, CallAtOnce(c) \/ LockFindsConnection(c)
        PROVE  Goal
    <2>1. /\ writer \in readers /\ c \in Unsent /\ Written(c, writer)
          /\ UNCHANGED <<writer, readers, conns>>
      BY <1>1 DEF CallAtOnce, LockFindsConnection, Connected
    <2>2. QED
      BY <1>0, <2>1 DEF Written
  <1>2. ASSUME NEW c \in Calls, Opened(c)
        PROVE  Goal
    <2>1. /\ readers = {} /\ readers' = {conns + 1} /\ writer' = conns + 1
          /\ conns' = conns + 1 /\ conns + 1 \in 1..conns' /\ conns + 1 # NoConn
          /\ c \in Unsent /\ Written(c, conns + 1)
      BY <1>0, <1>2 DEF Opened, OldLoopEnded
    <2>2. \A b \in Calls : b # c =>
            /\ fut'[b] = fut[b] /\ via'[b] = via[b] /\ pc'[b] = pc[b]
            /\ b \in pending' <=> b \in pending
      BY <1>0, <2>1 DEF Written
    <2>3. /\ fut'[c] = "waiting" /\ via'[c] = conns + 1 /\ pc'[c] \in {"drain", "await"}
          /\ c \in pending'
      BY <1>0, <2>1 DEF Written
    <2>4. \A b \in Calls : fut[b] # "waiting"
      BY <2>1
    <2>5. \A b \in Calls : fut[b] # "none" => via[b] \in 1..conns' /\ via[b] # conns + 1
      BY <1>0, <2>1
    <2>6. QED
      BY <2>1, <2>2, <2>3, <2>4, <2>5
  <1>3. ASSUME NEW c \in Calls,
               \/ CallQueues(c) \/ LockOpens(c) \/ OpenFails(c)
               \/ Drained(c) \/ DrainFails(c)
        PROVE  Goal
    BY <1>0, <1>3 DEF CallQueues, LockOpens, OpenFails, Drained, DrainFails
  <1>4. ASSUME NEW c \in Calls, Return(c)
        PROVE  Goal
    BY <1>0, <1>4 DEF Return
  <1>5. ASSUME NEW k \in Conns, ReadResponse(k)
        PROVE  Goal
    <2>1. Head(toWeb[k]) \in Frames
      BY <1>0, <1>5, TailFacts DEF ReadResponse
    <2>2. Head(toWeb[k]).answer \in {"ok", "error"}
      BY <1>5, <2>1 DEF ReadResponse, Frames, IsEvent
    <2> DEFINE id == Head(toWeb[k]).id
    <2>3. /\ UNCHANGED <<pc, via, writer, readers, conns>>
          /\ pending' = pending \ {id}
      BY <1>5 DEF ReadResponse
    <2>4. /\ \A b \in Calls : b = id /\ b \in pending => fut'[b] \in {"ok", "error"}
          /\ \A b \in Calls : ~(b = id /\ b \in pending) => fut'[b] = fut[b]
      BY <1>0, <1>5, <2>2 DEF ReadResponse, Resolved
    <2> HIDE DEF id
    <2>5. LoopInv'
      BY <2>3
    <2>6. QED
      BY <1>0, <2>3, <2>4, <2>5
  <1>6. ASSUME NEW k \in Conns, ReadLoopEnds(k)
        PROVE  Goal
    BY <1>0, <1>6 DEF ReadLoopEnds, Failed
  <1>7. CASE UNCHANGED <<pc, fut, via, pending, writer, readers, conns>>
    BY <1>7
  <1>8. ASSUME NEW k \in Conns,
               \/ ReadEvent(k) \/ HandleConnection(k) \/ HandleLine(k)
               \/ ConnectionEnds(k)
        PROVE  UNCHANGED <<pc, fut, via, pending, writer, readers, conns>>
    BY <1>8 DEF ReadEvent, HandleConnection, HandleLine, ConnectionEnds
  <1>9. ASSUME NEW c \in Calls, Handle(c) \/ HandleRaises(c) \/ Respond(c)
        PROVE  UNCHANGED <<pc, fut, via, pending, writer, readers, conns>>
    BY <1>9 DEF Handle, HandleRaises, Respond
  <1>10. ASSUME Publish \/ close \/ Crash \/ Start
         PROVE  UNCHANGED <<pc, fut, via, pending, writer, readers, conns>>
    BY <1>10 DEF Publish, close, Crash, Start
  <1>11. QED
    BY <1>1, <1>2, <1>3, <1>4, <1>5, <1>6, <1>7, <1>8, <1>9, <1>10
       DEF Next, CallStep, ReadStep, ServerStep, TaskStep, vars

\* The pending table and its read loop, in every reachable state.
THEOREM WatchInvariant == Spec => []WatchInv
  <1>1. Init => WatchInv
    BY BoundsAssumption, NoConnAssumption
       DEF Init, WatchInv, TypeOK, LoopInv, FutureInv, WaitingIsWatched, Conns, Unsent,
           NoTask
  <1>2. WatchInv /\ [Next]_vars => WatchInv'
    BY TypeStep, WatchStep DEF WatchInv
  <1>3. QED
    BY <1>1, <1>2, PTL DEF Spec

\* A call that waits is in the table of a read loop that will end it, and a
\* call is failed only by the end of its own connection, however many
\* connections come and go.
THEOREM NoCallIsForgotten == Spec => []WaitingIsWatched
  <1>1. WatchInv => WaitingIsWatched
    BY DEF WatchInv
  <1>2. QED
    BY <1>1, WatchInvariant, PTL

\* The variables of the link keep their types.
THEOREM TypeCorrect == Spec => []TypeOK
  <1>1. WatchInv => TypeOK
    BY DEF WatchInv
  <1>2. QED
    BY <1>1, WatchInvariant, PTL
-----------------------------------------------------------------------------
(* Events arrive in order.                                                  *)

\* Taking the head off a queue keeps its order; when the head is an event,
\* what is behind it is above it.
LEMMA TailKeeps ==
    ASSUME NEW q \in Seq(Frames), q # <<>>, NEW s \in Seq(1..MaxEvents), NEW p \in Nat,
           Rising(q), Fresh(q, s, p)
    PROVE  /\ Rising(Tail(q)) /\ Fresh(Tail(q), s, p)
           /\ IsEvent(Head(q)) =>
                /\ Head(q).num \in 1..MaxEvents /\ Head(q).num <= p
                /\ \A m \in 1..Len(s) : s[m] < Head(q).num
                /\ Fresh(Tail(q), Append(s, Head(q).num), p)
  <1>1. /\ Head(q) = q[1] /\ 1 \in 1..Len(q) /\ Head(q) \in Frames
        /\ Tail(q) \in Seq(Frames) /\ Len(q) \in Nat
        /\ Len(Tail(q)) = Len(q) - 1
        /\ \A n \in 1..Len(Tail(q)) : Tail(q)[n] = q[n+1] /\ n+1 \in 1..Len(q)
    BY TailFacts
  <1>2. Rising(Tail(q)) /\ Fresh(Tail(q), s, p)
    BY <1>1, SMTT(30) DEF Rising, Fresh
  <1>3. ASSUME IsEvent(Head(q))
        PROVE  /\ Head(q).num \in 1..MaxEvents /\ Head(q).num <= p
               /\ \A m \in 1..Len(s) : s[m] < Head(q).num
    <2>1. Head(q).num \in 1..MaxEvents
      BY <1>1, <1>3, NoCallAssumption DEF Frames, IsEvent
    <2>2. QED
      BY <1>1, <1>3, <2>1 DEF Fresh
  <1>4. ASSUME IsEvent(Head(q))
        PROVE  Fresh(Tail(q), Append(s, Head(q).num), p)
    <2>1. \A n \in 1..Len(Tail(q)) : IsEvent(Tail(q)[n]) => Head(q).num < Tail(q)[n].num
      BY <1>1, <1>4 DEF Rising
    <2>2. /\ Len(Append(s, Head(q).num)) = Len(s) + 1
          /\ \A m \in 1..Len(s) : Append(s, Head(q).num)[m] = s[m]
          /\ Append(s, Head(q).num)[Len(s) + 1] = Head(q).num
      BY <1>3, <1>4, AppendFacts
    <2>3. ASSUME NEW n \in 1..Len(Tail(q)), IsEvent(Tail(q)[n]),
                 NEW m \in 1..Len(Append(s, Head(q).num))
          PROVE  Append(s, Head(q).num)[m] < Tail(q)[n].num
      <3>1. CASE m \in 1..Len(s)
        BY <1>2, <2>2, <2>3, <3>1 DEF Fresh
      <3>2. CASE m = Len(s) + 1
        BY <2>1, <2>2, <2>3, <3>2
      <3>3. QED
        BY <2>2, <2>3, <3>1, <3>2
    <2>4. QED
      BY <1>2, <2>3 DEF Fresh
  <1>5. QED
    BY <1>2, <1>3, <1>4

\* A response, or an event above all others, may join the end of a queue.
LEMMA AppendKeeps ==
    ASSUME NEW q \in Seq(Frames), NEW f \in Frames, NEW s \in Seq(1..MaxEvents),
           NEW p \in Nat, NEW r \in Nat, p <= r,
           Rising(q), Fresh(q, s, p), \A m \in 1..Len(s) : s[m] <= p,
           IsEvent(f) => p < f.num /\ f.num <= r
    PROVE  Rising(Append(q, f)) /\ Fresh(Append(q, f), s, r)
  <1>1. /\ Append(q, f) \in Seq(Frames) /\ Len(q) \in Nat
        /\ Len(Append(q, f)) = Len(q) + 1
        /\ \A n \in 1..Len(q) : Append(q, f)[n] = q[n]
        /\ Append(q, f)[Len(q) + 1] = f
    BY AppendFacts
  <1>2. \A n \in 1..Len(q) : IsEvent(q[n]) => q[n].num \in Nat
    BY NoCallAssumption DEF Frames, IsEvent
  <1>3. Rising(Append(q, f))
    <2>1. SUFFICES ASSUME NEW m \in 1..Len(q) + 1, NEW n \in 1..Len(q) + 1, m < n,
                          IsEvent(Append(q, f)[m]), IsEvent(Append(q, f)[n])
                   PROVE  Append(q, f)[m].num < Append(q, f)[n].num
      BY <1>1 DEF Rising
    <2>2. m \in 1..Len(q)
      BY <1>1, <2>1
    <2>3. CASE n \in 1..Len(q)
      BY <1>1, <2>1, <2>2, <2>3 DEF Rising
    <2>4. CASE n = Len(q) + 1
      <3>1. IsEvent(f) /\ IsEvent(q[m]) /\ Append(q, f)[m] = q[m] /\ Append(q, f)[n] = f
        BY <1>1, <2>1, <2>2, <2>4
      <3>2. q[m].num <= p /\ q[m].num \in Nat /\ f.num \in Nat
        BY <1>2, <2>2, <3>1, NoCallAssumption DEF Fresh, Frames, IsEvent
      <3>3. QED
        BY <3>1, <3>2
    <2>5. QED
      BY <1>1, <2>3, <2>4
  <1>4. Fresh(Append(q, f), s, r)
    <2>1. SUFFICES ASSUME NEW n \in 1..Len(q) + 1, IsEvent(Append(q, f)[n])
                   PROVE  /\ Append(q, f)[n].num <= r
                          /\ \A m \in 1..Len(s) : s[m] < Append(q, f)[n].num
      BY <1>1 DEF Fresh
    <2>2. CASE n \in 1..Len(q)
      BY <1>1, <1>2, <2>1, <2>2 DEF Fresh
    <2>3. CASE n = Len(q) + 1
      <3>1. IsEvent(f) /\ Append(q, f)[n] = f /\ f.num \in Nat
        BY <1>1, <2>1, <2>3, NoCallAssumption DEF Frames, IsEvent
      <3>2. \A m \in 1..Len(s) : s[m] \in Nat
        BY BoundsAssumption
      <3>3. QED
        BY <3>1, <3>2
    <2>4. QED
      BY <1>1, <2>2, <2>3
  <1>5. QED
    BY <1>3, <1>4

\* A queue may forget what was published since: a higher bound does as well.
LEMMA FreshWeakens ==
    ASSUME NEW q \in Seq(Frames), NEW s, NEW p \in Nat, NEW r \in Nat, p <= r,
           Fresh(q, s, p)
    PROVE  Fresh(q, s, r)
  BY NoCallAssumption DEF Fresh, Frames, IsEvent

\* Every step keeps the events in order, on the wire and on the bus.
LEMMA EventStep ==
    ASSUME WatchInv, EventInv, EventsInOrder, [Next]_vars
    PROVE  EventInv' /\ EventsInOrder'
  <1> DEFINE Goal == EventInv' /\ EventsInOrder'
  <1> USE DEF callVars, connVars, agentVars
  <1>0. /\ toWeb \in [Conns -> Seq(Frames)] /\ seen \in Seq(1..MaxEvents)
        /\ published \in Nat /\ readers \subseteq Conns
        /\ \A k, l \in readers : k = l
    BY DEF WatchInv, TypeOK, LoopInv
  <1>1. ASSUME NEW k \in Conns, ReadResponse(k)
        PROVE  Goal
    <2>1. Rising(Tail(toWeb[k])) /\ Fresh(Tail(toWeb[k]), seen, published)
      BY <1>0, <1>1, TailKeeps DEF ReadResponse, EventInv
    <2>2. /\ k \in readers /\ toWeb' = [toWeb EXCEPT ![k] = Tail(@)]
          /\ UNCHANGED <<readers, seen, published>>
      BY <1>1 DEF ReadResponse
    <2>3. QED
      BY <1>0, <2>1, <2>2 DEF EventInv, EventsInOrder
  <1>2. ASSUME NEW k \in Conns, ReadEvent(k)
        PROVE  Goal
    <2> DEFINE new == Head(toWeb[k]).num
    <2>1. /\ k \in readers /\ toWeb' = [toWeb EXCEPT ![k] = Tail(@)]
          /\ seen' = Append(seen, new) /\ UNCHANGED <<readers, published>>
      BY <1>2 DEF ReadEvent
    <2>2. /\ Rising(Tail(toWeb[k])) /\ Fresh(Tail(toWeb[k]), seen', published)
          /\ new \in 1..MaxEvents /\ new <= published
          /\ \A m \in 1..Len(seen) : seen[m] < new
      BY <1>0, <1>2, <2>1, TailKeeps DEF ReadEvent, EventInv
    <2> HIDE DEF new
    <2>3. /\ Len(seen) \in Nat /\ Len(seen') = Len(seen) + 1
          /\ \A m \in 1..Len(seen) : seen'[m] = seen[m] /\ seen[m] \in 1..MaxEvents
          /\ seen'[Len(seen) + 1] = new
      <3>1. \A m \in 1..Len(seen) : seen[m] \in 1..MaxEvents
        BY <1>0, ElementFacts
      <3>2. /\ Len(Append(seen, new)) = Len(seen) + 1
            /\ \A m \in 1..Len(seen) : Append(seen, new)[m] = seen[m]
            /\ Append(seen, new)[Len(seen) + 1] = new
        BY <1>0, <2>2, AppendFacts
      <3>3. QED
        BY <1>0, <2>1, <3>1, <3>2
    <2>4. \A l \in Conns : l # k => toWeb'[l] = <<>>
      BY <1>0, <2>1 DEF EventInv
    <2>5. toWeb'[k] = Tail(toWeb[k])
      BY <1>0, <2>1
    <2>6. \A l \in Conns : Rising(toWeb'[l]) /\ Fresh(toWeb'[l], seen', published)
      <3>1. Rising(<<>>) /\ Fresh(<<>>, seen', published)
        BY DEF Rising, Fresh
      <3>2. QED
        BY <2>2, <2>4, <2>5, <3>1
    <2>7. \A m \in 1..Len(seen') : seen'[m] <= published
      BY <2>2, <2>3 DEF EventInv
    <2>8. EventsInOrder'
      BY <2>2, <2>3, SMTT(30) DEF EventsInOrder
    <2>9. QED
      BY <2>1, <2>4, <2>6, <2>7, <2>8 DEF EventInv
  <1>3. ASSUME NEW k \in Conns, ReadLoopEnds(k)
        PROVE  Goal
    <2>1. Rising(<<>>) /\ Fresh(<<>>, seen, published)
      BY DEF Rising, Fresh
    <2>2. QED
      BY <1>0, <1>3, <2>1 DEF ReadLoopEnds, EventInv, EventsInOrder
  <1>4. ASSUME NEW ks, NEW f \in Frames, toWeb' = Sent(ks, f),
               UNCHANGED <<readers, seen>>, published' \in Nat, published <= published',
               IsEvent(f) => published < f.num /\ f.num <= published'
        PROVE  Goal
    <2>1. \A m \in 1..Len(seen) : seen[m] <= published
      BY DEF EventInv
    <2>2. ASSUME NEW k \in Conns
          PROVE  Rising(toWeb'[k]) /\ Fresh(toWeb'[k], seen, published')
      <3>1. toWeb[k] \in Seq(Frames) /\ Rising(toWeb[k]) /\ Fresh(toWeb[k], seen, published)
        BY <1>0 DEF EventInv
      <3>2. CASE toWeb'[k] = Append(toWeb[k], f)
        BY <1>0, <1>4, <2>1, <3>1, <3>2, AppendKeeps
      <3>3. CASE toWeb'[k] = toWeb[k]
        BY <1>0, <1>4, <3>1, <3>3, FreshWeakens
      <3>4. QED
        BY <1>4, <3>2, <3>3 DEF Sent
    <2>3. \A k \in Conns : k \notin readers => toWeb'[k] = <<>>
      BY <1>4 DEF Sent, EventInv
    <2>4. \A m \in 1..Len(seen) : seen[m] <= published'
      <3>1. \A m \in 1..Len(seen) : seen[m] \in Nat
        BY <1>0, BoundsAssumption
      <3>2. QED
        BY <1>0, <1>4, <2>1, <3>1
    <2>5. QED
      BY <1>4, <2>2, <2>3, <2>4 DEF EventInv, EventsInOrder
  <1>5. ASSUME NEW c \in Calls, Respond(c)
        PROVE  Goal
    <2> DEFINE f == [id |-> c, num |-> 0,
                     answer |-> IF task[c].at = "error" THEN "error" ELSE "ok"]
    <2>1. f \in Frames /\ ~IsEvent(f)
      BY NoCallAssumption DEF Frames, IsEvent
    <2>2. toWeb' = Sent(served \cap {task[c].conn}, f) /\ UNCHANGED <<readers, seen, published>>
      BY <1>5 DEF Respond
    <2>3. QED
      BY <1>0, <1>4, <2>1, <2>2
  <1>6. ASSUME Publish
        PROVE  Goal
    <2> DEFINE f == [id |-> NoCall, num |-> published + 1, answer |-> "event"]
    <2>1. f \in Frames /\ f.num = published + 1
      BY <1>0, <1>6, BoundsAssumption DEF Frames, Publish
    <2>2. toWeb' = Sent(served, f) /\ UNCHANGED <<readers, seen>> /\ published' = published + 1
      BY <1>6 DEF Publish
    <2>3. QED
      BY <1>0, <1>4, <2>1, <2>2
  <1>7. ASSUME NEW c \in Calls, Opened(c)
        PROVE  Goal
    <2>1. \A k \in Conns : toWeb[k] = <<>>
      BY <1>7 DEF Opened, OldLoopEnded, EventInv
    <2>2. UNCHANGED <<toWeb, seen, published>>
      BY <1>7 DEF Opened
    <2>3. QED
      BY <2>1, <2>2 DEF EventInv, EventsInOrder
  <1>8. CASE UNCHANGED <<readers, toWeb, seen, published>>
    BY <1>8 DEF EventInv, EventsInOrder
  <1>9. ASSUME NEW c \in Calls,
               \/ CallAtOnce(c) \/ LockFindsConnection(c) \/ CallQueues(c)
               \/ LockOpens(c) \/ OpenFails(c) \/ Drained(c) \/ DrainFails(c) \/ Return(c)
        PROVE  UNCHANGED <<readers, toWeb, seen, published>>
    BY <1>9 DEF CallAtOnce, LockFindsConnection, CallQueues, LockOpens, OpenFails,
                Drained, DrainFails, Return
  <1>10. ASSUME NEW k \in Conns, HandleConnection(k) \/ HandleLine(k) \/ ConnectionEnds(k)
         PROVE  UNCHANGED <<readers, toWeb, seen, published>>
    BY <1>10 DEF HandleConnection, HandleLine, ConnectionEnds
  <1>11. ASSUME NEW c \in Calls, Handle(c) \/ HandleRaises(c)
         PROVE  UNCHANGED <<readers, toWeb, seen, published>>
    BY <1>11 DEF Handle, HandleRaises
  <1>12. ASSUME close \/ Crash \/ Start
         PROVE  UNCHANGED <<readers, toWeb, seen, published>>
    BY <1>12 DEF close, Crash, Start
  <1>13. QED
    BY <1>1, <1>2, <1>3, <1>5, <1>6, <1>7, <1>8, <1>9, <1>10, <1>11, <1>12
       DEF Next, CallStep, ReadStep, ServerStep, TaskStep, vars

\* Events reach the bus in the order they were published and at most once,
\* across any number of reconnects and restarts of the agent.
THEOREM EventsArriveInOrder == Spec => []EventsInOrder
  <1>1. Init => EventInv /\ EventsInOrder
    BY BoundsAssumption DEF Init, EventInv, EventsInOrder, Rising, Fresh
  <1>2. WatchInv /\ EventInv /\ EventsInOrder /\ [Next]_vars => EventInv' /\ EventsInOrder'
    BY EventStep
  <1>3. QED
    BY <1>1, <1>2, WatchInvariant, PTL DEF Spec
-----------------------------------------------------------------------------
(* The link implements RpcService.                                          *)

\* A request that is written joins the end of its queue, where no request
\* of its id has been.
LEMMA WrittenOnce ==
    ASSUME TypeOK, RequestInv, OnceInv, NEW c \in Unsent, NEW k \in Conns,
           Written(c, k), UNCHANGED <<task, done, toWeb>>
    PROVE  RequestInv' /\ OnceInv'
  <1>0. /\ pc \in [Calls -> {"idle", "lock", "open", "drain", "await", "done"}]
        /\ fut \in [Calls -> {"none", "waiting", "ok", "error", "lost"}]
        /\ toAgent \in [Conns -> Seq(Calls)] /\ c \in Calls
        /\ \A l \in Conns : Len(toAgent[l]) \in Nat
    BY DEF TypeOK, Unsent
  <1>1. /\ toAgent' = [toAgent EXCEPT ![k] = Append(toAgent[k], c)]
        /\ Unsent' = Unsent \ {c}
    BY <1>0 DEF Written, Unsent
  <1>2. /\ Len(toAgent'[k]) = Len(toAgent[k]) + 1
        /\ toAgent'[k][Len(toAgent[k]) + 1] = c
        /\ \A n \in 1..Len(toAgent[k]) : toAgent'[k][n] = toAgent[k][n]
        /\ \A l \in Conns : l # k => toAgent'[l] = toAgent[l]
    BY <1>0, <1>1, AppendFacts
  <1>3. \A l \in Conns : \A n \in 1..Len(toAgent'[l]) :
          \/ l = k /\ n = Len(toAgent[k]) + 1 /\ toAgent'[l][n] = c
          \/ n \in 1..Len(toAgent[l]) /\ toAgent'[l][n] = toAgent[l][n]
    <2>1. \A n \in 1..Len(toAgent'[k]) :
            \/ n = Len(toAgent[k]) + 1 /\ toAgent'[k][n] = c
            \/ n \in 1..Len(toAgent[k]) /\ toAgent'[k][n] = toAgent[k][n]
      BY <1>0, <1>1, AppendedTo
    <2>2. QED
      BY <1>2, <2>1
  <1>4. \A l \in Conns : \A n \in 1..Len(toAgent[l]) : toAgent[l][n] # c
    BY DEF RequestInv
  <1>5. c \notin Unsent' /\ task[c].at = "none" /\ done[c] = 0
    BY <1>0, <1>1 DEF OnceInv
  <1>6. RequestInv'
    <2>1. ASSUME NEW l \in Conns, NEW n \in 1..Len(toAgent'[l])
          PROVE  /\ toAgent'[l][n] \notin Unsent'
                 /\ task[toAgent'[l][n]].at = "none" /\ done[toAgent'[l][n]] = 0
      BY <1>1, <1>3, <1>5 DEF RequestInv
    <2>2. ASSUME NEW l \in Conns, NEW j \in Conns, NEW m \in 1..Len(toAgent'[l]),
                 NEW n \in 1..Len(toAgent'[j]), toAgent'[l][m] = toAgent'[j][n]
          PROVE  l = j /\ m = n
      <3>1. \/ l = k /\ m = Len(toAgent[k]) + 1 /\ toAgent'[l][m] = c
            \/ m \in 1..Len(toAgent[l]) /\ toAgent'[l][m] = toAgent[l][m]
        BY <1>3
      <3>2. \/ j = k /\ n = Len(toAgent[k]) + 1 /\ toAgent'[j][n] = c
            \/ n \in 1..Len(toAgent[j]) /\ toAgent'[j][n] = toAgent[j][n]
        BY <1>3
      <3>3. CASE m \in 1..Len(toAgent[l]) /\ n \in 1..Len(toAgent[j])
                 /\ toAgent[l][m] = toAgent[j][n]
        BY <3>3 DEF RequestInv
      <3>4. QED
        BY <1>4, <2>2, <3>1, <3>2, <3>3
    <2>3. QED
      BY <2>1, <2>2 DEF RequestInv
  <1>7. \A b \in Calls : fut'[b] = "ok" => fut[b] = "ok"
    BY <1>0 DEF Written
  <1>8. QED
    BY <1>1, <1>6, <1>7 DEF OnceInv

\* What becomes of a queue of requests when the agent reads its first one.
LEMMA ReadOnce ==
    ASSUME TypeOK, RequestInv, OnceInv, NEW k \in Conns, HandleLine(k)
    PROVE  RequestInv' /\ OnceInv'
  <1> DEFINE c == Head(toAgent[k])
  <1>0. /\ toAgent \in [Conns -> Seq(Calls)] /\ toAgent[k] # <<>>
        /\ \A l \in Conns : Len(toAgent[l]) \in Nat
        /\ task \in [Calls -> [at : {"none", "handle", "handled", "error"},
                               conn : Conns \cup {NoConn}]]
    BY DEF TypeOK, HandleLine
  <1>1. /\ c \in Calls /\ c = toAgent[k][1] /\ 1 \in 1..Len(toAgent[k])
        /\ Len(Tail(toAgent[k])) = Len(toAgent[k]) - 1
        /\ \A n \in 1..Len(Tail(toAgent[k])) :
             Tail(toAgent[k])[n] = toAgent[k][n+1] /\ n+1 \in 1..Len(toAgent[k])
    BY <1>0, TailFacts
  <1>2. /\ toAgent' = [toAgent EXCEPT ![k] = Tail(toAgent[k])]
        /\ task' = [task EXCEPT ![c] = [at |-> "handle", conn |-> k]]
        /\ UNCHANGED <<pc, fut, done, toWeb>> /\ Unsent' = Unsent
    BY DEF HandleLine, Consumed, callVars, Unsent
  <1>3. c \notin Unsent /\ task[c].at = "none" /\ done[c] = 0
    BY <1>1 DEF RequestInv
  <1> HIDE DEF c
  <1>4. \A l \in Conns : l # k => toAgent'[l] = toAgent[l]
    BY <1>0, <1>2
  <1>5. toAgent'[k] = Tail(toAgent[k])
    BY <1>0, <1>2
  <1>6. /\ task'[c].at = "handle"
        /\ \A b \in Calls : b # c => task'[b] = task[b]
    BY <1>0, <1>1, <1>2
  <1>7. ASSUME NEW l \in Conns, NEW n \in 1..Len(toAgent'[l])
        PROVE  \E m \in 1..Len(toAgent[l]) :
                 /\ toAgent'[l][n] = toAgent[l][m]
                 /\ m = IF l = k THEN n + 1 ELSE n
                 /\ toAgent[l][m] # c /\ toAgent[l][m] \in Calls
    <2>1. CASE l = k
      <3>1. n + 1 \in 1..Len(toAgent[k]) /\ toAgent'[k][n] = toAgent[k][n + 1] /\ n + 1 # 1
        BY <1>0, <1>1, <1>5, <1>7, <2>1
      <3>2. toAgent[k][n + 1] # c
        BY <1>1, <3>1 DEF RequestInv
      <3>3. QED
        BY <1>0, <2>1, <3>1, <3>2, ElementFacts
    <2>2. CASE l # k
      <3>1. n \in 1..Len(toAgent[l]) /\ toAgent'[l][n] = toAgent[l][n]
        BY <1>4, <1>7, <2>2
      <3>2. toAgent[l][n] # c
        BY <1>1, <2>2, <3>1 DEF RequestInv
      <3>3. QED
        BY <1>0, <2>2, <3>1, <3>2, ElementFacts
    <2>3. QED
      BY <2>1, <2>2
  <1>8. RequestInv'
    <2>1. ASSUME NEW l \in Conns, NEW n \in 1..Len(toAgent'[l])
          PROVE  /\ toAgent'[l][n] \notin Unsent
                 /\ task'[toAgent'[l][n]].at = "none" /\ done[toAgent'[l][n]] = 0
      BY <1>6, <1>7, SMTT(30) DEF RequestInv
    <2>2. ASSUME NEW l \in Conns, NEW j \in Conns, NEW m \in 1..Len(toAgent'[l]),
                 NEW n \in 1..Len(toAgent'[j]), toAgent'[l][m] = toAgent'[j][n]
          PROVE  l = j /\ m = n
      <3>1. PICK p \in 1..Len(toAgent[l]) :
               toAgent'[l][m] = toAgent[l][p] /\ p = IF l = k THEN m + 1 ELSE m
        BY <1>7
      <3>2. PICK q \in 1..Len(toAgent[j]) :
               toAgent'[j][n] = toAgent[j][q] /\ q = IF j = k THEN n + 1 ELSE n
        BY <1>7
      <3>3. l = j /\ p = q
        <4>1. toAgent[l][p] = toAgent[j][q]
          BY <2>2, <3>1, <3>2
        <4>2. QED
          BY <4>1 DEF RequestInv
      <3>4. QED
        BY <3>1, <3>2, <3>3
    <2>3. \A l \in Conns : \A n \in 1..Len(toAgent'[l]) :
            /\ toAgent'[l][n] \notin Unsent'
            /\ task'[toAgent'[l][n]].at = "none" /\ done'[toAgent'[l][n]] = 0
      BY <1>2, <2>1
    <2>4. QED
      BY <2>2, <2>3 DEF RequestInv
  <1>9. QED
    BY <1>2, <1>3, <1>6, <1>8 DEF OnceInv

\* Every step keeps a request in one place and its work done at most once.
LEMMA OnceStep ==
    ASSUME WatchInv, RequestInv, OnceInv, [Next]_vars
    PROVE  RequestInv' /\ OnceInv'
  <1> DEFINE Goal == RequestInv' /\ OnceInv'
  <1> USE DEF callVars, connVars, agentVars
  <1>0. /\ pc \in [Calls -> {"idle", "lock", "open", "drain", "await", "done"}]
        /\ fut \in [Calls -> {"none", "waiting", "ok", "error", "lost"}]
        /\ task \in [Calls -> [at : {"none", "handle", "handled", "error"},
                               conn : Conns \cup {NoConn}]]
        /\ done \in [Calls -> Nat] /\ TypeOK /\ conns \in Nat
        /\ toWeb \in [Conns -> Seq(Frames)] /\ toAgent \in [Conns -> Seq(Calls)]
    BY DEF WatchInv, TypeOK
  <1>1. ASSUME NEW c \in Calls, CallAtOnce(c) \/ LockFindsConnection(c)
        PROVE  Goal
    <2>1. /\ writer \in Conns /\ c \in Unsent /\ Written(c, writer)
          /\ UNCHANGED <<task, done, toWeb>>
      BY <1>0, <1>1 DEF CallAtOnce, LockFindsConnection, Connected, Unsent, TypeOK
    <2>2. QED
      BY <1>0, <2>1, WrittenOnce
  <1>2. ASSUME NEW c \in Calls, Opened(c)
        PROVE  Goal
    <2>1. /\ conns + 1 \in Conns /\ c \in Unsent /\ Written(c, conns + 1)
          /\ UNCHANGED <<task, done, toWeb>>
      BY <1>0, <1>2, BoundsAssumption DEF Opened, Unsent, Conns
    <2>2. QED
      BY <1>0, <2>1, WrittenOnce
  <1>3. ASSUME UNCHANGED <<toAgent, toWeb, task, done>>,
               \A c \in Calls : c \in Unsent' => c \in Unsent,
               \A c \in Calls : fut'[c] = "ok" => fut[c] = "ok" \/ done[c] = 1
        PROVE  Goal
    <2>1. Unsent' \subseteq Calls
      BY DEF Unsent
    <2>2. QED
      BY <1>3, <2>1 DEF RequestInv, OnceInv
  <1>4. ASSUME NEW c \in Calls,
               \/ CallQueues(c) \/ LockOpens(c) \/ OpenFails(c) \/ Drained(c)
               \/ DrainFails(c) \/ Return(c)
        PROVE  Goal
    <2>1. UNCHANGED <<toAgent, toWeb, task, done, fut>>
      BY <1>4 DEF CallQueues, LockOpens, OpenFails, Drained, DrainFails, Return
    <2>2. \A b \in Calls : b \in Unsent' => b \in Unsent
      BY <1>0, <1>4 DEF CallQueues, LockOpens, OpenFails, Drained, DrainFails, Return, Unsent
    <2>3. QED
      BY <1>3, <2>1, <2>2
  <1>5. ASSUME NEW k \in Conns, ReadResponse(k) \/ ReadEvent(k) \/ ReadLoopEnds(k)
        PROVE  Goal
    <2>1. /\ UNCHANGED <<pc, toAgent, task, done>>
          /\ toWeb' \in {[toWeb EXCEPT ![k] = Tail(@)], [toWeb EXCEPT ![k] = <<>>]}
      BY <1>5 DEF ReadResponse, ReadEvent, ReadLoopEnds
    <2>2. Unsent' = Unsent
      BY <2>1 DEF Unsent
    <2>3. ASSUME NEW c \in Calls, fut'[c] = "ok"
          PROVE  fut[c] = "ok" \/ done[c] = 1
      <3>1. CASE ReadResponse(k)
        <4>1. Head(toWeb[k]) = toWeb[k][1] /\ 1 \in 1..Len(toWeb[k])
          BY <1>0, <3>1, TailFacts DEF ReadResponse
        <4>2. Head(toWeb[k]).answer = "ok" => done[Head(toWeb[k]).id] = 1
          BY <4>1 DEF OnceInv
        <4>3. QED
          BY <1>0, <2>3, <3>1, <4>2 DEF ReadResponse, Resolved
      <3>2. CASE ReadEvent(k)
        BY <2>3, <3>2 DEF ReadEvent
      <3>3. CASE ReadLoopEnds(k)
        BY <2>3, <3>3 DEF ReadLoopEnds, Failed
      <3>4. QED
        BY <1>5, <3>1, <3>2, <3>3
    <2>4. toWeb[k] # <<>> \/ toWeb' = [toWeb EXCEPT ![k] = <<>>]
      BY <1>5 DEF ReadResponse, ReadEvent, ReadLoopEnds
    <2>5. ASSUME NEW l \in Conns, NEW n \in 1..Len(toWeb'[l])
          PROVE  \E m \in 1..Len(toWeb[l]) : toWeb'[l][n] = toWeb[l][m]
      <3>1. CASE l # k
        BY <1>0, <2>1, <2>5, <3>1
      <3>2. CASE l = k /\ toWeb' = [toWeb EXCEPT ![k] = <<>>]
        BY <1>0, <2>5, <3>2
      <3>3. CASE l = k /\ toWeb' = [toWeb EXCEPT ![k] = Tail(@)] /\ toWeb[k] # <<>>
        <4>1. toWeb'[k] = Tail(toWeb[k])
          BY <1>0, <3>3
        <4>2. toWeb'[k][n] = toWeb[k][n+1] /\ n+1 \in 1..Len(toWeb[k])
          BY <1>0, <2>5, <3>3, <4>1, TailFacts
        <4>3. QED
          BY <3>3, <4>2
      <3>4. QED
        BY <2>1, <2>4, <3>1, <3>2, <3>3
    <2>6. RequestInv'
      BY <2>1, <2>2 DEF RequestInv
    <2>7. \A l \in Conns : \A n \in 1..Len(toWeb'[l]) :
            toWeb'[l][n].answer = "ok" => done[toWeb'[l][n].id] = 1
      BY <2>5, SMTT(30) DEF OnceInv
    <2>8. QED
      BY <2>1, <2>2, <2>3, <2>6, <2>7 DEF OnceInv
  <1>6. ASSUME NEW k \in Conns, HandleLine(k)
        PROVE  Goal
    BY <1>0, <1>6, ReadOnce
  <1>7. ASSUME NEW c \in Calls, Handle(c)
        PROVE  Goal
    <2>1. /\ UNCHANGED <<pc, fut, toAgent, toWeb>> /\ Unsent' = Unsent
          /\ task[c].at = "handle" /\ done[c] = 0 /\ c \notin Unsent
      BY <1>7 DEF Handle, OnceInv, Unsent
    <2>2. /\ done'[c] = 1 /\ \A b \in Calls : b # c => done'[b] = done[b]
          /\ task'[c].at = "handled" /\ \A b \in Calls : b # c => task'[b] = task[b]
      BY <1>0, <1>7, <2>1 DEF Handle
    <2>3. \A l \in Conns : \A n \in 1..Len(toAgent[l]) :
            toAgent[l][n] # c /\ toAgent[l][n] \in Calls
      BY <1>0, <2>1, ElementFacts DEF RequestInv
    <2>4. RequestInv'
      BY <2>1, <2>2, <2>3 DEF RequestInv
    <2>5. \A l \in Conns : \A n \in 1..Len(toWeb[l]) : toWeb[l][n].answer = "ok" =>
            toWeb[l][n].id \in Calls
      BY <1>0, ElementFacts DEF Frames
    <2>6. QED
      BY <2>1, <2>2, <2>4, <2>5 DEF OnceInv
  <1>8. ASSUME NEW c \in Calls, HandleRaises(c)
        PROVE  Goal
    <2>1. /\ UNCHANGED <<pc, fut, toAgent, toWeb, done>> /\ Unsent' = Unsent
          /\ task[c].at # "none" /\ c \notin Unsent
      BY <1>8 DEF HandleRaises, OnceInv, Unsent
    <2>2. task'[c].at = "error" /\ \A b \in Calls : b # c => task'[b] = task[b]
      BY <1>0, <1>8, <2>1 DEF HandleRaises
    <2>3. \A l \in Conns : \A n \in 1..Len(toAgent[l]) :
            toAgent[l][n] # c /\ toAgent[l][n] \in Calls
      BY <1>0, <2>1, ElementFacts DEF RequestInv
    <2>4. RequestInv'
      BY <2>1, <2>2, <2>3 DEF RequestInv
    <2>5. QED
      BY <2>1, <2>2, <2>4 DEF OnceInv
  <1>9. ASSUME NEW c \in Calls, Respond(c)
        PROVE  Goal
    <2> DEFINE f == [id |-> c, num |-> 0,
                     answer |-> IF task[c].at = "error" THEN "error" ELSE "ok"]
    <2>1. /\ UNCHANGED <<pc, fut, toAgent, done>> /\ Unsent' = Unsent
          /\ toWeb' = Sent(served \cap {task[c].conn}, f)
          /\ task[c].at \in {"handled", "error"}
      BY <1>9 DEF Respond, Unsent
    <2>2. f \in Frames /\ f.id = c /\ (f.answer = "ok" => done[c] = 1)
      BY <2>1 DEF Frames, OnceInv
    <2> HIDE DEF f
    <2>3. task'[c].at = "none" /\ \A b \in Calls : b # c => task'[b] = task[b]
      BY <1>0, <1>9 DEF Respond, NoTask
    <2>4. \A l \in Conns : \A n \in 1..Len(toAgent[l]) : toAgent[l][n] \in Calls
      BY <1>0, ElementFacts
    <2>5. RequestInv'
      BY <2>1, <2>3, <2>4 DEF RequestInv
    <2>6. ASSUME NEW l \in Conns, NEW n \in 1..Len(toWeb'[l]), toWeb'[l][n].answer = "ok"
          PROVE  done[toWeb'[l][n].id] = 1
      <3>1. CASE toWeb'[l] = toWeb[l]
        BY <2>6, <3>1 DEF OnceInv
      <3>2. CASE toWeb'[l] = Append(toWeb[l], f)
        <4>1. toWeb[l] \in Seq(Frames) /\ Len(toWeb[l]) \in Nat
          BY <1>0
        <4>2. \/ n = Len(toWeb[l]) + 1 /\ toWeb'[l][n] = f
              \/ n \in 1..Len(toWeb[l]) /\ toWeb'[l][n] = toWeb[l][n]
          BY <2>2, <2>6, <3>2, <4>1, AppendedTo
        <4>3. QED
          BY <2>2, <2>6, <4>2 DEF OnceInv
      <3>3. QED
        BY <2>1, <3>1, <3>2 DEF Sent
    <2>7. QED
      BY <2>1, <2>3, <2>5, <2>6 DEF OnceInv
  <1>10. ASSUME Publish
         PROVE  Goal
    <2> DEFINE f == [id |-> NoCall, num |-> published + 1, answer |-> "event"]
    <2>1. /\ UNCHANGED <<pc, fut, toAgent, done, task>> /\ Unsent' = Unsent
          /\ toWeb' = Sent(served, f)
      BY <1>10 DEF Publish, Unsent
    <2>2. f \in Frames /\ f.answer # "ok"
      BY <1>0, <1>10, BoundsAssumption DEF Frames, Publish, TypeOK
    <2> HIDE DEF f
    <2>3. ASSUME NEW l \in Conns, NEW n \in 1..Len(toWeb'[l]), toWeb'[l][n].answer = "ok"
          PROVE  done[toWeb'[l][n].id] = 1
      <3>1. CASE toWeb'[l] = toWeb[l]
        BY <2>3, <3>1 DEF OnceInv
      <3>2. CASE toWeb'[l] = Append(toWeb[l], f)
        <4>1. toWeb[l] \in Seq(Frames) /\ Len(toWeb[l]) \in Nat
          BY <1>0
        <4>2. \/ n = Len(toWeb[l]) + 1 /\ toWeb'[l][n] = f
              \/ n \in 1..Len(toWeb[l]) /\ toWeb'[l][n] = toWeb[l][n]
          BY <2>2, <2>3, <3>2, <4>1, AppendedTo
        <4>3. QED
          BY <2>2, <2>3, <4>2 DEF OnceInv
      <3>3. QED
        BY <2>1, <3>1, <3>2 DEF Sent
    <2>4. RequestInv'
      BY <2>1 DEF RequestInv
    <2>5. QED
      BY <2>1, <2>3, <2>4 DEF OnceInv
  <1>11. ASSUME Crash
         PROVE  Goal
    <2>1. /\ UNCHANGED <<pc, fut, toWeb, done>> /\ Unsent' = Unsent
          /\ \A c \in Calls : task'[c].at = "none"
          /\ \A k \in Conns : toAgent'[k] = <<>>
      BY <1>11 DEF Crash, NoTask, Unsent
    <2>2. QED
      BY <2>1 DEF RequestInv, OnceInv
  <1>12. ASSUME UNCHANGED <<pc, fut, toAgent, toWeb, task, done>>
         PROVE  Goal
    BY <1>12 DEF RequestInv, OnceInv, Unsent
  <1>13. ASSUME NEW k \in Conns, HandleConnection(k) \/ ConnectionEnds(k)
         PROVE  Goal
    BY <1>12, <1>13 DEF HandleConnection, ConnectionEnds
  <1>14. ASSUME close \/ Start \/ UNCHANGED vars
         PROVE  Goal
    BY <1>12, <1>14 DEF close, Start, vars
  <1>15. QED
    BY <1>1, <1>2, <1>4, <1>5, <1>6, <1>7, <1>8, <1>9, <1>10, <1>11, <1>13, <1>14
       DEF Next, CallStep, ReadStep, ServerStep, TaskStep
\* Every step is a step of the service or leaves it alone.
LEMMA ServiceStep ==
    ASSUME WatchInv, RequestInv, OnceInv, [Next]_vars
    PROVE  [Service!Next]_(Service!vars)
  <1> USE DEF callVars, connVars, agentVars, Service!vars
  <1>0. /\ pc \in [Calls -> {"idle", "lock", "open", "drain", "await", "done"}]
        /\ fut \in [Calls -> {"none", "waiting", "ok", "error", "lost"}]
        /\ outcome \in [Calls -> {"none", "ok", "error", "lost"}]
        /\ done \in [Calls -> Nat]
    BY DEF WatchInv, TypeOK
  <1>1. ASSUME NEW c \in Calls, NEW p \in {"lock", "drain", "await"}, pc[c] = "idle",
               pc' = [pc EXCEPT ![c] = p], UNCHANGED <<outcome, done>>
        PROVE  Service!Issue(c)
    BY <1>0, <1>1 DEF Service!Issue, told
  <1>2. ASSUME NEW c \in Calls, NEW o \in {"ok", "error", "lost"},
               pc[c] \notin {"idle", "done"}, o = "ok" => done[c] = 1,
               pc' = [pc EXCEPT ![c] = "done"], outcome' = [outcome EXCEPT ![c] = o],
               UNCHANGED done
        PROVE  Service!Answer(c, o)
    BY <1>0, <1>2 DEF Service!Answer, told
  <1>3. ASSUME UNCHANGED <<outcome, done>>,
               \A c \in Calls : pc'[c] = pc[c] \/ {pc[c], pc'[c]} \cap {"idle", "done"} = {}
        PROVE  UNCHANGED Service!vars
    BY <1>3 DEF told
  <1>4. ASSUME NEW c \in Calls, CallAtOnce(c) \/ CallQueues(c)
        PROVE  Service!Next
    <2>1. \E p \in {"lock", "drain", "await"} :
            pc[c] = "idle" /\ pc' = [pc EXCEPT ![c] = p] /\ UNCHANGED <<outcome, done>>
      BY <1>4 DEF CallAtOnce, CallQueues, Written
    <2>2. QED
      BY <1>1, <2>1 DEF Service!Next
  <1>5. ASSUME NEW c \in Calls, OpenFails(c) \/ DrainFails(c)
        PROVE  Service!Next
    <2>1. Service!Answer(c, "lost")
      BY <1>2, <1>5 DEF OpenFails, DrainFails
    <2>2. QED
      BY <2>1 DEF Service!Next
  <1>6. ASSUME NEW c \in Calls, Return(c)
        PROVE  Service!Next
    <2>1. fut[c] \in {"ok", "error", "lost"} /\ (fut[c] = "ok" => done[c] = 1)
      BY <1>0, <1>6 DEF Return, WatchInv, FutureInv, OnceInv
    <2>2. Service!Answer(c, fut[c])
      BY <1>2, <1>6, <2>1 DEF Return
    <2>3. QED
      BY <2>1, <2>2 DEF Service!Next
  <1>7. ASSUME NEW c \in Calls, Handle(c)
        PROVE  Service!Next
    <2>1. done[c] = 0 /\ pc[c] # "idle"
      BY <1>7 DEF Handle, OnceInv, Unsent
    <2>2. done' = [done EXCEPT ![c] = 1] /\ UNCHANGED <<pc, outcome>>
      BY <1>0, <1>7, <2>1 DEF Handle
    <2>3. told[c] # "idle" /\ told' = told
      BY <1>0, <2>1, <2>2 DEF told
    <2>4. Service!Do(c)
      BY <2>1, <2>2, <2>3 DEF Service!Do
    <2>5. QED
      BY <2>4 DEF Service!Next
  <1>8. ASSUME NEW c \in Calls,
               LockFindsConnection(c) \/ LockOpens(c) \/ Opened(c) \/ Drained(c)
        PROVE  UNCHANGED Service!vars
    <2>1. /\ UNCHANGED <<outcome, done>>
          /\ pc[c] \in {"lock", "open", "drain"}
          /\ \E p \in {"open", "drain", "await"} : pc' = [pc EXCEPT ![c] = p]
      BY <1>8 DEF LockFindsConnection, LockOpens, Opened, Drained, Written
    <2>2. \A b \in Calls : pc'[b] = pc[b] \/ {pc[b], pc'[b]} \cap {"idle", "done"} = {}
      BY <1>0, <2>1
    <2>3. QED
      BY <1>3, <2>1, <2>2
  <1>9. CASE UNCHANGED <<pc, outcome, done>>
    BY <1>3, <1>9
  <1>10. ASSUME NEW k \in Conns,
                \/ ReadResponse(k) \/ ReadEvent(k) \/ ReadLoopEnds(k)
                \/ HandleConnection(k) \/ HandleLine(k) \/ ConnectionEnds(k)
         PROVE  UNCHANGED <<pc, outcome, done>>
    BY <1>10 DEF ReadResponse, ReadEvent, ReadLoopEnds, HandleConnection, HandleLine,
                 ConnectionEnds
  <1>11. ASSUME NEW c \in Calls, HandleRaises(c) \/ Respond(c)
         PROVE  UNCHANGED <<pc, outcome, done>>
    BY <1>11 DEF HandleRaises, Respond
  <1>12. ASSUME Publish \/ close \/ Crash \/ Start \/ UNCHANGED vars
         PROVE  UNCHANGED <<pc, outcome, done>>
    BY <1>12 DEF Publish, close, Crash, Start, vars
  <1>13. QED
    BY <1>4, <1>5, <1>6, <1>7, <1>8, <1>9, <1>10, <1>11, <1>12
       DEF Next, CallStep, ReadStep, ServerStep, TaskStep

\* The link implements the service: what a call asks for is done at most
\* once, and an answer is the answer to this very call, whatever connections
\* break, handlers raise or processes restart on the way.
THEOREM Refinement == Spec => ImplementsService
  <1>1. Init => RequestInv /\ OnceInv
    BY DEF Init, RequestInv, OnceInv, NoTask
  <1>2. WatchInv /\ RequestInv /\ OnceInv /\ [Next]_vars => RequestInv' /\ OnceInv'
    BY OnceStep
  <1>3. Init => Service!Init
    BY DEF Init, Service!Init, told
  <1>4. WatchInv /\ RequestInv /\ OnceInv /\ [Next]_vars => [Service!Next]_(Service!vars)
    BY ServiceStep
  <1>5. QED
    BY <1>1, <1>2, <1>3, <1>4, WatchInvariant, PTL
       DEF Spec, ImplementsService, Service!Spec
==============================================================================
