--------------------------------- MODULE Rpc ---------------------------------
(***************************************************************************)
(* The RPC link between the web process and the agent.                     *)
(*                                                                         *)
(*   web    rpc/transport.py: UnixSocketTransport; rpc/client.py           *)
(*   agent  agent/main.py: the server; agent/dispatcher.py; broadcaster.py *)
(*                                                                         *)
(* One connection carries many calls; it is made by the first call that    *)
(* finds none, under a lock, and torn down by its read loop, which fails   *)
(* every call in the pending table.  Both ends are asyncio programs: an    *)
(* action is the code between two awaits.  A connection is two queues of   *)
(* frames; what is in them when it breaks may or may not be read.          *)
(***************************************************************************)
EXTENDS Naturals, Sequences, FiniteSets

CONSTANTS
    Calls,         \* request ids: uuid4, so one is never used twice
    NoCall,        \* nobody holds _connect_lock
    NoConn,        \* self._writer is None
    MaxConns,      \* bound: connections ever made; a call makes at most one
    MaxEvents,     \* bound: events the agent publishes
    MaxUpsets      \* bound: restarts of the agent and calls of close()

ASSUME BoundsAssumption ==
    MaxConns \in Nat /\ MaxEvents \in Nat /\ MaxUpsets \in Nat
ASSUME NoConnAssumption == NoConn \notin Nat
ASSUME NoCallAssumption == NoCall \notin Calls

VARIABLES
    \* the web process
    pc,        \* where call c is in _ensure_connected and call
    fut,       \* fut[c]: its future
    outcome,   \* what its caller got
    pending,   \* the keys of self._pending
    writer,    \* self._writer: a connection or NoConn
    closing,   \* connections whose writer is_closing()
    lock,      \* the call that holds self._connect_lock
    readers,   \* connections whose _read_loop runs
    via,       \* the connection a call was written to (for the properties)
    seen,      \* events handed to on_event, in order
    \* the socket
    conns,     \* connections made so far
    toAgent,   \* toAgent[k]: requests on their way
    toWeb,     \* toWeb[k]: responses and events on their way
    \* the agent
    up,        \* the process runs
    served,    \* connections in _handle_connection, their writers registered
    ended,     \* connections the agent has closed
    task,      \* task[c]: where _handle_line is with call c, and its writer
    done,      \* done[c]: how often the handler did its work
    published, \* events published so far
    upsets

callVars == <<pc, fut, outcome, via>>
connVars == <<writer, closing, lock, readers>>
agentVars == <<up, served, ended, task, done, published>>
vars == <<callVars, pending, connVars, seen, conns, toAgent, toWeb, agentVars,
          upsets>>

Conns == 1..MaxConns
NoTask == [at |-> "none", conn |-> NoConn]

Init ==
    /\ pc = [c \in Calls |-> "idle"]
    /\ fut = [c \in Calls |-> "none"]
    /\ outcome = [c \in Calls |-> "none"]
    /\ via = [c \in Calls |-> NoConn]
    /\ pending = {} /\ writer = NoConn /\ closing = {}
    /\ lock = NoCall /\ readers = {} /\ seen = <<>>
    /\ conns = 0
    /\ toAgent = [k \in Conns |-> <<>>]
    /\ toWeb = [k \in Conns |-> <<>>]
    /\ up = TRUE /\ served = {} /\ ended = {}
    /\ task = [c \in Calls |-> NoTask]
    /\ done = [c \in Calls |-> 0]
    /\ published = 0 /\ upsets = 0

Upset == upsets < MaxUpsets /\ upsets' = upsets + 1

-----------------------------------------------------------------------------
(* A call, in the web process.                                              *)

Connected == writer # NoConn /\ writer \notin closing

\* From the end of _ensure_connected to the await of drain() or of the
\* future: the entry in the table and the frame on the socket are one step.
\* drain() waits only when the transport is above its high-water mark.
Written(c, k) ==
    /\ pending' = pending \cup {c}
    /\ fut' = [fut EXCEPT ![c] = "waiting"]
    /\ via' = [via EXCEPT ![c] = k]
    /\ toAgent' = [toAgent EXCEPT ![k] = Append(@, c)]
    /\ \E at \in {"drain", "await"} : pc' = [pc EXCEPT ![c] = at]

\* uuid4().hex: ids have no order, so which unused one does not matter.
FreshId == CHOOSE c \in Calls : pc[c] = "idle"

\* call, on a transport that is connected.
CallAtOnce(c) ==
    /\ pc[c] = "idle" /\ c = FreshId /\ Connected
    /\ Written(c, writer)
    /\ UNCHANGED <<outcome, connVars, seen, conns, toWeb, agentVars, upsets>>

\* call, on one that is not: on to the connect lock.
CallQueues(c) ==
    /\ pc[c] = "idle" /\ c = FreshId /\ ~Connected
    /\ pc' = [pc EXCEPT ![c] = "lock"]
    /\ UNCHANGED <<fut, outcome, via, pending, connVars, seen, conns, toAgent,
                   toWeb, agentVars, upsets>>

\* The lock is free and another call has connected in the meantime.
LockFindsConnection(c) ==
    /\ pc[c] = "lock" /\ lock = NoCall /\ Connected
    /\ Written(c, writer)
    /\ UNCHANGED <<outcome, connVars, seen, conns, toWeb, agentVars, upsets>>

\* The lock is free and there is nothing: open_unix_connection.
LockOpens(c) ==
    /\ pc[c] = "lock" /\ lock = NoCall /\ ~Connected
    /\ lock' = c
    /\ pc' = [pc EXCEPT ![c] = "open"]
    /\ UNCHANGED <<fut, outcome, via, pending, writer, closing, readers, seen,
                   conns, toAgent, toWeb, agentVars, upsets>>

\* Fault: the new connection is up before the old read loop was told.
OldLoopEnded_any == TRUE
\* The event loop runs what is ready in order: connection_lost of the old
\* transport and its read loop come before the two rounds that a connect
\* takes.
OldLoopEnded == readers = {}

\* The connection is made, its read loop started, the lock released and the
\* request written, with no await in between.
Opened(c) ==
    /\ pc[c] = "open" /\ up /\ conns < MaxConns /\ OldLoopEnded
    /\ conns' = conns + 1
    /\ writer' = conns + 1
    /\ readers' = readers \cup {conns + 1}
    /\ lock' = NoCall
    /\ Written(c, conns + 1)
    /\ UNCHANGED <<outcome, closing, seen, toWeb, agentVars, upsets>>

\* Nobody listens: the OSError goes to the caller.
OpenFails(c) ==
    /\ pc[c] = "open" /\ ~up
    /\ lock' = NoCall
    /\ pc' = [pc EXCEPT ![c] = "done"]
    /\ outcome' = [outcome EXCEPT ![c] = "lost"]
    /\ UNCHANGED <<fut, via, pending, writer, closing, readers, seen, conns,
                   toAgent, toWeb, agentVars, upsets>>

Broken(k) == k \in ended \/ k \notin readers

Drained(c) ==
    /\ pc[c] = "drain" /\ ~Broken(via[c])
    /\ pc' = [pc EXCEPT ![c] = "await"]
    /\ UNCHANGED <<fut, outcome, via, pending, connVars, seen, conns, toAgent,
                   toWeb, agentVars, upsets>>

\* drain() raises outside the try: the entry stays in the table.
DrainFails(c) ==
    /\ pc[c] = "drain" /\ Broken(via[c])
    /\ pc' = [pc EXCEPT ![c] = "done"]
    /\ outcome' = [outcome EXCEPT ![c] = "lost"]
    /\ UNCHANGED <<fut, via, pending, connVars, seen, conns, toAgent, toWeb,
                   agentVars, upsets>>

\* The future is done: its result, RpcCallError or ConnectionError.
Return(c) ==
    /\ pc[c] = "await" /\ fut[c] # "waiting"
    /\ pc' = [pc EXCEPT ![c] = "done"]
    /\ outcome' = [outcome EXCEPT ![c] = fut[c]]
    /\ pending' = pending \ {c}
    /\ UNCHANGED <<fut, via, connVars, seen, conns, toAgent, toWeb, agentVars,
                   upsets>>

-----------------------------------------------------------------------------
(* The read loop of connection k.                                           *)

\* _pending.pop(resp.id): a response nobody waits for is dropped.
Resolved(frame) ==
    [c \in Calls |-> IF c = frame.id /\ c \in pending THEN frame.answer
                                                      ELSE fut[c]]

\* raw["type"] == "event"
IsEvent(frame) == frame.id = NoCall

ReadResponse(k) ==
    /\ k \in readers /\ toWeb[k] # <<>>
    /\ LET frame == Head(toWeb[k]) IN
         /\ ~IsEvent(frame)
         /\ fut' = Resolved(frame)
         /\ pending' = pending \ {frame.id}
    /\ toWeb' = [toWeb EXCEPT ![k] = Tail(@)]
    /\ UNCHANGED <<pc, outcome, via, connVars, seen, conns, toAgent, agentVars,
                   upsets>>

\* on_event publishes it on the EventBus.
ReadEvent(k) ==
    /\ k \in readers /\ toWeb[k] # <<>> /\ IsEvent(Head(toWeb[k]))
    /\ seen' = Append(seen, Head(toWeb[k]).num)
    /\ toWeb' = [toWeb EXCEPT ![k] = Tail(@)]
    /\ UNCHANGED <<callVars, pending, connVars, conns, toAgent, agentVars, upsets>>

\* Fault: the calls of a connection that ended are left in the table.
Failed_none == fut
\* Every future that is not done gets a ConnectionError.
Failed ==
    [c \in Calls |-> IF c \in pending /\ fut[c] = "waiting" THEN "lost"
                                                            ELSE fut[c]]

\* The loop ends, on end of file or a reset, on close(), or on a response
\* longer than StreamReader's limit of 64 KiB (a response is data: whether
\* it is too long is a choice), and its finally block clears the table and the writer.
ReadLoopEnds(k) ==
    /\ k \in readers
    /\ \/ k \in ended
       \/ k \in closing
       \/ toWeb[k] # <<>> /\ ~IsEvent(Head(toWeb[k]))
    /\ readers' = readers \ {k}
    /\ fut' = Failed
    /\ pending' = {}
    /\ writer' = NoConn
    /\ toWeb' = [toWeb EXCEPT ![k] = <<>>]
    /\ UNCHANGED <<pc, outcome, via, closing, lock, seen, conns, toAgent,
                   agentVars, upsets>>

\* close(): the read loop is cancelled and the writer closed.
close ==
    /\ Upset
    /\ Connected
    /\ closing' = closing \cup {writer}
    /\ UNCHANGED <<callVars, pending, writer, lock, readers, seen, conns, toAgent,
                   toWeb, agentVars>>

-----------------------------------------------------------------------------
(* The agent.                                                               *)

\* The server accepts, the peer is the web's user or root, and the writer
\* is registered with the broadcaster.
HandleConnection(k) ==
    /\ up /\ k \in 1..conns /\ k \notin served \cup ended
    /\ served' = served \cup {k}
    /\ UNCHANGED <<callVars, pending, connVars, seen, conns, toAgent, toWeb, up,
                   ended, task, done, published, upsets>>

\* Fault: a frame is left in the buffer when its task is started.
Consumed_not(k) == toAgent
\* readline
Consumed(k) == [toAgent EXCEPT ![k] = Tail(@)]

\* One task per line; _handle_line parses it and calls the dispatcher.
HandleLine(k) ==
    /\ k \in served /\ toAgent[k] # <<>>
    /\ task' = [task EXCEPT ![Head(toAgent[k])] = [at |-> "handle", conn |-> k]]
    /\ toAgent' = Consumed(k)
    /\ UNCHANGED <<callVars, pending, connVars, seen, conns, toWeb, up, served,
                   ended, done, published, upsets>>

\* End of file, or readline raises on a request over the limit: unregister
\* and close.  Tasks already started go on.
ConnectionEnds(k) ==
    /\ k \in served
    /\ \/ toAgent[k] = <<>> /\ k \notin readers
       \/ toAgent[k] # <<>>
    /\ served' = served \ {k}
    /\ ended' = ended \cup {k}
    /\ UNCHANGED <<callVars, pending, connVars, seen, conns, toAgent, toWeb, up,
                   task, done, published, upsets>>

\* What is written to a connection that either end closed goes nowhere.
Sent(ks, frame) ==
    [k \in Conns |-> IF k \in ks \cap readers THEN Append(toWeb[k], frame) ELSE toWeb[k]]

\* The handler's work is done; the result is still to be sent.
Handle(c) ==
    /\ task[c].at = "handle"
    /\ done' = [done EXCEPT ![c] = @ + 1]
    /\ task' = [task EXCEPT ![c].at = "handled"]
    /\ UNCHANGED <<callVars, pending, connVars, seen, conns, toAgent, toWeb, up,
                   served, ended, published, upsets>>

\* Unknown method, no handler or invalid params; or the handler raises,
\* before or after it did something.
HandleRaises(c) ==
    /\ task[c].at \in {"handle", "handled"}
    /\ task' = [task EXCEPT ![c].at = "error"]
    /\ UNCHANGED <<callVars, pending, connVars, seen, conns, toAgent, toWeb, up,
                   served, ended, done, published, upsets>>

\* _handle_line writes the response to the connection the request came on.
Respond(c) ==
    /\ task[c].at \in {"handled", "error"}
    /\ toWeb' = Sent(served \cap {task[c].conn},
                     [id |-> c, num |-> 0,
                      answer |-> IF task[c].at = "error" THEN "error" ELSE "ok"])
    /\ task' = [task EXCEPT ![c] = NoTask]
    /\ UNCHANGED <<callVars, pending, connVars, seen, conns, toAgent, up, served,
                   ended, done, published, upsets>>

\* EventBroadcaster.publish, to every connection there is.
Publish ==
    /\ up /\ published < MaxEvents
    /\ published' = published + 1
    /\ toWeb' = Sent(served, [id |-> NoCall, num |-> published + 1,
                            answer |-> "event"])
    /\ UNCHANGED <<callVars, pending, connVars, seen, conns, toAgent, up, served,
                   ended, task, done, upsets>>

\* The agent goes away with its tasks and its connections.
Crash ==
    /\ Upset
    /\ up
    /\ up' = FALSE
    /\ served' = {}
    /\ ended' = 1..conns
    /\ task' = [c \in Calls |-> NoTask]
    /\ toAgent' = [k \in Conns |-> <<>>]
    /\ UNCHANGED <<callVars, pending, connVars, seen, conns, toWeb, done,
                   published>>

\* run: systemd starts it again.
Start ==
    /\ ~up
    /\ up' = TRUE
    /\ UNCHANGED <<callVars, pending, connVars, seen, conns, toAgent, toWeb,
                   served, ended, task, done, published, upsets>>

CallStep(c) ==
    \/ LockFindsConnection(c) \/ LockOpens(c) \/ Opened(c) \/ OpenFails(c)
    \/ Drained(c) \/ DrainFails(c) \/ Return(c)
ReadStep(k) == ReadResponse(k) \/ ReadEvent(k) \/ ReadLoopEnds(k)
ServerStep(k) == HandleConnection(k) \/ HandleLine(k) \/ ConnectionEnds(k)
TaskStep(c) == Handle(c) \/ HandleRaises(c) \/ Respond(c)

Next ==
    \/ \E c \in Calls : CallAtOnce(c) \/ CallQueues(c) \/ CallStep(c) \/ TaskStep(c)
    \/ \E k \in Conns : ReadStep(k) \/ ServerStep(k)
    \/ Publish \/ close \/ Crash \/ Start

Spec == Init /\ [][Next]_vars

\* Both event loops keep running what is ready, handlers come to an end and
\* systemd restarts the agent.  Nobody has to call.
FairSpec ==
    /\ Spec
    /\ \A c \in Calls : WF_vars(CallStep(c)) /\ WF_vars(TaskStep(c))
    /\ \A k \in Conns : WF_vars(ReadStep(k)) /\ WF_vars(ServerStep(k))
    /\ WF_vars(Start)

-----------------------------------------------------------------------------
(* Properties.                                                              *)

\* What the agent writes to a connection: responses and events.
Frames == [id : Calls, num : {0}, answer : {"ok", "error"}]
          \cup [id : {NoCall}, num : 1..MaxEvents, answer : {"event"}]

\* The variables have their types.
TypeOK ==
    /\ pc \in [Calls -> {"idle", "lock", "open", "drain", "await", "done"}]
    /\ fut \in [Calls -> {"none", "waiting", "ok", "error", "lost"}]
    /\ outcome \in [Calls -> {"none", "ok", "error", "lost"}]
    /\ via \in [Calls -> Conns \cup {NoConn}]
    /\ pending \subseteq Calls
    /\ writer \in Conns \cup {NoConn} /\ closing \subseteq Conns
    /\ lock \in Calls \cup {NoCall} /\ readers \subseteq Conns
    /\ seen \in Seq(1..MaxEvents)
    /\ conns \in 0..MaxConns
    /\ toAgent \in [Conns -> Seq(Calls)] /\ toWeb \in [Conns -> Seq(Frames)]
    /\ up \in BOOLEAN /\ served \subseteq Conns /\ ended \subseteq Conns
    /\ task \in [Calls -> [at : {"none", "handle", "handled", "error"},
                           conn : Conns \cup {NoConn}]]
    /\ done \in [Calls -> Nat]
    /\ published \in 0..MaxEvents /\ upsets \in 0..MaxUpsets

\* A call that waits is in the table, and the read loop of the connection
\* it was written to is there to end it: no call is forgotten by the clean-up
\* of another connection, by a response that never comes or by a restart.
\* And a caller is told that the connection was lost only when its own was:
\* the end of an old connection fails no call of a new one.
WaitingIsWatched ==
    \A c \in Calls :
        /\ fut[c] = "lost" => via[c] \notin readers
        /\ fut[c] = "waiting" =>
            c \in pending /\ via[c] = writer /\ writer \in readers

\* Events reach the bus in the order the agent published them and at most
\* once, across reconnects.
EventsInOrder ==
    \A i, j \in 1..Len(seen) : i < j => seen[i] < seen[j]

\* Every call ends: with its answer, or because its connection did.
EveryCallEnds ==
    \A c \in Calls : pc[c] \notin {"idle", "done"} ~> pc[c] = "done"

-----------------------------------------------------------------------------
(* The link implements RpcService.                                          *)

\* What the caller has been told so far.
told == [c \in Calls |-> IF pc[c] = "idle" THEN "idle"
                         ELSE IF pc[c] = "done" THEN outcome[c] ELSE "open"]

Service == INSTANCE RpcService WITH outcome <- told, done <- done

\* Every behaviour of the link is one of the service: at most once, and
\* every answer is the call's own.
ImplementsService == Service!Spec
==============================================================================
