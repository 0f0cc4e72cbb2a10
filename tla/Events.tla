------------------------------- MODULE Events --------------------------------
(***************************************************************************)
(* Live updates: from the web process's event bus to the windows of the    *)
(* desktop.                                                                *)
(*                                                                         *)
(*   server   events/bus.py: EventBus; web/ws.py: ws_endpoint;             *)
(*            monitor/sampler.py and the agent's events as producers       *)
(*   browser  frontend/src/api/ws.ts: WsHub and useTopic                   *)
(*                                                                         *)
(* A subscription is a queue of the bus with a forwarder task that empties *)
(* it into the socket.  When the socket is slow the queue fills and its    *)
(* oldest item makes room for the newest.  Events are numbered, per topic, *)
(* in the order they were published.                                       *)
(***************************************************************************)
EXTENDS Naturals, Sequences, FiniteSets, SequencesExt

CONSTANTS
    Topics,      \* topics
    QueueMax,    \* _QUEUE_MAXSIZE
    MaxSockets,  \* bound: sockets the browser opens
    MaxEvents,   \* bound: events per topic
    MaxUses,     \* bound: components that use a topic, over time
    MaxStops,    \* bound: logouts
    InFlight     \* bound: frames in a socket before the forwarder waits

ASSUME BoundsAssumption ==
    /\ IsFiniteSet(Topics)
    /\ QueueMax \in Nat \ {0} /\ InFlight \in Nat \ {0} /\ MaxSockets \in Nat
    /\ MaxEvents \in Nat /\ MaxUses \in Nat /\ MaxStops \in Nat

VARIABLES
    \* WsHub
    running,    \* the session is authenticated
    current,    \* this.socket; 0 for null
    sock,       \* sock[s]: the state of socket s
    timers,     \* reconnect timers that have not fired, by the closed socket
    handle,     \* this.reconnectTimer; 0 for null
    listeners,  \* listeners[t]: the size of the topic's set
    shown,      \* shown[t]: the value of useTopic; 0 for null
    uses, stops,
    overlap,    \* history: start() came before the close event of the socket
                \* that was there at stop()
    \* the sockets
    up,         \* up[s]: subscribe and unsubscribe messages on their way
    down,       \* down[s]: frames on their way
    \* the web process
    queue,      \* queue[s][t]: the forwarder's queue; NoQueue if none
    last,       \* last[t]: the newest event published
    sent        \* history: the newest event the subscription was given or
                \* began after

hubVars == <<running, current, timers, handle, listeners, shown, uses, stops,
             overlap>>
busVars == <<queue, last, sent>>
vars == <<hubVars, sock, up, down, busVars>>

Sockets == 1..MaxSockets
NoQueue == <<0>>
Subscribed(s, t) == queue[s][t] # NoQueue
NoQueues == [t \in Topics |-> NoQueue]

Init ==
    /\ running = FALSE /\ current = 0 /\ timers = {} /\ handle = 0
    /\ sock = [s \in Sockets |-> "none"]
    /\ listeners = [t \in Topics |-> 0]
    /\ shown = [t \in Topics |-> 0]
    /\ uses = 0 /\ stops = 0 /\ overlap = FALSE
    /\ up = [s \in Sockets |-> <<>>]
    /\ down = [s \in Sockets |-> <<>>]
    /\ queue = [s \in Sockets |-> NoQueues]
    /\ last = [t \in Topics |-> 0]
    /\ sent = [s \in Sockets |-> [t \in Topics |-> 0]]

-----------------------------------------------------------------------------
(* WsHub.                                                                   *)

Unused == {s \in Sockets : sock[s] = "none"}

\* connect: a new socket, which becomes this.socket.
connect ==
    \E s \in Unused :
      /\ \A o \in Unused : s <= o
      /\ sock' = [sock EXCEPT ![s] = "connecting"]
      /\ current' = s

start ==
    /\ ~running
    /\ running' = TRUE
    /\ connect
    /\ overlap' = (overlap \/ \E s \in Sockets : sock[s] \in {"closing", "lost"})
    /\ UNCHANGED <<timers, handle, listeners, shown, uses, stops, up, down, busVars>>

\* Fault: the reconnect timer is not cleared.
Cleared_not == timers
\* clearTimeout(this.reconnectTimer)
Cleared == timers \ {handle}

stop ==
    /\ running /\ stops < MaxStops
    /\ stops' = stops + 1
    /\ running' = FALSE
    /\ timers' = Cleared /\ handle' = 0
    /\ sock' = [s \in Sockets |->
                  IF s = current /\ sock[s] \in {"connecting", "open"}
                  THEN "closing" ELSE sock[s]]
    /\ current' = 0
    /\ UNCHANGED <<listeners, shown, uses, overlap, up, down, busVars>>

\* this.send: only this.socket, and only when it is open.
Send(action, t) ==
    IF current # 0 /\ sock[current] = "open"
    THEN up' = [up EXCEPT ![current] = Append(@, [action |-> action, topic |-> t])]
    ELSE up' = up

\* useTopic mounts: the first listener of a topic subscribes.
subscribe(t) ==
    /\ uses < MaxUses
    /\ uses' = uses + 1
    /\ listeners' = [listeners EXCEPT ![t] = @ + 1]
    /\ IF listeners[t] = 0 THEN Send("subscribe", t) ELSE up' = up
    /\ UNCHANGED <<running, current, timers, handle, shown, stops, overlap, sock,
                   down, busVars>>

\* The clean-up that subscribe returned: the last listener unsubscribes, and
\* its component's state is gone.
unsubscribe(t) ==
    /\ listeners[t] > 0
    /\ listeners' = [listeners EXCEPT ![t] = @ - 1]
    /\ IF listeners[t] = 1
       THEN Send("unsubscribe", t) /\ shown' = [shown EXCEPT ![t] = 0]
       ELSE UNCHANGED <<up, shown>>
    /\ UNCHANGED <<running, current, timers, handle, uses, stops, overlap, sock,
                   down, busVars>>

\* Fault: a new socket does not repeat the subscriptions.
Wanted_none == {}
\* this.listeners.keys()
Wanted == {t \in Topics : listeners[t] > 0}
Subscriptions == SetToSeq({[action |-> "subscribe", topic |-> t] : t \in Wanted})

\* The server accepts the session's cookie; the "open" event subscribes
\* every topic, on this.socket, if that one is open.
Open(s) ==
    /\ sock[s] = "connecting"
    /\ sock' = [sock EXCEPT ![s] = "open"]
    /\ up' = IF current # 0 /\ sock'[current] = "open"
             THEN [up EXCEPT ![current] = @ \o Subscriptions]
             ELSE up
    /\ UNCHANGED <<hubVars, down, busVars>>

\* The server closes with 4401, is not there, or goes away.
Fail(s) ==
    /\ sock[s] \in {"connecting", "open"}
    /\ sock' = [sock EXCEPT ![s] = "lost"]
    /\ up' = [up EXCEPT ![s] = <<>>]
    /\ down' = [down EXCEPT ![s] = <<>>]
    /\ queue' = [queue EXCEPT ![s] = NoQueues]
    /\ UNCHANGED <<hubVars, last, sent>>

\* The "close" event.
Closed(s) ==
    /\ sock[s] \in {"closing", "lost"}
    /\ sock' = [sock EXCEPT ![s] = "closed"]
    /\ current' = IF current = s THEN 0 ELSE current
    /\ IF running THEN timers' = timers \cup {s} /\ handle' = s
                  ELSE UNCHANGED <<timers, handle>>
    /\ UNCHANGED <<running, listeners, shown, uses, stops, overlap, up, down,
                   busVars>>

\* Two seconds later.
TimerFires(s) ==
    /\ s \in timers
    /\ timers' = timers \ {s}
    /\ connect
    /\ UNCHANGED <<running, handle, listeners, shown, uses, stops, overlap, up,
                   down, busVars>>

\* The "message" event: an open socket hands the payload to the listeners.
Message(s) ==
    /\ sock[s] = "open" /\ down[s] # <<>>
    /\ LET f == Head(down[s]) IN
         shown' = IF listeners[f.topic] > 0 THEN [shown EXCEPT ![f.topic] = f.data]
                                            ELSE shown
    /\ down' = [down EXCEPT ![s] = Tail(@)]
    /\ UNCHANGED <<running, current, timers, handle, listeners, uses, stops,
                   overlap, sock, up, busVars>>

-----------------------------------------------------------------------------
(* ws_endpoint and EventBus.                                                *)

\* The next message of the browser; one about a topic that is or is not
\* subscribed already changes nothing.
Receive(s) ==
    /\ sock[s] \in {"open", "closing", "closed"} /\ up[s] # <<>>
    /\ LET t == Head(up[s]).topic
           wants == Head(up[s]).action = "subscribe"
       IN /\ queue' = IF wants # Subscribed(s, t)
                      THEN [queue EXCEPT ![s][t] = IF wants THEN <<>> ELSE NoQueue]
                      ELSE queue
          /\ sent' = IF wants /\ ~Subscribed(s, t)
                     THEN [sent EXCEPT ![s][t] = last[t]] ELSE sent
    /\ up' = [up EXCEPT ![s] = Tail(@)]
    /\ UNCHANGED <<hubVars, sock, down, last>>

\* WebSocketDisconnect: every forwarder is cancelled.
Disconnect(s) ==
    /\ sock[s] \in {"closing", "closed"} /\ up[s] = <<>>
    /\ queue[s] # NoQueues
    /\ queue' = [queue EXCEPT ![s] = NoQueues]
    /\ UNCHANGED <<hubVars, sock, up, down, last, sent>>

\* Fault: a full queue takes nothing.
Put_dropNewest(q, e) == IF Len(q) < QueueMax THEN Append(q, e) ELSE q
\* put_nowait, and on QueueFull get_nowait and put_nowait again.
Put(q, e) == Append(IF Len(q) < QueueMax THEN q ELSE Tail(q), e)

\* EventBus.publish.
publish(t) ==
    /\ last[t] < MaxEvents
    /\ last' = [last EXCEPT ![t] = @ + 1]
    /\ queue' = [s \in Sockets |->
                   [queue[s] EXCEPT ![t] = IF Subscribed(s, t)
                                           THEN Put(@, last[t] + 1) ELSE @]]
    /\ UNCHANGED <<hubVars, sock, up, down, sent>>

\* The sampler's loop publishes once a second, for as long as the server
\* runs; the agent's events come in the same way.
Publisher == \E t \in Topics : publish(t)

\* Fault: the forwarder takes the newest item first.
Taken_newest(q) == [item |-> q[Len(q)], rest |-> SubSeq(q, 1, Len(q) - 1)]
\* queue.get()
Taken(q) == [item |-> Head(q), rest |-> Tail(q)]

\* forward: send_json waits while the socket is full.
Forward(s, t) ==
    /\ Subscribed(s, t) /\ queue[s][t] # <<>>
    /\ Len(down[s]) < InFlight
    /\ LET e == Taken(queue[s][t]).item IN
         /\ down' = [down EXCEPT ![s] = Append(@, [topic |-> t, data |-> e])]
         /\ sent' = [sent EXCEPT ![s][t] = e]
    /\ queue' = [queue EXCEPT ![s][t] = Taken(@).rest]
    /\ UNCHANGED <<hubVars, sock, up, last>>

ServerStep(s) ==
    Receive(s) \/ Disconnect(s) \/ \E t \in Topics : Forward(s, t)

Next ==
    \/ start \/ stop
    \/ \E t \in Topics : subscribe(t) \/ unsubscribe(t)
    \/ Publisher
    \/ \E s \in Sockets : Open(s) \/ Fail(s) \/ Closed(s) \/ TimerFires(s)
                          \/ Message(s) \/ ServerStep(s)

Spec == Init /\ [][Next]_vars

\* The server's event loop and the browser's keep running what is ready.
FairSpec ==
    /\ Spec
    /\ \A s \in Sockets : WF_vars(ServerStep(s)) /\ WF_vars(Message(s))

-----------------------------------------------------------------------------
(* Properties.                                                              *)

Messages == [action : {"subscribe", "unsubscribe"}, topic : Topics]
Updates == [topic : Topics, data : 0..MaxEvents]

\* The variables have their types, and no queue is longer than its bound.
TypeOK ==
    /\ running \in BOOLEAN /\ current \in {0} \cup Sockets /\ handle \in {0} \cup Sockets
    /\ sock \in [Sockets -> {"none", "connecting", "open", "closing", "lost", "closed"}]
    /\ timers \subseteq Sockets /\ overlap \in BOOLEAN
    /\ uses \in 0..MaxUses /\ stops \in 0..MaxStops
    /\ up \in [Sockets -> Seq(Messages)] /\ down \in [Sockets -> Seq(Updates)]
    /\ queue \in [Sockets -> [Topics -> Seq(0..MaxEvents)]]
    /\ listeners \in [Topics -> 0..MaxUses] /\ shown \in [Topics -> 0..MaxEvents]
    /\ \A s \in Sockets, t \in Topics : Len(queue[s][t]) <= QueueMax
    /\ last \in [Topics -> 0..MaxEvents]
    /\ sent \in [Sockets -> [Topics -> 0..MaxEvents]]

Live == {s \in Sockets : sock[s] \in {"connecting", "open"}}

\* "One shared WebSocket connection for the whole app": whatever drops,
\* reconnects, logouts and logins there are, except that start() comes before
\* the close event of the socket before stop(), which makes a second one.
OneSocket == ~overlap => Cardinality(Live) <= 1

\* When the open socket has nothing under way, the server forwards exactly
\* the topics that have listeners: no subscription is lost on a reconnect or
\* left behind by a component that is gone.
SubscriptionsAgree ==
    current # 0 /\ sock[current] = "open" /\ up[current] = <<>> =>
        {t \in Topics : Subscribed(current, t)} = Wanted

\* What a component shows is never replaced by something older.
NeverGoesBack ==
    [][\A t \in Topics : ~overlap' /\ listeners'[t] > 0 => shown'[t] >= shown[t]]_vars

\* The last event there is reaches the components, however many came before
\* it, unless the socket goes or the topic is left.
NewestIsShown ==
    \A s \in Sockets, t \in Topics :
        (Subscribed(s, t) /\ sent[s][t] < MaxEvents /\ last[t] = MaxEvents)
            ~> (shown[t] = MaxEvents \/ sock[s] # "open" \/ listeners[t] = 0 \/ ~Subscribed(s, t))
==============================================================================
