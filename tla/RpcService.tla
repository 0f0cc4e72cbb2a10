----------------------------- MODULE RpcService ------------------------------
(***************************************************************************)
(* What rpc/transport.py promises to the services that call the agent,     *)
(* with no sockets, no pending table and no read loop: an operation is     *)
(* done at most once, an answer is the answer to this very call, and a     *)
(* caller that is told the connection was lost knows nothing: the agent    *)
(* may have done the work, may still do it, or never will.  Rpc            *)
(* implements this module.                                                 *)
(***************************************************************************)
EXTENDS Naturals

CONSTANT Calls      \* request ids (uuid4().hex)

VARIABLES outcome,  \* outcome[c]: what the caller of c has been told
          done      \* done[c]: how often the agent did what c asks for

vars == <<outcome, done>>

Init ==
    /\ outcome = [c \in Calls |-> "idle"]
    /\ done = [c \in Calls |-> 0]

Issue(c) ==
    /\ outcome[c] = "idle"
    /\ outcome' = [outcome EXCEPT ![c] = "open"]
    /\ UNCHANGED done

\* The caller need not be waiting any more.
Do(c) ==
    /\ outcome[c] # "idle" /\ done[c] = 0
    /\ done' = [done EXCEPT ![c] = 1]
    /\ UNCHANGED outcome

\* ok means done; an error says nothing about how far the handler got.
Answer(c, o) ==
    /\ outcome[c] = "open"
    /\ o = "ok" => done[c] = 1
    /\ outcome' = [outcome EXCEPT ![c] = o]
    /\ UNCHANGED done

Next ==
    \E c \in Calls :
        \/ Issue(c) \/ Do(c)
        \/ \E o \in {"ok", "error", "lost"} : Answer(c, o)

Spec == Init /\ [][Next]_vars
==============================================================================
