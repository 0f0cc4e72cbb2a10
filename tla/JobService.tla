----------------------------- MODULE JobService -----------------------------
(***************************************************************************)
(* What agent/jobs.py promises to the handlers that submit jobs, with no   *)
(* semaphore, no locks, no cancellation and no event feed: a job that is   *)
(* accepted starts only when every job submitted earlier for the same      *)
(* resource has ended, and it ends exactly once.  A restart of the process *)
(* forgets every job.  JobRunner implements this module.                   *)
(***************************************************************************)
EXTENDS Naturals, Sequences

CONSTANTS Jobs,        \* job ids (uuid4().hex)
          Resources,   \* lockable resources ("storage", "share:<path>")
          NoResource   \* resource=None: the job needs no lock

VARIABLES jobs,        \* the accepted jobs, in the order they were accepted
          phase,       \* phase[j]: where the job is in its life
          res          \* res[j]: the resource job j works on

vars == <<jobs, phase, res>>

Phases == {"new", "waiting", "active", "ended", "lost"}

Init ==
    /\ jobs = <<>>
    /\ phase = [j \in Jobs |-> "new"]
    /\ res = [j \in Jobs |-> NoResource]

Accept(j, r) ==
    /\ phase[j] = "new"
    /\ jobs' = Append(jobs, j)
    /\ phase' = [phase EXCEPT ![j] = "waiting"]
    /\ res' = [res EXCEPT ![j] = r]

\* The job at position n may start: nothing accepted before it on the same
\* resource is still waiting or active.
MayStart(n) ==
    \A m \in 1..(n-1) :
        res[jobs[n]] # NoResource /\ res[jobs[m]] = res[jobs[n]]
            => phase[jobs[m]] = "ended"

Start(n) ==
    /\ phase[jobs[n]] = "waiting"
    /\ MayStart(n)
    /\ phase' = [phase EXCEPT ![jobs[n]] = "active"]
    /\ UNCHANGED <<jobs, res>>

End(j) ==
    /\ phase[j] = "active"
    /\ phase' = [phase EXCEPT ![j] = "ended"]
    /\ UNCHANGED <<jobs, res>>

Forget ==
    /\ jobs' = <<>>
    /\ phase' = [j \in Jobs |-> IF phase[j] = "new" THEN "new" ELSE "lost"]
    /\ UNCHANGED res

Next ==
    \/ \E j \in Jobs, r \in Resources \cup {NoResource} : Accept(j, r)
    \/ \E n \in 1..Len(jobs) : Start(n)
    \/ \E j \in Jobs : End(j)
    \/ Forget

Spec == Init /\ [][Next]_vars
=============================================================================
