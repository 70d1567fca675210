----------------------------- MODULE JobRunner -----------------------------
(***************************************************************************)
(* What the scheduler promises about background jobs, whatever they do: a  *)
(* cron tick starts a job only when no cron run of it is in flight, a      *)
(* request may start one at any time, and every run ends, unless the       *)
(* process dies and takes all of them with it.                             *)
(***************************************************************************)
CONSTANTS Job, Worker, Origin, None

VARIABLE active   \* the job and origin each worker runs, or None

Init == active = [w \in Worker |-> None]

Runs == {active[w] : w \in Worker}

Start(w, job, origin) ==
    /\ active[w] = None
    /\ origin = "cron" => <<job, "cron">> \notin Runs
    /\ active' = [active EXCEPT ![w] = <<job, origin>>]

Finish(w) ==
    /\ active[w] # None
    /\ active' = [active EXCEPT ![w] = None]

Crash == active' = [w \in Worker |-> None]

Next ==
    \/ \E w \in Worker : Finish(w) \/ \E j \in Job, t \in Origin : Start(w, j, t)
    \/ Crash

Safety == Init /\ [][Next]_active

Spec == /\ Safety
        /\ \A w \in Worker : WF_active(Finish(w))
=============================================================================
