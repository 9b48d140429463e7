------------------------------- MODULE Repair -------------------------------
(***************************************************************************)
(* What the workers' repairs of incidents leave in the tables and on       *)
(* GitHub, without how they come by it: an attempt is one step, and so is  *)
(* the pull request. Pipeline is composed of it; SelfHealLoop, which has   *)
(* one incident's repair in full, implements it.                           *)
(***************************************************************************)
EXTENDS Integers

CONSTANTS
    Requests,    \* the incidents, by the request they came with
    MaxAttempts  \* attempts of one run

VARIABLES
    task,            \* each incident's task in broker and worker
    error_logs,      \* each incident's row: absent, open or resolved
    harness_results, \* the rows of the table
    pulls,           \* how many pull requests each incident got
    node,            \* where its run is
    run,             \* how many runs it had
    tries,           \* attempts of the present run, while it makes any
    late             \* the runs that gave up a create_pull_request still at work

tables == <<error_logs, harness_results>>
worker == <<node, run, tries, late>>
vars   == <<task, tables, pulls, worker>>

\* Incidents that are stored and in the queue.
Init ==
    /\ task = [r \in Requests |-> "queued"]
    /\ error_logs = [r \in Requests |-> "open"]
    /\ harness_results = {}
    /\ pulls = [r \in Requests |-> 0]
    /\ node = [r \in Requests |-> "idle"]
    /\ run = [r \in Requests |-> 0]
    /\ tries = [r \in Requests |-> 0]
    /\ late = {}

Goto(r, label, n) ==
    /\ node' = [node EXCEPT ![r] = label]
    /\ tries' = [tries EXCEPT ![r] = n]

(***************************************************************************)
(* The effects of the nodes                                                *)
(***************************************************************************)
\* A row is stored without a pr_url.
Row(r, passed, covered) ==
    [log_id |-> r, run |-> run[r], attempt |-> tries[r],
     passed |-> passed, covered |-> covered, pr_url |-> FALSE]

StoreRow(r, passed, covered) ==
    /\ harness_results' = harness_results \cup {Row(r, passed, covered)}
    /\ UNCHANGED <<error_logs, pulls>>

\* One pull request for the branch of the log_id, whichever run opens it.
OpenPull(r) ==
    /\ pulls' = IF pulls[r] = 0 THEN [pulls EXCEPT ![r] = 1] ELSE pulls
    /\ UNCHANGED tables

\* An UPDATE of a row that is not there changes nothing.
Resolve(r) ==
    /\ error_logs' = IF error_logs[r] = "absent" THEN error_logs
                     ELSE [error_logs EXCEPT ![r] = "resolved"]
    /\ UNCHANGED <<harness_results, pulls>>

(***************************************************************************)
(* The runs                                                                *)
(***************************************************************************)
Start(r) ==
    /\ task[r] = "queued"
    /\ task' = [task EXCEPT ![r] = "running"]
    /\ run' = [run EXCEPT ![r] = @ + 1]
    /\ Goto(r, "attempt", 0)
    /\ UNCHANGED <<tables, pulls, late>>

AfterAttempt(r, good) ==
    IF good THEN Goto(r, "create_pull_request", 0)
    ELSE IF tries[r] + 1 < MaxAttempts THEN Goto(r, "attempt", tries[r] + 1)
    ELSE Goto(r, "end", 0)

\* Seeded defect: only failures are stored.
Attempt_StoresFailures(r, passed, covered) ==
    /\ node[r] = "attempt"
    /\ IF passed THEN UNCHANGED <<tables, pulls>> ELSE StoreRow(r, passed, covered)
    /\ AfterAttempt(r, passed /\ covered)
    /\ UNCHANGED <<task, run, late>>

\* A patch, its verdict and the verdict's row; then the router. The coverage
\* of tests that fail is not told apart.
Attempt(r, passed, covered) ==
    /\ node[r] = "attempt"
    /\ StoreRow(r, passed, covered)
    /\ AfterAttempt(r, passed /\ covered)
    /\ UNCHANGED <<task, run, late>>

\* Seeded defect: each run opens one.
CreatePullRequest_Always(r) ==
    /\ node[r] = "create_pull_request"
    /\ pulls' = [pulls EXCEPT ![r] = @ + 1]
    /\ Goto(r, "mark_resolved", 0)
    /\ UNCHANGED <<task, tables, run, late>>

CreatePullRequest(r) ==
    /\ node[r] = "create_pull_request"
    /\ OpenPull(r)
    /\ Goto(r, "mark_resolved", 0)
    /\ UNCHANGED <<task, run, late>>

MarkResolved(r) ==
    /\ node[r] = "mark_resolved"
    /\ Resolve(r)
    /\ Goto(r, "end", 0)
    /\ UNCHANGED <<task, run, late>>

\* Seeded defect: an exception ends the run without run_graph's finally block.
Raise_NotCaught(r) ==
    /\ node[r] \in {"attempt", "create_pull_request", "mark_resolved"}
    /\ Goto(r, "idle", 0)
    /\ UNCHANGED <<task, tables, pulls, run, late>>

\* run_graph turns the exception of any node into a counted failure. What the
\* node was about to do may be done all the same: its answer was lost, or the
\* thread of a call that was given up goes on.
Raise(r) ==
    /\ \/ /\ node[r] \in {"attempt", "create_pull_request", "mark_resolved"}
          /\ UNCHANGED <<tables, pulls, late>>
       \/ /\ node[r] = "attempt"
          /\ \E passed, covered \in BOOLEAN :
                (covered => passed) /\ StoreRow(r, passed, covered)
          /\ UNCHANGED late
       \/ node[r] = "create_pull_request" /\ OpenPull(r) /\ UNCHANGED late
       \/ node[r] = "create_pull_request" /\ late' = late \cup {r}
                                          /\ UNCHANGED <<tables, pulls>>
       \/ node[r] = "mark_resolved" /\ Resolve(r) /\ UNCHANGED late
    /\ Goto(r, "end", 0)
    /\ UNCHANGED <<task, run>>

\* The thread of a call that was given up ends, with or without its effect.
LateCall(r) ==
    /\ r \in late
    /\ late' = late \ {r}
    /\ OpenPull(r) \/ UNCHANGED <<tables, pulls>>
    /\ UNCHANGED <<task, node, run, tries>>

End(r) ==
    /\ node[r] = "end"
    /\ task[r] = "running"
    /\ task' = [task EXCEPT ![r] = "released"]
    /\ Goto(r, "idle", 0)
    /\ UNCHANGED <<tables, pulls, run, late>>

\* asyncio.run joins the executor's threads before the task returns.
Ack(r) ==
    /\ task[r] = "released"
    /\ r \notin late
    /\ task' = [task EXCEPT ![r] = "done"]
    /\ UNCHANGED <<tables, pulls, worker>>

\* The whole worker dies, and the broker redelivers, or only the pool process,
\* and the task is lost; its threads die with it.
WorkerDies(r) ==
    /\ task[r] \in {"running", "released"}
    /\ \E outcome \in {"queued", "lost"} : task' = [task EXCEPT ![r] = outcome]
    /\ late' = late \ {r}
    /\ Goto(r, "idle", 0)
    /\ UNCHANGED <<tables, pulls, run>>

\* What a run does between its start and its end.
Proceed(r) ==
    \/ \E passed, covered \in BOOLEAN : (covered => passed) /\ Attempt(r, passed, covered)
    \/ CreatePullRequest(r) \/ MarkResolved(r) \/ Raise(r) \/ LateCall(r)

Next ==
    \E r \in Requests : Start(r) \/ Proceed(r) \/ End(r) \/ Ack(r) \/ WorkerDies(r)

Spec == Init /\ [][Next]_vars
=============================================================================
