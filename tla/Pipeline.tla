------------------------------ MODULE Pipeline ------------------------------
(***************************************************************************)
(* The way of a crash report from POST /ingest to the incident memory that *)
(* later triage reads: the ingest path (Admission), the workers that run   *)
(* the repair of several incidents at once, the tables error_logs and      *)
(* harness_results they share (persistence.py, logs_db/server.py,          *)
(* infra/db/init.sql: hypertables, without foreign keys), and the script   *)
(* that seeds them (scripts/seed_incidents.py). What a worker's run leaves *)
(* in the tables and on GitHub is Repair. A request stands for the log_id  *)
(* of its incident.                                                        *)
(***************************************************************************)
EXTENDS Integers

CONSTANTS
    Requests, Keys, KeyOf, None, MaxActive, Faults, MaxFaults, \* see Admission
    Seeds,       \* the incidents of the seed script
    MaxAttempts  \* see Repair

VARIABLES
    pc, reply, ids, active, dedup, task, faults, \* see Admission
    error_logs,      \* each incident's row: absent, open or resolved
    harness_results, \* the rows of the table
    pulls, node, run, tries, late \* see Repair

ingest == <<pc, reply, ids, active, dedup, task, faults>>
tables == <<error_logs, harness_results>>
worker == <<node, run, tries, late>>
vars   == <<ingest, tables, pulls, worker>>

Ingest == INSTANCE Admission
Runs   == INSTANCE Repair

Ids == Requests \cup Seeds

ASSUME PipelineAssumption ==
    /\ KeyOf \in [Requests -> Keys]
    /\ None \notin Requests /\ None \notin Ingest!Entries
    /\ Seeds \cap Requests = {}
    /\ MaxAttempts \in Nat \ {0}

Init ==
    /\ Ingest!Init
    /\ error_logs = [i \in Ids |-> "absent"]
    /\ harness_results = {}
    /\ pulls = [r \in Requests |-> 0]
    /\ node = [r \in Requests |-> "idle"]
    /\ run = [r \in Requests |-> 0]
    /\ tries = [r \in Requests |-> 0]
    /\ late = {}

(***************************************************************************)
(* The API                                                                 *)
(***************************************************************************)
\* Seeded defect: the log is stored once its pipeline is in the queue.
InsertLog_AfterDelay(r) ==
    error_logs' = IF pc[r] = "set_incident_value"
                  THEN [error_logs EXCEPT ![r] = "open"] ELSE error_logs

\* embed_and_store inserts the log; it may raise after it did.
InsertLog(r) ==
    LET inserted == [error_logs EXCEPT ![r] = "open"]
    IN  error_logs' \in IF pc[r] # "embed_and_store" THEN {error_logs}
                        ELSE IF pc'[r] = "delay" THEN {inserted}
                        ELSE {inserted, error_logs}

Handle(r) ==
    /\ Ingest!Handler(r)
    /\ InsertLog(r)
    /\ UNCHANGED <<harness_results, pulls, worker>>

ApiDies(r) ==
    /\ Ingest!ApiDies(r)
    /\ UNCHANGED <<tables, pulls, worker>>

(***************************************************************************)
(* The worker: what Celery and the slot of the incident do, and the run    *)
(***************************************************************************)
Start(r)      == Ingest!StartTask(r) /\ Runs!Start(r)
Proceed(r)    == Runs!Proceed(r) /\ UNCHANGED ingest
End(r)        == Ingest!EndRun(r) /\ Runs!End(r)
Ack(r)        == Ingest!AckTask(r) /\ Runs!Ack(r)
WorkerDies(r) == Ingest!WorkerDies(r) /\ Runs!WorkerDies(r)

(***************************************************************************)
(* seed_incidents.py: two inserts for each seed, one after the other       *)
(***************************************************************************)
Seeded(s) == \E row \in harness_results : row.log_id = s

SeedLog(s) ==
    /\ error_logs[s] = "absent"
    /\ \A t \in Seeds : error_logs[t] # "absent" => Seeded(t)
    /\ error_logs' = [error_logs EXCEPT ![s] = "resolved"]
    /\ UNCHANGED <<ingest, harness_results, pulls, worker>>

SeedResult(s) ==
    /\ error_logs[s] = "resolved"
    /\ ~Seeded(s)
    /\ harness_results' = harness_results \cup
           {[log_id |-> s, run |-> 0, attempt |-> 1,
             passed |-> TRUE, covered |-> TRUE, pr_url |-> TRUE]}
    /\ UNCHANGED <<ingest, error_logs, pulls, worker>>

Work(r) == Start(r) \/ Proceed(r) \/ End(r) \/ Ack(r)

\* Within one dedup window: no key expires.
Next ==
    \/ \E r \in Requests : Handle(r) \/ ApiDies(r) \/ Work(r) \/ WorkerDies(r)
    \/ \E s \in Seeds : SeedLog(s) \/ SeedResult(s)

Spec == Init /\ [][Next]_vars

\* Handlers and workers go on; the seed script need not.
FairSpec == Spec /\ \A r \in Requests : WF_vars(Handle(r)) /\ WF_vars(Work(r))

-----------------------------------------------------------------------------
(***************************************************************************)
(* The queries of logs_db/server.py. The index is approximate and the      *)
(* limit is small: a search returns some of the rows it ranges over.       *)
(***************************************************************************)
semantic_search_logs == {i \in Ids : error_logs[i] # "absent"}

get_similar_resolutions ==
    {row \in harness_results : row.passed /\ error_logs[row.log_id] = "resolved"}

(***************************************************************************)
(* Properties                                                              *)
(***************************************************************************)
\* Redelivery and deduplication together: one crash, reported any number of
\* times within its window and run again after every death of a worker, gets
\* at most one pull request.
OnePullPerCrash ==
    \A r, q \in Requests :
        pulls[r] > 0 /\ pulls[q] > 0 /\ KeyOf[r] = KeyOf[q] => r = q /\ pulls[r] = 1

\* No foreign key says so, but every row of harness_results, every pull
\* request and every incident that a duplicate is referred to is of a stored
\* log, whichever of the API's calls fail and whoever dies.
ReferencesHold ==
    \A i \in {row.log_id : row \in harness_results}
             \cup {r \in Requests : pulls[r] > 0}
             \cup ({ids[r] : r \in Requests} \ {None}) :
        i \in semantic_search_logs

\* Whatever an incident that was repaired here went through, the memory has
\* it: once it is marked resolved, there is a resolution for it to be found.
ResolvedIsRemembered ==
    \A r \in Requests :
        error_logs[r] = "resolved" => \E row \in get_similar_resolutions : row.log_id = r

\* The incident that the answer to a report names.
Named(r) == IF reply[r] = "queued" THEN r ELSE ids[r]

\* Every report that was accepted, as a new crash or as the duplicate of one,
\* has its pipeline run to its end or lost with a pool process.
EveryReportIsSettled ==
    \A r \in Requests :
        Named(r) # None ~> \E q \in Requests : q = Named(r) /\ task[q] \in {"done", "lost"}

-----------------------------------------------------------------------------
(***************************************************************************)
(* What the repository says and the code does not do                       *)
(***************************************************************************)
\* logs_db/server.py, get_similar_resolutions: the past incidents come with
\* the PRs that fixed them.
ResolutionsNameTheirPR == \A row \in get_similar_resolutions : row.pr_url
=============================================================================
