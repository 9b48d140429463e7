---------------------------- MODULE SelfHealLoop ----------------------------
(***************************************************************************)
(* One incident in the worker: the LangGraph loop triage -> dev -> qa ->   *)
(* (pr | dev | END) of agents/graph.py and agents/nodes.py, run by the     *)
(* Celery task of api/tasks.py, checkpointed to Postgres under the         *)
(* incident's log_id, writing harness_results and error_logs rows and, at  *)
(* the end, a branch and a pull request on GitHub.                         *)
(*                                                                         *)
(* The environment may fail any step with an exception, time out a GitHub  *)
(* call whose thread keeps running (asyncio.to_thread cannot be            *)
(* cancelled), kill the worker (the broker redelivers: task_acks_late) or  *)
(* only the pool process that runs the task (the main process acks it).    *)
(***************************************************************************)
EXTENDS Integers, FiniteSets

CONSTANTS
    LogId,          \* the incident's log_id
    Patches,        \* the patches the LLM may propose for this incident
    None,           \* nothing there: no patch, no verdict, no branch, ...
    Base,           \* a branch that still has the default branch's content
    MaxRetries,     \* settings.max_retries
    MaxDeliveries,  \* bound: deliveries of the task message
    HumanMayClose   \* whether a human may merge or close the open PR

\* The attempts a delivery can make: the first one is never refused.
MaxAttempts == IF MaxRetries = 0 THEN 1 ELSE MaxRetries

Verdicts == [passed : BOOLEAN, covered : BOOLEAN]

\* HarnessResult, cut down to what the router, the prompt and the PR read.
HarnessResults ==
    [patch : Patches, passed : BOOLEAN, covered : BOOLEAN,
     retry_attempt : 0..(MaxAttempts - 1)]

\* A row of the table harness_results; delivery names the run that wrote it.
Rows ==
    [delivery : 1..MaxDeliveries, attempt : 0..(MaxAttempts - 1),
     patch : Patches, passed : BOOLEAN, covered : BOOLEAN]

\* AgentState, cut down likewise. A channel holds its last value until a
\* node or the input of a later run writes it.
AgentStates ==
    [root_cause : BOOLEAN, patch : Patches \cup {None},
     harness_result : HarnessResults \cup {None},
     retry_count : 0..MaxAttempts, pr_url : BOOLEAN]

GithubOps == {"create_branch", "put_file", "create_pull_request"}

ASSUME SelfHealLoopAssumption ==
    /\ MaxRetries \in Nat
    /\ MaxDeliveries \in Nat \ {0}
    /\ HumanMayClose \in BOOLEAN
    /\ None \notin Patches
    /\ None \notin HarnessResults \cup Verdicts
    /\ Base \notin Patches \cup {None}

VARIABLES
    phase,       \* where the task is: queued, a node or a step of one, ...
    deliveries,  \* how often the broker handed the task to a worker
    state,       \* the graph's live state, in the worker's memory
    saved,       \* the checkpoint of it in Postgres
    verdict,     \* qa_node's pytest_result
    error,       \* str(exc) of the exception that ended ainvoke
    counted,     \* reasons PIPELINE_FAILURES was incremented with, this run
    rows,        \* harness_results
    resolved,    \* error_logs.resolved
    branch,      \* prodrescue/<log_id> on GitHub
    openPR,      \* the patch the open PR's body reports on
    opened,      \* how many PRs were ever opened
    thread       \* an abandoned GitHub call that still runs

run    == <<phase, deliveries, verdict, error, counted>>
stored == <<saved, rows, resolved>>
github == <<branch, openPR, opened>>
vars   == <<phase, deliveries, state, saved, verdict, error, counted,
            rows, resolved, branch, openPR, opened, thread>>

PrPhases   == {"create_branch", "put_file", "create_pull_request"}
NodePhases == {"triage", "dev", "qa", "store_harness_result", "return_verdict",
               "mark_resolved"} \cup PrPhases
Running    == NodePhases \cup {"finish", "returned", "raised"}
Phases     == Running \cup {"queued", "acked", "failed", "lost"}

Good(result) == result # None /\ result.passed /\ result.covered

Init ==
    /\ phase = "queued"
    /\ deliveries = 0
    /\ state = [root_cause |-> FALSE, patch |-> None, harness_result |-> None,
                retry_count |-> 0, pr_url |-> FALSE]
    /\ saved = state
    /\ verdict = None
    /\ error = "none"
    /\ counted = {}
    /\ rows = {}
    /\ resolved = FALSE
    /\ branch = None
    /\ openPR = None
    /\ opened = 0
    /\ thread = None

(***************************************************************************)
(* The run: Celery delivers the task, run_graph invokes the graph with a   *)
(* fresh input on the incident's thread_id. Input on a thread that already *)
(* has a checkpoint starts again at the entry point; it overwrites the     *)
(* input's own channels and leaves every other channel as checkpointed.    *)
(***************************************************************************)
\* Seeded defect: the input does not reset the retry counter.
WithInput_KeepsRetryCount(checkpoint) == checkpoint

WithInput(checkpoint) == [checkpoint EXCEPT !.retry_count = 0]

Deliver ==
    /\ phase = "queued"
    /\ phase' = "triage"
    /\ deliveries' = deliveries + 1
    /\ state' = WithInput(saved)
    /\ verdict' = None
    /\ error' = "none"
    /\ counted' = {}
    /\ UNCHANGED <<stored, github, thread>>

\* The saver writes in the background while the next node already runs.
Checkpoint ==
    /\ phase \in Running
    /\ saved # state
    /\ saved' = state
    /\ UNCHANGED <<run, state, rows, resolved, github, thread>>

Triage ==
    /\ phase = "triage"
    /\ phase' = "dev"
    /\ state' = [state EXCEPT !.root_cause = TRUE]
    /\ UNCHANGED <<deliveries, verdict, error, counted, stored, github, thread>>

Dev(p) ==
    /\ phase = "dev"
    /\ phase' = "qa"
    /\ state' = [state EXCEPT !.patch = p]
    /\ UNCHANGED <<deliveries, verdict, error, counted, stored, github, thread>>

\* The scope guard or the harness gives a verdict; a timeout or an error of
\* the harness is a failed one.
Qa(v) ==
    /\ phase = "qa"
    /\ phase' = "store_harness_result"
    /\ verdict' = v
    /\ UNCHANGED <<deliveries, state, error, counted, stored, github, thread>>

HarnessRow ==
    [delivery |-> deliveries, attempt |-> state.retry_count,
     patch |-> state.patch, passed |-> verdict.passed, covered |-> verdict.covered]

StoreHarnessResult ==
    /\ phase = "store_harness_result"
    /\ phase' = "return_verdict"
    /\ rows' = rows \cup {HarnessRow}
    /\ UNCHANGED <<deliveries, state, saved, verdict, error, counted, resolved,
                   github, thread>>

\* Seeded defects of the router: the coverage is not looked at; one attempt
\* too many; one too few.
route_after_qa_IgnoresCoverage(s) ==
    IF s.harness_result.passed THEN "create_branch"
    ELSE IF s.retry_count < MaxRetries THEN "dev"
    ELSE "finish"

route_after_qa_OneMore(s) ==
    IF Good(s.harness_result) THEN "create_branch"
    ELSE IF s.retry_count <= MaxRetries THEN "dev"
    ELSE "finish"

route_after_qa_OneLess(s) ==
    IF Good(s.harness_result) THEN "create_branch"
    ELSE IF s.retry_count < MaxRetries - 1 THEN "dev"
    ELSE "finish"

route_after_qa(s) ==
    IF Good(s.harness_result) THEN "create_branch"
    ELSE IF s.retry_count < MaxRetries THEN "dev"
    ELSE "finish"

\* Seeded defects of qa_node's return: an earlier verdict is kept; the retry
\* is not counted.
QaOutput_KeepsVerdict ==
    [state EXCEPT
        !.harness_result =
            IF @ # None THEN @
            ELSE [patch |-> state.patch, passed |-> verdict.passed,
                  covered |-> verdict.covered, retry_attempt |-> state.retry_count],
        !.retry_count = @ + 1]

QaOutput_NotCounted ==
    [state EXCEPT
        !.harness_result = [patch |-> state.patch, passed |-> verdict.passed,
                            covered |-> verdict.covered,
                            retry_attempt |-> state.retry_count]]

QaOutput ==
    [state EXCEPT
        !.harness_result = [patch |-> state.patch, passed |-> verdict.passed,
                            covered |-> verdict.covered,
                            retry_attempt |-> state.retry_count],
        !.retry_count = @ + 1]

ReturnVerdict ==
    /\ phase = "return_verdict"
    /\ state' = QaOutput
    /\ phase' = route_after_qa(QaOutput)
    /\ UNCHANGED <<deliveries, verdict, error, counted, stored, github, thread>>

(***************************************************************************)
(* GitHub. Each tool's effect, shared by the awaited call and by the       *)
(* thread of a call whose await timed out.                                 *)
(***************************************************************************)
\* create_git_ref, whose failure is swallowed: an existing branch is reused,
\* and a branch that could not be created is found missing only later.
create_branch ==
    /\ branch' \in IF branch = None THEN {None, Base} ELSE {branch}
    /\ UNCHANGED <<openPR, opened>>

put_file(p) ==
    /\ branch # None
    /\ branch' = p
    /\ UNCHANGED <<openPR, opened>>

\* Seeded defect: open PRs are not looked for.
create_pull_request_Always(p) ==
    /\ branch # None
    /\ openPR' = p
    /\ opened' = opened + 1
    /\ UNCHANGED branch

\* An open PR of the same head is reused as it is, body included.
create_pull_request(p) ==
    /\ branch # None
    /\ openPR' = IF openPR = None THEN p ELSE openPR
    /\ opened' = IF openPR = None THEN opened + 1 ELSE opened
    /\ UNCHANGED branch

GithubEffect(op, p) ==
    \/ op = "create_branch" /\ create_branch
    \/ op = "put_file" /\ put_file(p)
    \/ op = "create_pull_request" /\ create_pull_request(p)

CreateBranch ==
    /\ phase = "create_branch"
    /\ phase' = "put_file"
    /\ create_branch
    /\ UNCHANGED <<deliveries, state, verdict, error, counted, stored, thread>>

PutFile ==
    /\ phase = "put_file"
    /\ phase' = "create_pull_request"
    /\ put_file(state.patch)
    /\ UNCHANGED <<deliveries, state, verdict, error, counted, stored, thread>>

CreatePullRequest ==
    /\ phase = "create_pull_request"
    /\ phase' = "mark_resolved"
    /\ create_pull_request(state.harness_result.patch)
    /\ UNCHANGED <<deliveries, state, verdict, error, counted, stored, thread>>

MarkResolved ==
    /\ phase = "mark_resolved"
    /\ phase' = "finish"
    /\ resolved' = TRUE
    /\ state' = [state EXCEPT !.pr_url = TRUE]
    /\ UNCHANGED <<deliveries, verdict, error, counted, saved, rows, github, thread>>

(***************************************************************************)
(* What can go wrong inside the run. str(exc) of a TimeoutError is the     *)
(* empty string.                                                           *)
(***************************************************************************)
Raise ==
    /\ phase \in NodePhases
    /\ phase' = "finish"
    /\ error' \in {"message", "empty"}
    /\ UNCHANGED <<deliveries, state, verdict, counted, stored, github, thread>>

\* The statement was committed but its answer was lost.
RaiseAfterCommit ==
    /\ \/ phase = "store_harness_result" /\ rows' = rows \cup {HarnessRow}
                                         /\ UNCHANGED resolved
       \/ phase = "mark_resolved" /\ resolved' = TRUE /\ UNCHANGED rows
    /\ phase' = "finish"
    /\ error' = "message"
    /\ UNCHANGED <<deliveries, state, saved, verdict, counted, github, thread>>

\* GitHub did what it was asked, but the answer was lost or not understood.
RaiseAfterEffect ==
    /\ phase \in PrPhases
    /\ GithubEffect(phase, state.patch)
    /\ phase' = "finish"
    /\ error' = "message"
    /\ UNCHANGED <<deliveries, state, verdict, counted, stored, thread>>

\* wait_for gives up on asyncio.to_thread; the thread goes on.
GithubTimeout ==
    /\ phase \in PrPhases
    /\ phase' = "finish"
    /\ error' = "empty"
    /\ thread' = [op |-> phase, patch |-> state.patch]
    /\ UNCHANGED <<deliveries, state, verdict, counted, stored, github>>

ThreadLands ==
    /\ thread # None
    /\ GithubEffect(thread.op, thread.patch)
    /\ thread' = None
    /\ UNCHANGED <<run, state, stored>>

ThreadFails ==
    /\ thread # None
    /\ thread' = None
    /\ UNCHANGED <<run, state, stored, github>>

(***************************************************************************)
(* The end of the run: leaving ainvoke flushes the checkpoint; run_graph   *)
(* counts an exception where it catches it, closes the database pool and   *)
(* then counts a run that gave up. An exception replaces the final state   *)
(* by its text alone, and an empty text does not read as an error.         *)
(***************************************************************************)
\* Seeded defect: only an exception with a text is counted.
Reasons_ByText ==
    {r \in {"exception", "gave_up"} :
        \/ r = "exception" /\ error = "message"
        \/ r = "gave_up" /\ error = "none" /\ ~state.pr_url}

Reasons ==
    {r \in {"exception", "gave_up"} :
        \/ r = "exception" /\ error # "none"
        \/ r = "gave_up" /\ \/ error = "empty"
                            \/ error = "none" /\ ~state.pr_url}

Finish ==
    /\ phase = "finish"
    /\ phase' = "returned"
    /\ saved' = state
    /\ counted' = Reasons
    /\ UNCHANGED <<deliveries, state, verdict, error, rows, resolved, github, thread>>

\* db.close stands unprotected in the finally block: when it raises, the lines
\* after it, the count of a run that gave up among them, are not reached.
CloseRaises ==
    /\ phase = "finish"
    /\ phase' = "raised"
    /\ saved' = state
    /\ counted' = Reasons \ {"gave_up"}
    /\ UNCHANGED <<deliveries, state, verdict, error, rows, resolved, github, thread>>

\* asyncio.run joins the executor's threads before the task returns. A task
\* that raises is a failed one for Celery, and acknowledged like the others.
Ack ==
    /\ phase \in {"returned", "raised"}
    /\ thread = None
    /\ phase' = IF phase = "returned" THEN "acked" ELSE "failed"
    /\ UNCHANGED <<deliveries, state, verdict, error, counted, stored, github, thread>>

\* The whole worker dies: the message was not acknowledged and goes back.
WorkerDies ==
    /\ phase \in Running
    /\ deliveries < MaxDeliveries
    /\ phase' = "queued"
    /\ thread' = None
    /\ UNCHANGED <<deliveries, state, verdict, error, counted, stored, github>>

\* Only the pool process dies: the main process acknowledges the message,
\* as task_reject_on_worker_lost is not set.
ChildKilled ==
    /\ phase \in Running
    /\ phase' = "lost"
    /\ thread' = None
    /\ UNCHANGED <<deliveries, state, verdict, error, counted, stored, github>>

HumanCloses ==
    /\ HumanMayClose
    /\ openPR # None
    /\ openPR' = None
    /\ branch' \in {branch, None}
    /\ UNCHANGED <<run, state, stored, opened, thread>>

Worker ==
    \/ Deliver \/ Triage
    \/ \E p \in Patches : Dev(p)
    \/ \E v \in Verdicts : Qa(v)
    \/ StoreHarnessResult \/ ReturnVerdict
    \/ CreateBranch \/ PutFile \/ CreatePullRequest \/ MarkResolved
    \/ Raise \/ RaiseAfterCommit \/ RaiseAfterEffect \/ GithubTimeout
    \/ ThreadLands \/ ThreadFails
    \/ Finish \/ CloseRaises \/ Ack

Next ==
    \/ Worker
    \/ Checkpoint
    \/ WorkerDies \/ ChildKilled
    \/ HumanCloses

Spec     == Init /\ [][Next]_vars
\* The worker process is scheduled: a run that can go on does.
FairSpec == Spec /\ WF_vars(Worker)

-----------------------------------------------------------------------------
(***************************************************************************)
(* Properties                                                              *)
(***************************************************************************)
\* Every variable keeps its type; in particular the retry counter never
\* passes the attempts that max_retries allows.
TypeOK ==
    /\ phase \in Phases
    /\ deliveries \in 0..MaxDeliveries
    /\ state \in AgentStates
    /\ saved \in AgentStates
    /\ verdict \in Verdicts \cup {None}
    /\ error \in {"none", "message", "empty"}
    /\ counted \subseteq {"exception", "gave_up"}
    /\ rows \subseteq Rows
    /\ resolved \in BOOLEAN
    /\ branch \in Patches \cup {Base, None}
    /\ openPR \in Patches \cup {None}
    /\ opened \in 0..MaxDeliveries
    /\ thread \in [op : GithubOps, patch : Patches] \cup {None}

\* Of a table of harness results: p has a passing run with its coverage kept.
Verified(table, p) == \E r \in table : r.patch = p /\ r.passed /\ r.covered

\* The latest verdict of all deliveries is a good one, on p.
Newest(table, p) ==
    \E r \in table :
        /\ r.patch = p /\ r.passed /\ r.covered
        /\ \A q \in table : \/ q.delivery < r.delivery
                            \/ q.delivery = r.delivery /\ q.attempt <= r.attempt

\* The first n attempts of delivery d all have a stored failure.
AllFailed(table, d, n) ==
    \A a \in 0..(n - 1) : \E q \in table : /\ q.delivery = d
                                          /\ q.attempt = a
                                          /\ ~(q.passed /\ q.covered)

\* Whatever is on the incident's branch, in the body of its PR or on its way
\* to either in a thread nobody waits for any more is a patch with a stored
\* passing run whose coverage did not drop: the coverage gate of
\* route_after_qa holds across crashes, redeliveries and late calls.
ShippedWasVerified ==
    /\ branch \in Patches => Verified(rows, branch)
    /\ openPR \in Patches => Verified(rows, openPR)
    /\ thread # None => Verified(rows, thread.patch)

\* The rows of one delivery are the attempts 0, 1, ... of its loop, one row
\* per attempt, each but the last one a failure: a patch is only retried
\* because the one before it failed, and never after one passed.
RetryFollowsFailure ==
    \A r \in rows :
        /\ AllFailed(rows, r.delivery, r.attempt)
        /\ \A q \in rows :
             q.delivery = r.delivery /\ q.attempt = r.attempt => q = r

\* A run that ends in gave_up without an exception has used up the retry
\* budget in this very delivery, with no verified patch among its attempts.
GaveUpMeansExhausted == counted = {"gave_up"} => AllFailed(rows, deliveries, MaxAttempts)

\* The incident is marked resolved only when a PR was opened for it, also
\* when the statement that marks it fails and the incident is run again.
ResolvedHasPR == resolved => opened > 0

\* An incident whose run returned has had a PR or a counted failure: no run
\* ends in silence, unless db.close raises and Celery itself has the task as
\* failed. That run is left out on purpose: it may end with neither.
NoSilentEnd == phase \in {"returned", "acked"} => opened > 0 \/ counted # {}

\* mcp_clients.py, create_pull_request: a re-run of the same incident must
\* not open a second PR.
AtMostOnePR == opened <= 1

\* What is pushed is the patch that was verified last, never an older one:
\* a stale thread or a redelivered run cannot roll the branch back.
PushIsLatestVerdict == [][branch' # branch /\ branch' \in Patches => Newest(rows, branch')]_vars

\* The nodes this delivery has entered so far, the one it is in included: the
\* graph's supersteps, which langgraph bounds by a recursion limit of 25.
NodesEntered ==
    CASE phase = "triage" -> 1
      [] phase \in PrPhases \cup {"dev", "mark_resolved"} -> 2 * state.retry_count + 2
      [] phase \in {"qa", "store_harness_result", "return_verdict"}
           -> 2 * state.retry_count + 3
      [] OTHER -> 0

EntersNode == phase' # phase /\ phase' \in {"triage", "dev", "qa", "create_branch"}

\* graph.py, the edges and route_after_qa: the retry counter is the only thing
\* that ends the loop. Every node entered counts, from one at a delivery's
\* first node on, whatever an earlier delivery left in the checkpoint, and a
\* delivery enters at most 2 * MaxAttempts + 2 nodes.
NodesAreBounded ==
    [][EntersNode =>
         /\ NodesEntered' = (IF phase = "queued" THEN 1 ELSE NodesEntered + 1)
         /\ NodesEntered' <= 2 * MaxAttempts + 2]_vars

\* A verified patch is never silently dropped: when the router sends the
\* incident to pr_node, a PR is opened or a failure is counted in the end,
\* unless the broker has lost the task, or a worker died over it and db.close
\* raised in the run after it.
VerifiedIsAnswered ==
    phase = "create_branch" ~>
        \/ opened > 0 \/ counted # {}
        \/ phase = "lost"
        \/ phase = "failed" /\ deliveries > 1

\* A queued incident is eventually settled: acknowledged, as done or as
\* failed, or lost.
EventuallySettled == phase = "queued" ~> phase \in {"acked", "failed", "lost"}

-----------------------------------------------------------------------------
(***************************************************************************)
(* The loop implements GatedRepair: the rows of the present delivery are   *)
(* the attempts of the abstract run, the patches of its passing rows the   *)
(* approved ones, GitHub's state the published one.                        *)
(***************************************************************************)
PassingRows == {r \in rows : r.passed /\ r.covered}
Tried       == {r.attempt : r \in {q \in rows : q.delivery = deliveries}}
Won         == \E r \in PassingRows : r.delivery = deliveries
Approved    == {r.patch : r \in PassingRows}

Promise == INSTANCE GatedRepair WITH
    tried    <- Tried,
    won      <- Won,
    approved <- Approved,
    content  <- branch,
    proposal <- openPR,
    proposed <- opened > 0

\* Every behaviour of the loop, crashes, redeliveries and late threads
\* included, is one the abstract repair allows.
ImplementsGatedRepair == Promise!Spec

(***************************************************************************)
(* The loop is a run of Repair, of which Pipeline composes many: triage,   *)
(* dev, qa and the row are an attempt, the GitHub calls the pull request.  *)
(***************************************************************************)
OutlineTask ==
    CASE phase \in NodePhases \cup {"finish"} -> "running"
      [] phase \in {"returned", "raised"} -> "released"
      [] phase \in {"acked", "failed"} -> "done"
      [] OTHER -> phase

\* Once its row is stored, an attempt is over: the router's choice is fixed.
Decided == IF phase = "return_verdict" THEN route_after_qa(QaOutput) ELSE phase

OutlineNode ==
    CASE Decided \in {"triage", "dev", "qa", "store_harness_result"} -> "attempt"
      [] Decided \in PrPhases -> "create_pull_request"
      [] Decided = "mark_resolved" -> "mark_resolved"
      [] Decided = "finish" -> "end"
      [] OTHER -> "idle"

OutlineTries ==
    IF OutlineNode # "attempt" THEN 0
    ELSE IF phase = "return_verdict" THEN state.retry_count + 1
    ELSE state.retry_count

OutlineRow(r) ==
    [log_id |-> LogId, run |-> r.delivery, attempt |-> r.attempt,
     passed |-> r.passed, covered |-> r.passed /\ r.covered, pr_url |-> FALSE]

OutlineLate == thread # None /\ thread.op = "create_pull_request"

Outline == INSTANCE Repair WITH
    Requests        <- {LogId},
    task            <- [i \in {LogId} |-> OutlineTask],
    error_logs      <- [i \in {LogId} |-> IF resolved THEN "resolved" ELSE "open"],
    harness_results <- {OutlineRow(r) : r \in rows},
    pulls           <- [i \in {LogId} |-> opened],
    node            <- [i \in {LogId} |-> OutlineNode],
    run             <- [i \in {LogId} |-> deliveries],
    tries           <- [i \in {LogId} |-> OutlineTries],
    late            <- {i \in {LogId} : OutlineLate}

\* What the loop leaves in the tables and on GitHub is what Repair says, as
\* long as no human merges or closes the PR: Pipeline's worker is this loop.
ImplementsRepair == Outline!Spec
=============================================================================
