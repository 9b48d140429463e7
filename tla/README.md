# A TLA+ verification project for ProdRescue

ProdRescue takes a crash report (`POST /ingest`), lets an LLM write a patch,
tests the patch in a throw-away Docker stack, and opens a draft pull request
when the tests pass and no coverage is lost. This directory holds TLA+ models of
its control flow, TLC runs that check them on small instances, and theorems that
the TLA+ proof system (TLAPS) checks for every value of the constants. Paths below
are relative to `src/`.

To check a run: `tlc -config <cfg> <module>`, with the names from the table in
[Runs](#3-runs). To check the proofs: `tlapm` on `SelfHealLoopProofs.tla`,
`SelfHealLoopRefinement.tla`, `AdmissionProofs.tla`, `CrashReportsProofs.tla`,
`QaHarnessProofs.tla`, `GithubClientProofs.tla`, `PatchFlowProofs.tla` and `PipelineProofs.tla`.

## 1. The system

### Parts, state, operations

| part | code | state | operations |
|---|---|---|---|
| Ingest API | `services/api/main.py` | none of its own | `ingest`, `task_status`, `health`, `ready`, `metrics` |
| Guardrails | `services/api/ratelimit.py` | Redis: the counter `prodrescue:active`; one key per crash with a TTL | `acquire_slot`, `release_slot`, `claim_incident`, `set_incident_value` |
| Task queue | `services/api/tasks.py` | RabbitMQ queue, Celery result | `run_agent_pipeline`: late acknowledgement, prefetch 1 |
| Self-heal loop | `services/agents/graph.py`, `state.py` | `AgentState` in memory, its checkpoint in Postgres under `thread_id = log_id` | `run_graph`, `route_after_qa` |
| Nodes | `services/agents/nodes.py` | locals of each node | `triage_node`, `dev_node`, `qa_node`, `pr_node` |
| Result store | `services/agents/persistence.py`, `services/api/database.py` | tables `harness_results`, `error_logs` | `store_harness_result`, `mark_resolved` |
| MCP and GitHub client | `services/agents/mcp_clients.py` | branch, file and PR on GitHub | `mcp_call`, `create_branch`, `put_file`, `create_pull_request`, `list_files`, `get_file_contents`, `resolve_path` |
| QA harness server | `services/mcp_servers/harness/` | `ACTIVE_STACKS` in memory; containers, network, working copy | `spin_up_stack`, `apply_patch`, `run_pytest`, `teardown_stack` |
| Patch tools | `services/agents/patching.py`, `resolve_path` | none | `check_patch_scope`, `apply_unified_diff` |
| Incident memory | `services/mcp_servers/logs_db/server.py`, `services/api/embeddings.py`, `scripts/seed_incidents.py` | `error_logs` with embeddings, `harness_results` | `embed_and_store`, `semantic_search_logs`, `get_similar_resolutions`, `get_error_frequency`, the seeding |
| Metrics | `services/api/metrics.py` | Prometheus counters | `emit_prometheus_metrics`, `PIPELINE_FAILURES` |
| LLM client | `services/agents/llm.py` | none | `structured` |

### Interactions

`ingest` takes a slot of the shared counter, claims the crash's dedup key, stores
the log and enqueues one Celery task; the worker gives the slot back in the
`finally` block of `run_graph`. API and worker share nothing but Redis, the broker
and the database. In the worker `run_graph` invokes the graph on the incident's
thread; nodes call the LLM, the two MCP servers over HTTP and GitHub through
`asyncio.to_thread`, each under a time bound. The harness server drives Docker
and does not learn that a client gave a call up.

### What is hard here

- **Crashes and redelivery.** `task_acks_late` redelivers a task whose worker died.
  The new run finds the old checkpoint, rows, branch and PR. When only the pool
  process dies the main process acknowledges the task, and it is gone.
- **Abandoned calls.** `wait_for` gives up on a GitHub call whose thread goes on,
  and on a harness call that goes on in the server; effects land later.
- **Interleaving.** `INCR`, comparison and `DECR` of concurrent requests; a
  duplicate that reads the key between the claim and the ids; expiry in between.
- **Stale reads.** The sha of a file, the list of open PRs, the listing that a path is
  resolved against and the source that a patch is written against are all read some calls
  before they are used, while humans and other executions of the incident write.
- **Partial failure.** Branch, file, PR and `mark_resolved` are four calls; storing
  or enqueueing fails after the slot and the key are taken; a tool error arrives
  as a text where a dict is expected.
- **Boundaries.** The retry budget, also at 0; the cap; coverage 0 as the value of a
  failed measurement.

### What makes each part correct

- *Loop*: only a patch that passed with its coverage kept is ever pushed or
  proposed; retries follow failures and stay within the budget; what is pushed is the
  patch verified last; no run ends without a PR or a counted failure, unless its task fails; an incident has
  one PR; an incident marked resolved had one.
- *Guardrails*: no slot is leaked or given back twice; the cap holds; one pipeline
  per crash and window; a fault costs at most one extra pipeline; a key that never expires stands for a pipeline.
- *Harness*: the gate opens on the patched tree's own result; the stack is removed but for named causes;
  an attempt ends although the server hangs.
- *GitHub client*: a re-run gets through whatever earlier runs left; a PR is opened with the patch its own run
  verified, and the PR a run returns, new or reused, shows that patch; a PR or report that is there is reused.
- *Patch tools*: the path is pinned without guessing and a retry keeps it; the tested tree of a full file
  differs from the checkout in nothing else; what is pushed is what was tested.
- *Dedup key*: two messages whose words can be told from their addresses and ids have one key exactly if they are of one crash.
- *Incident memory*: rows, PRs and answers refer to stored logs; what was resolved can be found; all
  parts together give one crash one PR and settle every accepted report.

## 2. Modules

| module | models |
|---|---|
| `SelfHealLoop` | one incident in the worker: delivery, nodes, router, checkpoint, rows, GitHub, failures |
| `GatedRepair` | the abstract promise `SelfHealLoop` implements |
| `SelfHealLoopProofs` | the inductive invariant of the loop and the theorems about it |
| `Repair` | what the repairs of any number of incidents leave in the tables and on GitHub, in outline |
| `SelfHealLoopRefinement` | the proofs that the loop implements `GatedRepair` and `Repair` |
| `Admission` | any number of `/ingest` requests against Redis, the queue and the workers' releases |
| `DedupKey` | `dedup_key` as a function of service and message, character by character, and the reference it is checked against |
| `CrashReports` | `Admission` of crash reports, whose keys `dedup_key` computes |
| `Intake` | the abstract promise `CrashReports` implements |
| `QaHarness` | one `qa_node` attempt against the harness server and Docker |
| `GithubClient` | the calls of `pr_node` on GitHub, for several executions of one incident and humans |
| `PatchFlow` | the file and the patch: triage's pick, `resolve_path`, the scope guard, the tested tree, the pushed content |
| `Pipeline` | `Admission` composed with `Repair` and with the tables that API, workers and seed script share |
| `AdmissionProofs`, `CrashReportsProofs`, `QaHarnessProofs`, `GithubClientProofs`, `PatchFlowProofs`, `PipelineProofs` | the inductive invariant of each and the theorems about it |
| `MCSelfHealLoop`, `MCAdmission`, `MCQaHarness`, `MCGithubClient`, `MCPatchFlow`, `MCPipeline` | instances for TLC |

Definitions whose comment begins with *Seeded defect* are not used by any
specification. Each is a variant of the definition that follows it with a plausible
bug; put in its place, it makes the property it is paired with in `PROJECT.json` fail.

### SelfHealLoop

`phase` is the place of the task: `queued`, a node or a state-changing call of one, the
end of `run_graph` (`finish`), `returned` or `raised`, then `acked` or `failed`, or `lost`. `state` is `AgentState` in memory
and `saved` its checkpoint, cut down to the channels that the router, the retry
prompt, `run_graph`'s ending and the PR read. `rows` is `harness_results`; `branch`,
`openPR`, `opened` is what GitHub has. Patches are model values: the LLM may answer any.

| actions | code |
|---|---|
| `Deliver` | `run_agent_pipeline` up to `graph.ainvoke`; the input on an existing thread starts at triage, overwrites its own channels (`retry_count` 0) and keeps the others |
| `Checkpoint` | langgraph's background write of the live state |
| `Triage`, `Dev`, `Qa`, `StoreHarnessResult`, `ReturnVerdict` | the nodes and the conditional edge |
| `CreateBranch`, `PutFile`, `CreatePullRequest`, `MarkResolved` | `pr_node`'s calls |
| `Raise`, `RaiseAfterCommit`, `RaiseAfterEffect`, `GithubTimeout` | an exception in a node: before its effect, after a committed statement, after GitHub did it, or with the thread left running |
| `ThreadLands`, `ThreadFails` | the end of such a thread |
| `Finish`, `CloseRaises`, `Ack` | the flush of the checkpoint, the failure counters, the acknowledgement; `db.close` that raises skips the count of a run that gave up, and Celery has the task as failed |
| `WorkerDies`, `ChildKilled`, `HumanCloses` | redelivery, loss, a reviewer who merges or closes |

A run whose `wait_for` gave up cannot be acknowledged while the thread runs:
`asyncio.run` joins the executor's threads before it returns.

### Admission

`pc` is the place of each request's handler, one step per Redis command, and one
each for storing and enqueueing. `active` and `dedup` are Redis, `task` the pipeline in
broker and worker. `Faults` names the kinds of fault an instance allows: a Redis command
that fails, applied or not (`redis`); `delay` that raises although the broker has the
message (`publish`); a dead API process (`api`) or worker (`worker`); storing or enqueueing
that fails cleanly (`backend`); a window that ends between (`expiry`) or inside
(`slow`) requests. The first four skew the counter and are counted by `faults`.

### QaHarness

The client (`at`, `stack_id`, `result`) calls one tool at a time; the server works on
`job` (`spin_up_stack`, `apply_patch`, `run_pytest` in steps) and `tear` (`teardown_stack`), which
may run at the same time after a timeout. `stack` is the server's registry entry, `containers`,
`network`, `dir` what Docker and the disk hold, `patched` whether the containers see the patch.
`world` fixes what the attempt is about: do the tests pass with and without the patch,
the coverage then, is the file under a mounted directory. `mishaps` records what
went wrong, so that a property can say which failures it excuses; each excuses only what it can leave behind: a disk that does not let
`rmtree(ignore_errors=True)` remove the working copy (or a given-up job that is still writing to it) excuses no container.

### DedupKey and CrashReports

A message is a sequence of characters, because what the three patterns match depends on the characters next to it.
`Lower`, `SubAddresses`, `SubUuids`, `SubBlanks` and `Strip` are the lines of `dedup_key` in their order. Each pattern is a function that
gives the end of the longest match at a place (`Addresses`, `Uuids`, `Blanks`), and `Sub` is `re.sub`: left to right, no overlap.
The key is the text that is hashed, service, colon and message; the digest is taken to be injective. Characters are ASCII: of the
Unicode letters and spaces that `lower` and `\s` know the model has none. The reference, `SameCrash`, says nothing of
how keys are computed: a message is *written* from pieces, words, addresses, UUIDs and gaps, and two are of one crash if the services
are equal and the pieces agree but for the text of addresses and ids, the width of gaps and the case of words. The two can agree only on messages
that are `Delimited`, whose pieces can be told from their text; `0x10x2`, two addresses in a row, is one of those that are not: the first
match takes the `0` of the second.

`CrashReports` is `Admission` with `KeyOf` computed by `dedup_key` from what each request reports.
`MCAdmission` gives four requests a report each; no service in them has a colon, with which service and message could be divided in two ways.

### GithubClient

`main` is the file on the default branch, `branch` the commits of `prodrescue/<log_id>`, `pulls`
the PRs for it. Each run in `Runs` is an execution of `pr_node` with the patch it verified; `step` is
the GitHub call it is at, so the read of the sha and the write that names it are two steps, and so are the look
for open PRs and the creation of one. GitHub's own rules are external: a write names the blob it
replaces, and there is one open PR per head. `Fails` is a call that raises, `GivesUp` a `wait_for` that
ended while the thread goes on (`awaited`), and four actions are humans. Without a `token` the same tools
write a report to disk (`_github_dryrun`), which two runs share as well. `disturbed` is bookkeeping: the runs that met a
failure, a human or another run between their first and their last call.

### PatchFlow

A path is a sequence of segments, a tree gives each path a version (its length) or none; a content
is a version with or without the patch. `ListFiles`, `GetFileContents`, `Structured` are `dev_node`,
`QaFails` and `QaPasses` `qa_node`, `PushPatch` the choice between the full file and the diff in `pr_node`.
The LLM may answer any file length and any diff that edits or deletes files of given sets. Its edits are of two kinds: those with a
`+++ b/` line, which are all that `check_patch_scope` looks at, and the `unseen` ones, which git and `patch` apply as well: other prefixes,
quoted names, renames, copies. `QaPasses` tests a full file (`TestsFullFile`) or the tree after the diff (`TestsDiff`), in which a failing
`patch` may leave some of the hunks: the content of the file is then patched `partly`. `checkout` is the harness's copy, fixed from the start;
`main` goes on changing.

### Repair and Pipeline

`Repair` is a worker's run cut down to what it leaves behind. `Attempt` is a patch with its verdict and its row,
`CreatePullRequest` the idempotent one, `MarkResolved` an UPDATE that may meet no row. `Raise` is an
exception in any of them, whose effect may have happened all the same, or, when a `create_pull_request` is given up, may
still happen: `late` holds the runs with such a call, `LateCall` is its end, and no task is acknowledged before. It is not a guess at
the loop: `SelfHealLoop` implements it (see below).

`Pipeline` is composed of both: `Ingest == INSTANCE Admission` takes requests, keys, queue and releases over
unchanged, `Runs == INSTANCE Repair` the workers, and the steps they share (start, end, acknowledgement, death) are the
conjunctions. `InsertLog` is `embed_and_store` (the row may be there although the call raised).
`SeedLog` and `SeedResult` are the two inserts of the seed script. The two queries are the sets of rows they range over.

### The abstract specifications

`GatedRepair` has no queue, checkpoint, node or thread. A run makes attempts
0, 1, ... below a bound and stops at the first success; a run may start over at any time;
only approved patches are published or proposed, at most one proposal is open, and the
incident is resolved only after one was made. `SelfHealLoop` refers to it as `Promise`: the
rows of the present delivery are the abstract attempts, the patches of passing rows
the approved ones. `ImplementsGatedRepair` says that every behaviour, with crashes,
redeliveries and late threads, is one the abstract specification allows.

`Repair` is a second, lower view of the loop (`Outline`): it has the queue, the rows and the PR, but no nodes,
checkpoint or branch. triage, dev, qa and the row are one attempt, which is over, with the router's choice, as
soon as its row is stored (`Decided`); the three GitHub calls are one pull request. A thread matters to it only if it may
open a PR. `ImplementsRepair` is stated without a human who closes the PR, as `Repair` counts a branch's PRs and does not
know which one is open.

`Intake` is what a client of the API can tell while Redis, broker and processes work: a request that is accepted has a pipeline;
there is one for a crash, and at a time no more than the cap; a request is refused only if the others may fill the slots, counts as a
duplicate only of another report, and is given the ids of a pipeline that exists; only a request with a pipeline is told so.
There are no counter or Redis commands in it. `CrashReports` refers to it as `Promise`, with the requests that share a dedup key as
`Repeats`: `ImplementsIntake` joins the claims and the counter. That the keys are those of crashes is a question of its own,
`KeysTellCrashesApart`.

## 3. Runs

Twelve runs; a passing run explores its instance to the end.

| run | module, cfg | what it shows |
|---|---|---|
| `loop_safety` | `MCSelfHealLoop`, `SelfHealLoop_safety.cfg` | six invariants, two action properties and the refinement of `Repair`: two patches (symmetric), two deliveries of two attempts; 800 000 states |
| `loop_liveness` | `MCSelfHealLoop`, `SelfHealLoop_liveness.cfg` | every incident is settled, no verified patch is dropped, and the refinement of `GatedRepair`, with a human who closes PRs; 180 000 states |
| `slots` | `MCAdmission`, `Admission_slots.cfg` | four requests of three crashes for two slots, with the keys `dedup_key` computes: counter, cap, dedup by crash, answers, release, and the refinement of `Intake`; 34 000 states |
| `slot_faults` | `MCAdmission`, `Admission_faults.cfg` | three requests for one slot under every kind of fault: drift of the counter, extra pipelines, keys that never expire; 470 000 states |
| `qa_attempt` | `MCQaHarness`, `QaHarness_attempt.cfg` | one attempt with every kind of mishap; 210 000 states |
| `github` | `MCGithubClient`, `GithubClient_safety.cfg` | two executions of one incident and humans on one branch; 1 130 000 states |
| `patch_flow` | `MCPatchFlow`, `PatchFlow_safety.cfg` | pinning, scope, tested and pushed content while the default branch changes; 3 900 000 states |
| `memory` | `MCPipeline`, `Pipeline_memory.cfg` | two reports of one crash from the request to the memory, with a fault; 138 000 states |
| `dedup_lost` | `MCAdmission`, `Admission_dedup_lost.cfg` | violation of `DedupedHasPipeline`: a duplicate of nothing |
| `qa_untested` | `MCQaHarness`, `QaHarness_untested.cfg` | violation of `PassedMeansPatched`: the unpatched tree is tested |
| `base_pin` | `MCGithubClient`, `GithubClient_base.cfg` | violation of `BaseIsPinned`: the pushed file overwrites a change on the default branch |
| `resolutions` | `MCPipeline`, `Pipeline_resolutions.cfg` | violation of `ResolutionsNameTheirPR`: a past resolution without its PR |

A violation run checks one sentence of the repository's documentation or comments
that the code does not keep. The quotation is at the property and in `PROJECT.json`.

### Bounds, and why they are enough

- *Loop.* Two attempts give one failure followed by a retry, and exhaustion; two deliveries
  give every combination of a fresh run with the rests of an old one, with a checkpoint
  taken at any point of it; two patches tell the pushed, the proposed, the verified and
  the latest one apart. What is proved holds without these bounds. `MaxDeliveries` bounds the model,
  not the code: the broker redelivers without a limit.
- *Slots.* Four requests of three crashes for two slots: a full counter, more crashes than slots, a rolled-back
  `INCR`, a duplicate and an original at the same time. Three requests for one slot with two
  faults: a fault can be followed by one that hides or doubles its effect.
- *Harness.* One attempt; two coverage values give a loss, a gain and a draw, and zero is
  the value of a failed baseline. Stacks of different attempts share no name.
- *Dedup key.* `KeysTellCrashesApart` compares all pairs of the delimited messages of up to three pieces out of twelve: each kind, its
  neighbours of every other kind, words that begin or end with hex digits, in both cases, and gaps of two widths.
- *GitHub.* Two runs are enough for every race on branch, file and PR, as each call looks at one
  object; two human edits can undo one another (the sha then matches again) or hit both the default
  branch and the incident's.
- *Patch flow.* Two attempts and two changes of the default branch: one between two attempts and one
  between a read and its use. Files of one name at the root, under `src` and elsewhere, picks with a segment
  too few, too many or wrong, and a pick that is a directory. Lengths 0 and 1 with a growth
  limit of 1 and answers of up to 2: an empty original, at the limit, above it. Diffs that edit nothing, the file and the fixture, or two files,
  with an edit the guard does not see and a deletion.
- *Memory.* Two reports of one crash, a seed, two attempts and one fault, which may be a death with
  redelivery, a publication that only seems to fail or a failed store. Within a window one of the two wins
  the key, so there is at most one pipeline; several pipelines at once are in `slots`, and the
  theorems hold for any number of reports and faults. No key expires: `OnePullPerCrash` is about one window.

### Fairness

`SelfHealLoop`: weak fairness of the worker's own steps as a whole, as the worker's
process is scheduled and every LLM, MCP and GitHub call is bounded in time. The
checkpoint writer, deaths and humans are not fair. It assumes that Postgres and Redis
commands return or raise: their clients have no time bound in this code.
`Admission`: weak fairness of every request's handler and of every task, the one by the API's event loop,
the other by a worker that takes tasks; no fairness of expiry. The liveness run has no
process deaths. `Pipeline`: the same, handlers and workers; the seed script need not go on. `GithubClient`
and `PatchFlow` have safety properties only. `QaHarness`: weak fairness of the client alone; server and Docker may hang
for ever, and the time bounds of `mcp_call` still end the attempt.

`CHECK_DEADLOCK FALSE` is set because all these systems stop: an incident is settled, all requests are
answered, the attempt is over, every run has its PR or failed.

## 4. What is proved

### The self-heal loop

`SelfHealLoopProofs.tla` and `SelfHealLoopRefinement.tla`, for every set of patches, every
`MaxRetries` in Nat (0 included), every number of deliveries, with and without a
human who closes PRs:

| theorem | states |
|---|---|
| `TypeCorrect` | `TypeOK`; the retry counter never passes the budget |
| `GateHolds` | `ShippedWasVerified`: the coverage gate |
| `RetriesFollowFailures` | `RetryFollowsFailure`: a gapless series of failures per delivery |
| `GivingUpIsExhaustion` | `GaveUpMeansExhausted` |
| `AnsweredBeforeEnd` | `ResolvedHasPR`, which no run checks, and `NoSilentEnd`: of the runs that return; one that `db.close` ends with an exception may leave neither |
| `PushesAreNewest` | `PushIsLatestVerdict`, an action property |
| `OnePullRequest` | `AtMostOnePR`, if no human closes the PR |
| `NodesBounded` | `NodesAreBounded`, an action property: at most 2 * `MaxAttempts` + 2 nodes in a delivery |
| `BelowRecursionLimit` | with at most 11 retries a delivery enters fewer than 25 nodes |
| `RunIsBounded` | a run takes at most 10 * `MaxAttempts` + 14 steps until it is settled or delivered again |
| `LoopImplementsGatedRepair` | `ImplementsGatedRepair`: the loop is a gated repair |
| `LoopImplementsRepair` | `ImplementsRepair`, if no human closes the PR: the loop is a run of `Repair` |

The only assumption is `SelfHealLoopAssumption`, on the constants. TLC evaluates it in every loop run.

None of these properties is inductive: each speaks of rows, GitHub or counters,
and what keeps it is where the run is and what it holds in memory. The inductive invariant `IInv` has
four parts, one lemma each for being kept by every action:

- `TypeInv`: the types, with `Control`: what the phase implies for the live state (in
  `pr_node` the verdict is good and on the present patch; a thread is only
  left behind at the end of a run; fewer PRs than deliveries as long as this run may open one).
- `Gate`: `ShippedWasVerified`, and in `pr_node`, or in a thread it left, the patch is that of the
  *newest* row. This is the link between memory and table, and needs the next part.
- `Trail`: the rows of the present delivery are exactly the attempts made, failures so far;
  between the insert and the return of `qa_node` the row is there and the counter is one behind.
- `Outcome`: a run at its end without error and without PR url has a full series of
  failures; a PR url, in memory or in the checkpoint of an earlier run, or an open PR implies
  that a PR was opened.

`NextTypeInv`, `NextGate`, `NextTrail` and `NextOutcome` go through the actions;
`Invariance` combines them. `OnePullRequest` adds `OnePR`: `opened = IF openPR = None THEN 0 ELSE 1`.

The length of a run is read off the phase and the retry counter. `NodesBounded` therefore needs that a delivery starts with the
counter at zero (`FreshCounter`), whatever the checkpoint holds: this is what `run_graph`'s input overwrites it for.
`RunIsBounded` ranks the phases (`RunSteps`, one case per action): every step of the worker, late
threads and deaths included, uses one step up, and the checkpoint writer and humans give none back.

The refinement shows, from a state of `IInv`, which abstract step each action is. Writing
the row is the abstract attempt (`NewRowIsAttempt`): `Trail` makes the rows so far
exactly the attempts 0 to `retry_count` - 1, all failed (`AttemptsAreCounted`). A GitHub call, from
`pr_node` or from a thread it left, is allowed because `Gate` says its patch is approved (`GithubStep`). A
delivery starts over, as its number has no rows yet (`DeliverStartsOver`). The resolution comes after a PR
(`MarkIsResolve`). Every other action is a stutter.

The refinement of `Repair` needs `OnePR` besides: an open PR is found exactly if one was ever opened
(`OutlineOpens`). `OutlineDecides` shows that the verdict fixes the router's choice when the row is stored, so that `qa_node`'s return is a
stutter (`OutlineOfReturn`); `OutlineOfFailure` takes each way in which a node can fail to the effect it had,
has not had, or may still have, and `OutlineThread` ends the last of these. A failure after the last attempt's row is a
stutter: the outline is at its end already.

### The ingest path

`AdmissionProofs.tla`, for every finite set of requests, any crashes, every cap in Nat
(0 included):

| theorem | under | states |
|---|---|---|
| `TypeCorrect` | every fault | `TypeOK`; the counter is at least -`faults` |
| `FailingOpenIsBounded` | every fault | `OneExtraPerFault` |
| `DuplicatesNamePipelines` | every fault | `DuplicateNamesAPipeline` |
| `SlotConservation`, `CapHolds` | no fault that skews the counter (`MaxFaults = 0`); keys may expire | `SlotsAreConserved`, `CapIsRespected` |
| `DedupHolds` | only clean failures of storing and enqueueing | `OnePipelinePerWindow`, for keys of any make |
| `LastingKeysArePipelines` | every fault | `LastingKeysNameAPipeline` |
| `WorkIsBounded` | every fault | each request and its pipeline have at most 4 * `MaxFaults` + 11 steps ahead, their own steps use them up, and no other request's step gives any back |

The assumption is `AdmissionAssumption`. The invariant has these parts:

- `Counter`. With *held* the requests that have a slot (or have to give an increment
  back), *admitted* those of them that were let in, *living* the pipelines queued or running:
  held + living - `faults` <= `active`, and admitted + living <= `MaxActive` + `faults`. The
  first is what makes the second inductive: a request is let in when `active` + 1 is within
  the cap, and then, up to the faults, so are all slots that are out. A fault that leaves the
  counter too low, or lets a request or a redelivered pipeline in without a slot,
  is paid for by the `faults` it adds. Without faults the first is an equality.
- `Order`: a request has a pipeline from `delay` on, which makes held and living
  disjoint and the ids recorded after it those of a real pipeline (`Names`).
- `OneClaim`, for `DedupHolds`: whoever has a pipeline or may still get one won the key, and two
  winners of one key are the same request.
- `ClaimsExpire`, for `LastingKeysArePipelines`: a key without ids has its TTL, as a claim always sets one. A key with ids
  names the pipeline of a request that is past `delay`. Where a window ended inside the request, or the claim failed, `SET ... KEEPTTL` makes
  that key one that never expires (section 5).

Counting is done once: `CountAfter` says what a step of one request does to the number
of requests whose label is in a set, from the cardinality theorems of the library; `TakesSlot`,
`StaysAdmitted`, `LeavesHeld`, `LeavesRollBack` and `LeavesWithoutSlot` apply it
to the ways a request can move, and `NextCounter` only adds and subtracts.

`CrashReportsProofs.tla`, from `ReportsAssumption` (keys are what `dedup_key` makes of the reports) on top of `AdmissionAssumption`:

| theorem | under | states |
|---|---|---|
| `DuplicatesAreRepeats` | every fault | a request is answered as a duplicate only if another one has its key |
| `OnePipelinePerCrash` | only clean failures of storing and enqueueing; the keys of the reports tell their crashes apart | `DedupIsByCrash` |
| `AdmissionImplementsIntake` | the same faults, and no skewed counter | `ImplementsIntake`, for keys of any make |

That the keys do tell crashes apart is a hypothesis of `OnePipelinePerCrash` and not a theorem: `dedup_key` recurs over the text, and what
it computes for every text is out of the prover's reach. TLC checks it as `KeysTellCrashesApart`. `DuplicatesAreRepeats` rests on `Rivals`:
who finds a key held finds another request past its claim, also after expiry and failures. In `AdmissionImplementsIntake` the step that
enqueues is the abstract acceptance: `OneClaim` makes it the first of its key and `Counter` keeps it within the cap; a refusal is
justified by the same equality (the counter is at the cap only if other requests may fill it), a duplicate's ids
by `Names`.

### The QA harness

`QaHarnessProofs.tla`, for every set of coverages: `TypeCorrect` (`TypeOK`), `EveryLeakHasACause`
(`LeaksHaveACause`) and `OpenGateIsProven` (`GateMeansProven`). The invariant is built up in three layers:

- `Typed`: which answers the call that is waiting may get, so that a tool's error text is told apart from a report.
- `Proven`, as long as applying and measuring succeed: what an answer of the server shows about the tree. The
  baseline is the world's, `apply_patch`'s answer means a patched tree, a report has the world's verdict and coverage.
- `Owned`, as long as nothing was cut off (`CutOff`): which call the client is in decides what the server may be doing and what may
  exist. A given-up `run_pytest` is not among the causes: the teardown then runs next to
  it, and the invariant says that it still removes everything.

- `AttemptIsBounded`: the client takes at most six steps, and no step of server or Docker gives one back. With the time
  bound on every call this is why `QaNodeEnds` needs fairness of the client only.

### The GitHub client

`GithubClientProofs.tla`, for any set of executions, contents and human commits:

| theorem | states |
|---|---|
| `TypeCorrect` | `TypeOK` |
| `RerunGetsThrough` | `UndisturbedRunSucceeds` |
| `OwnPatchIsProposed` | `ProposesItsOwnPatch` |
| `ReturnedPullIsOwn` | `ReturnedPullShowsPatch`, an action property |
| `PullsAreReused` | `ReportIsReused`, an action property |

The invariant adds `Undisturbed`: each run is disturbed, or it is `OnItsWay`, which says what it finds at
its next call (a branch; the sha it read; its own patch at the tip; no open PR). Whoever changes GitHub
disturbs the other busy runs, so only the run's own step has to be looked at for it. `OneReport` says
that without a token there are no commits and at most one report.

### The patch flow

`PatchFlowProofs.tla`, for every repository, pick, answer, growth limit and number of attempts:
`TypeCorrect` (`TypeOK`), `PushedWasTested` (`PushedIsTested`), `ScopeIsKept` (`TestedInScope`), `NoGuess`
(`NeverGuesses`), `RetryStays` (`RetryKeepsFile`), and about `resolve_path` alone `FirstHit` (it
returns the longest end of the pick that is a file) and `FileIsKept` (a file is mapped to
itself). `LeastExists` gets the first hit from the well-founded order of the naturals. The
invariant adds `Placed` (there is an attempt left before a verdict, and what a node reads has been
written) and `FullFileTested` (the tested content, when the tree took the full file). `TestedTree` says what each way of
testing leaves in the tree, a diff that failed half-way included.

### The pipeline and its memory

`PipelineProofs.tla`, for any number of reports, crashes, seeds and attempts:

| theorem | under | states |
|---|---|---|
| `ReferencesAreKept` | every fault | `ReferencesHold` |
| `MemoryIsComplete` | every fault | `ResolvedIsRemembered` |
| `OneCrashOnePull` | no failing Redis command; no expiry within the window | `OnePullPerCrash` |
| `PipelinesAreBounded` | every fault | a pipeline has at most `MaxAttempts` + 5 steps ahead in a delivery, a call that was given up included; only the death of its worker gives any back |

`HandlerHasEffect` cuts each of the eleven steps of a handler down to what it does to the request and its key.
`WorkHasEffect` and `WorkMoves` do the same for the steps of `Repair`. The invariant is then a chain from the request to the memory: a pipeline is enqueued late in its
request (`Enqueued`) and its id recorded after that (`Recorded`); the log is there before (`Stored`); a run and its late call belong to a
task and a PR to a pipeline (`Working`); the row of the passing run is there before the PR (`Remembered`). `OnePullPerCrash` needs
`OneClaim` on top: whoever has a pipeline, or may still get one, won the key, and two winners of one key are
the same request. A redelivery adds runs to the incident, not claims, and the branch carries one PR.
`LoopImplementsRepair` makes this hold of the real loop: each of the runs composed here is an outline of one.

### Only model-checked

Liveness, which TLAPS does not reach (fairness and `ENABLED`): `EventuallySettled`, `VerifiedIsAnswered`,
`EveryRequestAnswered`, `SlotsComeBack`, `QaNodeEnds`, `EveryReportIsSettled`. Their safety half is proved: `RunIsBounded`,
`WorkIsBounded`, `AttemptIsBounded` and `PipelinesAreBounded` give each of these systems a number of steps
that every step of its own uses up, so that a system that goes on reaches its end. That it goes on is what fairness
and TLC add. `KeysTellCrashesApart`, what `dedup_key` computes, is left to TLC as well. The other properties of the passing runs are all
proved. That several repairs, each of which implements `Repair` for
its incident, implement it together is not proved as a theorem: `Repair`'s actions write the entries of one incident each.

## 5. Where code and documentation differ

Shown by a violation run:

1. *Duplicate of nothing.* The error path of `ingest` gives the slot back but keeps the
   dedup key (`main.py:104`).
2. *Untested patch.* The answer of `apply_patch` is dropped (`nodes.py:136`).
3. *Base not pinned.* `README.md:93` promises "base-SHA-pinned writes", and `mcp_clients.py:186-187` says the same of
   `put_file`. The sha is read right before the write (`mcp_clients.py:199`), from a branch that is cut after the
   attempts: what changed on the default branch since `dev_node` read the file is replaced.
4. *Resolutions without their PR.* `get_similar_resolutions` promises "the fixing PRs" (`logs_db/server.py:57`);
   `store_harness_result` runs before there is one and nothing updates the row (`nodes.py:181`).

Met while modelling, reproducible in the models, without a run of their own:

- *Resume.* `agents/graph.py:7-8` and `README.md:59-60` promise that a restarted worker resumes
  mid-incident. `ainvoke` with a fresh input starts at triage with a retry budget of its own.
- *Second PR.* Only open PRs are looked for (`mcp_clients.py:204-205`): after a merge or close a redelivered run opens another.
- *Timeout counted twice.* `graph.py:94` recognises an error by its text, and the text of a
  `TimeoutError` is empty.
- *A key that never expires.* `SET ... KEEPTTL`, which is to preserve the TTL, creates a key without one if it is gone or was never
  set (`ratelimit.py:104`). `LastingKeysNameAPipeline` says which keys these can be.
- *A run that gave up and is not counted.* `db.close` is not protected in the `finally` block (`graph.py:91`): when it raises, the count after
  it is skipped. `NoSilentEnd` is about runs that return.
- *Keys that are not the crash's.* An address takes the hex digits that follow it, so `0x10x2` and `0x20x3`, two addresses each, get different
  keys; a service with a colon can share a key with another service and message (`ratelimit.py:67-75`).
- *A working copy that stays.* `rmtree(ignore_errors=True)` does not say that it failed (`harness/server.py:213`).
- *Leaked stack.* A `spin_up_stack` that raises or is given up leaves its stack (`nodes.py:133`).
- `dev_node` presents any `harness_result` in the state as the previous patch's failure (`nodes.py:74-76`), also the
  passing one of an earlier delivery.
- `PIPELINE_FAILURES` ("ended without a PR", `metrics.py:50`) also counts runs whose PR is open: `mark_resolved` fails after it, or a timed-out
  call lands.
- `tasks.py:25` says that a task is re-queued if a worker dies; that needs `task_reject_on_worker_lost` when only the pool process dies.
- A redelivered run pushes its new patch to the branch, but the open PR keeps the body of the old one.
- The outcome `max_retry` needs `retry_attempt >= 3`, and the default budget ends at 2 (`metrics.py:61`).
- Failing open admits one extra pipeline per error, not one (`ratelimit.py:11`).
- A worker that dies after `release_slot` and before the acknowledgement releases again when redelivered.
- Requests about to be rolled back or deduplicated are in the counter too, so a request may be refused while a slot is free.
- `teardown_clean` is always stored as true (`nodes.py:176`), and `harness_results.pr_url` is only written by the seed script.
- Every failure of `create_git_ref` is taken for an existing branch (`mcp_clients.py:180-181`).
- `get_similar_resolutions` asks for a resolved incident and a passed row: a passing attempt that the coverage gate refused, or
  that a dead delivery left, comes back as a resolution. No node calls this tool or
  `get_error_frequency`; triage uses `semantic_search_logs`.
- `semantic_search_logs` speaks of historical logs, and triage's prompt of past incidents: the present incident's own row is among them, as the nearest.
- The scope guard sees only `+++ b/` lines, so a fallback diff may delete any file, or edit one under another header; an empty original has no growth limit (`patching.py:34-38`).
- Without a full file the diff is tested on the harness's checkout and applied again to the default branch as it is when the PR is made.
- The conftest is written to `tests/conftest.py` of the tested tree and is not pushed; the guard lets a diff name any file that ends in `conftest.py`.
- A pick with a wrong directory resolves to a file of its last segments, down to one at the root (`mcp_clients.py:109-111`).

## 6. Not modelled, and why

- The text of prompts, answers, logs and PR bodies; pydantic's validation.
- Read-only endpoints, the API key check, histograms, tracing, start-up, infrastructure files, the sample
  target: no state that another part relies on.
- The order of search results: the HNSW index is approximate and applies the filter after the search, so a query returns some of the
  rows it ranges over. `get_error_frequency` counts stored logs.
- How `git apply` and `patch` match hunks: a diff applies, in part with `patch`, or does not. The `.rej` files of a failing one.
- The connection pool (`database.py:40,51`): two first statements at once create two pools, and a close that
  raises (`CloseRaises`) also leaves a pool of a closed loop to the next task. A statement of the models succeeds or raises.
- langgraph's limit of 25 steps ends a run with an exception, as any `Raise` does. `NodesBounded` counts what it counts: the limit is
  reached with `max_retries` of 12 or more, and `BelowRecursionLimit` shows that it is not with fewer.
- Two executions of one incident at once are in `GithubClient`; their checkpoints and rows are not: `SelfHealLoop`
  and `Pipeline` have one execution of an incident at a time.
- Behaviour of libraries the models rely on: langgraph restarts a thread at the entry point when it is given an input, and writes checkpoints in the
  background and on exit; an MCP tool that raises is answered with a text; `asyncio.run` joins executor threads; Celery acknowledges a task whose pool process
  died; GitHub refuses a write whose sha is not the file's, and a second open PR of a head.

## 7. Plan

Done, in this order: `SelfHealLoop` with its proofs and `GatedRepair`; `Admission`; `QaHarness`; `GithubClient`;
`PatchFlow`; `DedupKey`; `Pipeline`; the proofs of all of them; `CrashReports`, `Intake` and
the bounds on every run; `Repair`, which ties `Pipeline` to the loop. What is left:

1. Two executions of one incident in `SelfHealLoop`: which checkpoint survives, and whose rows the router of each reads.
2. `qa_node`'s attempt and `pr_node`'s calls in `SelfHealLoop` as the abstractions of `QaHarness` and `GithubClient`, shown as `Repair`
   is for the loop.
3. What `dedup_key` computes on every delimited text, once the prover can do induction over it.
4. The connection pool and the embedding model's loading in the API process.
