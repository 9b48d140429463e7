----------------------- MODULE SelfHealLoopRefinement -----------------------
(***************************************************************************)
(* SelfHealLoop implements GatedRepair and Repair, for every value of the  *)
(* constants: its initial state is one of theirs, and every step it takes  *)
(* from a state of the inductive invariant is a step of theirs or changes  *)
(* nothing there.                                                          *)
(***************************************************************************)
EXTENDS SelfHealLoopProofs

(***************************************************************************)
(* The gated repair                                                        *)
(***************************************************************************)

\* Only a new delivery or a new row changes the attempts and what they approved.
LEMMA SameAttempts ==
    ASSUME UNCHANGED <<rows, deliveries>>
    PROVE  UNCHANGED <<Tried, Won, Approved>>
BY DEF Tried, Won, Approved, PassingRows

LEMMA VerifiedIsApproved ==
    ASSUME NEW p, Verified(rows, p)
    PROVE  p \in Approved
BY DEF Verified, Approved, PassingRows

\* What changes neither rows nor GitHub nor the incident is a stutter.
LEMMA Stutter ==
    ASSUME UNCHANGED <<rows, deliveries, branch, openPR, opened, resolved>>
    PROVE  UNCHANGED Promise!vars
BY SameAttempts DEF Promise!vars

\* Before the row of an attempt is written, the attempts of this delivery are
\* the ones the retry counter counts, and none of them passed.
LEMMA AttemptsAreCounted ==
    ASSUME IInv, phase = "store_harness_result"
    PROVE  /\ Tried = 0..(state.retry_count - 1)
           /\ ~Won
<1> DEFINE n == state.retry_count
<1>1. /\ n \in Nat
      /\ \A r \in rows : r.attempt \in Nat
  BY DEF IInv, TypeInv, TypeOK, AgentStates, Rows
<1>2. /\ AllFailed(rows, deliveries, n)
      /\ \A r \in rows : r.delivery = deliveries => r.attempt < n
      /\ RetryFollowsFailure
  BY DEF IInv, Trail, LoopPhases
<1>3. ASSUME NEW a \in Tried PROVE a \in 0..(n - 1)
  BY <1>1, <1>2, <1>3 DEF Tried
<1>4. ASSUME NEW a \in 0..(n - 1) PROVE a \in Tried
  BY <1>2, <1>4 DEF AllFailed, Tried
<1>5. ASSUME NEW r \in rows, r.delivery = deliveries PROVE ~(r.passed /\ r.covered)
  <2>1. r.attempt \in 0..(n - 1)
    BY <1>1, <1>2, <1>5
  <2>2. PICK q \in rows : /\ q.delivery = deliveries
                          /\ q.attempt = r.attempt
                          /\ ~(q.passed /\ q.covered)
    BY <1>2, <2>1 DEF AllFailed
  <2>3. q = r
    BY <1>2, <1>5, <2>2 DEF RetryFollowsFailure
  <2>4. QED
    BY <2>2, <2>3
<1>6. QED
  BY <1>3, <1>4, <1>5 DEF Won, PassingRows

\* Writing the row is the abstract attempt.
LEMMA NewRowIsAttempt ==
    ASSUME IInv, phase = "store_harness_result", rows' = rows \cup {HarnessRow},
           UNCHANGED <<deliveries, branch, openPR, opened, resolved>>
    PROVE  Promise!Next
<1> DEFINE n      == state.retry_count
           passed == verdict.passed /\ verdict.covered
<1>1. /\ n \in 0..(MaxAttempts - 1)
      /\ n \in Nat
      /\ state.patch \in Patches
      /\ verdict \in Verdicts
  BY AttemptsFacts DEF IInv, TypeInv, TypeOK, Control, AgentStates, LoopPhases
<1>2. /\ HarnessRow.delivery = deliveries
      /\ HarnessRow.attempt = n
      /\ HarnessRow.patch = state.patch
      /\ HarnessRow.passed = verdict.passed
      /\ HarnessRow.covered = verdict.covered
  BY DEF HarnessRow
<1>3. Tried = 0..(n - 1) /\ ~Won
  BY AttemptsAreCounted
<1>4. Tried' = 0..n
  <2>1. Tried' = Tried \cup {n}
    BY <1>2 DEF Tried
  <2>2. QED
    BY <1>1, <1>3, <2>1
<1>5. Won' = passed
  <2>1. passed \in BOOLEAN
    BY <1>1 DEF Verdicts
  <2>2. Won' <=> passed
    BY <1>2, <1>3 DEF Won, PassingRows
  <2>3. QED
    BY <2>1, <2>2 DEF Won
<1>6. Approved' = IF passed THEN Approved \cup {state.patch} ELSE Approved
  BY <1>2 DEF Approved, PassingRows
<1>7. Promise!Attempt(n, state.patch, passed)
  BY <1>3, <1>4, <1>5, <1>6 DEF Promise!Attempt
<1>8. passed \in BOOLEAN
  BY <1>1 DEF Verdicts
<1>9. QED
  BY <1>1, <1>7, <1>8 DEF Promise!Next

\* What a GitHub tool does with a verified patch is a step of the repair.
LEMMA GithubStep ==
    ASSUME IInv, NEW op, NEW p \in Patches, Verified(rows, p), GithubEffect(op, p),
           UNCHANGED <<rows, deliveries, resolved>>
    PROVE  Promise!Next \/ UNCHANGED Promise!vars
<1>1. /\ UNCHANGED <<Tried, Won, Approved>>
      /\ p \in Approved
      /\ opened \in Nat
  BY SameAttempts, VerifiedIsApproved DEF IInv, TypeInv, TypeOK
<1>2. CASE create_branch
  BY <1>1, <1>2 DEF create_branch, Promise!Next, Promise!CutBranch, Promise!vars
<1>3. CASE put_file(p)
  BY <1>1, <1>3 DEF put_file, Promise!Next, Promise!Publish
<1>4. CASE create_pull_request(p) /\ openPR = None
  BY <1>1, <1>4 DEF create_pull_request, Promise!Next, Promise!Propose
<1>5. CASE create_pull_request(p) /\ openPR # None
  BY <1>1, <1>5 DEF create_pull_request, Promise!vars
<1>6. QED
  BY <1>2, <1>3, <1>4, <1>5 DEF GithubEffect

\* A new delivery starts the attempts over: it has no rows yet.
LEMMA DeliverStartsOver == IInv /\ Deliver => Promise!Next
<1> SUFFICES ASSUME IInv, Deliver PROVE Promise!Next
  OBVIOUS
<1>1. /\ deliveries \in Nat
      /\ \A r \in rows : r.delivery \in Nat /\ r.delivery <= deliveries
  BY DEF IInv, TypeInv, TypeOK, Rows, Trail
<1>2. /\ deliveries' = deliveries + 1
      /\ UNCHANGED <<rows, resolved, branch, openPR, opened>>
  BY DEF Deliver, stored, github
<1>3. \A r \in rows' : r.delivery # deliveries'
  BY <1>1, <1>2
<1>4. Tried' = {} /\ Won' = FALSE /\ Approved' = Approved
  BY <1>2, <1>3 DEF Tried, Won, Approved, PassingRows
<1>5. QED
  BY <1>2, <1>4 DEF Promise!Next, Promise!StartOver

\* The incident is only marked after a PR was opened.
LEMMA MarkIsResolve ==
    ASSUME IInv, phase = "mark_resolved", resolved' = TRUE,
           UNCHANGED <<rows, deliveries, branch, openPR, opened>>
    PROVE  Promise!Next
<1>1. opened > 0
  BY DEF IInv, Outcome
<1>2. QED
  BY <1>1, SameAttempts DEF Promise!Next, Promise!Resolve

LEMMA NextRefines == IInv /\ [Next]_vars => [Promise!Next]_(Promise!vars)
<1> SUFFICES ASSUME IInv, [Next]_vars PROVE Promise!Next \/ UNCHANGED Promise!vars
  OBVIOUS
<1>1. TypeOK /\ Control /\ Gate
  BY DEF IInv, TypeInv
\* In pr_node the patch is verified, and the verdict in the state is on it.
<1>2. ASSUME phase \in PrPhases
      PROVE  /\ state.patch \in Patches
             /\ Verified(rows, state.patch)
             /\ state.harness_result.patch = state.patch
  BY <1>1, <1>2, NewestIsVerified DEF TypeOK, AgentStates, Control, Gate
<1>3. CASE Deliver
  BY <1>3, DeliverStartsOver
<1>4. CASE StoreHarnessResult
  BY <1>4, NewRowIsAttempt DEF StoreHarnessResult, github
<1>5. CASE CreateBranch
  <2>1. GithubEffect("create_branch", state.patch)
    BY <1>5 DEF CreateBranch, GithubEffect
  <2>2. QED
    BY <1>2, <1>5, <2>1, GithubStep DEF CreateBranch, PrPhases, stored
<1>6. CASE PutFile
  <2>1. GithubEffect("put_file", state.patch)
    BY <1>6 DEF PutFile, GithubEffect
  <2>2. QED
    BY <1>2, <1>6, <2>1, GithubStep DEF PutFile, PrPhases, stored
<1>7. CASE CreatePullRequest
  <2>1. GithubEffect("create_pull_request", state.patch)
    BY <1>2, <1>7 DEF CreatePullRequest, GithubEffect, PrPhases
  <2>2. QED
    BY <1>2, <1>7, <2>1, GithubStep DEF CreatePullRequest, PrPhases, stored
<1>8. CASE MarkResolved
  BY <1>8, MarkIsResolve DEF MarkResolved, github
<1>9. CASE RaiseAfterCommit
  <2>1. CASE phase = "store_harness_result"
    BY <1>9, <2>1, NewRowIsAttempt DEF RaiseAfterCommit, github
  <2>2. CASE phase = "mark_resolved"
    BY <1>9, <2>2, MarkIsResolve DEF RaiseAfterCommit, github
  <2>3. QED
    BY <1>9, <2>1, <2>2 DEF RaiseAfterCommit
<1>10. CASE RaiseAfterEffect
  BY <1>2, <1>10, GithubStep DEF RaiseAfterEffect, stored
<1>11. CASE ThreadLands
  <2>1. thread.patch \in Patches /\ Verified(rows, thread.patch)
    BY <1>1, <1>11 DEF ThreadLands, TypeOK, Gate, ShippedWasVerified
  <2>2. QED
    BY <1>11, <2>1, GithubStep DEF ThreadLands, run, stored
<1>12. CASE HumanCloses
  BY <1>12, SameAttempts DEF HumanCloses, run, stored, Promise!Next, Promise!Withdraw
<1>13. CASE \/ Checkpoint \/ Triage \/ ReturnVerdict \/ Raise \/ GithubTimeout \/ ThreadFails
            \/ Finish \/ CloseRaises \/ Ack \/ WorkerDies \/ ChildKilled \/ UNCHANGED vars
            \/ (\E p \in Patches : Dev(p)) \/ (\E v \in Verdicts : Qa(v))
  <2>1. UNCHANGED <<rows, deliveries, branch, openPR, opened, resolved>>
    BY <1>13 DEF Checkpoint, Triage, ReturnVerdict, Raise, GithubTimeout, ThreadFails, Finish,
       CloseRaises, Ack, WorkerDies, ChildKilled, vars, Dev, Qa, run, stored, github
  <2>2. QED
    BY <2>1, Stutter
<1>14. QED
  BY <1>3, <1>4, <1>5, <1>6, <1>7, <1>8, <1>9, <1>10, <1>11, <1>12, <1>13 DEF Next, Worker

LEMMA InitRefines == Init => Promise!Init
<1> SUFFICES ASSUME Init PROVE Promise!Init
  OBVIOUS
<1>1. Tried = {} /\ Won = FALSE /\ Approved = {}
  BY DEF Init, Tried, Won, Approved, PassingRows
<1>2. QED
  BY <1>1 DEF Init, Promise!Init

\* graph.py and nodes.py keep the promise of a gated repair: whatever crashes,
\* is redelivered or lands late, the loop does nothing GatedRepair forbids.
THEOREM LoopImplementsGatedRepair == Spec => ImplementsGatedRepair
<1>1. Init => Promise!Init
  BY InitRefines
<1>2. IInv /\ [Next]_vars => [Promise!Next]_(Promise!vars)
  BY NextRefines
<1>3. QED
  BY <1>1, <1>2, Invariance, PTL DEF Spec, ImplementsGatedRepair, Promise!Spec

-----------------------------------------------------------------------------
(***************************************************************************)
(* The outline of the repair, of which Pipeline is composed                *)
(***************************************************************************)
AttemptPhases == {"triage", "dev", "qa", "store_harness_result"}

\* What Repair sees of the loop.
Outlined == <<OutlineTask, OutlineNode, OutlineTries, OutlineLate,
              rows, resolved, opened, deliveries>>

LEMMA OutlineStutter ==
    ASSUME UNCHANGED Outlined
    PROVE  UNCHANGED Outline!vars
<1>1. {OutlineRow(r) : r \in rows}' = {OutlineRow(r) : r \in rows}
  BY DEF Outlined, OutlineRow
<1>2. QED
  BY <1>1 DEF Outlined, Outline!vars, Outline!tables, Outline!worker

\* The functions of the outline have one argument.
LEMMA OnePoint ==
    ASSUME NEW x, NEW y
    PROVE  /\ [i \in {LogId} |-> x][LogId] = x
           /\ [[i \in {LogId} |-> x] EXCEPT ![LogId] = y] = [i \in {LogId} |-> y]
OBVIOUS

LEMMA OutlineGoto ==
    ASSUME NEW label, NEW n, OutlineNode' = label, OutlineTries' = n
    PROVE  Outline!Goto(LogId, label, n)
BY OnePoint DEF Outline!Goto

\* Where the outline is in each phase, before and after a step.
OutlineFacts ==
    /\ phase \in AttemptPhases =>
          OutlineNode = "attempt" /\ OutlineTries = state.retry_count
    /\ phase \in PrPhases => OutlineNode = "create_pull_request" /\ OutlineTries = 0
    /\ phase = "mark_resolved" => OutlineNode = "mark_resolved" /\ OutlineTries = 0
    /\ phase = "finish" => OutlineNode = "end" /\ OutlineTries = 0
    /\ phase \in NodePhases \cup {"finish"} => OutlineTask = "running"
    /\ phase \in {"returned", "raised"} => OutlineTask = "released"
    /\ phase \in {"queued", "lost"} => OutlineTask = phase
    /\ phase \in {"acked", "failed"} => OutlineTask = "done"
    /\ phase \in {"queued", "lost", "returned", "raised", "acked", "failed"} =>
          OutlineNode = "idle" /\ OutlineTries = 0

LEMMA OutlineAt == OutlineFacts /\ OutlineFacts'
BY DEF OutlineFacts, OutlineNode, OutlineTries, OutlineTask, Decided, AttemptPhases,
       NodePhases, PrPhases

\* The row that Repair stores in the attempt that the loop is in.
LEMMA OutlineStores ==
    ASSUME IInv, phase = "store_harness_result", rows' = rows \cup {HarnessRow},
           UNCHANGED <<resolved, opened>>
    PROVE  Outline!StoreRow(LogId, verdict.passed, verdict.passed /\ verdict.covered)
<1>1. OutlineTries = state.retry_count
  BY OutlineAt DEF OutlineFacts, AttemptPhases
<1>2. Outline!Row(LogId, verdict.passed, verdict.passed /\ verdict.covered)
        = OutlineRow(HarnessRow)
  BY <1>1, OnePoint DEF Outline!Row, OutlineRow, HarnessRow
<1>3. {OutlineRow(r) : r \in rows}'
        = {OutlineRow(r) : r \in rows} \cup {OutlineRow(HarnessRow)}
  BY DEF OutlineRow
<1>4. QED
  BY <1>2, <1>3 DEF Outline!StoreRow

\* The verdict of the attempt, and the router's choice, are settled by then.
LEMMA OutlineDecides ==
    ASSUME IInv, StoreHarnessResult
    PROVE  Outline!AfterAttempt(LogId, verdict.passed /\ verdict.covered)
<1> DEFINE good == verdict.passed /\ verdict.covered
           n    == state.retry_count
<1>1. /\ phase = "store_harness_result" /\ phase' = "return_verdict"
      /\ UNCHANGED <<state, verdict>>
      /\ TypeInv
  BY DEF StoreHarnessResult, IInv
<1>2. /\ n \in 0..(MaxAttempts - 1)
      /\ QaOutput.retry_count = n + 1
      /\ Good(QaOutput.harness_result) <=> good
  BY <1>1, QaTypes, AttemptsFacts DEF TypeInv, TypeOK, Control, AgentStates, LoopPhases, Good
<1>3. n + 1 < MaxRetries <=> n + 1 < MaxAttempts
  BY <1>2, AttemptsFacts DEF MaxAttempts
<1>4. Decided' = IF good THEN "create_branch"
                 ELSE IF n + 1 < MaxAttempts THEN "dev" ELSE "finish"
  BY <1>1, <1>2, <1>3 DEF Decided, QaOutput, route_after_qa
<1>5. /\ OutlineNode' = IF good THEN "create_pull_request"
                        ELSE IF n + 1 < MaxAttempts THEN "attempt" ELSE "end"
      /\ OutlineTries' = IF ~good /\ n + 1 < MaxAttempts THEN n + 1 ELSE 0
  BY <1>1, <1>4 DEF OutlineNode, OutlineTries, PrPhases
<1>6. OutlineTries = n
  BY <1>1, OutlineAt DEF OutlineFacts, AttemptPhases
<1>7. QED
  BY <1>5, <1>6, OutlineGoto, OnePoint DEF Outline!AfterAttempt

\* GitHub's answer to create_pull_request, by the open PR of the branch.
LEMMA OutlineOpens ==
    ASSUME OnePR, NEW p, create_pull_request(p), UNCHANGED <<rows, resolved>>
    PROVE  Outline!OpenPull(LogId)
<1>1. opened' = IF opened = 0 THEN 1 ELSE opened
  BY DEF OnePR, create_pull_request
<1>2. [i \in {LogId} |-> opened]' = [i \in {LogId} |-> opened']
  OBVIOUS
<1>3. UNCHANGED Outline!tables
  BY DEF Outline!tables, OutlineRow
<1>4. QED
  BY <1>1, <1>2, <1>3, OnePoint DEF Outline!OpenPull

LEMMA OutlineResolves ==
    ASSUME resolved' = TRUE, UNCHANGED <<rows, opened>>
    PROVE  Outline!Resolve(LogId)
<1>1. {OutlineRow(r) : r \in rows}' = {OutlineRow(r) : r \in rows}
  BY DEF OutlineRow
<1>2. [i \in {LogId} |-> IF resolved THEN "resolved" ELSE "open"]'
        = [i \in {LogId} |-> "resolved"]
  OBVIOUS
<1>3. QED
  BY <1>1, <1>2, OnePoint DEF Outline!Resolve

\* The tables and GitHub as the outline has them, in a step that leaves them.
LEMMA OutlineKeeps ==
    /\ UNCHANGED <<rows, resolved>> => UNCHANGED Outline!tables
    /\ UNCHANGED opened => UNCHANGED [i \in {LogId} |-> opened]
    /\ UNCHANGED thread => UNCHANGED {i \in {LogId} : OutlineLate}
    /\ UNCHANGED deliveries => UNCHANGED [i \in {LogId} |-> deliveries]
    /\ UNCHANGED OutlineTask => UNCHANGED [i \in {LogId} |-> OutlineTask]
BY DEF Outline!tables, OutlineRow, OutlineLate

\* A node of the run ends in an exception, and the run with it.
LEMMA OutlineRaises ==
    ASSUME phase \in NodePhases, phase' = "finish", UNCHANGED deliveries,
           OutlineNode # "end",
           \/ UNCHANGED <<rows, resolved, opened, OutlineLate>>
           \/ /\ OutlineNode = "attempt"
              /\ verdict.passed \in BOOLEAN /\ verdict.covered \in BOOLEAN
              /\ Outline!StoreRow(LogId, verdict.passed, verdict.passed /\ verdict.covered)
              /\ UNCHANGED thread
           \/ OutlineNode = "create_pull_request" /\ Outline!OpenPull(LogId) /\ UNCHANGED thread
           \/ /\ OutlineNode = "create_pull_request"
              /\ UNCHANGED <<rows, resolved, opened>>
              /\ {i \in {LogId} : OutlineLate}' = {i \in {LogId} : OutlineLate} \cup {LogId}
           \/ OutlineNode = "mark_resolved" /\ Outline!Resolve(LogId) /\ UNCHANGED thread
    PROVE  Outline!Raise(LogId)
<1>1. /\ OutlineNode \in {"attempt", "create_pull_request", "mark_resolved"}
      /\ Outline!Goto(LogId, "end", 0)
      /\ UNCHANGED [i \in {LogId} |-> OutlineTask]
      /\ UNCHANGED [i \in {LogId} |-> deliveries]
  <2>1. OutlineNode \in {"attempt", "create_pull_request", "mark_resolved", "end"}
    <3>1. CASE phase = "return_verdict"
      BY <3>1 DEF OutlineNode, Decided, route_after_qa, PrPhases
    <3>2. CASE phase # "return_verdict"
      BY <3>2, OutlineAt DEF OutlineFacts, NodePhases, AttemptPhases
    <3>3. QED
      BY <3>1, <3>2
  <2>2. OutlineNode' = "end" /\ OutlineTries' = 0 /\ OutlineTask' = OutlineTask
    BY OutlineAt DEF OutlineFacts
  <2>3. QED
    BY <2>1, <2>2, OutlineGoto, OutlineKeeps
<1>2. [i \in {LogId} |-> OutlineNode][LogId] = OutlineNode
  BY OnePoint
<1> USE OutlineKeeps
<1>3. CASE UNCHANGED <<rows, resolved, opened, OutlineLate>>
  BY <1>1, <1>2, <1>3 DEF Outline!Raise
<1>4. CASE /\ OutlineNode = "attempt"
           /\ verdict.passed \in BOOLEAN /\ verdict.covered \in BOOLEAN
           /\ Outline!StoreRow(LogId, verdict.passed, verdict.passed /\ verdict.covered)
           /\ UNCHANGED thread
  <2>1. \E passed, covered \in BOOLEAN :
           (covered => passed) /\ Outline!StoreRow(LogId, passed, covered)
    BY <1>4
  <2>2. QED
    BY <1>1, <1>2, <1>4, <2>1 DEF Outline!Raise
<1>5. CASE OutlineNode = "create_pull_request" /\ Outline!OpenPull(LogId) /\ UNCHANGED thread
  BY <1>1, <1>2, <1>5 DEF Outline!Raise
<1>6. CASE /\ OutlineNode = "create_pull_request"
           /\ UNCHANGED <<rows, resolved, opened>>
           /\ {i \in {LogId} : OutlineLate}' = {i \in {LogId} : OutlineLate} \cup {LogId}
  BY <1>1, <1>2, <1>6 DEF Outline!Raise
<1>7. CASE OutlineNode = "mark_resolved" /\ Outline!Resolve(LogId) /\ UNCHANGED thread
  BY <1>1, <1>2, <1>7 DEF Outline!Raise
<1>8. QED
  BY <1>3, <1>4, <1>5, <1>6, <1>7

LEMMA OutlineOfPhase ==
    ASSUME UNCHANGED <<phase, state, verdict>>
    PROVE  UNCHANGED <<OutlineTask, OutlineNode, OutlineTries>>
<1>1. UNCHANGED QaOutput
  BY Zenon DEF QaOutput
<1>2. UNCHANGED Decided
  BY <1>1 DEF Decided, route_after_qa
<1>3. QED
  BY <1>2 DEF OutlineTask, OutlineNode, OutlineTries

\* A call that was given up opens the PR after all, or nothing is left of it.
LEMMA OutlineThread ==
    ASSUME OnePR, ThreadLands \/ ThreadFails
    PROVE  Outline!Next \/ UNCHANGED Outline!vars
<1>1. /\ UNCHANGED <<run, state, stored>> /\ thread' = None
      /\ {i \in {LogId} : OutlineLate}' = {}
      /\ UNCHANGED <<OutlineTask, OutlineNode, OutlineTries>>
  <2>1. UNCHANGED <<phase, state, verdict>> /\ UNCHANGED <<run, state, stored>> /\ thread' = None
    BY DEF ThreadLands, ThreadFails, run
  <2>2. QED
    BY <2>1, OutlineOfPhase DEF OutlineLate
<1>2. CASE OutlineLate
  <2>1. {i \in {LogId} : OutlineLate} = {LogId}
    BY <1>2
  <2>2. Outline!OpenPull(LogId) \/ UNCHANGED <<Outline!tables, [i \in {LogId} |-> opened]>>
    <3>1. CASE ThreadLands
      BY <1>1, <1>2, <3>1, OutlineOpens DEF ThreadLands, GithubEffect, OutlineLate, stored
    <3>2. CASE ThreadFails
      BY <1>1, <3>2, OutlineKeeps DEF ThreadFails, github, stored
    <3>3. QED
      BY <3>1, <3>2
  <2>3. Outline!LateCall(LogId)
    BY <1>1, <2>1, <2>2, OutlineKeeps DEF Outline!LateCall, run
  <2>4. QED
    BY <2>3 DEF Outline!Next, Outline!Proceed
<1>3. CASE ~OutlineLate
  <2>1. OutlineLate' = OutlineLate
    BY <1>1, <1>3 DEF OutlineLate
  <2>2. UNCHANGED opened
    BY <1>3 DEF ThreadLands, ThreadFails, GithubEffect, create_branch, put_file, OutlineLate,
                github
  <2>3. QED
    BY <1>1, <2>1, <2>2, OutlineStutter DEF Outlined, run, stored
<1>4. QED
  BY <1>2, <1>3

\* The task's own steps, and the deaths of its worker.
LEMMA OutlineOfTask ==
    ASSUME IInv, Deliver \/ Finish \/ CloseRaises \/ Ack \/ WorkerDies \/ ChildKilled
    PROVE  Outline!Next
<1> USE OnePoint, OutlineKeeps, OutlineGoto, OutlineAt DEF OutlineFacts
<1>1. CASE Deliver
  <2>1. /\ phase = "queued" /\ phase' = "triage" /\ deliveries' = deliveries + 1
        /\ UNCHANGED <<rows, resolved, opened, thread>>
    BY <1>1 DEF Deliver, stored, github
  <2>2. state'.retry_count = 0
    BY <1>1 DEF Deliver, WithInput, IInv, TypeInv, TypeOK, AgentStates
  <2>3. /\ OutlineTask = "queued" /\ OutlineTask' = "running"
        /\ OutlineNode' = "attempt" /\ OutlineTries' = 0
    BY <2>1, <2>2 DEF AttemptPhases, NodePhases
  <2>4. /\ [i \in {LogId} |-> OutlineTask]'
             = [[i \in {LogId} |-> OutlineTask] EXCEPT ![LogId] = "running"]
        /\ [i \in {LogId} |-> deliveries]'
             = [[i \in {LogId} |-> deliveries] EXCEPT ![LogId] = @ + 1]
    BY <2>1, <2>3
  <2>5. Outline!Start(LogId)
    BY <2>1, <2>3, <2>4 DEF Outline!Start
  <2>6. QED
    BY <2>5 DEF Outline!Next
<1>2. CASE Finish \/ CloseRaises
  <2>1. /\ phase = "finish" /\ phase' \in {"returned", "raised"}
        /\ UNCHANGED <<deliveries, rows, resolved, opened, thread>>
    BY <1>2 DEF Finish, CloseRaises, github
  <2>2. /\ OutlineTask = "running" /\ OutlineTask' = "released"
        /\ OutlineNode = "end" /\ OutlineNode' = "idle" /\ OutlineTries' = 0
    BY <2>1
  <2>3. Outline!End(LogId)
    BY <2>1, <2>2 DEF Outline!End
  <2>4. QED
    BY <2>3 DEF Outline!Next
<1>3. CASE Ack
  <2>1. /\ phase \in {"returned", "raised"} /\ phase' \in {"acked", "failed"}
        /\ thread = None
        /\ UNCHANGED <<deliveries, state, verdict, rows, resolved, opened, thread>>
    BY <1>3 DEF Ack, stored, github
  <2>2. /\ OutlineTask = "released" /\ OutlineTask' = "done"
        /\ OutlineNode' = OutlineNode /\ OutlineTries' = OutlineTries
        /\ LogId \notin {i \in {LogId} : OutlineLate}
    BY <2>1 DEF OutlineLate
  <2>3. Outline!Ack(LogId)
    BY <2>1, <2>2 DEF Outline!Ack, Outline!worker
  <2>4. QED
    BY <2>3 DEF Outline!Next
<1>4. CASE WorkerDies \/ ChildKilled
  <2>1. /\ phase \in Running /\ phase' \in {"queued", "lost"} /\ thread' = None
        /\ UNCHANGED <<deliveries, rows, resolved, opened>>
    BY <1>4 DEF WorkerDies, ChildKilled, stored, github
  <2>2. /\ OutlineTask \in {"running", "released"} /\ OutlineTask' = phase'
        /\ OutlineNode' = "idle" /\ OutlineTries' = 0
        /\ {i \in {LogId} : OutlineLate}' = {i \in {LogId} : OutlineLate} \ {LogId}
    BY <2>1 DEF Running, OutlineLate
  <2>3. Outline!WorkerDies(LogId)
    BY <2>1, <2>2 DEF Outline!WorkerDies
  <2>4. QED
    BY <2>3 DEF Outline!Next
<1>5. QED
  BY <1>1, <1>2, <1>3, <1>4

\* What qa_node returns and where the router goes was settled with the row.
LEMMA OutlineOfReturn ==
    ASSUME IInv, ReturnVerdict
    PROVE  UNCHANGED <<OutlineTask, OutlineNode, OutlineTries>>
<1>1. /\ phase = "return_verdict" /\ phase' = Decided /\ state' = QaOutput
      /\ Decided \in {"create_branch", "dev", "finish"}
      /\ QaOutput.retry_count = state.retry_count + 1
  BY QaTypes DEF ReturnVerdict, Decided, route_after_qa, IInv
<1>2. Decided' = Decided
  BY <1>1 DEF Decided
<1>3. OutlineNode' = OutlineNode
  BY <1>2 DEF OutlineNode
<1>4. OutlineTask' = OutlineTask
  BY <1>1, OutlineAt DEF OutlineFacts, NodePhases, PrPhases
<1>5. OutlineTries' = OutlineTries
  BY <1>1, <1>3 DEF OutlineTries
<1>6. QED
  BY <1>3, <1>4, <1>5

\* The steps in between, which Repair does not have.
LEMMA OutlineWaits ==
    ASSUME IInv,
           \/ Checkpoint \/ Triage \/ ReturnVerdict \/ CreateBranch \/ PutFile
           \/ \E p \in Patches : Dev(p)
           \/ \E v \in Verdicts : Qa(v)
    PROVE  UNCHANGED Outline!vars
<1> USE OutlineAt DEF OutlineFacts, AttemptPhases, NodePhases, PrPhases
<1>1. UNCHANGED <<rows, resolved, opened, deliveries, thread>>
  BY DEF Checkpoint, Triage, ReturnVerdict, CreateBranch, PutFile, Dev, Qa, create_branch,
         put_file, run, stored, github
<1>2. UNCHANGED <<OutlineTask, OutlineNode, OutlineTries>>
  <2>1. CASE Checkpoint
    BY <2>1, OutlineOfPhase DEF Checkpoint, run
  <2>2. CASE Triage
    <3>1. state'.retry_count = state.retry_count
      BY <2>2 DEF Triage, IInv, TypeInv, TypeOK, AgentStates
    <3>2. QED
      BY <2>2, <3>1 DEF Triage
  <2>3. CASE ReturnVerdict
    BY <2>3, OutlineOfReturn
  <2>4. CASE CreateBranch \/ PutFile
    BY <2>4 DEF CreateBranch, PutFile
  <2>5. ASSUME NEW p \in Patches, Dev(p) PROVE UNCHANGED <<OutlineTask, OutlineNode, OutlineTries>>
    <3>1. state'.retry_count = state.retry_count
      BY <2>5 DEF Dev, IInv, TypeInv, TypeOK, AgentStates
    <3>2. QED
      BY <2>5, <3>1 DEF Dev
  <2>6. ASSUME NEW v \in Verdicts, Qa(v) PROVE UNCHANGED <<OutlineTask, OutlineNode, OutlineTries>>
    BY <2>6 DEF Qa
  <2>7. QED
    BY <2>1, <2>2, <2>3, <2>4, <2>5, <2>6
<1>3. QED
  BY <1>1, <1>2, OutlineStutter DEF Outlined, OutlineLate

\* The steps of the nodes that Repair has.
LEMMA OutlineOfNode ==
    ASSUME IInv, OnePR, StoreHarnessResult \/ CreatePullRequest \/ MarkResolved
    PROVE  Outline!Next
<1> USE OnePoint, OutlineKeeps, OutlineGoto, OutlineAt
    DEF OutlineFacts, AttemptPhases, NodePhases, PrPhases
<1>1. CASE StoreHarnessResult
  <2>1. /\ phase = "store_harness_result" /\ phase' = "return_verdict"
        /\ UNCHANGED <<deliveries, resolved, opened, thread>>
        /\ rows' = rows \cup {HarnessRow}
    BY <1>1 DEF StoreHarnessResult, github
  <2>2. verdict.passed \in BOOLEAN /\ verdict.covered \in BOOLEAN
    BY <2>1 DEF IInv, TypeInv, TypeOK, Control, Verdicts
  <2>3. OutlineNode = "attempt" /\ OutlineTask' = OutlineTask
    BY <2>1
  <2>4. Outline!Attempt(LogId, verdict.passed, verdict.passed /\ verdict.covered)
    <3>1. Outline!StoreRow(LogId, verdict.passed, verdict.passed /\ verdict.covered)
      BY <2>1, OutlineStores
    <3>2. Outline!AfterAttempt(LogId, verdict.passed /\ verdict.covered)
      BY <1>1, OutlineDecides
    <3>3. (verdict.passed /\ (verdict.passed /\ verdict.covered))
            = (verdict.passed /\ verdict.covered)
      BY <2>2
    <3>4. QED
      BY <2>1, <2>3, <3>1, <3>2, <3>3 DEF Outline!Attempt
  <2>5. \E passed, covered \in BOOLEAN :
           (covered => passed) /\ Outline!Attempt(LogId, passed, covered)
    BY <2>2, <2>4
  <2>6. QED
    BY <2>5 DEF Outline!Next, Outline!Proceed
<1>2. CASE CreatePullRequest
  <2>1. /\ phase = "create_pull_request" /\ phase' = "mark_resolved"
        /\ UNCHANGED <<deliveries, rows, resolved, thread>>
    BY <1>2 DEF CreatePullRequest, stored
  <2>2. /\ OutlineNode = "create_pull_request" /\ OutlineTask' = OutlineTask
        /\ OutlineNode' = "mark_resolved" /\ OutlineTries' = 0
    BY <2>1
  <2>3. Outline!OpenPull(LogId)
    BY <1>2, <2>1, OutlineOpens DEF CreatePullRequest
  <2>4. Outline!CreatePullRequest(LogId)
    BY <2>1, <2>2, <2>3 DEF Outline!CreatePullRequest
  <2>5. QED
    BY <2>4 DEF Outline!Next, Outline!Proceed
<1>3. CASE MarkResolved
  <2>1. /\ phase = "mark_resolved" /\ phase' = "finish" /\ resolved' = TRUE
        /\ UNCHANGED <<deliveries, rows, opened, thread>>
    BY <1>3 DEF MarkResolved, github
  <2>2. /\ OutlineNode = "mark_resolved" /\ OutlineTask' = OutlineTask
        /\ OutlineNode' = "end" /\ OutlineTries' = 0
    BY <2>1
  <2>3. Outline!Resolve(LogId)
    BY <2>1, OutlineResolves
  <2>4. Outline!MarkResolved(LogId)
    BY <2>1, <2>2, <2>3 DEF Outline!MarkResolved
  <2>5. QED
    BY <2>4 DEF Outline!Next, Outline!Proceed
<1>4. QED
  BY <1>1, <1>2, <1>3

\* The failures of a run. One that strikes after the last attempt's row only
\* delays an end that the outline has reached already.
LEMMA OutlineOfFailure ==
    ASSUME IInv, OnePR, Raise \/ RaiseAfterCommit \/ RaiseAfterEffect \/ GithubTimeout
    PROVE  Outline!Next \/ UNCHANGED Outline!vars
<1> USE OutlineAt DEF OutlineFacts, AttemptPhases, NodePhases, PrPhases
<1>1. /\ phase \in NodePhases /\ phase' = "finish" /\ UNCHANGED deliveries
  BY DEF Raise, RaiseAfterCommit, RaiseAfterEffect, GithubTimeout
<1>2. Outline!Raise(LogId) => Outline!Next
  BY DEF Outline!Next, Outline!Proceed
<1>3. CASE Raise
  <2>1. UNCHANGED <<rows, resolved, opened, thread>>
    BY <1>3 DEF Raise, stored, github
  <2>2. CASE OutlineNode # "end"
    BY <1>1, <1>2, <2>1, <2>2, OutlineRaises DEF OutlineLate
  <2>3. CASE OutlineNode = "end"
    <3>1. phase = "return_verdict" /\ OutlineTries = 0
      BY <1>1, <2>3 DEF OutlineTries
    <3>2. UNCHANGED <<OutlineTask, OutlineNode, OutlineTries>>
      BY <1>1, <2>3, <3>1
    <3>3. QED
      BY <1>1, <2>1, <3>2, OutlineStutter DEF Outlined, OutlineLate
  <2>4. QED
    BY <2>2, <2>3
<1>4. CASE RaiseAfterCommit
  <2>1. CASE phase = "store_harness_result"
    <3>1. rows' = rows \cup {HarnessRow} /\ UNCHANGED <<resolved, opened, thread>>
      BY <1>4, <2>1 DEF RaiseAfterCommit, github
    <3>2. verdict.passed \in BOOLEAN /\ verdict.covered \in BOOLEAN
      BY <2>1 DEF IInv, TypeInv, TypeOK, Control, Verdicts
    <3>3. Outline!StoreRow(LogId, verdict.passed, verdict.passed /\ verdict.covered)
      BY <2>1, <3>1, OutlineStores
    <3>4. QED
      BY <1>1, <1>2, <2>1, <3>1, <3>2, <3>3, OutlineRaises
  <2>2. CASE phase = "mark_resolved"
    <3>1. resolved' = TRUE /\ UNCHANGED <<rows, opened, thread>>
      BY <1>4, <2>2 DEF RaiseAfterCommit, github
    <3>2. Outline!Resolve(LogId)
      BY <3>1, OutlineResolves
    <3>3. QED
      BY <1>1, <1>2, <2>2, <3>1, <3>2, OutlineRaises
  <2>3. QED
    BY <1>4, <2>1, <2>2 DEF RaiseAfterCommit
<1>5. CASE RaiseAfterEffect
  <2>1. phase \in PrPhases /\ UNCHANGED <<rows, resolved, thread>>
    BY <1>5 DEF RaiseAfterEffect, stored
  <2>2. OutlineNode = "create_pull_request"
    BY <2>1
  <2>3. CASE UNCHANGED opened
    BY <1>1, <1>2, <2>1, <2>2, <2>3, OutlineRaises DEF OutlineLate
  <2>4. CASE create_pull_request(state.patch)
    <3>1. Outline!OpenPull(LogId)
      BY <2>1, <2>4, OutlineOpens
    <3>2. QED
      BY <1>1, <1>2, <2>1, <2>2, <3>1, OutlineRaises
  <2>5. QED
    BY <1>5, <2>3, <2>4 DEF RaiseAfterEffect, GithubEffect, create_branch, put_file
<1>6. CASE GithubTimeout
  <2>1. phase \in PrPhases /\ UNCHANGED <<rows, resolved, opened>>
    BY <1>6 DEF GithubTimeout, stored, github
  <2>2. ~OutlineLate
    BY <2>1 DEF IInv, TypeInv, Control, OutlineLate
  <2>3. {i \in {LogId} : OutlineLate}' =
           IF OutlineLate' THEN {i \in {LogId} : OutlineLate} \cup {LogId}
           ELSE {i \in {LogId} : OutlineLate}
    BY <2>2
  <2>4. CASE OutlineLate'
    BY <1>1, <1>2, <2>1, <2>3, <2>4, OutlineRaises
  <2>5. CASE ~OutlineLate'
    <3>1. UNCHANGED OutlineLate
      BY <2>2, <2>5 DEF OutlineLate
    <3>2. QED
      BY <1>1, <1>2, <2>1, <3>1, OutlineRaises
  <2>6. QED
    BY <2>4, <2>5
<1>7. QED
  BY <1>3, <1>4, <1>5, <1>6

\* graph.py, nodes.py and tasks.py: what the repair of an incident leaves in
\* the tables and on GitHub is what Repair says, as long as no human closes
\* its PR. So what is proved of Pipeline's workers holds of the real loop.
THEOREM LoopImplementsRepair ==
    ASSUME ~HumanMayClose
    PROVE  Spec => ImplementsRepair
<1>1. Init => Outline!Init
  <2>1. ASSUME Init
        PROVE  /\ OutlineTask = "queued" /\ OutlineNode = "idle" /\ OutlineTries = 0
               /\ {OutlineRow(r) : r \in rows} = {} /\ {i \in {LogId} : OutlineLate} = {}
               /\ ~resolved /\ opened = 0 /\ deliveries = 0
    BY <2>1, OutlineAt DEF Init, OutlineFacts, OutlineLate
  <2>2. QED
    BY <2>1 DEF Outline!Init
<1>2. IInv /\ OnePR /\ [Next]_vars => [Outline!Next]_(Outline!vars)
  <2>1. ASSUME IInv, OnePR, Next PROVE Outline!Next \/ UNCHANGED Outline!vars
    <3>1. ~HumanCloses
      BY DEF HumanCloses
    <3>2. QED
      BY <2>1, <3>1, OutlineThread, OutlineOfTask, OutlineWaits, OutlineOfNode, OutlineOfFailure
      DEF Next, Worker
  <2>2. ASSUME UNCHANGED vars PROVE UNCHANGED Outline!vars
    BY <2>2, OutlineOfPhase, OutlineStutter DEF vars, Outlined, OutlineLate
  <2>3. QED
    BY <2>1, <2>2
<1>3. QED
  BY <1>1, <1>2, OnePRStays, Invariance, PTL DEF Spec, ImplementsRepair, Outline!Spec
====
