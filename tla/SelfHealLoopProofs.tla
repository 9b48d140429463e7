------------------------- MODULE SelfHealLoopProofs -------------------------
(***************************************************************************)
(* Theorems about SelfHealLoop, for every set of patches, every retry      *)
(* budget, every number of deliveries, with or without a human who closes  *)
(* PRs.                                                                    *)
(***************************************************************************)
EXTENDS SelfHealLoop, TLAPS

USE SelfHealLoopAssumption

LoopPhases == {"triage", "dev", "qa", "store_harness_result", "return_verdict"}

(***************************************************************************)
(* What the phase of the run says about the rest of the state. Each line   *)
(* is what a later action takes for granted of an earlier one.             *)
(***************************************************************************)
Control ==
    /\ phase = "queued" => deliveries < MaxDeliveries
    /\ phase \in Running => deliveries > 0
    /\ phase \in LoopPhases => state.retry_count < MaxAttempts
    /\ phase \in {"qa", "store_harness_result", "return_verdict"} \cup PrPhases
         => state.patch # None
    /\ phase \in {"store_harness_result", "return_verdict"} => verdict # None
    /\ phase \in PrPhases => /\ Good(state.harness_result)
                             /\ state.harness_result.patch = state.patch
    /\ thread # None => phase \in {"finish", "returned", "raised"}
    /\ opened <= deliveries
    /\ phase \in NodePhases \ {"mark_resolved"} \/ thread # None
         => opened < deliveries

TypeInv == TypeOK /\ Control

\* The attempts of a run, and the sets the types are built from.
LEMMA AttemptsFacts ==
    /\ MaxAttempts \in Nat \ {0}
    /\ MaxRetries <= MaxAttempts
    /\ MaxRetries # 0 => MaxAttempts = MaxRetries
BY DEF MaxAttempts

LEMMA InitTypeInv == Init => TypeInv
<1> SUFFICES ASSUME Init PROVE TypeInv
  OBVIOUS
<1> DEFINE s0 == [root_cause |-> FALSE, patch |-> None, harness_result |-> None,
                  retry_count |-> 0, pr_url |-> FALSE]
<1>1. s0 \in AgentStates
  <2>1. 0 \in 0..MaxAttempts
    BY AttemptsFacts
  <2>2. QED
    BY <2>1 DEF AgentStates
<1>2. state \in AgentStates /\ saved \in AgentStates
  BY <1>1 DEF Init
<1>3. resolved \in BOOLEAN
  BY Zenon DEF Init
<1>4. /\ phase \in Phases
      /\ deliveries \in 0..MaxDeliveries
      /\ opened \in 0..MaxDeliveries
  BY DEF Init, Phases
<1>5. /\ counted \subseteq {"exception", "gave_up"}
      /\ rows \subseteq Rows
  BY Zenon DEF Init
<1>6. TypeOK
  BY <1>2, <1>3, <1>4, <1>5 DEF Init, TypeOK
<1>7. Control
  BY DEF Init, Control, Running, NodePhases, PrPhases, LoopPhases
<1>8. QED
  BY <1>6, <1>7 DEF TypeInv

\* What qa_node leaves behind: a row and a state of the right type.
LEMMA QaTypes ==
    ASSUME TypeInv, phase \in {"store_harness_result", "return_verdict"}
    PROVE  /\ HarnessRow \in Rows
           /\ QaOutput \in AgentStates
           /\ QaOutput.retry_count = state.retry_count + 1
           /\ QaOutput.patch = state.patch
           /\ QaOutput.pr_url = state.pr_url
           /\ QaOutput.root_cause = state.root_cause
           /\ QaOutput.harness_result =
                [patch |-> state.patch, passed |-> verdict.passed,
                 covered |-> verdict.covered, retry_attempt |-> state.retry_count]
           /\ QaOutput.harness_result # None
<1>1. /\ deliveries \in 1..MaxDeliveries
      /\ state \in AgentStates
      /\ state.retry_count \in 0..(MaxAttempts - 1)
      /\ state.patch \in Patches
      /\ verdict \in Verdicts
  BY AttemptsFacts DEF TypeInv, TypeOK, Control, Running, NodePhases, LoopPhases, AgentStates
<1>2. HarnessRow \in Rows
  BY <1>1 DEF HarnessRow, Rows, Verdicts
<1> DEFINE hr == [patch |-> state.patch, passed |-> verdict.passed,
                  covered |-> verdict.covered, retry_attempt |-> state.retry_count]
<1>3. hr \in HarnessResults
  BY <1>1 DEF HarnessResults, Verdicts
<1>4. state.retry_count + 1 \in 0..MaxAttempts
  BY <1>1, AttemptsFacts
<1>5. QED
  BY <1>1, <1>2, <1>3, <1>4 DEF QaOutput, AgentStates

\* Every step of the loop keeps the types and the control facts.
LEMMA NextTypeInv == TypeInv /\ [Next]_vars => TypeInv'
<1> SUFFICES ASSUME TypeInv, [Next]_vars PROVE TypeInv'
  OBVIOUS
<1> USE AttemptsFacts DEF TypeInv, TypeOK
<1>1. CASE Deliver
  BY <1>1 DEF Deliver, WithInput, AgentStates, Control, Running, NodePhases, PrPhases,
              LoopPhases, Phases, stored, github
<1>2. CASE Checkpoint
  BY <1>2 DEF Checkpoint, Control, run, github
<1>3. CASE Triage
  <2>1. /\ state' \in AgentStates
        /\ state'.retry_count = state.retry_count
    BY <1>3 DEF Triage, AgentStates
  <2>2. QED
    BY <1>3, <2>1 DEF Triage, Control, Running, NodePhases, PrPhases,
                      LoopPhases, Phases, stored, github
<1>4. ASSUME NEW p \in Patches, Dev(p) PROVE TypeInv'
  BY <1>4 DEF Dev, AgentStates, Control, Running, NodePhases, PrPhases,
              LoopPhases, Phases, stored, github
<1>5. ASSUME NEW v \in Verdicts, Qa(v) PROVE TypeInv'
  <2>1. v # None
    BY DEF Verdicts
  <2>2. QED
    BY <1>5, <2>1 DEF Qa, Control, Running, NodePhases, PrPhases,
              LoopPhases, Phases, stored, github
<1>6. CASE StoreHarnessResult
  BY <1>6, QaTypes DEF StoreHarnessResult, Control, Running, NodePhases, PrPhases,
              LoopPhases, Phases, stored, github
<1>7. CASE ReturnVerdict
  <2>1. /\ phase = "return_verdict"
        /\ state' = QaOutput
        /\ phase' = route_after_qa(QaOutput)
        /\ UNCHANGED <<deliveries, verdict, error, counted, saved, rows, resolved,
                        branch, openPR, opened, thread>>
    BY <1>7 DEF ReturnVerdict, stored, github
  <2>2. /\ phase' \in {"create_branch", "dev", "finish"}
        /\ phase' = "create_branch" => Good(state'.harness_result)
        /\ phase' = "dev" => state'.retry_count < MaxAttempts
    BY <2>1, QaTypes, AttemptsFacts DEF route_after_qa, AgentStates
  <2>3. TypeOK'
    BY <2>1, <2>2, QaTypes DEF Phases, Running, NodePhases, PrPhases
  <2>4. Control'
    BY <2>1, <2>2, QaTypes DEF Control, Running, NodePhases, PrPhases, LoopPhases
  <2>5. QED
    BY <2>3, <2>4
<1>8. CASE CreateBranch
  BY <1>8 DEF CreateBranch, create_branch, Control, Running, NodePhases, PrPhases,
              LoopPhases, Phases, stored
<1>9. CASE PutFile
  BY <1>9 DEF PutFile, put_file, Control, AgentStates, Running, NodePhases, PrPhases,
              LoopPhases, Phases, stored
<1>10. CASE CreatePullRequest
  BY <1>10 DEF CreatePullRequest, create_pull_request, Control, AgentStates, Running, NodePhases, PrPhases,
              LoopPhases, Phases, stored
<1>11. CASE MarkResolved
  <2>1. /\ state' \in AgentStates
        /\ resolved' \in BOOLEAN
    BY <1>11 DEF MarkResolved, AgentStates
  <2>2. TypeOK'
    BY <1>11, <2>1 DEF MarkResolved, Phases, Running, github
  <2>3. Control'
    BY <1>11 DEF MarkResolved, Control, Running, NodePhases, PrPhases, LoopPhases, github
  <2>4. QED
    BY <2>2, <2>3
<1>12. CASE Raise
  BY <1>12 DEF Raise, Control, Running, NodePhases, PrPhases, LoopPhases, Phases, stored, github
<1>13. CASE RaiseAfterCommit
  BY <1>13, QaTypes DEF RaiseAfterCommit, Control, Running, NodePhases, PrPhases, LoopPhases, Phases, stored, github
<1>13a. CASE RaiseAfterEffect
  BY <1>13a DEF RaiseAfterEffect, GithubEffect, create_branch, put_file, create_pull_request, Control, AgentStates, Running, NodePhases,
                PrPhases, LoopPhases, Phases, stored
<1>14. CASE GithubTimeout
  BY <1>14 DEF GithubTimeout, Control, AgentStates, Running, NodePhases, PrPhases, LoopPhases, Phases, GithubOps, stored, github
<1>15. CASE ThreadLands
  BY <1>15 DEF ThreadLands, GithubEffect, create_branch, put_file, create_pull_request, Control, Running, NodePhases, PrPhases, LoopPhases, run, stored
<1>16. CASE ThreadFails
  BY <1>16 DEF ThreadFails, Control, Running, NodePhases, PrPhases, LoopPhases, run, stored, github
<1>17. CASE Finish
  BY <1>17 DEF Finish, Reasons, Control, Running, NodePhases, PrPhases, LoopPhases, Phases, github
<1>17a. CASE CloseRaises
  BY <1>17a DEF CloseRaises, Reasons, Control, Running, NodePhases, PrPhases, LoopPhases, Phases, github
<1>18. CASE Ack
  BY <1>18 DEF Ack, Control, Running, NodePhases, PrPhases, LoopPhases, Phases, stored, github
<1>19. CASE WorkerDies
  BY <1>19 DEF WorkerDies, Control, Running, NodePhases, PrPhases, LoopPhases, Phases, stored, github
<1>20. CASE ChildKilled
  BY <1>20 DEF ChildKilled, Control, Running, NodePhases, PrPhases, LoopPhases, Phases, stored, github
<1>21. CASE HumanCloses
  BY <1>21 DEF HumanCloses, Control, run, stored
<1>22. CASE UNCHANGED vars
  BY <1>22 DEF vars, Control
<1>23. QED
  BY <1>1, <1>2, <1>3, <1>4, <1>5, <1>6, <1>7, <1>8, <1>9, <1>10, <1>11, <1>12, <1>13,
     <1>13a, <1>14, <1>15, <1>16, <1>17, <1>17a, <1>18, <1>19, <1>20, <1>21, <1>22
  DEF Next, Worker

-----------------------------------------------------------------------------
(***************************************************************************)
(* The coverage gate. The verdict the router acts on is already in the     *)
(* table, so a run that reaches pr_node does so with the newest row good;  *)
(* no row is written before the run, or a thread it left, is over.         *)
(***************************************************************************)
Gate ==
    /\ ShippedWasVerified
    /\ phase \in PrPhases => Newest(rows, state.patch)
    /\ thread # None => Newest(rows, thread.patch)

(***************************************************************************)
(* The trail. The rows of the present delivery are the attempts made so    *)
(* far, all failures until one passes.                                     *)
(***************************************************************************)
Trail ==
    /\ \A r \in rows : r.delivery <= deliveries
    /\ phase \in LoopPhases => AllFailed(rows, deliveries, state.retry_count)
    /\ phase \in LoopPhases \ {"return_verdict"} =>
         \A r \in rows : r.delivery = deliveries => r.attempt < state.retry_count
    /\ phase = "return_verdict" =>
         /\ HarnessRow \in rows
         /\ \A r \in rows : r.delivery = deliveries =>
                r.attempt < state.retry_count \/ r = HarnessRow
    /\ RetryFollowsFailure

(***************************************************************************)
(* The outcome. An unanswered run that reaches its end without an error    *)
(* has exhausted its attempts; a PR url is only returned, and the incident *)
(* only marked, after a PR was opened.                                     *)
(***************************************************************************)
Outcome ==
    /\ phase \in NodePhases => error = "none"
    /\ phase \in NodePhases \cup {"finish"} => counted = {}
    /\ phase = "finish" /\ error = "none" /\ ~state.pr_url
         => AllFailed(rows, deliveries, MaxAttempts)
    /\ GaveUpMeansExhausted
    /\ openPR # None => opened > 0
    /\ phase = "mark_resolved" => opened > 0
    /\ state.pr_url => opened > 0
    /\ saved.pr_url => opened > 0
    /\ ResolvedHasPR
    /\ NoSilentEnd

IInv == TypeInv /\ Gate /\ Trail /\ Outcome

\* Rows are never changed or removed, so what was verified stays verified.
LEMMA RowsGrow == [Next]_vars => rows \subseteq rows'
BY DEF Next, Worker, vars, run, stored, github, Deliver, Checkpoint, Triage, Dev, Qa,
       StoreHarnessResult, ReturnVerdict, CreateBranch, PutFile, CreatePullRequest,
       MarkResolved, Raise, RaiseAfterCommit, RaiseAfterEffect, GithubTimeout, ThreadLands, ThreadFails,
       Finish, CloseRaises, Ack, WorkerDies, ChildKilled, HumanCloses

LEMMA VerifiedStays ==
    ASSUME NEW table, NEW larger, table \subseteq larger, NEW p, Verified(table, p)
    PROVE  Verified(larger, p)
BY DEF Verified

LEMMA NewestIsVerified ==
    ASSUME NEW table, NEW p, Newest(table, p)
    PROVE  Verified(table, p)
BY DEF Newest, Verified

\* A good verdict that qa_node has just stored is the newest of all.
LEMMA GoodVerdictIsNewest ==
    ASSUME IInv, phase = "return_verdict", Good(QaOutput.harness_result)
    PROVE  Newest(rows, QaOutput.patch)
<1>1. /\ QaOutput.patch = state.patch
      /\ verdict.passed
      /\ verdict.covered
  BY QaTypes DEF Good, IInv
<1>2. /\ HarnessRow \in rows
      /\ HarnessRow.patch = state.patch
      /\ HarnessRow.passed
      /\ HarnessRow.covered
      /\ HarnessRow.delivery = deliveries
      /\ HarnessRow.attempt = state.retry_count
  BY <1>1 DEF IInv, Trail, HarnessRow
<1>3. ASSUME NEW q \in rows
      PROVE  \/ q.delivery < HarnessRow.delivery
             \/ q.delivery = HarnessRow.delivery /\ q.attempt <= HarnessRow.attempt
  <2>1. q.delivery \in Int /\ deliveries \in Int /\ q.attempt \in Int
    BY DEF IInv, TypeInv, TypeOK, Rows
  <2>2. q.delivery <= deliveries
    BY DEF IInv, Trail
  <2>3. q.delivery = deliveries => q.attempt < state.retry_count \/ q = HarnessRow
    BY DEF IInv, Trail
  <2>4. state.retry_count \in Int
    BY DEF IInv, TypeInv, TypeOK, AgentStates
  <2>5. QED
    BY <1>2, <2>1, <2>2, <2>3, <2>4
<1>4. QED
  BY <1>1, <1>2, <1>3 DEF Newest

LEMMA NextGate == IInv /\ [Next]_vars => Gate'
<1> SUFFICES ASSUME IInv, [Next]_vars PROVE Gate'
  OBVIOUS
<1> USE DEF Gate, ShippedWasVerified
<1>1. rows \subseteq rows'
  BY RowsGrow
<1>2. Gate /\ TypeInv
  BY DEF IInv
<1>3. ASSUME UNCHANGED <<branch, openPR>>
      PROVE  /\ branch' \in Patches => Verified(rows', branch')
             /\ openPR' \in Patches => Verified(rows', openPR')
  BY <1>1, <1>2, <1>3, VerifiedStays
<1>4. ASSUME UNCHANGED <<branch, openPR>>, phase' \notin PrPhases, thread' = None
      PROVE  Gate'
  BY <1>3, <1>4
<1>5. ASSUME UNCHANGED <<branch, openPR, thread, rows>>, phase' \notin PrPhases
      PROVE  Gate'
  BY <1>2, <1>3, <1>5, NewestIsVerified, VerifiedStays, <1>1
<1>6. CASE Deliver
  BY <1>5, <1>6 DEF Deliver, PrPhases, stored, github
<1>7. CASE Checkpoint
  BY <1>2, <1>3, <1>7, <1>1, NewestIsVerified, VerifiedStays DEF Checkpoint, run, github
<1>8. CASE Triage
  BY <1>5, <1>8 DEF Triage, PrPhases, stored, github
<1>9. ASSUME NEW p \in Patches, Dev(p) PROVE Gate'
  BY <1>5, <1>9 DEF Dev, PrPhases, stored, github
<1>10. ASSUME NEW v \in Verdicts, Qa(v) PROVE Gate'
  BY <1>5, <1>10 DEF Qa, PrPhases, stored, github
<1>11. CASE StoreHarnessResult
  BY <1>2, <1>4, <1>11 DEF StoreHarnessResult, TypeInv, Control, PrPhases, github
<1>12. CASE ReturnVerdict
  <2>1. /\ phase = "return_verdict"
        /\ state' = QaOutput
        /\ phase' = route_after_qa(QaOutput)
        /\ UNCHANGED <<rows, branch, openPR, thread>>
    BY <1>12 DEF ReturnVerdict, stored, github
  <2>2. thread = None
    BY <1>2, <2>1 DEF TypeInv, Control
  <2>3. CASE Good(QaOutput.harness_result)
    <3>1. Newest(rows, state'.patch)
      BY <2>1, <2>3, GoodVerdictIsNewest
    <3>2. QED
      BY <1>3, <2>1, <2>2, <3>1
  <2>4. CASE ~Good(QaOutput.harness_result)
    BY <1>4, <2>1, <2>2, <2>4 DEF route_after_qa, PrPhases
  <2>5. QED
    BY <2>3, <2>4
<1>13. CASE CreateBranch
  BY <1>1, <1>2, <1>13, VerifiedStays
  DEF CreateBranch, create_branch, TypeInv, Control, PrPhases, stored
<1>14. CASE PutFile
  BY <1>1, <1>2, <1>14, NewestIsVerified, VerifiedStays
  DEF PutFile, put_file, TypeInv, Control, PrPhases, stored
<1>15. CASE CreatePullRequest
  BY <1>1, <1>2, <1>15, NewestIsVerified, VerifiedStays
  DEF CreatePullRequest, create_pull_request, TypeInv, Control, PrPhases, stored
<1>16. CASE MarkResolved
  BY <1>5, <1>16 DEF MarkResolved, PrPhases, github
<1>17. CASE Raise
  BY <1>5, <1>17 DEF Raise, PrPhases, stored, github
<1>18. CASE RaiseAfterCommit
  BY <1>2, <1>4, <1>18 DEF RaiseAfterCommit, TypeInv, Control, PrPhases, github
<1>18a. CASE RaiseAfterEffect
  <2>1. Verified(rows', state.patch) /\ phase' \notin PrPhases /\ thread' = None
    BY <1>1, <1>2, <1>18a, VerifiedStays, NewestIsVerified
    DEF RaiseAfterEffect, TypeInv, Control, PrPhases
  <2>2. branch' \in {branch, state.patch, None, Base} /\ openPR' \in {openPR, state.patch}
    BY <1>18a DEF RaiseAfterEffect, GithubEffect, create_branch, put_file, create_pull_request
  <2>3. QED
    BY <1>1, <1>2, <1>18a, <2>1, <2>2, VerifiedStays DEF RaiseAfterEffect, stored
<1>19. CASE GithubTimeout
  BY <1>2, <1>3, <1>19, NewestIsVerified, VerifiedStays, <1>1
  DEF GithubTimeout, PrPhases, stored, github
<1>20. CASE ThreadLands
  <2>1. Verified(rows', thread.patch) /\ phase' \notin PrPhases /\ thread' = None /\ thread # None
    BY <1>1, <1>2, <1>20, VerifiedStays, NewestIsVerified
    DEF ThreadLands, run, TypeInv, Control, PrPhases
  <2>2. branch' \in {branch, thread.patch, None, Base} /\ openPR' \in {openPR, thread.patch}
    BY <1>20 DEF ThreadLands, GithubEffect, create_branch, put_file, create_pull_request
  <2>3. QED
    BY <1>1, <1>2, <1>20, <2>1, <2>2, VerifiedStays DEF ThreadLands, stored
<1>21. CASE ThreadFails
  BY <1>2, <1>4, <1>21 DEF ThreadFails, TypeInv, Control, PrPhases, run, github
<1>22. CASE Finish \/ CloseRaises
  BY <1>5, <1>22 DEF Finish, CloseRaises, PrPhases, github
<1>23. CASE Ack
  BY <1>5, <1>23 DEF Ack, PrPhases, stored, github
<1>24. CASE WorkerDies
  BY <1>4, <1>24 DEF WorkerDies, PrPhases, github
<1>25. CASE ChildKilled
  BY <1>4, <1>25 DEF ChildKilled, PrPhases, github
<1>26. CASE HumanCloses
  BY <1>1, <1>2, <1>26, VerifiedStays DEF HumanCloses, run, stored
<1>27. CASE UNCHANGED vars
  BY <1>1, <1>2, <1>3, <1>27, NewestIsVerified, VerifiedStays DEF vars
<1>28. QED
  BY <1>6, <1>7, <1>8, <1>9, <1>10, <1>11, <1>12, <1>13, <1>14, <1>15, <1>16, <1>17,
     <1>18, <1>18a, <1>19, <1>20, <1>21, <1>22, <1>23, <1>24, <1>25, <1>26, <1>27
  DEF Next, Worker

\* The failures a table holds stay when rows are added.
LEMMA AllFailedStays ==
    ASSUME NEW table, NEW larger, table \subseteq larger, NEW d, NEW n,
           AllFailed(table, d, n)
    PROVE  AllFailed(larger, d, n)
BY DEF AllFailed

\* One more failure extends the series by one.
LEMMA AllFailedExtends ==
    ASSUME NEW table, NEW d, NEW n \in Nat, AllFailed(table, d, n),
           NEW q \in table, q.delivery = d, q.attempt = n, ~(q.passed /\ q.covered)
    PROVE  AllFailed(table, d, n + 1)
<1>1. SUFFICES ASSUME NEW a \in 0..n
               PROVE  \E r \in table : /\ r.delivery = d
                                       /\ r.attempt = a
                                       /\ ~(r.passed /\ r.covered)
  BY DEF AllFailed
<1>2. CASE a = n
  BY <1>2
<1>3. CASE a # n
  BY <1>3 DEF AllFailed
<1>4. QED
  BY <1>2, <1>3

\* Writing the row of the present attempt keeps every series of rows one of
\* failures with a single row per attempt.
LEMMA NewRowTrail ==
    ASSUME IInv, phase = "store_harness_result", rows' = rows \cup {HarnessRow}
    PROVE  /\ \A r \in rows' : r.delivery <= deliveries
           /\ AllFailed(rows', deliveries, state.retry_count)
           /\ \A r \in rows' : r.delivery = deliveries =>
                 r.attempt < state.retry_count \/ r = HarnessRow
           /\ RetryFollowsFailure'
<1>1. /\ HarnessRow.delivery = deliveries
      /\ HarnessRow.attempt = state.retry_count
      /\ deliveries \in Nat
      /\ state.retry_count \in Nat
  BY DEF HarnessRow, IInv, TypeInv, TypeOK, AgentStates
<1>2. \A r \in rows : r.delivery \in Nat /\ r.attempt \in Nat
  BY DEF IInv, TypeInv, TypeOK, Rows
<1>3. /\ \A r \in rows : r.delivery <= deliveries
      /\ \A r \in rows : r.delivery = deliveries => r.attempt < state.retry_count
      /\ AllFailed(rows, deliveries, state.retry_count)
      /\ RetryFollowsFailure
  BY DEF IInv, Trail, LoopPhases
<1>4. AllFailed(rows', deliveries, state.retry_count)
  BY <1>3, AllFailedStays
<1>5. ASSUME NEW r \in rows' PROVE AllFailed(rows', r.delivery, r.attempt)
  <2>1. CASE r \in rows
    BY <1>3, <2>1, AllFailedStays DEF RetryFollowsFailure
  <2>2. CASE r = HarnessRow
    BY <1>1, <1>4, <2>2
  <2>3. QED
    BY <2>1, <2>2
<1>6. ASSUME NEW r \in rows', NEW q \in rows', q.delivery = r.delivery, q.attempt = r.attempt
      PROVE  q = r
  <2>1. CASE r \in rows /\ q \in rows
    BY <1>3, <1>6, <2>1 DEF RetryFollowsFailure
  <2>2. CASE r = HarnessRow \/ q = HarnessRow
    BY <1>1, <1>2, <1>3, <1>6, <2>2
  <2>3. QED
    BY <2>1, <2>2
<1>7. RetryFollowsFailure'
  BY <1>5, <1>6, Zenon DEF RetryFollowsFailure
<1>8. \A r \in rows' : r.delivery <= deliveries
  BY <1>1, <1>3
<1>9. \A r \in rows' : r.delivery = deliveries => r.attempt < state.retry_count \/ r = HarnessRow
  BY <1>3
<1>10. QED
  BY <1>4, <1>7, <1>8, <1>9

LEMMA NextTrail == IInv /\ [Next]_vars => Trail'
<1> SUFFICES ASSUME IInv, [Next]_vars PROVE Trail'
  OBVIOUS
<1> USE DEF LoopPhases
<1>1. Trail /\ TypeInv
  BY DEF IInv
<1>2. ASSUME UNCHANGED <<rows, deliveries>>, phase' \notin LoopPhases
      PROVE  Trail'
  BY <1>1, <1>2 DEF Trail, RetryFollowsFailure
\* Nodes before the verdict is stored: same series, same counter.
<1>3. ASSUME UNCHANGED <<rows, deliveries>>, state'.retry_count = state.retry_count,
             phase \in LoopPhases \ {"return_verdict"}, phase' \in LoopPhases \ {"return_verdict"}
      PROVE  Trail'
  BY <1>1, <1>3 DEF Trail, RetryFollowsFailure
\* Steps beside the run's own control flow.
<1>4. ASSUME UNCHANGED <<rows, deliveries, state, verdict, phase>>
      PROVE  Trail'
  BY <1>1, <1>4 DEF Trail, RetryFollowsFailure, HarnessRow
<1>5. CASE Deliver
  <2>1. /\ deliveries \in Nat
        /\ \A r \in rows : r.delivery \in Nat /\ r.delivery <= deliveries
    BY <1>1 DEF TypeInv, TypeOK, Rows, Trail
  <2>2. /\ rows' = rows
        /\ deliveries' = deliveries + 1
        /\ phase' = "triage"
        /\ state'.retry_count = 0
    BY <1>1, <1>5 DEF Deliver, WithInput, stored, TypeInv, TypeOK, AgentStates
  <2>3. AllFailed(rows', deliveries', 0)
    BY DEF AllFailed
  <2>4. RetryFollowsFailure'
    BY <1>1, <2>2 DEF Trail, RetryFollowsFailure
  <2>5. /\ \A r \in rows' : r.delivery <= deliveries'
        /\ \A r \in rows' : r.delivery # deliveries'
    BY <2>1, <2>2
  <2>6. QED
    BY <2>2, <2>3, <2>4, <2>5 DEF Trail
<1>6. CASE Checkpoint
  BY <1>4, <1>6 DEF Checkpoint, run
<1>7. CASE Triage
  BY <1>1, <1>3, <1>7 DEF Triage, stored, TypeInv, TypeOK, AgentStates
<1>8. ASSUME NEW p \in Patches, Dev(p) PROVE Trail'
  BY <1>1, <1>3, <1>8 DEF Dev, stored, TypeInv, TypeOK, AgentStates
<1>9. ASSUME NEW v \in Verdicts, Qa(v) PROVE Trail'
  BY <1>3, <1>9 DEF Qa, stored
<1>10. CASE StoreHarnessResult
  <2>1. /\ phase = "store_harness_result"
        /\ phase' = "return_verdict"
        /\ rows' = rows \cup {HarnessRow}
        /\ HarnessRow' = HarnessRow
        /\ UNCHANGED <<deliveries, state>>
    BY <1>10 DEF StoreHarnessResult, HarnessRow
  <2>2. QED
    BY <2>1, NewRowTrail DEF Trail
<1>11. CASE ReturnVerdict
  <2>1. /\ phase = "return_verdict"
        /\ state'.retry_count = state.retry_count + 1
        /\ phase' = route_after_qa(QaOutput)
        /\ UNCHANGED <<rows, deliveries>>
    BY <1>1, <1>11, QaTypes DEF ReturnVerdict, stored
  <2>2. CASE phase' = "dev"
    <3>1. ~Good(QaOutput.harness_result)
      BY <2>1, <2>2 DEF route_after_qa
    <3>2. ~(HarnessRow.passed /\ HarnessRow.covered)
      BY <1>1, <2>1, <3>1, QaTypes DEF Good, HarnessRow
    <3>3. /\ HarnessRow \in rows
          /\ HarnessRow.delivery = deliveries
          /\ HarnessRow.attempt = state.retry_count
          /\ state.retry_count \in Nat
          /\ AllFailed(rows, deliveries, state.retry_count)
      BY <1>1, <2>1 DEF Trail, HarnessRow, TypeInv, TypeOK, AgentStates
    <3>4. AllFailed(rows, deliveries, state.retry_count + 1)
      BY <3>2, <3>3, AllFailedExtends
    <3>5. \A r \in rows : r.delivery = deliveries => r.attempt < state.retry_count + 1
      <4>1. \A r \in rows : r.attempt \in Nat
        BY <1>1 DEF TypeInv, TypeOK, Rows
      <4>2. QED
        BY <1>1, <2>1, <3>3, <4>1 DEF Trail
    <3>6. QED
      BY <1>1, <2>1, <2>2, <3>4, <3>5 DEF Trail, RetryFollowsFailure
  <2>3. CASE phase' # "dev"
    BY <1>2, <2>1, <2>3 DEF route_after_qa
  <2>4. QED
    BY <2>2, <2>3
<1>12. CASE CreateBranch
  BY <1>2, <1>12 DEF CreateBranch, stored
<1>13. CASE PutFile
  BY <1>2, <1>13 DEF PutFile, stored
<1>14. CASE CreatePullRequest
  BY <1>2, <1>14 DEF CreatePullRequest, stored
<1>15. CASE MarkResolved
  BY <1>2, <1>15 DEF MarkResolved
<1>16. CASE Raise
  BY <1>2, <1>16 DEF Raise, stored
<1>17. CASE RaiseAfterCommit
  <2>1. CASE phase = "store_harness_result"
    BY <1>17, <2>1, NewRowTrail DEF RaiseAfterCommit, Trail
  <2>2. CASE phase = "mark_resolved"
    BY <1>2, <1>17, <2>2 DEF RaiseAfterCommit
  <2>3. QED
    BY <1>17, <2>1, <2>2 DEF RaiseAfterCommit
<1>17a. CASE RaiseAfterEffect
  BY <1>2, <1>17a DEF RaiseAfterEffect, stored
<1>18. CASE GithubTimeout
  BY <1>2, <1>18 DEF GithubTimeout, stored
<1>19. CASE ThreadLands
  BY <1>4, <1>19 DEF ThreadLands, run, stored
<1>20. CASE ThreadFails
  BY <1>1, <1>4, <1>20 DEF ThreadFails, run, stored
<1>21. CASE Finish \/ CloseRaises
  BY <1>2, <1>21 DEF Finish, CloseRaises
<1>22. CASE Ack
  BY <1>2, <1>22 DEF Ack, stored
<1>23. CASE WorkerDies
  BY <1>2, <1>23 DEF WorkerDies, stored
<1>24. CASE ChildKilled
  BY <1>2, <1>24 DEF ChildKilled, stored
<1>25. CASE HumanCloses
  BY <1>1, <1>4, <1>25 DEF HumanCloses, run, stored
<1>26. CASE UNCHANGED vars
  BY <1>4, <1>26 DEF vars
<1>27. QED
  BY <1>5, <1>6, <1>7, <1>8, <1>9, <1>10, <1>11, <1>12, <1>13, <1>14, <1>15, <1>16, <1>17,
     <1>17a, <1>18, <1>19, <1>20, <1>21, <1>22, <1>23, <1>24, <1>25, <1>26
  DEF Next, Worker

LEMMA NextOutcome == IInv /\ [Next]_vars => Outcome'
<1> SUFFICES ASSUME IInv, [Next]_vars PROVE Outcome'
  OBVIOUS
<1>1. Outcome /\ Trail /\ TypeInv
  BY DEF IInv
<1> USE DEF Outcome, GaveUpMeansExhausted, ResolvedHasPR, NoSilentEnd, NodePhases, PrPhases
\* Inside the run, from node to node.
<1>2. ASSUME phase \in NodePhases, phase' \in NodePhases \ {"mark_resolved"},
             state'.pr_url = state.pr_url,
             UNCHANGED <<error, counted, saved, openPR, opened, resolved>>
      PROVE  Outcome'
  BY <1>1, <1>2
\* An exception ends the run.
<1>3. ASSUME phase \in NodePhases, phase' = "finish", error' \in {"message", "empty"},
             resolved' => resolved \/ opened > 0,
             UNCHANGED <<counted, state, saved, openPR, opened>>
      PROVE  Outcome'
  BY <1>1, <1>3
\* A PR may be opened, and nothing else changes.
<1>4. ASSUME UNCHANGED <<phase, deliveries, error, counted, state, saved, rows, resolved>>,
             opened > 0 => opened' > 0,
             openPR' # None => opened' > 0
      PROVE  Outcome'
  BY <1>1, <1>4
<1>5. CASE Deliver
  BY <1>1, <1>5 DEF Deliver, WithInput, stored, github, TypeInv, TypeOK, AgentStates
<1>6. CASE Checkpoint
  BY <1>1, <1>6 DEF Checkpoint, run, github
<1>7. CASE Triage
  BY <1>1, <1>2, <1>7 DEF Triage, stored, github, TypeInv, TypeOK, AgentStates
<1>8. ASSUME NEW p \in Patches, Dev(p) PROVE Outcome'
  BY <1>1, <1>2, <1>8 DEF Dev, stored, github, TypeInv, TypeOK, AgentStates
<1>9. ASSUME NEW v \in Verdicts, Qa(v) PROVE Outcome'
  BY <1>2, <1>9 DEF Qa, stored, github
<1>10. CASE StoreHarnessResult
  BY <1>2, <1>10 DEF StoreHarnessResult, github
<1>11. CASE ReturnVerdict
  <2>1. /\ phase = "return_verdict"
        /\ state' = QaOutput
        /\ state'.pr_url = state.pr_url
        /\ phase' = route_after_qa(QaOutput)
        /\ UNCHANGED <<error, counted, saved, openPR, opened, resolved, rows, deliveries>>
    BY <1>1, <1>11, QaTypes DEF ReturnVerdict, stored, github
  <2>2. CASE phase' # "finish"
    BY <1>2, <2>1, <2>2 DEF route_after_qa
  <2>3. CASE phase' = "finish"
    <3>1. /\ ~Good(QaOutput.harness_result)
          /\ ~(state.retry_count + 1 < MaxRetries)
      BY <1>1, <2>1, <2>3, QaTypes DEF route_after_qa
    <3>2. ~(HarnessRow.passed /\ HarnessRow.covered)
      BY <1>1, <2>1, <3>1, QaTypes DEF Good, HarnessRow
    <3>3. /\ HarnessRow \in rows
          /\ HarnessRow.delivery = deliveries
          /\ HarnessRow.attempt = state.retry_count
          /\ state.retry_count \in Nat
          /\ AllFailed(rows, deliveries, state.retry_count)
      BY <1>1, <2>1 DEF Trail, HarnessRow, TypeInv, TypeOK, AgentStates, LoopPhases
    <3>4. state.retry_count + 1 = MaxAttempts
      BY <1>1, <2>1, <3>1, <3>3, SelfHealLoopAssumption DEF TypeInv, Control, LoopPhases, MaxAttempts
    <3>5. AllFailed(rows, deliveries, MaxAttempts)
      BY <3>2, <3>3, <3>4, AllFailedExtends
    <3>6. QED
      BY <1>1, <2>1, <2>3, <3>5
  <2>4. QED
    BY <2>2, <2>3
<1>12. CASE CreateBranch
  BY <1>2, <1>12 DEF CreateBranch, create_branch, stored
<1>13. CASE PutFile
  BY <1>2, <1>13 DEF PutFile, put_file, stored
<1>14. CASE CreatePullRequest
  BY <1>1, <1>14 DEF CreatePullRequest, create_pull_request, stored, TypeInv, TypeOK
<1>15. CASE MarkResolved
  BY <1>1, <1>15 DEF MarkResolved, github, TypeInv, TypeOK, AgentStates
<1>16. CASE Raise
  BY <1>3, <1>16 DEF Raise, stored, github
<1>17. CASE RaiseAfterCommit
  BY <1>1, <1>3, <1>17 DEF RaiseAfterCommit, github
<1>17a. CASE RaiseAfterEffect
  BY <1>1, <1>17a DEF RaiseAfterEffect, GithubEffect, create_branch, put_file, create_pull_request, stored, TypeInv, TypeOK
<1>18. CASE GithubTimeout
  BY <1>3, <1>18 DEF GithubTimeout, stored, github
<1>19. CASE ThreadLands
  BY <1>1, <1>4, <1>19 DEF ThreadLands, GithubEffect, create_branch, put_file,
                           create_pull_request, run, stored, TypeInv, TypeOK
<1>20. CASE ThreadFails
  BY <1>1, <1>4, <1>20 DEF ThreadFails, run, stored, github
<1>21. CASE Finish
  <2>1. /\ phase = "finish"
        /\ phase' = "returned"
        /\ saved' = state
        /\ counted' = Reasons
        /\ UNCHANGED <<deliveries, state, rows, resolved, openPR, opened>>
    BY <1>21 DEF Finish, github
  <2>2. Reasons = {"gave_up"} => error = "none" /\ ~state.pr_url
    <3>1. error \in {"none", "message", "empty"}
      BY <1>1 DEF TypeInv, TypeOK
    <3>2. error # "none" => "exception" \in Reasons
      BY DEF Reasons
    <3>3. error = "none" /\ state.pr_url => "gave_up" \notin Reasons
      BY DEF Reasons
    <3>4. QED
      BY <3>1, <3>2, <3>3
  <2>3. opened > 0 \/ Reasons # {}
    <3>1. error # "none" => "exception" \in Reasons
      BY DEF Reasons
    <3>2. error = "none" /\ ~state.pr_url => "gave_up" \in Reasons
      BY DEF Reasons
    <3>3. QED
      BY <1>1, <3>1, <3>2
  <2>4. QED
    BY <1>1, <2>1, <2>2, <2>3
<1>21a. CASE CloseRaises
  <2>1. /\ phase = "finish"
        /\ phase' = "raised"
        /\ saved' = state
        /\ counted' = Reasons \ {"gave_up"}
        /\ UNCHANGED <<deliveries, state, rows, resolved, openPR, opened>>
    BY <1>21a DEF CloseRaises, github
  <2>2. GaveUpMeansExhausted' /\ NoSilentEnd'
    BY <2>1 DEF GaveUpMeansExhausted, NoSilentEnd
  <2>3. QED
    BY <1>1, <2>1, <2>2
<1>22. CASE Ack
  BY <1>1, <1>22 DEF Ack, stored, github
<1>23. CASE WorkerDies
  BY <1>1, <1>23 DEF WorkerDies, stored, github
<1>24. CASE ChildKilled
  BY <1>1, <1>24 DEF ChildKilled, stored, github
<1>25. CASE HumanCloses
  BY <1>1, <1>4, <1>25 DEF HumanCloses, run, stored
<1>26. CASE UNCHANGED vars
  BY <1>1, <1>4, <1>26 DEF vars
<1>27. QED
  BY <1>5, <1>6, <1>7, <1>8, <1>9, <1>10, <1>11, <1>12, <1>13, <1>14, <1>15, <1>16, <1>17,
     <1>17a, <1>18, <1>19, <1>20, <1>21, <1>21a, <1>22, <1>23, <1>24, <1>25, <1>26
  DEF Next, Worker

LEMMA InitIInv == Init => IInv
<1> SUFFICES ASSUME Init PROVE IInv
  OBVIOUS
<1>1. TypeInv
  BY InitTypeInv
<1>2. Gate
  BY DEF Init, Gate, ShippedWasVerified, PrPhases
<1>3. Trail
  BY DEF Init, Trail, RetryFollowsFailure, LoopPhases
<1>4. Outcome
  BY DEF Init, Outcome, GaveUpMeansExhausted, ResolvedHasPR, NoSilentEnd, NodePhases, PrPhases
<1>5. QED
  BY <1>1, <1>2, <1>3, <1>4 DEF IInv

\* The inductive invariant of the loop.
LEMMA Invariance == Spec => []IInv
<1>1. Init => IInv
  BY InitIInv
<1>2. IInv /\ [Next]_vars => IInv'
  BY NextTypeInv, NextGate, NextTrail, NextOutcome DEF IInv
<1>3. QED
  BY <1>1, <1>2, PTL DEF Spec

-----------------------------------------------------------------------------
\* Every variable keeps its type, and the retry counter stays within the
\* attempts max_retries allows (graph.py, route_after_qa).
THEOREM TypeCorrect == Spec => []TypeOK
<1>1. IInv => TypeOK
  BY DEF IInv, TypeInv
<1>2. QED
  BY <1>1, Invariance, PTL

\* The coverage gate: nothing unverified reaches the branch, the PR or a
\* GitHub call in flight, whatever crashes and is redelivered.
THEOREM GateHolds == Spec => []ShippedWasVerified
<1>1. IInv => ShippedWasVerified
  BY DEF IInv, Gate
<1>2. QED
  BY <1>1, Invariance, PTL

\* The attempts of each delivery are a gapless series of failures with at
\* most one row each.
THEOREM RetriesFollowFailures == Spec => []RetryFollowsFailure
<1>1. IInv => RetryFollowsFailure
  BY DEF IInv, Trail
<1>2. QED
  BY <1>1, Invariance, PTL

\* Giving up without an exception means the retry budget is exhausted.
THEOREM GivingUpIsExhaustion == Spec => []GaveUpMeansExhausted
<1>1. IInv => GaveUpMeansExhausted
  BY DEF IInv, Outcome
<1>2. QED
  BY <1>1, Invariance, PTL

\* The incident is resolved only after a PR was opened, and no run returns
\* with neither a PR nor a counted failure.
THEOREM AnsweredBeforeEnd == Spec => [](ResolvedHasPR /\ NoSilentEnd)
<1>1. IInv => ResolvedHasPR /\ NoSilentEnd
  BY DEF IInv, Outcome
<1>2. QED
  BY <1>1, Invariance, PTL

\* The branch only ever receives the patch of the newest verdict.
THEOREM PushesAreNewest == Spec => PushIsLatestVerdict
<1>1. ASSUME IInv, [Next]_vars, branch' # branch, branch' \in Patches
      PROVE  Newest(rows, branch')
  <2>1. Gate
    BY <1>1 DEF IInv
  <2>2. \/ PutFile
        \/ RaiseAfterEffect /\ branch' = state.patch
        \/ ThreadLands /\ branch' = thread.patch
    BY <1>1, SelfHealLoopAssumption
    DEF Next, Worker, vars, run, stored, github, Deliver, Checkpoint, Triage, Dev, Qa,
        StoreHarnessResult, ReturnVerdict, CreateBranch, PutFile, CreatePullRequest,
        MarkResolved, Raise, RaiseAfterCommit, RaiseAfterEffect, GithubTimeout, ThreadLands, ThreadFails,
        Finish, CloseRaises, Ack, WorkerDies, ChildKilled, HumanCloses, GithubEffect, create_branch,
        put_file, create_pull_request
  <2>3. QED
    BY <2>1, <2>2 DEF Gate, PutFile, put_file, RaiseAfterEffect, ThreadLands, PrPhases
<1>2. IInv /\ [Next]_vars => [branch' # branch /\ branch' \in Patches => Newest(rows, branch')]_vars
  BY <1>1
<1>3. QED
  BY <1>2, Invariance, PTL DEF Spec, PushIsLatestVerdict

\* Unless a human closes it, the PR that was opened stays the open one.
OnePR == opened = IF openPR = None THEN 0 ELSE 1

LEMMA OnePRStays ==
    ASSUME ~HumanMayClose
    PROVE  Spec => []OnePR
<1> USE DEF OnePR
<1>1. Init => OnePR
  BY DEF Init
<1>2. ASSUME IInv, OnePR, [Next]_vars PROVE OnePR'
  <2>1. TypeOK /\ Control
    BY <1>2 DEF IInv, TypeInv
  <2>2. ASSUME UNCHANGED github PROVE OnePR'
    BY <1>2, <2>2 DEF github
  <2>3. ASSUME NEW p \in Patches, create_pull_request(p) PROVE OnePR'
    BY <1>2, <2>3, SelfHealLoopAssumption DEF create_pull_request
  <2>4. CASE CreateBranch \/ PutFile
    BY <1>2, <2>4 DEF CreateBranch, PutFile, create_branch, put_file
  <2>5. CASE CreatePullRequest
    <3>1. state.harness_result.patch \in Patches
      BY <2>1, <2>5 DEF CreatePullRequest, TypeOK, AgentStates, Control, PrPhases, Good,
                        HarnessResults
    <3>2. QED
      BY <2>3, <2>5, <3>1 DEF CreatePullRequest
  <2>6. CASE ThreadLands
    <3>1. thread.patch \in Patches
      BY <2>1, <2>6 DEF ThreadLands, TypeOK
    <3>2. QED
      BY <1>2, <2>3, <2>6, <3>1 DEF ThreadLands, GithubEffect, create_branch, put_file
  <2>6a. CASE RaiseAfterEffect
    <3>1. state.patch \in Patches
      BY <2>1, <2>6a DEF RaiseAfterEffect, TypeOK, AgentStates, Control
    <3>2. QED
      BY <1>2, <2>3, <2>6a, <3>1 DEF RaiseAfterEffect, GithubEffect, create_branch, put_file
  <2>7. QED
    BY <1>2, <2>2, <2>4, <2>5, <2>6, <2>6a
    DEF Next, Worker, vars, run, Deliver, Checkpoint, Triage, Dev, Qa, StoreHarnessResult,
        ReturnVerdict, MarkResolved, Raise, RaiseAfterCommit, GithubTimeout, ThreadFails,
        Finish, CloseRaises, Ack, WorkerDies, ChildKilled, HumanCloses, github
<1>3. QED
  BY <1>1, <1>2, Invariance, PTL DEF Spec

\* As long as no human closes the PR, an incident never gets a second one,
\* however often it is redelivered: an open PR of its branch is reused.
THEOREM OnePullRequest ==
    ASSUME ~HumanMayClose
    PROVE  Spec => []AtMostOnePR
<1>1. OnePR => AtMostOnePR
  BY DEF OnePR, AtMostOnePR
<1>2. QED
  BY <1>1, OnePRStays, PTL
-----------------------------------------------------------------------------
(***************************************************************************)
(* The length of a run. NodesEntered is read off the phase and the retry   *)
(* counter, so a delivery must start with the counter at zero: this is     *)
(* what the input of ainvoke, which overwrites it, is for.                 *)
(***************************************************************************)
FreshCounter == phase = "triage" => state.retry_count = 0

LEMMA NextFresh == TypeOK /\ FreshCounter /\ [Next]_vars => FreshCounter'
<1> SUFFICES ASSUME TypeOK, FreshCounter, [Next]_vars PROVE FreshCounter'
  OBVIOUS
<1>1. CASE Deliver
  BY <1>1 DEF Deliver, WithInput, TypeOK, AgentStates, FreshCounter
<1>2. CASE phase' # "triage"
  BY <1>2 DEF FreshCounter
<1>3. CASE phase' = phase /\ state' = state
  BY <1>3 DEF FreshCounter
<1>4. QED
  BY <1>1, <1>2, <1>3
  DEF Next, Worker, vars, run, Checkpoint, Triage, Dev, Qa, StoreHarnessResult,
      ReturnVerdict, route_after_qa, CreateBranch, PutFile, CreatePullRequest,
      MarkResolved, Raise, RaiseAfterCommit, RaiseAfterEffect, GithubTimeout, ThreadLands,
      ThreadFails, Finish, CloseRaises, Ack, WorkerDies, ChildKilled, HumanCloses

LEMMA Freshness == Spec => []FreshCounter
<1>1. Init => FreshCounter
  BY DEF Init, FreshCounter
<1>2. IInv /\ FreshCounter /\ [Next]_vars => FreshCounter'
  BY NextFresh DEF IInv, TypeInv
<1>3. QED
  BY <1>1, <1>2, Invariance, PTL DEF Spec

\* The steps that enter a node.
LEMMA EnteringSteps ==
    ASSUME [Next]_vars, EntersNode
    PROVE  Deliver \/ Triage \/ (\E p \in Patches : Dev(p)) \/ ReturnVerdict
BY DEF EntersNode, Next, Worker, vars, run, Checkpoint, Qa, StoreHarnessResult,
       CreateBranch, PutFile, CreatePullRequest, MarkResolved, Raise, RaiseAfterCommit,
       RaiseAfterEffect, GithubTimeout, ThreadLands, ThreadFails, Finish, CloseRaises, Ack,
       WorkerDies, ChildKilled, HumanCloses

LEMMA EveryNodeCounts ==
    ASSUME IInv, FreshCounter, [Next]_vars, EntersNode
    PROVE  /\ NodesEntered' = (IF phase = "queued" THEN 1 ELSE NodesEntered + 1)
           /\ NodesEntered' <= 2 * MaxAttempts + 2
<1>1. TypeInv /\ MaxAttempts \in Nat \ {0} /\ state.retry_count \in 0..MaxAttempts
  BY AttemptsFacts DEF IInv, TypeInv, TypeOK, AgentStates
<1>2. CASE Deliver
  <2>1. phase = "queued" /\ NodesEntered' = 1
    BY <1>2 DEF Deliver, NodesEntered, PrPhases
  <2>2. QED
    BY <1>1, <2>1
<1>3. CASE Triage
  <2>1. phase = "triage" /\ phase' = "dev" /\ state.retry_count = 0 /\ state'.retry_count = 0
    BY <1>1, <1>3 DEF Triage, FreshCounter, TypeInv, TypeOK, AgentStates
  <2>2. NodesEntered' = 2 /\ NodesEntered = 1
    BY <2>1 DEF NodesEntered, PrPhases
  <2>3. QED
    BY <1>1, <2>1, <2>2
<1>4. ASSUME NEW p \in Patches, Dev(p)
      PROVE  /\ phase # "queued"
             /\ NodesEntered' = NodesEntered + 1
             /\ NodesEntered' <= 2 * MaxAttempts + 2
  <2>1. /\ phase = "dev" /\ phase' = "qa"
        /\ state'.retry_count = state.retry_count
        /\ state.retry_count < MaxAttempts
    BY <1>1, <1>4 DEF Dev, TypeInv, TypeOK, AgentStates, Control, LoopPhases
  <2>2. /\ NodesEntered = 2 * state.retry_count + 2
        /\ NodesEntered' = 2 * state.retry_count + 3
    BY <2>1 DEF NodesEntered, PrPhases
  <2>3. QED
    BY <1>1, <2>1, <2>2
<1>5. CASE ReturnVerdict
  <2>1. /\ phase = "return_verdict" /\ phase' \in {"create_branch", "dev"}
        /\ state'.retry_count = state.retry_count + 1
        /\ state.retry_count < MaxAttempts
    BY <1>1, <1>5, QaTypes
    DEF ReturnVerdict, route_after_qa, EntersNode, TypeInv, Control, LoopPhases
  <2>2. /\ NodesEntered = 2 * state.retry_count + 3
        /\ NodesEntered' = 2 * (state.retry_count + 1) + 2
    BY <2>1 DEF NodesEntered, PrPhases
  <2>3. QED
    BY <1>1, <2>1, <2>2
<1>6. QED
  BY <1>2, <1>3, <1>4, <1>5, EnteringSteps DEF Triage, ReturnVerdict

\* graph.py: the loop enters at most 2 * MaxAttempts + 2 nodes in a delivery,
\* however many deliveries came before it and wherever they were cut off.
THEOREM NodesBounded == Spec => NodesAreBounded
<1>1. IInv /\ FreshCounter /\ [Next]_vars =>
        [EntersNode =>
           /\ NodesEntered' = (IF phase = "queued" THEN 1 ELSE NodesEntered + 1)
           /\ NodesEntered' <= 2 * MaxAttempts + 2]_vars
  BY EveryNodeCounts
<1>2. QED
  BY <1>1, Invariance, Freshness, PTL DEF Spec, NodesAreBounded

\* langgraph's default recursion limit of 25 supersteps never ends a run, as
\* long as max_retries is at most 11; with 12 retries it could.
THEOREM BelowRecursionLimit ==
    ASSUME MaxRetries <= 11
    PROVE  Spec => [](NodesEntered < 25)
<1>1. IInv => NodesEntered < 25
  <2> SUFFICES ASSUME IInv PROVE NodesEntered < 25
    OBVIOUS
  <2>1. /\ state.retry_count \in 0..MaxAttempts
        /\ MaxAttempts \in Nat /\ MaxAttempts <= 11
        /\ phase \in LoopPhases => state.retry_count < MaxAttempts
    BY AttemptsFacts DEF IInv, TypeInv, TypeOK, AgentStates, Control, MaxAttempts
  <2>2. QED
    BY <2>1 DEF NodesEntered, LoopPhases, PrPhases
<1>2. QED
  BY <1>1, Invariance, PTL

(***************************************************************************)
(* What EventuallySettled rests on besides fairness: the steps a run still *)
(* has ahead before it is acknowledged, at most 10 * MaxAttempts + 14.     *)
(***************************************************************************)
PhasesAhead(p) ==
    CASE p = "triage" -> 7
      [] p \in {"dev", "create_branch"} -> 6
      [] p \in {"qa", "put_file"} -> 5
      [] p \in {"store_harness_result", "create_pull_request"} -> 4
      [] p \in {"return_verdict", "mark_resolved"} -> 3
      [] p = "finish" -> 2
      [] p \in {"returned", "raised"} -> 1
      [] OTHER -> 0

StepsAhead ==
    2 * (PhasesAhead(phase) + 5 * (MaxAttempts - state.retry_count))
      + (IF thread = None THEN 0 ELSE 1)

RunRunsOut ==
    /\ phase # "queued" => StepsAhead' <= StepsAhead
    /\ (Worker /\ ~Deliver) \/ WorkerDies \/ ChildKilled => StepsAhead' < StepsAhead

LEMMA RunSteps ==
    ASSUME IInv, (Worker /\ ~Deliver) \/ WorkerDies \/ ChildKilled
    PROVE  StepsAhead' < StepsAhead
<1>1. TypeInv /\ MaxAttempts \in Nat \ {0} /\ state.retry_count \in 0..MaxAttempts
  BY AttemptsFacts DEF IInv, TypeInv, TypeOK, AgentStates
<1> USE <1>1
<1>2. ASSUME UNCHANGED thread, state'.retry_count = state.retry_count,
             PhasesAhead(phase') < PhasesAhead(phase),
             PhasesAhead(phase') \in Int, PhasesAhead(phase) \in Int
      PROVE  StepsAhead' < StepsAhead
  BY <1>2 DEF StepsAhead
<1>3. PhasesAhead(phase) \in 0..7 /\ PhasesAhead(phase') \in 0..7
  BY DEF PhasesAhead
<1>4. CASE Triage
  BY <1>2, <1>3, <1>4 DEF Triage, PhasesAhead, TypeInv, TypeOK, AgentStates
<1>5. ASSUME NEW p \in Patches, Dev(p) PROVE StepsAhead' < StepsAhead
  BY <1>2, <1>3, <1>5 DEF Dev, PhasesAhead, TypeInv, TypeOK, AgentStates
<1>6. CASE \/ \E v \in Verdicts : Qa(v)
           \/ StoreHarnessResult \/ CreateBranch \/ PutFile \/ CreatePullRequest
  BY <1>2, <1>3, <1>6 DEF Qa, StoreHarnessResult, CreateBranch, PutFile, CreatePullRequest,
                          PhasesAhead
<1>7. CASE ReturnVerdict
  <2>1. /\ phase = "return_verdict" /\ phase' \in {"create_branch", "dev", "finish"}
        /\ state'.retry_count = state.retry_count + 1
        /\ thread' = thread
    BY <1>7, QaTypes DEF ReturnVerdict, route_after_qa
  <2>2. PhasesAhead(phase) = 3 /\ PhasesAhead(phase') <= 6
    BY <2>1 DEF PhasesAhead
  <2>3. QED
    BY <1>3, <2>1, <2>2 DEF StepsAhead
<1>8. CASE MarkResolved
  BY <1>2, <1>3, <1>8 DEF MarkResolved, PhasesAhead, TypeInv, TypeOK, AgentStates
<1>9. CASE Raise \/ RaiseAfterCommit \/ RaiseAfterEffect
  BY <1>2, <1>3, <1>9 DEF Raise, RaiseAfterCommit, RaiseAfterEffect, NodePhases, PrPhases,
                          PhasesAhead
<1>10. CASE GithubTimeout
  <2>1. /\ phase \in PrPhases /\ phase' = "finish"
        /\ UNCHANGED state
    BY <1>10 DEF GithubTimeout
  <2>2. PhasesAhead(phase) >= 4 /\ PhasesAhead(phase') = 2
    BY <2>1 DEF PhasesAhead, PrPhases
  <2>3. QED
    BY <1>3, <2>1, <2>2 DEF StepsAhead
<1>11. CASE ThreadLands \/ ThreadFails
  BY <1>3, <1>11 DEF ThreadLands, ThreadFails, run, StepsAhead
<1>12. CASE Finish \/ CloseRaises \/ Ack
  BY <1>2, <1>3, <1>12 DEF Finish, CloseRaises, Ack, PhasesAhead
<1>13. CASE WorkerDies \/ ChildKilled
  <2>1. /\ phase \in Running /\ phase' \in {"queued", "lost"}
        /\ thread' = None /\ UNCHANGED state
    BY <1>13 DEF WorkerDies, ChildKilled
  <2>2. PhasesAhead(phase) > 0 /\ PhasesAhead(phase') = 0
    BY <2>1 DEF PhasesAhead, Running, NodePhases, PrPhases
  <2>3. QED
    BY <1>3, <2>1, <2>2 DEF StepsAhead
<1>14. QED
  BY <1>4, <1>5, <1>6, <1>7, <1>8, <1>9, <1>10, <1>11, <1>12, <1>13 DEF Worker

\* tasks.py and graph.py: between two deliveries a run takes a bounded number
\* of steps, whatever fails in it; only the saver's writes and the human, who
\* take none of them away, come in addition.
THEOREM RunIsBounded ==
    Spec => [](StepsAhead \in 0..(10 * MaxAttempts + 14)) /\ [][RunRunsOut]_vars
<1>1. ASSUME IInv PROVE StepsAhead \in 0..(10 * MaxAttempts + 14)
  <2>1. /\ MaxAttempts \in Nat /\ state.retry_count \in 0..MaxAttempts
        /\ thread # None => phase \in {"finish", "returned", "raised"}
    BY <1>1, AttemptsFacts DEF IInv, TypeInv, TypeOK, AgentStates, Control
  <2>2. PhasesAhead(phase) \in 0..7 /\ (thread # None => PhasesAhead(phase) <= 2)
    BY <2>1 DEF PhasesAhead
  <2>3. QED
    BY <2>1, <2>2 DEF StepsAhead
<1>2. ASSUME IInv, [Next]_vars PROVE [RunRunsOut]_vars
  <2>1. ASSUME Checkpoint \/ HumanCloses PROVE StepsAhead' = StepsAhead
    BY <2>1 DEF Checkpoint, HumanCloses, run, StepsAhead
  <2>2. StepsAhead \in Int
    BY <1>1, <1>2, AttemptsFacts
  <2>3. Next => \/ Deliver
                \/ (Worker /\ ~Deliver) \/ WorkerDies \/ ChildKilled
                \/ Checkpoint \/ HumanCloses
    BY DEF Next
  <2>4. ASSUME Next PROVE phase # "queued" => StepsAhead' <= StepsAhead
    <3>1. CASE Deliver
      BY <3>1 DEF Deliver
    <3>2. CASE (Worker /\ ~Deliver) \/ WorkerDies \/ ChildKilled
      <4>1. StepsAhead' < StepsAhead
        BY <1>2, <3>2, RunSteps
      <4>2. StepsAhead' \in Int
        BY <1>2, NextTypeInv, NextGate, NextTrail, NextOutcome, AttemptsFacts
        DEF IInv, TypeInv, TypeOK, AgentStates, StepsAhead, PhasesAhead
      <4>3. QED
        BY <2>2, <4>1, <4>2
    <3>3. CASE Checkpoint \/ HumanCloses
      BY <2>1, <2>2, <3>3
    <3>4. QED
      BY <2>3, <2>4, <3>1, <3>2, <3>3
  <2>5. QED
    BY <1>2, <2>4, RunSteps DEF RunRunsOut
<1>3. QED
  BY <1>1, <1>2, Invariance, PTL DEF Spec
=============================================================================
