--------------------------- MODULE PipelineProofs ---------------------------
(***************************************************************************)
(* Proofs about Pipeline for any number of reports, crashes, seeds and     *)
(* attempts and any number of faults. A request's step is first reduced to *)
(* what it does to pc, task, ids and dedup (HandlerHasEffect); the         *)
(* invariant relates these to the tables, the pull requests and the runs.  *)
(***************************************************************************)
EXTENDS Pipeline, TLAPS

-----------------------------------------------------------------------------
(***************************************************************************)
(* The inductive invariant                                                 *)
(***************************************************************************)
PcLabels   == Ingest!InRequest \cup {"replied", "dead"}
TaskStates == {"none", "queued", "running", "released", "done", "lost"}
NodeLabels == {"idle", "attempt", "create_pull_request", "mark_resolved", "end"}

Typed ==
    /\ pc \in [Requests -> PcLabels]
    /\ ids \in [Requests -> Requests \cup {None}]
    /\ dedup \in [Keys -> Ingest!Entries \cup {None}]
    /\ task \in [Requests -> TaskStates]
    /\ error_logs \in [Ids -> {"absent", "open", "resolved"}]
    /\ pulls \in [Requests -> {0, 1}]
    /\ node \in [Requests -> NodeLabels]
    /\ late \subseteq Requests

\* A pipeline is enqueued late in its request, its id recorded after that.
Enqueued ==
    /\ \A r \in Requests : pc[r] = "set_incident_value" => task[r] # "none"
    /\ \A r \in Requests : task[r] # "none" =>
          pc[r] \in {"set_incident_value", "replied", "release_failed", "dead"}

Recorded ==
    /\ \A k \in Keys : dedup[k] # None /\ dedup[k].value # None
                           => task[dedup[k].value] # "none"
    /\ \A r \in Requests : ids[r] # None => task[ids[r]] # "none"

\* The log is in the table before anything refers to it.
Stored ==
    /\ \A r \in Requests :
          task[r] # "none" \/ pc[r] = "delay" => error_logs[r] # "absent"
    /\ \A row \in harness_results :
          row.log_id \in Ids /\ error_logs[row.log_id] # "absent"

\* A run and its late call belong to a task, a pull request to a pipeline.
Working ==
    /\ \A r \in Requests : node[r] # "idle" => task[r] = "running"
    /\ \A r \in late : task[r] \in {"running", "released"}
    /\ \A r \in Requests : pulls[r] # 0 => task[r] # "none"

HasResolution(r) == \E row \in harness_results : row.log_id = r /\ row.passed

\* The row of the passing run is there before the pull request.
Remembered ==
    \A r \in Requests :
        node[r] \in {"create_pull_request", "mark_resolved"} \/ error_logs[r] = "resolved"
            => HasResolution(r)

IInv == Typed /\ Enqueued /\ Recorded /\ Stored /\ Working /\ Remembered

\* The requests that won their dedup key: they have a pipeline or may get one.
Claims(r) == task[r] # "none" \/ pc[r] \in {"embed_and_store", "delay", "set_incident_value"}

OneClaim ==
    /\ \A r \in Requests : Claims(r) => dedup[KeyOf[r]] # None
    /\ \A r, q \in Requests : Claims(r) /\ Claims(q) /\ KeyOf[r] = KeyOf[q] => r = q

LEMMA InitInv == Init => IInv /\ OneClaim
<1> SUFFICES ASSUME Init PROVE IInv /\ OneClaim
  OBVIOUS
<1> USE DEF Init, Ingest!Init
<1>1. Typed
  BY DEF Typed, PcLabels, Ingest!InRequest, TaskStates, NodeLabels
<1>2. Enqueued /\ Recorded /\ OneClaim
  BY PipelineAssumption DEF Enqueued, Recorded, OneClaim, Claims
<1>3. Stored /\ Working /\ Remembered
  BY DEF Stored, Working, Remembered, Ids
<1> QED BY <1>1, <1>2, <1>3 DEF IInv

-----------------------------------------------------------------------------
(***************************************************************************)
(* What a step of the ingest path does to the request and its key          *)
(***************************************************************************)
NextTyped ==
    /\ pc' \in [Requests -> PcLabels]
    /\ ids' \in [Requests -> Requests \cup {None}]
    /\ dedup' \in [Keys -> Ingest!Entries \cup {None}]
    /\ task' \in [Requests -> TaskStates]

OthersStay(r) ==
    /\ \A q \in Requests \ {r} : pc'[q] = pc[q] /\ task'[q] = task[q] /\ ids'[q] = ids[q]
    /\ \A k \in Keys \ {KeyOf[r]} : dedup'[k] = dedup[k]

\* From where to where, and where the pipeline is enqueued.
Moves(r) ==
    /\ pc[r] \in Ingest!InRequest
    /\ pc'[r] = "delay" => pc[r] = "embed_and_store"
    /\ pc'[r] = "set_incident_value" => pc[r] = "delay" /\ task'[r] = "queued"
    /\ pc[r] \in {"set_incident_value", "release_failed"} => pc'[r] = "replied"
    /\ task'[r] # task[r] =>
          /\ pc[r] = "delay" /\ pc'[r] \in {"set_incident_value", "release_failed"}
          /\ task'[r] = "queued"
    /\ pc'[r] = "embed_and_store" /\ "redis" \notin Faults =>
          dedup[KeyOf[r]] = None /\ dedup'[KeyOf[r]] # None

Records(r) ==
    /\ ids'[r] # ids[r] /\ ids'[r] # None =>
          dedup[KeyOf[r]] # None /\ ids'[r] = dedup[KeyOf[r]].value
    /\ dedup'[KeyOf[r]] # dedup[KeyOf[r]] =>
          /\ dedup'[KeyOf[r]] # None
          /\ \/ dedup'[KeyOf[r]].value = None
             \/ pc[r] = "set_incident_value" /\ dedup'[KeyOf[r]].value = r

LEMMA EntriesAreNotNone ==
    /\ Ingest!Claimed \in Ingest!Entries \ {None} /\ Ingest!Claimed.value = None
    /\ \A r \in Requests, e \in Ingest!Entries \cup {None} :
          /\ Ingest!WithIds(e, r) \in Ingest!Entries \ {None}
          /\ Ingest!WithIds(e, r).value = r
<1>1. Ingest!Claimed \in Ingest!Entries \ {None} /\ Ingest!Claimed.value = None
  <2>1. Ingest!Claimed \in Ingest!Entries /\ Ingest!Claimed.value = None
    BY DEF Ingest!Claimed, Ingest!Entries
  <2> QED BY <2>1, PipelineAssumption
<1>2. ASSUME NEW r \in Requests, NEW e \in Ingest!Entries \cup {None}
      PROVE  /\ Ingest!WithIds(e, r) \in Ingest!Entries \ {None}
             /\ Ingest!WithIds(e, r).value = r
  <2>1. (IF e = None THEN FALSE ELSE e.ttl) \in BOOLEAN
    BY DEF Ingest!Entries
  <2>2. Ingest!WithIds(e, r) \in Ingest!Entries
    BY <2>1 DEF Ingest!WithIds, Ingest!Entries
  <2> QED BY <2>2, PipelineAssumption DEF Ingest!WithIds
<1> QED BY <1>1, <1>2

LEMMA HandlerHasEffect ==
    ASSUME IInv, NEW r \in Requests, Ingest!Handler(r)
    PROVE  NextTyped /\ OthersStay(r) /\ Moves(r) /\ Records(r)
<1> USE EntriesAreNotNone, PipelineAssumption
    DEF IInv, Typed, PcLabels, TaskStates, Ingest!InRequest, Ingest!Goto, Ingest!Answer,
        Ingest!Fault, NextTyped, OthersStay, Moves, Records
<1>1. CASE Ingest!AcquireSlot(r)
  BY <1>1 DEF Ingest!AcquireSlot
<1>2. CASE Ingest!RollBack(r)
  BY <1>2 DEF Ingest!RollBack
<1>3. CASE Ingest!AcquireFailsOpen(r)
  BY <1>3 DEF Ingest!AcquireFailsOpen
<1>4. CASE Ingest!ClaimIncident(r)
  BY <1>4 DEF Ingest!ClaimIncident
<1>5. CASE Ingest!ReadOriginal(r)
  BY <1>5 DEF Ingest!ReadOriginal, Ingest!Entries
<1>6. CASE Ingest!ClaimFailsOpen(r)
  BY <1>6 DEF Ingest!ClaimFailsOpen
<1>7. CASE Ingest!ReleaseDuplicate(r)
  BY <1>7 DEF Ingest!ReleaseDuplicate
<1>8. CASE Ingest!EmbedAndStore(r)
  BY <1>8 DEF Ingest!EmbedAndStore
<1>9. CASE Ingest!Delay(r)
  BY <1>9 DEF Ingest!Delay
<1>10. CASE Ingest!ReleaseFailed(r)
  BY <1>10 DEF Ingest!ReleaseFailed
<1>11. CASE Ingest!SetIncidentValue(r)
  BY <1>11 DEF Ingest!SetIncidentValue
<1> QED BY <1>1, <1>2, <1>3, <1>4, <1>5, <1>6, <1>7, <1>8, <1>9, <1>10, <1>11
        DEF Ingest!Handler

-----------------------------------------------------------------------------
(***************************************************************************)
(* Every step keeps the invariant                                          *)
(***************************************************************************)
LEMMA HandleKeeps ==
    ASSUME IInv, NEW r \in Requests, Handle(r)
    PROVE  IInv'
<1>1. NextTyped /\ OthersStay(r) /\ Moves(r) /\ Records(r)
  BY HandlerHasEffect DEF Handle
<1>2. Typed'
  <2>1. error_logs' \in [Ids -> {"absent", "open", "resolved"}]
    BY DEF Handle, InsertLog, IInv, Typed
  <2> QED BY <1>1, <2>1 DEF NextTyped, Typed, IInv, Handle, worker
<1>3. Enqueued'
  BY <1>1 DEF NextTyped, OthersStay, Moves, Enqueued, IInv, Typed, Ingest!InRequest
<1>4. \A q \in Requests : task[q] # "none" => task'[q] # "none"
  BY <1>1 DEF OthersStay, Moves
<1>5. Recorded'
  <2>1. ASSUME NEW k \in Keys, dedup'[k] # None, dedup'[k].value # None
        PROVE  task'[dedup'[k].value] # "none"
    <3>1. CASE dedup'[k] = dedup[k]
      <4>1. task[dedup[k].value] # "none" /\ dedup[k].value \in Requests
        BY <2>1, <3>1 DEF IInv, Recorded, Typed, Ingest!Entries
      <4> QED BY <1>4, <3>1, <4>1
    <3>2. CASE dedup'[k] # dedup[k]
      <4>1. pc[r] = "set_incident_value" /\ dedup'[k].value = r
        BY <1>1, <2>1, <3>2 DEF OthersStay, Records
      <4> QED BY <1>4, <4>1 DEF IInv, Enqueued
    <3> QED BY <3>1, <3>2
  <2>2. ASSUME NEW q \in Requests, ids'[q] # None
        PROVE  task'[ids'[q]] # "none"
    <3>1. CASE ids'[q] = ids[q]
      <4>1. task[ids[q]] # "none" /\ ids[q] \in Requests
        BY <2>2, <3>1 DEF IInv, Recorded, Typed
      <4> QED BY <1>4, <3>1, <4>1
    <3>2. CASE ids'[q] # ids[q]
      <4>1. q = r /\ dedup[KeyOf[r]] # None /\ ids'[q] = dedup[KeyOf[r]].value
        BY <1>1, <2>2, <3>2 DEF OthersStay, Records
      <4>2. KeyOf[r] \in Keys /\ ids'[q] \in Requests
        BY <1>1, <2>2, PipelineAssumption DEF NextTyped
      <4> QED BY <1>4, <2>2, <4>1, <4>2 DEF IInv, Recorded
    <3> QED BY <3>1, <3>2
  <2> QED BY <2>1, <2>2 DEF Recorded
<1>6. \A i \in Ids : error_logs[i] # "absent" => error_logs'[i] # "absent"
  BY DEF Handle, InsertLog, IInv, Typed
<1>7. Stored'
  <2>1. ASSUME NEW q \in Requests, task'[q] # "none" \/ pc'[q] = "delay"
        PROVE  error_logs'[q] # "absent"
    <3>1. CASE q # r \/ task[q] # "none" \/ pc[q] = "delay"
      <4>1. error_logs[q] # "absent"
        BY <1>1, <2>1, <3>1 DEF OthersStay, IInv, Stored
      <4> QED BY <1>6, <4>1 DEF Ids
    <3>2. CASE q = r /\ task[q] = "none" /\ pc[q] # "delay"
      <4>1. pc[r] = "embed_and_store" /\ pc'[r] = "delay"
        BY <1>1, <2>1, <3>2 DEF Moves
      <4>2. error_logs' = [error_logs EXCEPT ![r] = "open"]
        BY <4>1 DEF Handle, InsertLog
      <4> QED BY <3>2, <4>2 DEF IInv, Typed, Ids
    <3> QED BY <3>1, <3>2
  <2> QED BY <1>6, <2>1 DEF Handle, Stored, IInv
<1>8. Working'
  <2>1. ASSUME NEW q \in Requests, task[q] \in {"running", "released"}
        PROVE  task'[q] = task[q]
    <3>1. pc[q] # "delay"
      BY <2>1 DEF IInv, Enqueued
    <3> QED BY <1>1, <3>1 DEF OthersStay, Moves
  <2> QED BY <1>4, <2>1 DEF Working, IInv, Typed, Handle, worker
<1>9. Remembered'
  <2>1. \A q \in Requests : error_logs'[q] = "resolved" => error_logs[q] = "resolved"
    BY DEF Handle, InsertLog, IInv, Typed, Ids
  <2> QED BY <2>1 DEF Handle, worker, Remembered, HasResolution, IInv
<1> QED BY <1>2, <1>3, <1>5, <1>7, <1>8, <1>9 DEF IInv

\* What a step of the worker does to the tables and on GitHub, whether its
\* node then goes on, raises or is given up.
LEMMA WorkHasEffect ==
    ASSUME NEW r \in Requests, Work(r) \/ WorkerDies(r)
    PROVE  \/ UNCHANGED <<tables, pulls>>
           \/ /\ node[r] = "attempt"
              /\ \E passed, covered \in BOOLEAN : Runs!StoreRow(r, passed, covered)
           \/ (node[r] = "create_pull_request" \/ r \in late) /\ Runs!OpenPull(r)
           \/ node[r] = "mark_resolved" /\ Runs!Resolve(r)
<1> USE DEF tables, Runs!tables
<1>1. CASE Runs!Raise(r)
  BY <1>1 DEF Runs!Raise
<1>2. CASE \E passed, covered \in BOOLEAN : Runs!Attempt(r, passed, covered)
  BY <1>2 DEF Runs!Attempt
<1>3. CASE Runs!CreatePullRequest(r) \/ Runs!MarkResolved(r) \/ Runs!LateCall(r)
  BY <1>3 DEF Runs!CreatePullRequest, Runs!MarkResolved, Runs!LateCall
<1>4. CASE Start(r) \/ End(r) \/ Ack(r) \/ WorkerDies(r)
  BY <1>4 DEF Start, End, Ack, WorkerDies, Runs!Start, Runs!End, Runs!Ack, Runs!WorkerDies
<1>5. QED
  BY <1>1, <1>2, <1>3, <1>4 DEF Work, Proceed, Runs!Proceed

\* Where the step takes the run, and what becomes of a late call.
LEMMA WorkMoves ==
    ASSUME IInv, NEW r \in Requests, Work(r) \/ WorkerDies(r)
    PROVE  /\ node' \in [Requests -> NodeLabels]
           /\ \A q \in Requests \ {r} : node'[q] = node[q]
           /\ node'[r] # "idle" => task'[r] = "running"
           /\ late' \subseteq late \cup {r}
           /\ r \in late' => task'[r] \in {"running", "released"}
<1> USE DEF IInv, Typed, Working, Runs!Goto, NodeLabels
<1>1. CASE Start(r)
  BY <1>1 DEF Start, Ingest!StartTask, Runs!Start
<1>2. CASE End(r)
  BY <1>2 DEF End, Runs!End
<1>3. CASE Ack(r)
  BY <1>3 DEF Ack, Runs!Ack, Runs!worker
<1>4. CASE WorkerDies(r)
  BY <1>4 DEF WorkerDies, Runs!WorkerDies
<1>5. ASSUME Proceed(r) PROVE UNCHANGED task
  BY <1>5 DEF Proceed, ingest
<1>6. CASE Proceed(r) /\ (Runs!CreatePullRequest(r) \/ Runs!MarkResolved(r))
  BY <1>5, <1>6 DEF Runs!CreatePullRequest, Runs!MarkResolved
<1>7. CASE Proceed(r) /\ Runs!Raise(r)
  <2>1. node[r] # "idle" /\ node' = [node EXCEPT ![r] = "end"]
    BY <1>7 DEF Runs!Raise
  <2>2. late' \subseteq late \cup {r}
    BY <1>7 DEF Runs!Raise
  <2>3. QED
    BY <1>5, <1>7, <2>1, <2>2
<1>8. CASE Proceed(r) /\ Runs!LateCall(r)
  BY <1>5, <1>8 DEF Runs!LateCall
<1>9. ASSUME NEW passed \in BOOLEAN, NEW covered \in BOOLEAN,
             Proceed(r), Runs!Attempt(r, passed, covered)
      PROVE  /\ node' \in [Requests -> NodeLabels]
             /\ \A q \in Requests \ {r} : node'[q] = node[q]
             /\ node'[r] # "idle" => task'[r] = "running"
             /\ UNCHANGED late
  BY <1>5, <1>9 DEF Runs!Attempt, Runs!AfterAttempt
<1>10. CASE Proceed(r)
  <2>1. Runs!Proceed(r)
    BY <1>10 DEF Proceed
  <2>2. QED
    BY <1>5, <1>6, <1>7, <1>8, <1>9, <1>10, <2>1 DEF Runs!Proceed
<1>11. QED
  BY <1>1, <1>2, <1>3, <1>4, <1>10 DEF Work

\* The worker leaves requests and keys alone and takes no pipeline away.
LEMMA WorkerKeeps ==
    ASSUME IInv, NEW r \in Requests, Work(r) \/ WorkerDies(r)
    PROVE  IInv'
<1> USE DEF IInv, Typed
<1>1. /\ UNCHANGED <<pc, ids, dedup>>
      /\ task' \in [Requests -> TaskStates]
      /\ \A q \in Requests \ {r} : task'[q] = task[q]
      /\ task'[r] # task[r] => task[r] # "none" /\ task'[r] # "none"
  <2> USE DEF TaskStates
  <2>1. CASE Start(r)
    BY <2>1 DEF Start, Ingest!StartTask
  <2>2. CASE End(r)
    BY <2>2 DEF End, Ingest!EndRun
  <2>3. CASE Ack(r)
    BY <2>3 DEF Ack, Ingest!AckTask
  <2>4. CASE WorkerDies(r)
    BY <2>4 DEF WorkerDies, Ingest!WorkerDies
  <2>5. CASE Proceed(r)
    BY <2>5 DEF Proceed, ingest
  <2> QED BY <2>1, <2>2, <2>3, <2>4, <2>5 DEF Work
<1>2. \A q \in Requests : task[q] # "none" <=> task'[q] # "none"
  BY <1>1
<1>3. Enqueued' /\ Recorded'
  <2>1. ASSUME NEW k \in Keys, dedup[k] # None, dedup[k].value # None
        PROVE  dedup[k].value \in Requests
    BY <2>1 DEF Ingest!Entries
  <2> QED BY <1>1, <1>2, <2>1 DEF Enqueued, Recorded
<1>4. /\ error_logs' \in [Ids -> {"absent", "open", "resolved"}]
      /\ \A i \in Ids : error_logs[i] # "absent" <=> error_logs'[i] # "absent"
      /\ \A q \in Requests : error_logs'[q] = "resolved" =>
            error_logs[q] = "resolved" \/ node[q] = "mark_resolved"
  <2>1. CASE node[r] = "mark_resolved" /\ Runs!Resolve(r)
    BY <2>1 DEF Runs!Resolve, Ids
  <2>2. CASE UNCHANGED error_logs
    BY <2>2
  <2> QED BY <2>1, <2>2, WorkHasEffect DEF Runs!StoreRow, Runs!OpenPull, tables, Runs!tables
<1>5. /\ pulls' \in [Requests -> {0, 1}]
      /\ \A q \in Requests : pulls'[q] # 0 => pulls[q] # 0 \/ (q = r /\ task[r] # "none")
  <2>1. CASE (node[r] = "create_pull_request" \/ r \in late) /\ Runs!OpenPull(r)
    BY <2>1 DEF Runs!OpenPull, Working
  <2>2. CASE UNCHANGED pulls
    BY <2>2
  <2> QED BY <2>1, <2>2, WorkHasEffect DEF Runs!StoreRow, Runs!Resolve
<1>6. Stored'
  <2>1. \A row \in harness_results' :
           \/ row \in harness_results
           \/ row.log_id = r /\ task[r] # "none"
    <3>1. ASSUME NEW passed \in BOOLEAN, NEW covered \in BOOLEAN,
                 node[r] = "attempt", Runs!StoreRow(r, passed, covered)
          PROVE  <2>1!:
      BY <3>1 DEF Runs!StoreRow, Runs!Row, Working
    <3>2. CASE UNCHANGED harness_results
      BY <3>2
    <3> QED BY <3>1, <3>2, WorkHasEffect DEF Runs!OpenPull, Runs!Resolve, tables, Runs!tables
  <2> QED BY <1>1, <1>2, <1>4, <2>1 DEF Stored, Ids
<1>7. Working'
  BY <1>1, <1>2, <1>5, WorkMoves DEF Working
<1>8. Remembered'
  <2>1. harness_results \subseteq harness_results'
    BY WorkHasEffect DEF Runs!StoreRow, Runs!OpenPull, Runs!Resolve, tables, Runs!tables
  <2>2. \A q \in Requests : HasResolution(q) => HasResolution(q)'
    BY <2>1 DEF HasResolution
  <2>3. node'[r] \in {"create_pull_request", "mark_resolved"} => HasResolution(r)'
    <3> USE DEF Runs!Goto
    <3>1. ASSUME NEW passed \in BOOLEAN, NEW covered \in BOOLEAN,
                 Runs!Attempt(r, passed, covered)
          PROVE  <2>3!:
      <4>1. node'[r] \in {"create_pull_request", "mark_resolved"} => passed
        BY <3>1 DEF Runs!Attempt, Runs!AfterAttempt, NodeLabels
      <4>2. Runs!Row(r, passed, covered) \in harness_results'
        BY <3>1 DEF Runs!Attempt, Runs!StoreRow
      <4> QED BY <4>1, <4>2 DEF Runs!Row, HasResolution
    <3>2. CASE Runs!CreatePullRequest(r)
      BY <2>2, <3>2 DEF Runs!CreatePullRequest, Remembered
    <3>3. CASE Ack(r) \/ Runs!LateCall(r)
      BY <2>2, <3>3 DEF Ack, Runs!Ack, Runs!worker, Runs!LateCall, Remembered
    <3>4. CASE node'[r] \in {"idle", "attempt", "end"}
      BY <3>4
    <3> QED BY <3>1, <3>2, <3>3, <3>4
            DEF Work, Proceed, Start, End, WorkerDies, Runs!Proceed, Runs!Start,
                Runs!MarkResolved, Runs!Raise, Runs!End, Runs!WorkerDies
  <2> QED BY <1>4, <2>2, <2>3, WorkMoves DEF Remembered
<1> QED BY <1>1, <1>3, <1>4, <1>5, <1>6, <1>7, <1>8, WorkMoves

LEMMA ApiDiesKeeps ==
    ASSUME IInv, NEW r \in Requests, ApiDies(r)
    PROVE  IInv'
<1> USE DEF IInv, ApiDies, Ingest!ApiDies, Ingest!Goto, tables, worker
<1>1. pc' \in [Requests -> PcLabels] /\ \A q \in Requests : pc'[q] \in {pc[q], "dead"}
  BY DEF Typed, PcLabels
<1>2. Typed'
  BY <1>1 DEF Typed
<1>3. Enqueued' /\ Recorded'
  BY <1>1 DEF Enqueued, Recorded
<1>4. Stored'
  BY <1>1 DEF Stored
<1>5. Working' /\ Remembered'
  BY DEF Working, Remembered, HasResolution
<1> QED BY <1>2, <1>3, <1>4, <1>5

LEMMA SeedKeeps ==
    ASSUME IInv, NEW s \in Seeds, SeedLog(s) \/ SeedResult(s)
    PROVE  IInv'
<1> USE PipelineAssumption DEF IInv, SeedLog, SeedResult, ingest, worker
<1>1. /\ error_logs' \in [Ids -> {"absent", "open", "resolved"}]
      /\ \A i \in Ids : error_logs[i] # "absent" => error_logs'[i] # "absent"
      /\ \A q \in Requests : error_logs'[q] = error_logs[q]
  BY DEF Typed, Ids
<1>2. /\ harness_results \subseteq harness_results'
      /\ \A row \in harness_results' :
             \/ row \in harness_results
             \/ row.log_id \in Ids /\ error_logs[row.log_id] # "absent"
  <2>1. CASE SeedLog(s)
    BY <2>1
  <2>2. CASE SeedResult(s)
    BY <2>2 DEF Ids
  <2> QED BY <2>1, <2>2
<1>3. Typed' /\ Enqueued' /\ Recorded' /\ Working'
  BY <1>1 DEF Typed, Enqueued, Recorded, Working
<1>4. Stored'
  BY <1>1, <1>2 DEF Stored
<1>5. Remembered'
  BY <1>1, <1>2 DEF Remembered, HasResolution
<1> QED BY <1>3, <1>4, <1>5

LEMMA StutterKeeps ==
    ASSUME IInv, UNCHANGED vars
    PROVE  IInv'
BY DEF vars, ingest, tables, worker, IInv, Typed, Enqueued, Recorded, Stored, Working,
       Remembered, HasResolution

\* IInv holds in every reachable state.
LEMMA Invariance == Spec => []IInv
<1>1. IInv /\ [Next]_vars => IInv'
  BY HandleKeeps, WorkerKeeps, ApiDiesKeeps, SeedKeeps, StutterKeeps DEF Next
<1> QED BY InitInv, <1>1, PTL DEF Spec

\* Rows, pull requests and answers refer to stored logs, for any number of
\* reports and whichever calls fail, although the tables have no foreign key.
THEOREM ReferencesAreKept == Spec => []ReferencesHold
<1>1. IInv => ReferencesHold
  <2> SUFFICES ASSUME IInv PROVE ReferencesHold
    OBVIOUS
  <2>1. \A row \in harness_results : row.log_id \in semantic_search_logs
    BY DEF IInv, Stored, semantic_search_logs
  <2>2. \A r \in Requests : pulls[r] > 0 => r \in semantic_search_logs
    BY DEF IInv, Stored, Working, semantic_search_logs, Ids
  <2>3. \A r \in Requests : ids[r] # None => ids[r] \in semantic_search_logs
    BY DEF IInv, Typed, Stored, Recorded, semantic_search_logs, Ids
  <2> QED BY <2>1, <2>2, <2>3 DEF ReferencesHold
<1> QED BY <1>1, Invariance, PTL

\* An incident marked resolved by the pipeline is among the resolutions the
\* memory offers, whatever failed or was redelivered on its way.
THEOREM MemoryIsComplete == Spec => []ResolvedIsRemembered
<1>1. IInv => ResolvedIsRemembered
  <2> SUFFICES ASSUME IInv, NEW r \in Requests, error_logs[r] = "resolved"
               PROVE  \E row \in get_similar_resolutions : row.log_id = r
    BY DEF ResolvedIsRemembered
  <2>1. PICK row \in harness_results : row.log_id = r /\ row.passed
    BY DEF IInv, Remembered, HasResolution
  <2> QED BY <2>1 DEF get_similar_resolutions
<1> QED BY <1>1, Invariance, PTL

-----------------------------------------------------------------------------
(***************************************************************************)
(* One pull request per crash, as long as no Redis command fails: failing  *)
(* open is a second claim.                                                 *)
(***************************************************************************)
LEMMA NextOneClaim ==
    ASSUME "redis" \notin Faults, IInv, OneClaim, [Next]_vars
    PROVE  OneClaim'
<1>1. ASSUME NEW r \in Requests, Handle(r) PROVE OneClaim'
  <2>1. NextTyped /\ OthersStay(r) /\ Moves(r) /\ Records(r)
    BY <1>1, HandlerHasEffect DEF Handle
  <2>2. \A k \in Keys : dedup[k] # None => dedup'[k] # None
    BY <2>1 DEF OthersStay, Records
  <2>3. \A q \in Requests : Claims(q)' => Claims(q) \/ (q = r /\ pc'[r] = "embed_and_store")
    BY <2>1 DEF OthersStay, Moves, Claims
  <2>4. pc'[r] = "embed_and_store" => dedup[KeyOf[r]] = None /\ dedup'[KeyOf[r]] # None
    BY <2>1, "redis" \notin Faults DEF Moves
  <2>5. \A q \in Requests : KeyOf[q] \in Keys
    BY PipelineAssumption
  <2>6. \A q \in Requests : Claims(q)' => dedup'[KeyOf[q]] # None
    BY <2>2, <2>3, <2>4, <2>5 DEF OneClaim
  <2>7. ASSUME NEW p \in Requests, NEW q \in Requests, Claims(p)', Claims(q)',
               KeyOf[p] = KeyOf[q]
        PROVE  p = q
    BY <2>3, <2>4, <2>7 DEF OneClaim
  <2> QED BY <2>6, <2>7 DEF OneClaim
<1>2. ASSUME UNCHANGED dedup, \A q \in Requests : Claims(q)' => Claims(q) PROVE OneClaim'
  BY <1>2 DEF OneClaim
<1>3. ASSUME NEW r \in Requests, Work(r) \/ WorkerDies(r) PROVE OneClaim'
  <2>1. UNCHANGED <<pc, dedup>> /\ \A q \in Requests : task'[q] # "none" => task[q] # "none"
    <3> USE DEF IInv, Typed, TaskStates
    <3>1. CASE Start(r)
      BY <3>1 DEF Start, Ingest!StartTask
    <3>2. CASE End(r)
      BY <3>2 DEF End, Ingest!EndRun
    <3>3. CASE Ack(r)
      BY <3>3 DEF Ack, Ingest!AckTask
    <3>4. CASE WorkerDies(r)
      BY <3>4 DEF WorkerDies, Ingest!WorkerDies
    <3>5. CASE Proceed(r)
      BY <3>5 DEF Proceed, ingest
    <3> QED BY <1>3, <3>1, <3>2, <3>3, <3>4, <3>5 DEF Work
  <2>2. \A q \in Requests : Claims(q)' => Claims(q)
    BY <2>1 DEF Claims
  <2> QED BY <1>2, <2>1, <2>2
<1>4. ASSUME NEW r \in Requests, ApiDies(r) PROVE OneClaim'
  <2>1. UNCHANGED <<dedup, task>> /\ \A q \in Requests : pc'[q] \in {pc[q], "dead"}
    BY <1>4 DEF ApiDies, Ingest!ApiDies, Ingest!Goto, IInv, Typed
  <2>2. \A q \in Requests : Claims(q)' => Claims(q)
    BY <2>1 DEF Claims
  <2> QED BY <1>2, <2>1, <2>2
<1>5. CASE UNCHANGED ingest
  <2>1. \A q \in Requests : Claims(q)' => Claims(q)
    BY <1>5 DEF ingest, Claims
  <2> QED BY <1>2, <1>5, <2>1 DEF ingest
<1> QED BY <1>1, <1>3, <1>4, <1>5 DEF Next, SeedLog, SeedResult, vars

\* Redelivery and deduplication together: one crash gets at most one pull
\* request within its window, for any number of reports, runs and deaths.
THEOREM OneCrashOnePull == "redis" \notin Faults /\ Spec => []OnePullPerCrash
<1>1. IInv /\ OneClaim => OnePullPerCrash
  <2> SUFFICES ASSUME IInv, OneClaim, NEW r \in Requests, NEW q \in Requests,
                      pulls[r] > 0, pulls[q] > 0, KeyOf[r] = KeyOf[q]
               PROVE  r = q /\ pulls[r] = 1
    BY DEF OnePullPerCrash
  <2>1. pulls[r] = 1 /\ pulls[q] = 1
    BY DEF IInv, Typed
  <2>2. Claims(r) /\ Claims(q)
    BY <2>1 DEF IInv, Working, Claims
  <2> QED BY <2>1, <2>2 DEF OneClaim
<1>2. ASSUME "redis" \notin Faults PROVE IInv /\ OneClaim /\ [Next]_vars => OneClaim'
  BY <1>2, NextOneClaim
<1>3. ASSUME "redis" \notin Faults PROVE Spec => []OnePullPerCrash
  <2>1. IInv /\ OneClaim /\ [Next]_vars => OneClaim'
    BY <1>2, <1>3
  <2> QED BY InitInv, Invariance, <1>1, <2>1, PTL DEF Spec
<1> QED BY <1>3

-----------------------------------------------------------------------------
(***************************************************************************)
(* What EveryReportIsSettled rests on besides fairness: a pipeline that is *)
(* in the queue or runs has at most MaxAttempts + 5 steps ahead of it. Its *)
(* own steps, failed ones included, use them up; nothing but the death of  *)
(* its worker gives any back, neither another report nor the seed script.  *)
(***************************************************************************)
Counting ==
    /\ tries \in [Requests -> 0..(MaxAttempts - 1)]
    /\ \A r \in Requests : task[r] = "running" => node[r] # "idle"

NodesAhead(r) ==
    CASE node[r] = "attempt" -> 4 + (MaxAttempts - tries[r])
      [] node[r] = "create_pull_request" -> 4
      [] node[r] = "mark_resolved" -> 3
      [] OTHER -> 2

LateAhead(r) == IF r \in late THEN 1 ELSE 0

StepsAhead(r) ==
    CASE task[r] = "queued" -> MaxAttempts + 5
      [] task[r] = "running" -> NodesAhead(r) + LateAhead(r)
      [] task[r] = "released" -> 1 + LateAhead(r)
      [] OTHER -> 0

PipelinesRunOut ==
    \A r \in Requests :
        /\ Work(r) => StepsAhead(r)' < StepsAhead(r)
        /\ task[r] # "none" /\ ~WorkerDies(r) => StepsAhead(r)' <= StepsAhead(r)

LEMMA StepsAreNatural ==
    ASSUME Counting, NEW r \in Requests
    PROVE  /\ NodesAhead(r) \in 2..(MaxAttempts + 4)
           /\ LateAhead(r) \in 0..1
           /\ StepsAhead(r) \in 0..(MaxAttempts + 5)
<1>1. MaxAttempts \in Nat \ {0} /\ tries[r] \in 0..(MaxAttempts - 1)
  BY PipelineAssumption DEF Counting
<1>2. NodesAhead(r) \in 2..(MaxAttempts + 4) /\ LateAhead(r) \in 0..1
  BY <1>1 DEF NodesAhead, LateAhead
<1>3. QED
  BY <1>1, <1>2 DEF StepsAhead

\* Requests other than r do not see a step of r.
LEMMA OthersAhead ==
    ASSUME NEW q \in Requests, task'[q] = task[q], node'[q] = node[q], tries'[q] = tries[q],
           q \in late' <=> q \in late
    PROVE  StepsAhead(q)' = StepsAhead(q)
BY DEF StepsAhead, NodesAhead, LateAhead

\* A step of r's worker, pointwise.
StepOf(r) ==
    /\ \A q \in Requests : q # r =>
          /\ task'[q] = task[q] /\ node'[q] = node[q] /\ tries'[q] = tries[q]
          /\ q \in late' <=> q \in late
    /\ tries' \in [Requests -> 0..(MaxAttempts - 1)]
    /\ task'[r] = "running" => node'[r] # "idle"

LEMMA StepKeepsCounting ==
    ASSUME Counting, NEW r \in Requests, StepOf(r)
    PROVE  Counting' /\ \A q \in Requests : q # r => StepsAhead(q)' = StepsAhead(q)
BY OthersAhead DEF Counting, StepOf

LEMMA WorkerAdvances ==
    ASSUME IInv, Counting, NEW r \in Requests, Work(r) \/ WorkerDies(r)
    PROVE  StepOf(r) /\ (Work(r) => StepsAhead(r)' < StepsAhead(r))
<1> USE DEF IInv, Typed, Runs!Goto
<1>1. /\ MaxAttempts \in Nat \ {0} /\ tries[r] \in 0..(MaxAttempts - 1)
      /\ 0 \in 0..(MaxAttempts - 1)
  BY PipelineAssumption DEF Counting
<1>2. LateAhead(r) \in 0..1
  BY DEF LateAhead
<1>3. CASE Start(r)
  <2>1. /\ task[r] = "queued" /\ task' = [task EXCEPT ![r] = "running"]
        /\ node' = [node EXCEPT ![r] = "attempt"] /\ tries' = [tries EXCEPT ![r] = 0]
        /\ late' = late /\ r \notin late
    BY <1>3 DEF Start, Ingest!StartTask, Runs!Start, Working
  <2>2. StepOf(r) /\ task'[r] = "running" /\ node'[r] = "attempt" /\ tries'[r] = 0
    BY <1>1, <2>1 DEF StepOf, Counting
  <2>3. StepsAhead(r) = MaxAttempts + 5 /\ StepsAhead(r)' = MaxAttempts + 4
    BY <1>1, <2>1, <2>2 DEF StepsAhead, NodesAhead, LateAhead
  <2>4. QED
    BY <1>1, <2>2, <2>3
<1>4. ASSUME NEW passed \in BOOLEAN, NEW covered \in BOOLEAN,
             Proceed(r), Runs!Attempt(r, passed, covered)
      PROVE  StepOf(r) /\ StepsAhead(r)' < StepsAhead(r)
  <2>1. /\ task' = task /\ task[r] = "running" /\ node[r] = "attempt" /\ late' = late
        /\ \/ tries[r] + 1 < MaxAttempts
              /\ node' = [node EXCEPT ![r] = "attempt"]
              /\ tries' = [tries EXCEPT ![r] = tries[r] + 1]
           \/ \E label \in {"create_pull_request", "end"} :
              /\ node' = [node EXCEPT ![r] = label]
              /\ tries' = [tries EXCEPT ![r] = 0]
    BY <1>4 DEF Runs!Attempt, Runs!AfterAttempt, Proceed, ingest, Working
  <2>2. StepOf(r)
    <3>1. tries' \in [Requests -> 0..(MaxAttempts - 1)]
      BY <1>1, <2>1 DEF Counting
    <3>2. QED
      BY <2>1, <3>1 DEF StepOf, Counting
  <2>3. /\ task'[r] = "running"
        /\ \/ node'[r] = "attempt" /\ tries'[r] = tries[r] + 1
           \/ node'[r] \in {"create_pull_request", "end"}
    BY <2>1 DEF Counting
  <2>4. StepsAhead(r) = 4 + (MaxAttempts - tries[r]) + LateAhead(r)
    BY <2>1 DEF StepsAhead, NodesAhead
  <2>5. /\ LateAhead(r)' = LateAhead(r)
        /\ node'[r] = "attempt" =>
              StepsAhead(r)' = 4 + (MaxAttempts - (tries[r] + 1)) + LateAhead(r)
        /\ node'[r] = "create_pull_request" => StepsAhead(r)' = 4 + LateAhead(r)
        /\ node'[r] = "end" => StepsAhead(r)' = 2 + LateAhead(r)
    BY <2>1, <2>3 DEF StepsAhead, NodesAhead, LateAhead
  <2>6. QED
    BY <1>1, <1>2, <2>2, <2>3, <2>4, <2>5
<1>5. CASE Proceed(r) /\ (Runs!CreatePullRequest(r) \/ Runs!MarkResolved(r) \/ Runs!Raise(r))
  <2>1. /\ task' = task /\ task[r] = "running"
        /\ node[r] \in {"attempt", "create_pull_request", "mark_resolved"}
        /\ tries' = [tries EXCEPT ![r] = 0]
    BY <1>5 DEF Runs!CreatePullRequest, Runs!MarkResolved, Runs!Raise, Proceed, ingest, Working
  <2>2. \/ /\ node' = [node EXCEPT ![r] = "end"]
           /\ late' = late
        \/ /\ node' = [node EXCEPT ![r] = "end"]
           /\ late' = late \cup {r} /\ node[r] = "create_pull_request"
        \/ /\ node' = [node EXCEPT ![r] = "mark_resolved"]
           /\ late' = late /\ node[r] = "create_pull_request"
    BY <1>5 DEF Runs!CreatePullRequest, Runs!MarkResolved, Runs!Raise
  <2>3. StepOf(r)
    BY <1>1, <2>1, <2>2 DEF StepOf, Counting
  <2>4. /\ node[r] = "create_pull_request" => StepsAhead(r) = 4 + LateAhead(r)
        /\ node[r] = "mark_resolved" => StepsAhead(r) = 3 + LateAhead(r)
        /\ node[r] = "attempt" => StepsAhead(r) = 4 + (MaxAttempts - tries[r]) + LateAhead(r)
    BY <2>1 DEF StepsAhead, NodesAhead
  <2>5. /\ LateAhead(r)' \in 0..1
        /\ late' = late => LateAhead(r)' = LateAhead(r)
        /\ node'[r] = "mark_resolved" => StepsAhead(r)' = 3 + LateAhead(r)'
        /\ node'[r] = "end" => StepsAhead(r)' = 2 + LateAhead(r)'
    BY <2>1, <2>2 DEF StepsAhead, NodesAhead, LateAhead
  <2>6. StepsAhead(r)' < StepsAhead(r)
    BY <1>1, <1>2, <2>1, <2>2, <2>4, <2>5
  <2>7. QED
    BY <2>3, <2>6
<1>6. CASE Proceed(r) /\ Runs!LateCall(r)
  <2>1. /\ UNCHANGED <<task, node, tries>> /\ r \in late /\ late' = late \ {r}
        /\ task[r] \in {"running", "released"}
    BY <1>6 DEF Runs!LateCall, Proceed, ingest, Working
  <2>2. /\ LateAhead(r) = 1 /\ LateAhead(r)' = 0
        /\ NodesAhead(r)' = NodesAhead(r) /\ NodesAhead(r) \in Int
    BY <2>1, StepsAreNatural, <1>1 DEF LateAhead, NodesAhead
  <2>3. StepsAhead(r)' < StepsAhead(r)
    BY <2>1, <2>2 DEF StepsAhead
  <2>4. QED
    BY <2>1, <2>3 DEF StepOf, Counting
<1>7. CASE End(r)
  <2>1. /\ task' = [task EXCEPT ![r] = "released"] /\ task[r] = "running"
        /\ node[r] = "end" /\ node' = [node EXCEPT ![r] = "idle"]
        /\ tries' = [tries EXCEPT ![r] = 0] /\ late' = late
    BY <1>7 DEF End, Ingest!EndRun, Runs!End
  <2>2. /\ LateAhead(r)' = LateAhead(r)
        /\ StepsAhead(r) = 2 + LateAhead(r) /\ StepsAhead(r)' = 1 + LateAhead(r)
    BY <2>1 DEF StepsAhead, NodesAhead, LateAhead
  <2>3. QED
    BY <1>1, <1>2, <2>1, <2>2 DEF StepOf, Counting
<1>8. CASE Ack(r)
  <2>1. /\ task' = [task EXCEPT ![r] = "done"] /\ task[r] = "released"
        /\ UNCHANGED <<node, tries, late>>
    BY <1>8 DEF Ack, Ingest!AckTask, Runs!Ack, Runs!worker
  <2>2. StepsAhead(r) = 1 + LateAhead(r) /\ StepsAhead(r)' = 0
    BY <2>1 DEF StepsAhead
  <2>3. QED
    BY <1>2, <2>1, <2>2 DEF StepOf, Counting
<1>9. CASE WorkerDies(r) /\ ~Work(r)
  <2>1. PICK outcome \in {"queued", "lost"} : task' = [task EXCEPT ![r] = outcome]
    BY <1>9 DEF WorkerDies, Ingest!WorkerDies
  <2>2. /\ node' = [node EXCEPT ![r] = "idle"] /\ tries' = [tries EXCEPT ![r] = 0]
        /\ late' = late \ {r}
    BY <1>9 DEF WorkerDies, Runs!WorkerDies
  <2>3. QED
    BY <1>1, <1>9, <2>1, <2>2 DEF StepOf, Counting
<1>10. QED
  BY <1>3, <1>4, <1>5, <1>6, <1>7, <1>8, <1>9 DEF Work, Proceed, Runs!Proceed

\* The API enqueues a pipeline once, and touches no other.
LEMMA ApiAddsNothing ==
    ASSUME IInv, Counting, NEW r \in Requests, Handle(r) \/ ApiDies(r)
    PROVE  /\ Counting'
           /\ \A q \in Requests : task[q] # "none" => StepsAhead(q)' = StepsAhead(q)
<1>1. /\ UNCHANGED <<node, tries, late>>
      /\ \A q \in Requests : task'[q] = task[q] \/ (task[q] = "none" /\ task'[q] = "queued")
  <2>1. CASE Handle(r)
    <3>1. OthersStay(r) /\ Moves(r)
      BY <2>1, HandlerHasEffect DEF Handle
    <3>2. pc[r] = "delay" => task[r] = "none"
      BY DEF IInv, Enqueued
    <3>3. QED
      BY <2>1, <3>1, <3>2 DEF OthersStay, Moves, Handle, worker
  <2>2. CASE ApiDies(r)
    BY <2>2 DEF ApiDies, Ingest!ApiDies, worker
  <2>3. QED
    BY <2>1, <2>2
<1>2. Counting'
  BY <1>1 DEF Counting
<1>3. QED
  BY <1>1, <1>2, OthersAhead

LEMMA NextCounting ==
    ASSUME IInv, Counting, [Next]_vars
    PROVE  Counting'
<1>1. ASSUME UNCHANGED <<task, node, tries>> PROVE Counting'
  BY <1>1 DEF Counting
<1>2. QED
  BY <1>1, WorkerAdvances, StepKeepsCounting, ApiAddsNothing
  DEF Next, SeedLog, SeedResult, ingest, worker, vars

\* tasks.py and graph.py: every accepted report's pipeline takes a bounded
\* number of steps in each of its deliveries, whatever the others do.
THEOREM PipelinesAreBounded ==
    Spec => /\ [](\A r \in Requests : StepsAhead(r) \in 0..(MaxAttempts + 5))
            /\ [][PipelinesRunOut]_vars
<1>1. Init => Counting
  BY PipelineAssumption DEF Init, Ingest!Init, Counting
<1>2. Counting => \A r \in Requests : StepsAhead(r) \in 0..(MaxAttempts + 5)
  BY StepsAreNatural
<1>3. ASSUME IInv, Counting, Next PROVE PipelinesRunOut
  <2>1. ASSUME NEW r \in Requests
        PROVE  StepsAhead(r) \in Int /\ StepsAhead(r)' \in Int
    <3>1. MaxAttempts \in Nat
      BY PipelineAssumption
    <3>2. Counting'
      BY <1>3, NextCounting
    <3>3. /\ NodesAhead(r) \in Int /\ NodesAhead(r)' \in Int
          /\ LateAhead(r) \in Int /\ LateAhead(r)' \in Int
      BY <1>3, <3>1, <3>2 DEF Counting, NodesAhead, LateAhead
    <3>4. QED
      BY <3>1, <3>3 DEF StepsAhead
  <2>2. ASSUME NEW r \in Requests, Work(r)
        PROVE  StepsAhead(r)' < StepsAhead(r)
    BY <1>3, <2>2, WorkerAdvances
  <2>3. ASSUME NEW r \in Requests, task[r] # "none", ~WorkerDies(r)
        PROVE  StepsAhead(r)' <= StepsAhead(r)
    <3>1. CASE Work(r)
      BY <2>1, <2>2, <3>1
    <3>2. ASSUME NEW q \in Requests, q # r, Work(q) \/ WorkerDies(q)
          PROVE  StepsAhead(r)' <= StepsAhead(r)
      <4>1. StepsAhead(r)' = StepsAhead(r)
        BY <1>3, <3>2, WorkerAdvances, StepKeepsCounting
      <4>2. QED
        BY <2>1, <4>1
    <3>3. ASSUME NEW q \in Requests, Handle(q) \/ ApiDies(q)
          PROVE  StepsAhead(r)' <= StepsAhead(r)
      BY <1>3, <2>1, <2>3, <3>3, ApiAddsNothing
    <3>4. ASSUME NEW s \in Seeds, SeedLog(s) \/ SeedResult(s)
          PROVE  StepsAhead(r)' <= StepsAhead(r)
      BY <2>1, <3>4, OthersAhead DEF SeedLog, SeedResult, ingest, worker
    <3>5. QED
      BY <1>3, <2>3, <3>1, <3>2, <3>3, <3>4 DEF Next
  <2>4. QED
    BY <2>2, <2>3 DEF PipelinesRunOut
<1>4. IInv /\ Counting /\ [Next]_vars => Counting'
  BY NextCounting
<1>5. QED
  BY <1>1, <1>2, <1>3, <1>4, Invariance, PTL DEF Spec
=============================================================================
