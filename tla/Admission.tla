------------------------------ MODULE Admission ------------------------------
(***************************************************************************)
(* The ingest path: POST /ingest (api/main.py) against the guardrails in   *)
(* Redis (api/ratelimit.py) and the task queue (api/tasks.py), for any     *)
(* number of concurrent requests.                                          *)
(*                                                                         *)
(* A request takes a slot of the shared counter, claims the dedup key of   *)
(* its crash, stores the log and enqueues a pipeline; the worker gives the *)
(* slot back at the end of run_graph. Every Redis command is one step, and *)
(* the steps of requests, workers and the key's expiry interleave freely.  *)
(***************************************************************************)
EXTENDS Integers, FiniteSets

CONSTANTS
    Requests,   \* the /ingest requests of a behaviour
    Keys,       \* dedup keys: hashes of service and normalized message
    KeyOf,      \* the dedup key of each request
    None,       \* no key in Redis, no ids
    MaxActive,  \* settings.max_active_pipelines
    Faults,     \* the kinds of fault that may happen, see FaultKinds
    MaxFaults   \* bound: faults that skew the counter in a behaviour

(***************************************************************************)
(* redis    a Redis command fails, applied or not                          *)
(* publish  delay raises although the broker has the message               *)
(* api      the API process dies inside a request                          *)
(* worker   the worker, or its pool process, dies inside a task            *)
(* backend  storing the log or enqueueing fails cleanly                    *)
(* expiry   the dedup window ends between two requests of its key          *)
(* slow     ... or inside one                                              *)
(***************************************************************************)
FaultKinds == {"redis", "publish", "api", "worker", "backend", "expiry", "slow"}

\* What a dedup key holds: the ids of a pipeline, named by its request, or the
\* placeholder without ids; and whether the key has a TTL.
Entries == [value : Requests \cup {None}, ttl : BOOLEAN]

ASSUME AdmissionAssumption ==
    /\ IsFiniteSet(Requests)
    /\ KeyOf \in [Requests -> Keys]
    /\ None \notin Requests /\ None \notin Entries
    /\ MaxActive \in Nat
    /\ Faults \subseteq FaultKinds
    /\ MaxFaults \in Nat

VARIABLES
    pc,      \* where each request's handler is
    reply,   \* what it answered
    ids,     \* the original incident a deduplicated reply names
    active,  \* Redis: prodrescue:active
    dedup,   \* Redis: each dedup key's value and whether it has a TTL
    task,    \* each request's pipeline in the queue and the worker
    faults   \* faults so far

vars == <<pc, reply, ids, active, dedup, task, faults>>

InRequest == {"acquire_slot", "roll_back", "claim_incident", "read_original",
              "release_duplicate", "embed_and_store", "delay", "release_failed",
              "set_incident_value"}

Init ==
    /\ pc = [r \in Requests |-> "acquire_slot"]
    /\ reply = [r \in Requests |-> "none"]
    /\ ids = [r \in Requests |-> None]
    /\ active = 0
    /\ dedup = [k \in Keys |-> None]
    /\ task = [r \in Requests |-> "none"]
    /\ faults = 0

Goto(r, label) == pc' = [pc EXCEPT ![r] = label]

Answer(r, status) ==
    /\ Goto(r, "replied")
    /\ reply' = [reply EXCEPT ![r] = status]

Fault(kind) ==
    /\ kind \in Faults
    /\ faults < MaxFaults
    /\ faults' = faults + 1

(***************************************************************************)
(* ratelimit.py                                                            *)
(***************************************************************************)
\* Seeded defect: the counter is compared before it is incremented.
AcquireSlot_ComparesOld(r) ==
    /\ pc[r] = "acquire_slot"
    /\ active' = active + 1
    /\ Goto(r, IF active > MaxActive THEN "roll_back" ELSE "claim_incident")
    /\ UNCHANGED <<reply, ids, dedup, task, faults>>

AcquireSlot(r) ==
    /\ pc[r] = "acquire_slot"
    /\ active' = active + 1
    /\ Goto(r, IF active' > MaxActive THEN "roll_back" ELSE "claim_incident")
    /\ UNCHANGED <<reply, ids, dedup, task, faults>>

RollBack(r) ==
    /\ pc[r] = "roll_back"
    /\ active' = active - 1
    /\ Answer(r, "shed")
    /\ UNCHANGED <<ids, dedup, task, faults>>

\* Either command of acquire_slot fails: the request is let in.
AcquireFailsOpen(r) ==
    /\ Fault("redis")
    /\ \/ pc[r] = "acquire_slot" /\ active' \in {active, active + 1}
       \/ pc[r] = "roll_back" /\ active' \in {active, active - 1}
    /\ Goto(r, "claim_incident")
    /\ UNCHANGED <<reply, ids, dedup, task>>

Claimed == [value |-> None, ttl |-> TRUE]

\* Seeded defects: SET without NX; SET NX without EX.
ClaimIncident_NoNX(r) ==
    /\ pc[r] = "claim_incident"
    /\ dedup' = [dedup EXCEPT ![KeyOf[r]] = Claimed]
    /\ Goto(r, "embed_and_store")
    /\ UNCHANGED <<reply, ids, active, task, faults>>

ClaimIncident_NoEX(r) ==
    /\ pc[r] = "claim_incident"
    /\ IF dedup[KeyOf[r]] = None
       THEN /\ dedup' = [dedup EXCEPT ![KeyOf[r]] = [value |-> None, ttl |-> FALSE]]
            /\ Goto(r, "embed_and_store")
       ELSE /\ Goto(r, "read_original")
            /\ UNCHANGED dedup
    /\ UNCHANGED <<reply, ids, active, task, faults>>

ClaimIncident(r) ==
    /\ pc[r] = "claim_incident"
    /\ IF dedup[KeyOf[r]] = None
       THEN /\ dedup' = [dedup EXCEPT ![KeyOf[r]] = Claimed]
            /\ Goto(r, "embed_and_store")
       ELSE /\ Goto(r, "read_original")
            /\ UNCHANGED dedup
    /\ UNCHANGED <<reply, ids, active, task, faults>>

\* Seeded defect: a duplicate waits for the original's ids.
ReadOriginal_Waits(r) ==
    /\ pc[r] = "read_original"
    /\ dedup[KeyOf[r]] # None
    /\ dedup[KeyOf[r]].value # None
    /\ ids' = [ids EXCEPT ![r] = dedup[KeyOf[r]].value]
    /\ Goto(r, "release_duplicate")
    /\ UNCHANGED <<reply, active, dedup, task, faults>>

\* The original's ids, if they are there yet and the key is still.
ReadOriginal(r) ==
    /\ pc[r] = "read_original"
    /\ ids' = [ids EXCEPT ![r] =
                  IF dedup[KeyOf[r]] = None THEN None ELSE dedup[KeyOf[r]].value]
    /\ Goto(r, "release_duplicate")
    /\ UNCHANGED <<reply, active, dedup, task, faults>>

\* Either command of claim_incident fails: the request counts as new.
ClaimFailsOpen(r) ==
    /\ Fault("redis")
    /\ \/ /\ pc[r] = "claim_incident"
          /\ \/ UNCHANGED dedup
             \/ /\ dedup[KeyOf[r]] = None
                /\ dedup' = [dedup EXCEPT ![KeyOf[r]] = Claimed]
       \/ pc[r] = "read_original" /\ UNCHANGED dedup
    /\ Goto(r, "embed_and_store")
    /\ UNCHANGED <<reply, ids, active, task>>

\* release_slot swallows every error.
release_slot ==
    \/ active' = active - 1 /\ UNCHANGED faults
    \/ Fault("redis") /\ UNCHANGED active

(***************************************************************************)
(* main.py, ingest                                                         *)
(***************************************************************************)
ReleaseDuplicate(r) ==
    /\ pc[r] = "release_duplicate"
    /\ release_slot
    /\ Answer(r, "deduplicated")
    /\ UNCHANGED <<ids, dedup, task>>

EmbedAndStore(r) ==
    /\ pc[r] = "embed_and_store"
    /\ \/ Goto(r, "delay")
       \/ "backend" \in Faults /\ Goto(r, "release_failed")
    /\ UNCHANGED <<reply, ids, active, dedup, task, faults>>

Delay(r) ==
    /\ pc[r] = "delay"
    /\ \/ /\ task' = [task EXCEPT ![r] = "queued"]
          /\ \/ Goto(r, "set_incident_value") /\ UNCHANGED faults
             \/ Goto(r, "release_failed") /\ Fault("publish")
       \/ /\ "backend" \in Faults
          /\ Goto(r, "release_failed")
          /\ UNCHANGED <<task, faults>>
    /\ UNCHANGED <<reply, ids, active, dedup>>

\* Seeded defect: the failure path does not give the slot back.
ReleaseFailed_Keeps(r) ==
    /\ pc[r] = "release_failed"
    /\ Answer(r, "error")
    /\ UNCHANGED <<ids, active, dedup, task, faults>>

\* The slot is given back; the dedup key stays claimed.
ReleaseFailed(r) ==
    /\ pc[r] = "release_failed"
    /\ release_slot
    /\ Answer(r, "error")
    /\ UNCHANGED <<ids, dedup, task>>

\* SET with KEEPTTL: a key that is not there any more, or never was, is
\* created without one.
WithIds(entry, r) == [value |-> r, ttl |-> IF entry = None THEN FALSE ELSE entry.ttl]

\* Seeded defect: the request gives back the slot of the pipeline it queued.
SetIncidentValue_Releases(r) ==
    /\ pc[r] = "set_incident_value"
    /\ dedup' = [dedup EXCEPT ![KeyOf[r]] = WithIds(@, r)]
    /\ release_slot
    /\ Answer(r, "queued")
    /\ UNCHANGED <<ids, task>>

SetIncidentValue(r) ==
    /\ pc[r] = "set_incident_value"
    /\ \/ dedup' = [dedup EXCEPT ![KeyOf[r]] = WithIds(@, r)] /\ UNCHANGED faults
       \/ Fault("redis") /\ UNCHANGED dedup
    /\ Answer(r, "queued")
    /\ UNCHANGED <<ids, active, task>>

ApiDies(r) ==
    /\ Fault("api")
    /\ pc[r] \in InRequest
    /\ Goto(r, "dead")
    /\ UNCHANGED <<reply, ids, active, dedup, task>>

(***************************************************************************)
(* The worker (graph.py, run_graph) and the dedup window                   *)
(***************************************************************************)
StartTask(r) ==
    /\ task[r] = "queued"
    /\ task' = [task EXCEPT ![r] = "running"]
    /\ UNCHANGED <<pc, reply, ids, active, dedup, faults>>

\* The finally block of run_graph, whatever the run's outcome.
EndRun(r) ==
    /\ task[r] = "running"
    /\ task' = [task EXCEPT ![r] = "released"]
    /\ release_slot
    /\ UNCHANGED <<pc, reply, ids, dedup>>

AckTask(r) ==
    /\ task[r] = "released"
    /\ task' = [task EXCEPT ![r] = "done"]
    /\ UNCHANGED <<pc, reply, ids, active, dedup, faults>>

\* Redelivered when the worker dies, lost when only its pool process does.
WorkerDies(r) ==
    /\ Fault("worker")
    /\ task[r] \in {"running", "released"}
    /\ \E outcome \in {"queued", "lost"} : task' = [task EXCEPT ![r] = outcome]
    /\ UNCHANGED <<pc, reply, ids, active, dedup>>

InWindow(k) == \E r \in Requests : KeyOf[r] = k /\ pc[r] \in InRequest \ {"acquire_slot"}

Expire(k) ==
    /\ dedup[k] # None
    /\ dedup[k].ttl
    /\ \/ "expiry" \in Faults /\ ~InWindow(k)
       \/ "slow" \in Faults
    /\ dedup' = [dedup EXCEPT ![k] = None]
    /\ UNCHANGED <<pc, reply, ids, active, task, faults>>

Handler(r) ==
    \/ AcquireSlot(r) \/ RollBack(r) \/ AcquireFailsOpen(r)
    \/ ClaimIncident(r) \/ ReadOriginal(r) \/ ClaimFailsOpen(r)
    \/ ReleaseDuplicate(r) \/ EmbedAndStore(r) \/ Delay(r) \/ ReleaseFailed(r)
    \/ SetIncidentValue(r)

Task(r) == StartTask(r) \/ EndRun(r) \/ AckTask(r)

Next ==
    \/ \E r \in Requests : Handler(r) \/ Task(r) \/ ApiDies(r) \/ WorkerDies(r)
    \/ \E k \in Keys : Expire(k)

Spec == Init /\ [][Next]_vars

\* Every request's handler goes on, and a worker takes every task.
FairSpec == Spec /\ \A r \in Requests : WF_vars(Handler(r)) /\ WF_vars(Task(r))

-----------------------------------------------------------------------------
(***************************************************************************)
(* Properties                                                              *)
(***************************************************************************)
\* Every variable keeps its type; the counter in Redis is below zero by no
\* more than the faults so far.
TypeOK ==
    /\ pc \in [Requests -> InRequest \cup {"replied", "dead"}]
    /\ reply \in [Requests -> {"none", "queued", "deduplicated", "shed", "error"}]
    /\ ids \in [Requests -> Requests \cup {None}]
    /\ active \in (-faults)..Cardinality(Requests)
    /\ dedup \in [Keys -> Entries \cup {None}]
    /\ task \in [Requests -> {"none", "queued", "running", "released", "done", "lost"}]
    /\ faults \in 0..MaxFaults

\* The pipelines the cap is about: queued or running.
Live == {r \in Requests : task[r] \in {"queued", "running"}}

\* The requests between their slot and their answer.
SlotHeldByRequest ==
    {r \in Requests : pc[r] \in InRequest \ {"acquire_slot", "set_incident_value"}}

\* Without faults of Redis, broker or processes the counter is exactly the
\* number of requests and pipelines that hold a slot, also when storing or
\* enqueueing fails: no path of ingest and run_graph leaks a slot or gives
\* one back twice.
SlotsAreConserved == active = Cardinality(SlotHeldByRequest \cup Live)

\* Without those faults no interleaving of the two commands of acquire_slot
\* lets more pipelines in than the cap.
CapIsRespected == Cardinality(Live) <= MaxActive

\* Within one dedup window identical crashes create at most one pipeline,
\* however their requests interleave.
OnePipelinePerWindow ==
    \A k \in Keys : Cardinality({r \in Requests : KeyOf[r] = k /\ task[r] # "none"}) <= 1

\* The ids a deduplicated request is answered with are those of a pipeline
\* for the same crash that was really enqueued.
DuplicateNamesAPipeline ==
    \A r \in Requests : ids[r] # None => /\ KeyOf[ids[r]] = KeyOf[r]
                                         /\ task[ids[r]] # "none"

\* What failing open costs: each fault lets at most one pipeline more in at
\* a time, although the skew it leaves in the counter is permanent.
OneExtraPerFault == Cardinality(Live) <= MaxActive + faults

\* ratelimit.py, claim_incident and set_incident_value: recording the ids can
\* create a key without a TTL, when the key has expired meanwhile or a failed
\* claim never set it. Such a key blocks its crash for ever, but only a crash
\* whose pipeline, named by the key, was really enqueued: whatever fails, a
\* claim that came to nothing does expire.
LastingKeysNameAPipeline ==
    \A k \in Keys :
        dedup[k] # None /\ ~dedup[k].ttl =>
            \E r \in Requests : /\ dedup[k].value = r
                                /\ KeyOf[r] = k
                                /\ task[r] # "none"

\* Every request is answered unless the API dies in it: no request waits for
\* the original of its crash or for a slot.
EveryRequestAnswered ==
    \A r \in Requests : pc[r] = "acquire_slot" ~> pc[r] \in {"replied", "dead"}

\* Once the requests are over and the pipelines have run, all slots are back.
SlotsComeBack == <>[](active = 0)

-----------------------------------------------------------------------------
(***************************************************************************)
(* What the repository says and the code does not do                       *)
(***************************************************************************)
\* ratelimit.py, module comment: identical crashes create one pipeline.
DedupedHasPipeline ==
    \A r \in Requests :
        reply[r] = "deduplicated" =>
            \E q \in Requests : /\ KeyOf[q] = KeyOf[r]
                                /\ task[q] # "none" \/ pc[q] \in InRequest
=============================================================================
