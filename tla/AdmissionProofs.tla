--------------------------- MODULE AdmissionProofs ---------------------------
(***************************************************************************)
(* Theorems about Admission, for every number of requests, every cap, any  *)
(* crash keys and any bound on the faults.                                 *)
(***************************************************************************)
EXTENDS Admission, FiniteSetTheorems, TLAPS

USE AdmissionAssumption

HeldLabels     == InRequest \ {"acquire_slot", "set_incident_value"}
AdmittedLabels == HeldLabels \ {"roll_back"}
PcLabels       == InRequest \cup {"replied", "dead"}
StartedLabels  == PcLabels \ {"acquire_slot"}
LiveStates     == {"queued", "running"}

\* How many requests f puts into S.
Count(f, S) == Cardinality({q \in Requests : f[q] \in S})
\* 1 for a member of S, else 0.
Bit(x, S)   == IF x \in S THEN 1 ELSE 0

Held     == Count(pc, HeldLabels)
Admitted == Count(pc, AdmittedLabels)
Started  == Count(pc, StartedLabels)
Living   == Count(task, LiveStates)

(***************************************************************************)
(* The inductive invariant. The counter in Redis stands for the slots that *)
(* are out, but for one slot per fault; only its first command raises it;  *)
(* and what it let in stays within the cap, but for one per fault.         *)
(***************************************************************************)
Types ==
    /\ pc \in [Requests -> PcLabels]
    /\ reply \in [Requests -> {"none", "queued", "deduplicated", "shed", "error"}]
    /\ ids \in [Requests -> Requests \cup {None}]
    /\ active \in Int
    /\ dedup \in [Keys -> Entries \cup {None}]
    /\ task \in [Requests -> {"none", "queued", "running", "released", "done", "lost"}]
    /\ faults \in 0..MaxFaults

Counter ==
    /\ Held + Living - faults <= active
    /\ active <= Started
    /\ Admitted + Living <= MaxActive + faults
    /\ MaxFaults = 0 => active = Held + Living

\* A pipeline is enqueued late in its request; ids are recorded after that.
Order ==
    /\ \A r \in Requests : pc[r] = "set_incident_value" => task[r] # "none"
    /\ \A r \in Requests : task[r] # "none" =>
          pc[r] \in {"set_incident_value", "replied", "release_failed", "dead"}
    /\ \A r \in Requests : MaxFaults = 0 /\ task[r] # "none" => pc[r] # "release_failed"

\* A recorded id is one of a pipeline for the same crash.
Names ==
    /\ \A k \in Keys : dedup[k] # None /\ dedup[k].value # None =>
          KeyOf[dedup[k].value] = k /\ task[dedup[k].value] # "none"
    /\ DuplicateNamesAPipeline

IInv == Types /\ Counter /\ Order /\ Names

\* The requests that won the dedup key and have a pipeline or may get one.
Claims(r) == task[r] # "none" \/ pc[r] \in {"embed_and_store", "delay", "set_incident_value"}

\* Without faults of Redis and without expiry a key has one winner.
OneClaim ==
    /\ \A r \in Requests : Claims(r) => dedup[KeyOf[r]] # None
    /\ \A r, q \in Requests : Claims(r) /\ Claims(q) /\ KeyOf[r] = KeyOf[q] => r = q

-----------------------------------------------------------------------------
(***************************************************************************)
(* Counting: what one step of one request does to a count.                 *)
(***************************************************************************)
LEMMA CountIsNatural ==
    ASSUME NEW f, NEW S
    PROVE  Count(f, S) \in 0..Cardinality(Requests)
<1> DEFINE C == {q \in Requests : f[q] \in S}
<1>1. C \in SUBSET Requests
  OBVIOUS
<1>2. /\ IsFiniteSet(C)
      /\ Cardinality(C) <= Cardinality(Requests)
  BY <1>1, FS_Subset
<1>3. Cardinality(C) \in Nat /\ Cardinality(Requests) \in Nat
  BY <1>2, FS_CardinalityType
<1>4. QED
  BY <1>2, <1>3 DEF Count

Moved(f, g, r, v) == \A q \in Requests : g[q] = IF q = r THEN v ELSE f[q]

LEMMA CountAfter ==
    ASSUME NEW f, NEW g, NEW S, NEW r \in Requests, NEW v, Moved(f, g, r, v)
    PROVE  Count(g, S) = Count(f, S) + Bit(v, S) - Bit(f[r], S)
<1> DEFINE C == {q \in Requests : f[q] \in S}
           D == {q \in Requests : g[q] \in S}
<1>1. IsFiniteSet(C) /\ Cardinality(C) \in Nat
  <2>1. C \in SUBSET Requests
    OBVIOUS
  <2>2. QED
    BY <2>1, FS_Subset, FS_CardinalityType
<1>2. r \in C <=> f[r] \in S
  OBVIOUS
<1>3. CASE v \in S
  <2>1. D = C \cup {r}
    BY <1>3 DEF Moved
  <2>2. Cardinality(D) = IF r \in C THEN Cardinality(C) ELSE Cardinality(C) + 1
    <3> HIDE DEF C, D
    <3>1. QED
      BY <1>1, <2>1, FS_AddElement
  <2>3. QED
    BY <1>1, <1>2, <1>3, <2>2 DEF Count, Bit
<1>4. CASE v \notin S
  <2>1. D = C \ {r}
    BY <1>4 DEF Moved
  <2>2. Cardinality(D) = IF r \in C THEN Cardinality(C) - 1 ELSE Cardinality(C)
    <3> HIDE DEF C, D
    <3>1. QED
      BY <1>1, <2>1, FS_RemoveElement
  <2>3. QED
    BY <1>1, <1>2, <1>4, <2>2 DEF Count, Bit
<1>5. QED
  BY <1>3, <1>4

LEMMA CountMonotone ==
    ASSUME NEW f, NEW S, NEW T, S \subseteq T
    PROVE  Count(f, S) <= Count(f, T)
<1> DEFINE C == {q \in Requests : f[q] \in S}
           D == {q \in Requests : f[q] \in T}
<1>1. C \in SUBSET D /\ D \in SUBSET Requests
  OBVIOUS
<1>2. IsFiniteSet(D)
  BY <1>1, FS_Subset
<1>3. Cardinality(C) <= Cardinality(D)
  BY <1>1, <1>2, FS_Subset
<1>4. QED
  BY <1>3 DEF Count

LEMMA CountsAreNatural ==
    /\ Held \in Nat /\ Admitted \in Nat /\ Started \in Nat /\ Living \in Nat
    /\ Admitted <= Held
    /\ Started <= Cardinality(Requests)
    /\ Cardinality(Requests) \in Nat
<1>1. Cardinality(Requests) \in Nat
  BY FS_CardinalityType
<1>2. AdmittedLabels \subseteq HeldLabels
  BY DEF AdmittedLabels
<1>3. Admitted <= Held
  BY <1>2, CountMonotone DEF Admitted, Held
<1>4. QED
  BY <1>1, <1>3, CountIsNatural DEF Held, Admitted, Started, Living

\* A request that goes to another label.
LEMMA PcMoves ==
    ASSUME Types, NEW r \in Requests, NEW l \in PcLabels, Goto(r, l)
    PROVE  /\ pc' \in [Requests -> PcLabels]
           /\ Held' = Held + Bit(l, HeldLabels) - Bit(pc[r], HeldLabels)
           /\ Admitted' = Admitted + Bit(l, AdmittedLabels) - Bit(pc[r], AdmittedLabels)
           /\ Started' = Started + Bit(l, StartedLabels) - Bit(pc[r], StartedLabels)
<1>1. pc \in [Requests -> PcLabels] /\ pc' = [pc EXCEPT ![r] = l]
  BY DEF Types, Goto
<1>2. Moved(pc, pc', r, l)
  BY <1>1 DEF Moved
<1>3. Held' = Held + Bit(l, HeldLabels) - Bit(pc[r], HeldLabels)
  <2>1. Count(pc', HeldLabels) = Count(pc, HeldLabels) + Bit(l, HeldLabels) - Bit(pc[r], HeldLabels)
    BY ONLY <1>2, CountAfter
  <2>2. QED
    BY <2>1 DEF Held, Count
<1>4. Admitted' = Admitted + Bit(l, AdmittedLabels) - Bit(pc[r], AdmittedLabels)
  <2>1. Count(pc', AdmittedLabels)
          = Count(pc, AdmittedLabels) + Bit(l, AdmittedLabels) - Bit(pc[r], AdmittedLabels)
    BY ONLY <1>2, CountAfter
  <2>2. QED
    BY <2>1 DEF Admitted, Count
<1>5. Started' = Started + Bit(l, StartedLabels) - Bit(pc[r], StartedLabels)
  <2>1. Count(pc', StartedLabels)
          = Count(pc, StartedLabels) + Bit(l, StartedLabels) - Bit(pc[r], StartedLabels)
    BY ONLY <1>2, CountAfter
  <2>2. QED
    BY <2>1 DEF Started, Count
<1>6. QED
  BY <1>1, <1>3, <1>4, <1>5

\* A pipeline that goes to another state.
LEMMA TaskMoves ==
    ASSUME Types, NEW r \in Requests,
           NEW t \in {"none", "queued", "running", "released", "done", "lost"},
           task' = [task EXCEPT ![r] = t]
    PROVE  Living' = Living + Bit(t, LiveStates) - Bit(task[r], LiveStates)
<1>1. task \in [Requests -> {"none", "queued", "running", "released", "done", "lost"}]
  BY DEF Types
<1>2. Count(task', LiveStates)
        = Count(task, LiveStates) + Bit(t, LiveStates) - Bit(task[r], LiveStates)
  <2>1. Moved(task, task', r, t)
    BY <1>1 DEF Moved
  <2>2. QED
    BY ONLY <2>1, CountAfter
<1>3. QED
  BY <1>2 DEF Living, Count

LEMMA PcStays == UNCHANGED pc => UNCHANGED <<Held, Admitted, Started>>
BY DEF Held, Admitted, Started, Count

LEMMA TasksStay == UNCHANGED task => UNCHANGED Living
BY DEF Living, Count

(***************************************************************************)
(* Every step keeps the counter right.                                     *)
(***************************************************************************)
\* A request that goes on inside ingest, holds its slot and stays let in.
LEMMA StaysAdmitted ==
    ASSUME Types, NEW r \in Requests, NEW l \in AdmittedLabels, Goto(r, l),
           pc[r] \in AdmittedLabels
    PROVE  UNCHANGED <<Held, Admitted, Started>>
<1>1. AdmittedLabels \subseteq HeldLabels /\ AdmittedLabels \subseteq StartedLabels
  BY DEF AdmittedLabels, HeldLabels, StartedLabels, PcLabels
<1>2. l \in PcLabels
  BY <1>1 DEF StartedLabels
<1>3. /\ Held' = Held + 1 - 1
      /\ Admitted' = Admitted + 1 - 1
      /\ Started' = Started + 1 - 1
  BY <1>1, <1>2, PcMoves DEF Bit
<1>4. QED
  BY <1>3, CountsAreNatural

\* A request that is let in and ends its part with the slot.
LEMMA LeavesHeld ==
    ASSUME Types, NEW r \in Requests, pc[r] \in AdmittedLabels,
           NEW l \in {"set_incident_value", "replied", "dead"}, Goto(r, l)
    PROVE  Held' = Held - 1 /\ Admitted' = Admitted - 1 /\ Started' = Started
<1>1. /\ l \in PcLabels /\ l \in StartedLabels
      /\ l \notin HeldLabels /\ l \notin AdmittedLabels
  BY DEF AdmittedLabels, HeldLabels, StartedLabels, PcLabels, InRequest
<1>2. pc[r] \in HeldLabels /\ pc[r] \in StartedLabels
  BY DEF AdmittedLabels, HeldLabels, StartedLabels, PcLabels
<1>3. /\ Held' = Held + 0 - 1
      /\ Admitted' = Admitted + 0 - 1
      /\ Started' = Started + 1 - 1
  BY <1>1, <1>2, PcMoves DEF Bit
<1>4. QED
  BY <1>3, CountsAreNatural

\* A request whose first command went through, or was lost.
LEMMA TakesSlot ==
    ASSUME Types, NEW r \in Requests, pc[r] = "acquire_slot",
           NEW l \in {"roll_back", "claim_incident"}, Goto(r, l)
    PROVE  /\ Held' = Held + 1
           /\ Admitted' = IF l = "roll_back" THEN Admitted ELSE Admitted + 1
           /\ Started' = Started + 1
<1>1. /\ l \in PcLabels /\ l \in StartedLabels /\ l \in HeldLabels
      /\ l \in AdmittedLabels <=> l # "roll_back"
  BY DEF AdmittedLabels, HeldLabels, StartedLabels, PcLabels, InRequest
<1>2. pc[r] \notin HeldLabels /\ pc[r] \notin StartedLabels /\ pc[r] \notin AdmittedLabels
  BY DEF AdmittedLabels, HeldLabels, StartedLabels
<1>3. /\ Held' = Held + 1 - 0
      /\ Admitted' = Admitted + (IF l = "roll_back" THEN 0 ELSE 1) - 0
      /\ Started' = Started + 1 - 0
  BY <1>1, <1>2, PcMoves DEF Bit
<1>4. QED
  BY <1>3, CountsAreNatural

\* A request that was refused, by its decrement or by the failure of it.
LEMMA LeavesRollBack ==
    ASSUME Types, NEW r \in Requests, pc[r] = "roll_back",
           NEW l \in {"replied", "dead", "claim_incident"}, Goto(r, l)
    PROVE  /\ Held' = IF l = "claim_incident" THEN Held ELSE Held - 1
           /\ Admitted' = IF l = "claim_incident" THEN Admitted + 1 ELSE Admitted
           /\ Started' = Started
<1>1. /\ l \in PcLabels /\ l \in StartedLabels
      /\ l \in HeldLabels <=> l = "claim_incident"
      /\ l \in AdmittedLabels <=> l = "claim_incident"
  BY DEF AdmittedLabels, HeldLabels, StartedLabels, PcLabels, InRequest
<1>2. pc[r] \in HeldLabels /\ pc[r] \in StartedLabels /\ pc[r] \notin AdmittedLabels
  BY DEF AdmittedLabels, HeldLabels, StartedLabels, PcLabels, InRequest
<1>3. /\ Held' = Held + (IF l = "claim_incident" THEN 1 ELSE 0) - 1
      /\ Admitted' = Admitted + (IF l = "claim_incident" THEN 1 ELSE 0) - 0
      /\ Started' = Started + 1 - 1
  BY <1>1, <1>2, PcMoves DEF Bit
<1>4. QED
  BY <1>3, CountsAreNatural

\* A request that ends without a slot of its own.
LEMMA LeavesWithoutSlot ==
    ASSUME Types, NEW r \in Requests, pc[r] \in {"acquire_slot", "set_incident_value"},
           NEW l \in {"replied", "dead"}, Goto(r, l)
    PROVE  Held' = Held /\ Admitted' = Admitted /\ Started <= Started'
<1>1. /\ l \in PcLabels /\ l \in StartedLabels
      /\ l \notin HeldLabels /\ l \notin AdmittedLabels
  BY DEF AdmittedLabels, HeldLabels, StartedLabels, PcLabels, InRequest
<1>2. pc[r] \notin HeldLabels /\ pc[r] \notin AdmittedLabels
  BY DEF AdmittedLabels, HeldLabels
<1>3. /\ Held' = Held + 0 - 0
      /\ Admitted' = Admitted + 0 - 0
      /\ Started' = Started + 1 - (IF pc[r] \in StartedLabels THEN 1 ELSE 0)
  BY <1>1, <1>2, PcMoves DEF Bit
<1>4. QED
  BY <1>3, CountsAreNatural

LEMMA NextCounter ==
    ASSUME Types, Order, Counter, [Next]_vars
    PROVE  Counter'
<1>1. /\ active \in Int /\ faults \in Nat /\ MaxActive \in Nat /\ MaxFaults \in Nat
      /\ Held \in Nat /\ Admitted \in Nat /\ Started \in Nat /\ Living \in Nat
      /\ Admitted <= Held
  BY CountsAreNatural DEF Types
\* A fault excuses one slot, and there is none if the bound is 0.
<1>2. ASSUME NEW kind, Fault(kind)
      PROVE  faults' = faults + 1 /\ MaxFaults # 0
  BY <1>1, <1>2 DEF Fault
<1>3. ASSUME release_slot
      PROVE  \/ active' = active - 1 /\ faults' = faults
             \/ active' = active /\ faults' = faults + 1 /\ MaxFaults # 0
  BY <1>2, <1>3 DEF release_slot
<1>4. ASSUME NEW r \in Requests, AcquireSlot(r) PROVE Counter'
  <2>1. CASE active + 1 > MaxActive
    <3>1. /\ Held' = Held + 1 /\ Admitted' = Admitted /\ Started' = Started + 1
      BY <1>4, <2>1, TakesSlot DEF AcquireSlot
    <3>2. QED
      BY <1>1, <1>4, <3>1, TasksStay DEF AcquireSlot, Counter
  <2>2. CASE ~(active + 1 > MaxActive)
    <3>1. /\ Held' = Held + 1 /\ Admitted' = Admitted + 1 /\ Started' = Started + 1
      BY <1>4, <2>2, TakesSlot DEF AcquireSlot
    <3>2. QED
      BY <1>1, <1>4, <2>2, <3>1, TasksStay DEF AcquireSlot, Counter
  <2>3. QED
    BY <2>1, <2>2
<1>5. ASSUME NEW r \in Requests, RollBack(r) PROVE Counter'
  <2>1. /\ Held' = Held - 1 /\ Admitted' = Admitted /\ Started' = Started
    BY <1>5, LeavesRollBack DEF RollBack, Answer
  <2>2. QED
    BY <1>1, <1>5, <2>1, TasksStay DEF RollBack, Counter
<1>6. ASSUME NEW r \in Requests, AcquireFailsOpen(r) PROVE Counter'
  <2>1. CASE pc[r] = "acquire_slot" /\ active' \in {active, active + 1}
    <3>1. /\ Held' = Held + 1 /\ Admitted' = Admitted + 1 /\ Started' = Started + 1
      BY <1>6, <2>1, TakesSlot DEF AcquireFailsOpen
    <3>2. QED
      BY <1>1, <1>2, <1>6, <2>1, <3>1, TasksStay DEF AcquireFailsOpen, Counter
  <2>2. CASE pc[r] = "roll_back" /\ active' \in {active, active - 1}
    <3>1. /\ Held' = Held /\ Admitted' = Admitted + 1 /\ Started' = Started
      BY <1>6, <2>2, LeavesRollBack DEF AcquireFailsOpen
    <3>2. QED
      BY <1>1, <1>2, <1>6, <2>2, <3>1, TasksStay DEF AcquireFailsOpen, Counter
  <2>3. QED
    BY <1>6, <2>1, <2>2 DEF AcquireFailsOpen
\* The request goes on with its slot, with or without a fault on the way.
<1>7. ASSUME NEW r \in Requests,
             \/ ClaimIncident(r) \/ ReadOriginal(r) \/ ClaimFailsOpen(r) \/ EmbedAndStore(r)
      PROVE  Counter'
  <2>1. /\ {"claim_incident", "read_original", "embed_and_store"} \subseteq AdmittedLabels
        /\ {"read_original", "embed_and_store", "release_duplicate", "delay",
            "release_failed"} \subseteq AdmittedLabels
    BY DEF AdmittedLabels, HeldLabels, InRequest
  <2>2. UNCHANGED <<Held, Admitted, Started>>
    BY <1>7, <2>1, StaysAdmitted DEF ClaimIncident, ReadOriginal, ClaimFailsOpen, EmbedAndStore
  <2>3. /\ active' = active /\ task' = task
        /\ faults' = faults \/ (faults' = faults + 1 /\ MaxFaults # 0)
    BY <1>2, <1>7 DEF ClaimIncident, ReadOriginal, ClaimFailsOpen, EmbedAndStore
  <2>4. QED
    BY <1>1, <2>2, <2>3, TasksStay DEF Counter
<1>8. ASSUME NEW r \in Requests, ReleaseDuplicate(r) \/ ReleaseFailed(r) PROVE Counter'
  <2>1. pc[r] \in AdmittedLabels
    BY <1>8 DEF ReleaseDuplicate, ReleaseFailed, AdmittedLabels, HeldLabels, InRequest
  <2>2. /\ Held' = Held - 1 /\ Admitted' = Admitted - 1 /\ Started' = Started
    BY <1>8, <2>1, LeavesHeld DEF ReleaseDuplicate, ReleaseFailed, Answer
  <2>3. task' = task /\ release_slot
    BY <1>8 DEF ReleaseDuplicate, ReleaseFailed
  <2>4. QED
    BY <1>1, <1>3, <2>2, <2>3, TasksStay DEF Counter
<1>9. ASSUME NEW r \in Requests, Delay(r) PROVE Counter'
  <2>1. /\ pc[r] \in AdmittedLabels /\ "release_failed" \in AdmittedLabels
        /\ active' = active
    BY <1>9 DEF Delay, AdmittedLabels, HeldLabels, InRequest
  <2>2. task[r] = "none"
    BY <1>9 DEF Delay, Order
  <2>3. ASSUME task' = [task EXCEPT ![r] = "queued"] PROVE Living' = Living + 1
    <3>1. Living' = Living + Bit("queued", LiveStates) - Bit(task[r], LiveStates)
      BY <2>3, TaskMoves
    <3>2. QED
      BY <1>1, <2>2, <3>1 DEF Bit, LiveStates
  <2>4. CASE task' = [task EXCEPT ![r] = "queued"] /\ Goto(r, "set_incident_value")
             /\ UNCHANGED faults
    BY <1>1, <2>1, <2>3, <2>4, LeavesHeld DEF Counter
  <2>5. CASE task' = [task EXCEPT ![r] = "queued"] /\ Goto(r, "release_failed")
             /\ Fault("publish")
    BY <1>1, <1>2, <2>1, <2>3, <2>5, StaysAdmitted DEF Counter
  <2>6. CASE Goto(r, "release_failed") /\ UNCHANGED <<task, faults>>
    BY <1>1, <2>1, <2>6, StaysAdmitted, TasksStay DEF Counter
  <2>7. QED
    BY <1>9, <2>4, <2>5, <2>6 DEF Delay
<1>10. ASSUME NEW r \in Requests, SetIncidentValue(r) PROVE Counter'
  <2>1. /\ Held' = Held /\ Admitted' = Admitted /\ Started <= Started'
    BY <1>10, LeavesWithoutSlot DEF SetIncidentValue, Answer
  <2>2. /\ active' = active /\ task' = task
        /\ faults' = faults \/ (faults' = faults + 1 /\ MaxFaults # 0)
    BY <1>2, <1>10 DEF SetIncidentValue
  <2>3. Started' \in Nat
    BY CountIsNatural DEF Started, Count
  <2>4. QED
    BY <1>1, <2>1, <2>2, <2>3, TasksStay DEF Counter

<1>11. ASSUME NEW r \in Requests, ApiDies(r) PROVE Counter'
  <2>1. /\ faults' = faults + 1 /\ MaxFaults # 0
        /\ active' = active /\ task' = task
        /\ Goto(r, "dead") /\ pc[r] \in InRequest
    BY <1>2, <1>11 DEF ApiDies
  <2>2. Started' \in Nat
    BY CountIsNatural DEF Started, Count
  <2>3. /\ Held' = Held \/ Held' = Held - 1
        /\ Admitted' = Admitted \/ Admitted' = Admitted - 1
        /\ Started <= Started'
    <3>1. CASE pc[r] \in AdmittedLabels
      BY <1>1, <2>1, <3>1, LeavesHeld
    <3>2. CASE pc[r] = "roll_back"
      BY <1>1, <2>1, <3>2, LeavesRollBack
    <3>3. CASE pc[r] \in {"acquire_slot", "set_incident_value"}
      BY <1>1, <2>1, <3>3, LeavesWithoutSlot
    <3>4. QED
      BY <2>1, <3>1, <3>2, <3>3 DEF AdmittedLabels, HeldLabels
  <2>4. Living' = Living
    BY <2>1, TasksStay
  <2>5. QED
    BY <1>1, <2>1, <2>2, <2>3, <2>4 DEF Counter
<1>12. ASSUME NEW r \in Requests, StartTask(r) \/ AckTask(r) PROVE Counter'
  <2>1. Living' = Living
    <3>1. CASE StartTask(r)
      <4>1. Living' = Living + Bit("running", LiveStates) - Bit(task[r], LiveStates)
        BY <3>1, TaskMoves DEF StartTask
      <4>2. QED
        BY <1>1, <3>1, <4>1 DEF Bit, LiveStates, StartTask
    <3>2. CASE AckTask(r)
      <4>1. Living' = Living + Bit("done", LiveStates) - Bit(task[r], LiveStates)
        BY <3>2, TaskMoves DEF AckTask
      <4>2. QED
        BY <1>1, <3>2, <4>1 DEF Bit, LiveStates, AckTask
    <3>3. QED
      BY <1>12, <3>1, <3>2
  <2>2. UNCHANGED <<pc, active, faults>>
    BY <1>12 DEF StartTask, AckTask
  <2>3. QED
    BY <2>1, <2>2, PcStays DEF Counter
<1>13. ASSUME NEW r \in Requests, EndRun(r) PROVE Counter'
  <2>1. Living' = Living - 1
    <3>1. Living' = Living + Bit("released", LiveStates) - Bit(task[r], LiveStates)
      BY <1>13, TaskMoves DEF EndRun
    <3>2. QED
      BY <1>1, <1>13, <3>1 DEF Bit, LiveStates, EndRun
  <2>2. pc' = pc /\ release_slot
    BY <1>13 DEF EndRun
  <2>3. QED
    BY <1>1, <1>3, <2>1, <2>2, PcStays DEF Counter
<1>14. ASSUME NEW r \in Requests, WorkerDies(r) PROVE Counter'
  <2>1. PICK outcome \in {"queued", "lost"} : task' = [task EXCEPT ![r] = outcome]
    BY <1>14 DEF WorkerDies
  <2>2. Living' = Living - 1 \/ Living' = Living \/ Living' = Living + 1
    <3>1. Living' = Living + Bit(outcome, LiveStates) - Bit(task[r], LiveStates)
      BY <2>1, TaskMoves
    <3>2. QED
      BY <1>1, <3>1 DEF Bit
  <2>3. /\ faults' = faults + 1 /\ MaxFaults # 0
        /\ active' = active /\ pc' = pc
    BY <1>2, <1>14 DEF WorkerDies
  <2>4. Held' = Held /\ Admitted' = Admitted /\ Started' = Started
    BY <2>3, PcStays
  <2>5. QED
    BY <1>1, <2>2, <2>3, <2>4 DEF Counter
<1>15. ASSUME (\E k \in Keys : Expire(k)) \/ UNCHANGED vars PROVE Counter'
  <2>1. UNCHANGED <<pc, active, task, faults>>
    BY <1>15 DEF Expire, vars
  <2>2. QED
    BY <2>1, PcStays, TasksStay DEF Counter
<1>16. QED
  BY <1>4, <1>5, <1>6, <1>7, <1>8, <1>9, <1>10, <1>11, <1>12, <1>13, <1>14, <1>15
  DEF Next, Handler, Task

(***************************************************************************)
(* The rest of the invariant.                                              *)
(***************************************************************************)
LEMMA NextTypes ==
    ASSUME Types, [Next]_vars
    PROVE  Types'
<1> USE DEF Types, PcLabels, InRequest, Goto, Answer
<1>1. faults \in Nat /\ MaxFaults \in Nat
  OBVIOUS
<1>2. ASSUME NEW kind, Fault(kind) PROVE faults' \in 0..MaxFaults
  BY <1>1, <1>2 DEF Fault
<1>3. ASSUME release_slot PROVE active' \in Int /\ faults' \in 0..MaxFaults
  BY <1>2, <1>3 DEF release_slot
<1>4. Claimed \in Entries
  BY DEF Claimed, Entries
<1>5. ASSUME NEW r \in Requests, AcquireSlot(r) \/ RollBack(r) PROVE Types'
  BY <1>5 DEF AcquireSlot, RollBack
<1>6. ASSUME NEW r \in Requests, AcquireFailsOpen(r) PROVE Types'
  BY <1>2, <1>6 DEF AcquireFailsOpen
<1>7. ASSUME NEW r \in Requests, ClaimIncident(r) PROVE Types'
  BY <1>4, <1>7 DEF ClaimIncident
<1>8. ASSUME NEW r \in Requests, ReadOriginal(r) PROVE Types'
  BY <1>8 DEF ReadOriginal, Entries
<1>9. ASSUME NEW r \in Requests, ClaimFailsOpen(r) PROVE Types'
  BY <1>2, <1>4, <1>9 DEF ClaimFailsOpen
<1>10. ASSUME NEW r \in Requests, ReleaseDuplicate(r) \/ ReleaseFailed(r) PROVE Types'
  BY <1>3, <1>10 DEF ReleaseDuplicate, ReleaseFailed
<1>11. ASSUME NEW r \in Requests, EmbedAndStore(r) PROVE Types'
  BY <1>11 DEF EmbedAndStore
<1>12. ASSUME NEW r \in Requests, Delay(r) PROVE Types'
  BY <1>2, <1>12 DEF Delay
<1>13. ASSUME NEW r \in Requests, SetIncidentValue(r) PROVE Types'
  <2>1. WithIds(dedup[KeyOf[r]], r) \in Entries
    BY DEF WithIds, Entries
  <2>2. dedup' \in [Keys -> Entries \cup {None}]
    BY <1>13, <2>1 DEF SetIncidentValue
  <2>3. QED
    BY <1>2, <1>13, <2>2 DEF SetIncidentValue
<1>14. ASSUME NEW r \in Requests, ApiDies(r) PROVE Types'
  BY <1>2, <1>14 DEF ApiDies
<1>15. ASSUME NEW r \in Requests, StartTask(r) \/ AckTask(r) PROVE Types'
  BY <1>15 DEF StartTask, AckTask
<1>16. ASSUME NEW r \in Requests, EndRun(r) PROVE Types'
  BY <1>3, <1>16 DEF EndRun
<1>17. ASSUME NEW r \in Requests, WorkerDies(r) PROVE Types'
  BY <1>2, <1>17 DEF WorkerDies
<1>18. ASSUME NEW k \in Keys, Expire(k) PROVE Types'
  BY <1>18 DEF Expire
<1>19. CASE UNCHANGED vars
  BY <1>19 DEF vars
<1>20. QED
  BY <1>5, <1>6, <1>7, <1>8, <1>9, <1>10, <1>11, <1>12, <1>13, <1>14, <1>15, <1>16, <1>17,
     <1>18, <1>19 DEF Next, Handler, Task

LEMMA NextOrder ==
    ASSUME Types, Order, [Next]_vars
    PROVE  Order'
<1> USE DEF Types, Order, Goto, Answer
<1>1. faults \in Nat
  OBVIOUS
\* The steps of a request that has no pipeline and does not get one.
<1>2. ASSUME NEW r \in Requests,
             \/ AcquireSlot(r) \/ RollBack(r) \/ AcquireFailsOpen(r) \/ ClaimIncident(r)
             \/ ReadOriginal(r) \/ ClaimFailsOpen(r) \/ ReleaseDuplicate(r) \/ EmbedAndStore(r)
      PROVE  Order'
  <2>1. task' = task /\ task[r] = "none"
    BY <1>2 DEF AcquireSlot, RollBack, AcquireFailsOpen, ClaimIncident, ReadOriginal,
       ClaimFailsOpen, ReleaseDuplicate, EmbedAndStore
  <2>2. \E l \in PcLabels \ {"set_incident_value"} : pc' = [pc EXCEPT ![r] = l]
    BY <1>2 DEF AcquireSlot, RollBack, AcquireFailsOpen, ClaimIncident, ReadOriginal,
       ClaimFailsOpen, ReleaseDuplicate, EmbedAndStore, PcLabels, InRequest
  <2>3. QED
    BY <2>1, <2>2
<1>3. ASSUME NEW r \in Requests, Delay(r) PROVE Order'
  <2>1. CASE task' = [task EXCEPT ![r] = "queued"] /\ Goto(r, "set_incident_value")
    BY <2>1
  <2>2. CASE task' = [task EXCEPT ![r] = "queued"] /\ Goto(r, "release_failed")
             /\ Fault("publish")
    BY <1>1, <2>2 DEF Fault
  <2>3. CASE Goto(r, "release_failed") /\ UNCHANGED task
    BY <1>3, <2>3 DEF Delay
  <2>4. QED
    BY <1>3, <2>1, <2>2, <2>3 DEF Delay
<1>4. ASSUME NEW r \in Requests, ReleaseFailed(r) \/ SetIncidentValue(r) \/ ApiDies(r)
      PROVE  Order'
  <2>1. task' = task /\ \E l \in {"replied", "dead"} : pc' = [pc EXCEPT ![r] = l]
    BY <1>4 DEF ReleaseFailed, SetIncidentValue, ApiDies
  <2>2. QED
    BY <2>1
<1>5. ASSUME NEW r \in Requests, Task(r) \/ WorkerDies(r) PROVE Order'
  <2>1. /\ pc' = pc /\ task[r] # "none"
        /\ \E t \in {"queued", "running", "released", "done", "lost"} :
              task' = [task EXCEPT ![r] = t]
    BY <1>5 DEF Task, StartTask, EndRun, AckTask, WorkerDies
  <2>2. QED
    BY <2>1
<1>6. ASSUME (\E k \in Keys : Expire(k)) \/ UNCHANGED vars PROVE Order'
  BY <1>6 DEF Expire, vars
<1>7. QED
  BY <1>2, <1>3, <1>4, <1>5, <1>6 DEF Next, Handler

\* A pipeline, once enqueued, stays known.
LEMMA PipelinesStayKnown ==
    ASSUME Types, [Next]_vars, NEW q \in Requests, task[q] # "none"
    PROVE  task'[q] # "none"
<1> USE DEF Types
<1>1. ASSUME NEW r \in Requests, Handler(r) \/ ApiDies(r) PROVE task'[q] # "none"
  BY <1>1 DEF Handler, ApiDies, AcquireSlot, RollBack, AcquireFailsOpen, ClaimIncident,
     ReadOriginal, ClaimFailsOpen, ReleaseDuplicate, EmbedAndStore, Delay, ReleaseFailed,
     SetIncidentValue
<1>2. ASSUME NEW r \in Requests, Task(r) \/ WorkerDies(r) PROVE task'[q] # "none"
  BY <1>2 DEF Task, StartTask, EndRun, AckTask, WorkerDies
<1>3. ASSUME (\E k \in Keys : Expire(k)) \/ UNCHANGED vars PROVE task'[q] # "none"
  BY <1>3 DEF Expire, vars
<1>4. QED
  BY <1>1, <1>2, <1>3 DEF Next

LEMMA NextNames ==
    ASSUME Types, Order, Names, [Next]_vars
    PROVE  Names'
<1> USE DEF Types
<1>1. \A q \in Requests : task[q] # "none" => task'[q] # "none"
  BY PipelinesStayKnown
\* Steps that record no ids and read none.
<1>2. ASSUME UNCHANGED ids,
             \A k \in Keys : \/ dedup'[k] = dedup[k]
                             \/ dedup'[k] = None
                             \/ dedup'[k] = Claimed
      PROVE  Names'
  <2>1. Claimed.value = None
    BY DEF Claimed
  <2>2. \A k \in Keys : dedup'[k] # None /\ dedup'[k].value # None => dedup'[k] = dedup[k]
    BY <1>2, <2>1
  <2>3. \A k \in Keys : dedup[k] # None => dedup[k].value \in Requests \cup {None}
    BY DEF Entries
  <2>4. ids \in [Requests -> Requests \cup {None}]
    OBVIOUS
  <2>5. QED
    BY <1>1, <1>2, <2>2, <2>3, <2>4 DEF Names, DuplicateNamesAPipeline
<1>3. ASSUME NEW r \in Requests, ReadOriginal(r) PROVE Names'
  <2>1. /\ ids' = [ids EXCEPT ![r] = IF dedup[KeyOf[r]] = None THEN None
                                     ELSE dedup[KeyOf[r]].value]
        /\ UNCHANGED <<dedup, task>>
    BY <1>3 DEF ReadOriginal
  <2>2. KeyOf[r] \in Keys
    OBVIOUS
  <2>3. QED
    BY <2>1, <2>2 DEF Names, DuplicateNamesAPipeline
<1>4. ASSUME NEW r \in Requests, SetIncidentValue(r) PROVE Names'
  <2>1. task' = task /\ ids' = ids /\ task[r] # "none"
    BY <1>4 DEF SetIncidentValue, Order
  <2>2. CASE UNCHANGED dedup
    BY <1>2, <2>1, <2>2
  <2>3. CASE dedup' = [dedup EXCEPT ![KeyOf[r]] = WithIds(@, r)]
    <3>1. \A k \in Keys : k # KeyOf[r] => dedup'[k] = dedup[k]
      BY <2>3
    <3>2. dedup'[KeyOf[r]].value = r
      BY <2>3 DEF WithIds
    <3>3. \A k \in Keys : dedup'[k] # None /\ dedup'[k].value # None =>
              KeyOf[dedup'[k].value] = k /\ task[dedup'[k].value] # "none"
      BY <2>1, <3>1, <3>2 DEF Names
    <3>4. QED
      BY <2>1, <3>3 DEF Names, DuplicateNamesAPipeline
  <2>4. QED
    BY <1>4, <2>2, <2>3 DEF SetIncidentValue
<1>5. ASSUME NEW r \in Requests, ClaimIncident(r) \/ ClaimFailsOpen(r) PROVE Names'
  BY <1>2, <1>5 DEF ClaimIncident, ClaimFailsOpen
<1>6. ASSUME NEW k \in Keys, Expire(k) PROVE Names'
  BY <1>2, <1>6 DEF Expire
<1>7. ASSUME NEW r \in Requests,
             \/ AcquireSlot(r) \/ RollBack(r) \/ AcquireFailsOpen(r) \/ ReleaseDuplicate(r)
             \/ EmbedAndStore(r) \/ Delay(r) \/ ReleaseFailed(r) \/ ApiDies(r)
             \/ Task(r) \/ WorkerDies(r)
      PROVE  Names'
  <2>1. UNCHANGED <<ids, dedup>>
    BY <1>7 DEF AcquireSlot, RollBack, AcquireFailsOpen, ReleaseDuplicate, EmbedAndStore,
       Delay, ReleaseFailed, ApiDies, Task, StartTask, EndRun, AckTask, WorkerDies
  <2>2. QED
    BY <1>2, <2>1
<1>8. CASE UNCHANGED vars
  BY <1>2, <1>8 DEF vars
<1>9. QED
  BY <1>3, <1>4, <1>5, <1>6, <1>7, <1>8 DEF Next, Handler

LEMMA InitIInv == Init => IInv
<1> SUFFICES ASSUME Init PROVE IInv
  OBVIOUS
<1>1. Types
  BY DEF Init, Types, PcLabels, InRequest
<1>2. Held = 0 /\ Admitted = 0 /\ Started = 0 /\ Living = 0
  <2>1. /\ {q \in Requests : pc[q] \in HeldLabels} = {}
        /\ {q \in Requests : pc[q] \in AdmittedLabels} = {}
        /\ {q \in Requests : pc[q] \in StartedLabels} = {}
        /\ {q \in Requests : task[q] \in LiveStates} = {}
    BY DEF Init, HeldLabels, AdmittedLabels, StartedLabels, LiveStates
  <2>2. QED
    BY <2>1, FS_EmptySet DEF Held, Admitted, Started, Living, Count
<1>3. Counter
  BY <1>2 DEF Init, Counter
<1>4. Order /\ Names
  BY DEF Init, Order, Names, DuplicateNamesAPipeline
<1>5. QED
  BY <1>1, <1>3, <1>4 DEF IInv

LEMMA Invariance == Spec => []IInv
<1>1. Init => IInv
  BY InitIInv
<1>2. IInv /\ [Next]_vars => IInv'
  BY NextTypes, NextCounter, NextOrder, NextNames DEF IInv
<1>3. QED
  BY <1>1, <1>2, PTL DEF Spec

-----------------------------------------------------------------------------
(***************************************************************************)
(* The theorems                                                            *)
(***************************************************************************)
\* Every variable keeps its type, and the counter in Redis its bounds: it is
\* below zero by no more than the faults so far.
THEOREM TypeCorrect == Spec => []TypeOK
<1>1. IInv => TypeOK
  <2> SUFFICES ASSUME IInv PROVE TypeOK
    OBVIOUS
  <2>1. active \in (-faults)..Cardinality(Requests)
    BY CountsAreNatural DEF IInv, Types, Counter
  <2>2. QED
    BY <2>1 DEF IInv, Types, TypeOK, PcLabels
<1>2. QED
  BY <1>1, Invariance, PTL

\* acquire_slot fails open: whatever Redis, the broker and the processes do,
\* each fault lets at most one pipeline more in than the cap.
THEOREM FailingOpenIsBounded == Spec => []OneExtraPerFault
<1>1. IInv => OneExtraPerFault
  <2> SUFFICES ASSUME IInv PROVE OneExtraPerFault
    OBVIOUS
  <2>1. Living <= MaxActive + faults
    BY CountsAreNatural DEF IInv, Types, Counter
  <2>2. QED
    BY <2>1 DEF OneExtraPerFault, Living, Live, LiveStates, Count
<1>2. QED
  BY <1>1, Invariance, PTL

\* The ids of a deduplicated answer name a pipeline for the same crash, also
\* when keys expire, commands fail and processes die.
THEOREM DuplicatesNamePipelines == Spec => []DuplicateNamesAPipeline
<1>1. IInv => DuplicateNamesAPipeline
  BY DEF IInv, Names
<1>2. QED
  BY <1>1, Invariance, PTL

\* Without faults that skew the counter, slots are neither leaked nor given
\* back twice, also when storing or enqueueing fails or keys expire.
THEOREM SlotConservation ==
    ASSUME MaxFaults = 0
    PROVE  Spec => []SlotsAreConserved
<1>1. IInv => SlotsAreConserved
  <2> SUFFICES ASSUME IInv PROVE SlotsAreConserved
    OBVIOUS
  <2> DEFINE H == {q \in Requests : pc[q] \in HeldLabels}
             L == {q \in Requests : task[q] \in LiveStates}
  <2>1. H \in SUBSET Requests /\ L \in SUBSET Requests
    OBVIOUS
  <2>2. H \cap L = {}
    BY DEF IInv, Types, Order, HeldLabels, InRequest, LiveStates
  <2>3. Cardinality(H \cup L) = Cardinality(H) + Cardinality(L) - Cardinality(H \cap L)
    BY <2>1, FS_Subset, FS_Union
  <2>4. Cardinality(H) \in Nat /\ Cardinality(L) \in Nat
    BY <2>1, FS_Subset, FS_CardinalityType
  <2>5. Cardinality(H \cup L) = Held + Living
    <3>1. Cardinality(H \cap L) = 0
      BY <2>2, FS_EmptySet
    <3>2. Cardinality(H) = Held /\ Cardinality(L) = Living
      BY DEF Held, Living, Count
    <3> HIDE DEF H, L
    <3>3. QED
      BY <2>3, <2>4, <3>1, <3>2
  <2>6. SlotHeldByRequest \cup Live = H \cup L
    BY DEF SlotHeldByRequest, Live, HeldLabels, LiveStates
  <2>7. active = Held + Living
    BY DEF IInv, Counter
  <2>8. QED
    BY <2>5, <2>6, <2>7 DEF SlotsAreConserved
<1>2. QED
  BY <1>1, Invariance, PTL

\* ... and no interleaving of the requests lets more pipelines in than the cap.
THEOREM CapHolds ==
    ASSUME MaxFaults = 0
    PROVE  Spec => []CapIsRespected
<1>1. IInv => CapIsRespected
  <2> SUFFICES ASSUME IInv PROVE CapIsRespected
    OBVIOUS
  <2>1. faults = 0 /\ MaxActive \in Nat
    BY DEF IInv, Types
  <2>2. Living <= MaxActive
    BY <2>1, CountsAreNatural DEF IInv, Counter
  <2>3. QED
    BY <2>2 DEF CapIsRespected, Living, Live, LiveStates, Count
<1>2. QED
  BY <1>1, Invariance, PTL

(***************************************************************************)
(* One pipeline per window, in a Redis that neither fails nor expires      *)
(* anything: the key has one winner, and only the winner gets a pipeline.  *)
(***************************************************************************)
LEMMA NextOneClaim ==
    ASSUME Faults \subseteq {"backend"}, Types, OneClaim, [Next]_vars
    PROVE  OneClaim'
<1> USE DEF Types, Goto, Answer
<1>1. ASSUME NEW kind, Fault(kind), kind # "backend" PROVE FALSE
  BY <1>1 DEF Fault
\* A step that leaves the keys and makes nobody a winner.
<1>2. ASSUME NEW r \in Requests, UNCHANGED dedup, Claims(r)' => Claims(r),
             \A q \in Requests : q # r => pc'[q] = pc[q] /\ task'[q] = task[q]
      PROVE  OneClaim'
  <2>1. \A q \in Requests : Claims(q)' => Claims(q)
    BY <1>2 DEF Claims
  <2>2. QED
    BY <1>2, <2>1 DEF OneClaim
<1>3. ASSUME NEW r \in Requests, ClaimIncident(r) PROVE OneClaim'
  <2>1. CASE dedup[KeyOf[r]] = None
    <3>1. /\ dedup' = [dedup EXCEPT ![KeyOf[r]] = Claimed]
          /\ pc' = [pc EXCEPT ![r] = "embed_and_store"]
          /\ task' = task
      BY <1>3, <2>1 DEF ClaimIncident
    <3>2. \A q \in Requests : Claims(q) => KeyOf[q] # KeyOf[r]
      BY <2>1 DEF OneClaim
    <3>3. \A q \in Requests : q # r => (Claims(q)' <=> Claims(q))
      BY <3>1 DEF Claims
    <3>4. dedup'[KeyOf[r]] # None
      <4>1. dedup'[KeyOf[r]] = Claimed
        BY <3>1
      <4>2. Claimed \in Entries
        BY DEF Claimed, Entries
      <4>3. QED
        BY <4>1, <4>2
    <3>5. \A q \in Requests : KeyOf[q] # KeyOf[r] => dedup'[KeyOf[q]] = dedup[KeyOf[q]]
      BY <3>1
    <3>6. QED
      BY <3>2, <3>3, <3>4, <3>5 DEF OneClaim
  <2>2. CASE dedup[KeyOf[r]] # None
    <3>1. UNCHANGED dedup /\ task' = task /\ pc' = [pc EXCEPT ![r] = "read_original"]
      BY <1>3, <2>2 DEF ClaimIncident
    <3>2. QED
      BY <1>2, <3>1 DEF Claims
  <2>3. QED
    BY <2>1, <2>2

<1>4. ASSUME NEW r \in Requests, EmbedAndStore(r) \/ Delay(r) \/ SetIncidentValue(r)
      PROVE  OneClaim'
  <2>1. /\ Claims(r)
        /\ \A q \in Requests : q # r => pc'[q] = pc[q] /\ task'[q] = task[q]
    BY <1>4 DEF EmbedAndStore, Delay, SetIncidentValue, Claims
  <2>2. CASE UNCHANGED dedup
    BY <1>2, <2>1, <2>2
  <2>3. CASE dedup' = [dedup EXCEPT ![KeyOf[r]] = WithIds(@, r)]
    <3>1. WithIds(dedup[KeyOf[r]], r) \in Entries
      BY DEF WithIds, Entries
    <3>2. \A k \in Keys : dedup[k] # None => dedup'[k] # None
      BY <2>3, <3>1
    <3>3. \A q \in Requests : Claims(q)' => Claims(q)
      BY <2>1 DEF Claims
    <3>4. QED
      BY <3>2, <3>3 DEF OneClaim
  <2>4. QED
    BY <1>4, <2>2, <2>3 DEF EmbedAndStore, Delay, SetIncidentValue
\* The other steps of a request make it go to a label that claims nothing.
<1>5. ASSUME NEW r \in Requests,
             \/ AcquireSlot(r) \/ RollBack(r) \/ ReadOriginal(r) \/ ReleaseDuplicate(r)
             \/ ReleaseFailed(r)
      PROVE  OneClaim'
  <2>1. /\ UNCHANGED <<dedup, task>>
        /\ \E l \in {"roll_back", "claim_incident", "replied", "release_duplicate"} :
              pc' = [pc EXCEPT ![r] = l]
    BY <1>5 DEF AcquireSlot, RollBack, ReadOriginal, ReleaseDuplicate, ReleaseFailed
  <2>2. QED
    BY <1>2, <2>1 DEF Claims
<1>6. ASSUME NEW r \in Requests,
             AcquireFailsOpen(r) \/ ClaimFailsOpen(r) \/ ApiDies(r) \/ WorkerDies(r)
      PROVE  FALSE
  BY <1>1, <1>6 DEF AcquireFailsOpen, ClaimFailsOpen, ApiDies, WorkerDies
<1>7. ASSUME NEW r \in Requests, Task(r) PROVE OneClaim'
  <2>1. /\ UNCHANGED <<dedup, pc>> /\ task[r] # "none"
        /\ \A q \in Requests : q # r => task'[q] = task[q]
    BY <1>7 DEF Task, StartTask, EndRun, AckTask
  <2>2. QED
    BY <1>2, <2>1 DEF Claims
<1>8. ASSUME NEW k \in Keys, Expire(k) PROVE FALSE
  BY <1>8 DEF Expire
<1>9. CASE UNCHANGED vars
  BY <1>9 DEF vars, OneClaim, Claims
<1>10. QED
  BY <1>3, <1>4, <1>5, <1>6, <1>7, <1>8, <1>9 DEF Next, Handler

\* The dedup claim of ratelimit.py: as long as Redis works and the window lasts,
\* identical crashes create at most one pipeline, however many requests race.
THEOREM DedupHolds ==
    ASSUME Faults \subseteq {"backend"}
    PROVE  Spec => []OnePipelinePerWindow
<1>1. Init => OneClaim
  BY DEF Init, OneClaim, Claims
<1>2. IInv /\ OneClaim /\ [Next]_vars => OneClaim'
  BY NextOneClaim DEF IInv
<1>3. OneClaim => OnePipelinePerWindow
  <2> SUFFICES ASSUME OneClaim, NEW k \in Keys
               PROVE  Cardinality({r \in Requests : KeyOf[r] = k /\ task[r] # "none"}) <= 1
    BY DEF OnePipelinePerWindow
  <2> DEFINE S == {r \in Requests : KeyOf[r] = k /\ task[r] # "none"}
  <2>1. \A r, q \in S : r = q
    BY DEF OneClaim, Claims
  <2>2. CASE S = {}
    BY <2>2, FS_EmptySet
  <2>3. CASE S # {}
    <3>1. PICK r : r \in S
      BY <2>3
    <3>2. S = {r}
      BY <2>1, <3>1
    <3>3. Cardinality({r}) = 1
      BY FS_Singleton
    <3>4. QED
      BY <3>2, <3>3
  <2>4. QED
    BY <2>2, <2>3
<1>4. QED
  BY <1>1, <1>2, <1>3, Invariance, PTL DEF Spec

(***************************************************************************)
(* A key without ids is a claim as SET with EX made it; SET with KEEPTTL   *)
(* writes ids.                                                             *)
(***************************************************************************)
ClaimsExpire == \A k \in Keys : dedup[k] # None /\ dedup[k].value = None => dedup[k].ttl

LEMMA NextClaimsExpire ==
    ASSUME Types, ClaimsExpire, [Next]_vars
    PROVE  ClaimsExpire'
<1> USE DEF Types, ClaimsExpire
<1>1. ASSUME \A k \in Keys : \/ dedup'[k] = dedup[k]
                             \/ dedup'[k] = None
                             \/ dedup'[k] = Claimed
      PROVE  ClaimsExpire'
  BY <1>1 DEF Claimed
<1>2. ASSUME NEW r \in Requests, SetIncidentValue(r) PROVE ClaimsExpire'
  <2>1. CASE UNCHANGED dedup
    BY <2>1
  <2>2. CASE dedup' = [dedup EXCEPT ![KeyOf[r]] = WithIds(@, r)]
    <3>1. WithIds(dedup[KeyOf[r]], r).value = r /\ r # None
      BY DEF WithIds
    <3>2. QED
      BY <2>2, <3>1
  <2>3. QED
    BY <1>2, <2>1, <2>2 DEF SetIncidentValue
<1>3. ASSUME NEW r \in Requests, ClaimIncident(r) \/ ClaimFailsOpen(r) PROVE ClaimsExpire'
  BY <1>1, <1>3 DEF ClaimIncident, ClaimFailsOpen
<1>4. ASSUME NEW k \in Keys, Expire(k) PROVE ClaimsExpire'
  BY <1>1, <1>4 DEF Expire
<1>5. ASSUME NEW r \in Requests,
             \/ AcquireSlot(r) \/ RollBack(r) \/ AcquireFailsOpen(r) \/ ReadOriginal(r)
             \/ ReleaseDuplicate(r) \/ EmbedAndStore(r) \/ Delay(r) \/ ReleaseFailed(r)
             \/ ApiDies(r) \/ Task(r) \/ WorkerDies(r)
      PROVE  ClaimsExpire'
  BY <1>5 DEF AcquireSlot, RollBack, AcquireFailsOpen, ReadOriginal, ReleaseDuplicate,
     EmbedAndStore, Delay, ReleaseFailed, ApiDies, Task, StartTask, EndRun, AckTask,
     WorkerDies
<1>6. CASE UNCHANGED vars
  BY <1>6 DEF vars
<1>7. QED
  BY <1>2, <1>3, <1>4, <1>5, <1>6 DEF Next, Handler

\* ratelimit.py: whatever fails and whenever a window ends, the only keys that
\* stay for ever are those of crashes whose pipeline was enqueued, which they
\* name; a claim whose request failed or died expires.
THEOREM LastingKeysArePipelines == Spec => []LastingKeysNameAPipeline
<1>1. Init => ClaimsExpire
  BY DEF Init, ClaimsExpire
<1>2. IInv /\ ClaimsExpire /\ [Next]_vars => ClaimsExpire'
  BY NextClaimsExpire DEF IInv
<1>3. ASSUME IInv, ClaimsExpire PROVE LastingKeysNameAPipeline
  <2> SUFFICES ASSUME NEW k \in Keys, dedup[k] # None, ~dedup[k].ttl
               PROVE  \E r \in Requests : /\ dedup[k].value = r
                                          /\ KeyOf[r] = k
                                          /\ task[r] # "none"
    BY DEF LastingKeysNameAPipeline
  <2>1. dedup[k].value \in Requests
    BY <1>3 DEF IInv, Types, Entries, ClaimsExpire
  <2>2. KeyOf[dedup[k].value] = k /\ task[dedup[k].value] # "none"
    BY <1>3, <2>1 DEF IInv, Names
  <2>3. QED
    BY <2>1, <2>2
<1>4. QED
  BY <1>1, <1>2, <1>3, Invariance, PTL DEF Spec

(***************************************************************************)
(* What EveryRequestAnswered and SlotsComeBack rest on besides fairness: a *)
(* request and its pipeline have a bounded number of steps ahead. Each of  *)
(* their own steps, failures included, uses up at least one, no step of    *)
(* another request adds any, and only a fault can make a worker start over.*)
(***************************************************************************)
CallsAhead(label) ==
    CASE label = "acquire_slot" -> 7
      [] label = "roll_back" -> 6
      [] label = "claim_incident" -> 5
      [] label = "read_original" -> 4
      [] label \in {"embed_and_store", "release_duplicate"} -> 3
      [] label = "delay" -> 2
      [] label \in {"release_failed", "set_incident_value"} -> 1
      [] OTHER -> 0

TasksAhead(t) ==
    CASE t = "none" -> 4
      [] t = "queued" -> 3
      [] t = "running" -> 2
      [] t = "released" -> 1
      [] OTHER -> 0

StepsAhead(r) == 4 * (MaxFaults - faults) + CallsAhead(pc[r]) + TasksAhead(task[r])

RequestsRunOut ==
    \A r \in Requests :
        /\ StepsAhead(r)' <= StepsAhead(r)
        /\ Handler(r) \/ Task(r) \/ ApiDies(r) \/ WorkerDies(r)
              => StepsAhead(r)' < StepsAhead(r)

LEMMA AheadIsNatural ==
    /\ \A l : CallsAhead(l) \in 0..7
    /\ \A t : TasksAhead(t) \in 0..4
BY DEF CallsAhead, TasksAhead

\* The step of request r, seen from any request.
Advances(r) ==
    /\ \A q \in Requests : q # r => pc'[q] = pc[q] /\ task'[q] = task[q]
    /\ \/ /\ faults' = faults
          /\ CallsAhead(pc'[r]) + TasksAhead(task'[r]) < CallsAhead(pc[r]) + TasksAhead(task[r])
       \/ /\ faults' = faults + 1
          /\ CallsAhead(pc'[r]) + TasksAhead(task'[r]) <= CallsAhead(pc[r]) + TasksAhead(task[r]) + 2

LEMMA HandlerAdvances ==
    ASSUME Types, Order, NEW r \in Requests, Handler(r) \/ ApiDies(r)
    PROVE  Advances(r)
<1> USE DEF Types, Goto, Answer, Advances
<1>1. CASE AcquireSlot(r) \/ RollBack(r) \/ ClaimIncident(r) \/ ReadOriginal(r) \/ EmbedAndStore(r)
  BY <1>1 DEF AcquireSlot, RollBack, ClaimIncident, ReadOriginal, EmbedAndStore, CallsAhead, TasksAhead
<1>2. CASE AcquireFailsOpen(r) \/ ClaimFailsOpen(r)
  BY <1>2 DEF AcquireFailsOpen, ClaimFailsOpen, Fault, CallsAhead, TasksAhead
<1>3. CASE ReleaseDuplicate(r) \/ ReleaseFailed(r)
  BY <1>3 DEF ReleaseDuplicate, ReleaseFailed, release_slot, Fault, CallsAhead, TasksAhead
<1>4. CASE Delay(r)
  <2>1. pc[r] = "delay" /\ task[r] = "none"
    BY <1>4 DEF Delay, Order
  <2>2. /\ \A q \in Requests : q # r => pc'[q] = pc[q] /\ task'[q] = task[q]
        /\ pc'[r] \in {"set_incident_value", "release_failed"} /\ task'[r] \in {"none", "queued"}
        /\ faults' \in {faults, faults + 1}
    BY <1>4, <2>1 DEF Delay, Fault
  <2>3. CallsAhead(pc'[r]) = 1 /\ CallsAhead(pc[r]) = 2
    BY <2>1, <2>2 DEF CallsAhead
  <2>4. TasksAhead(task'[r]) \in {3, 4} /\ TasksAhead(task[r]) = 4
    BY <2>1, <2>2 DEF TasksAhead
  <2>5. QED
    BY <2>2, <2>3, <2>4
<1>5. CASE SetIncidentValue(r)
  BY <1>5 DEF SetIncidentValue, Fault, CallsAhead, TasksAhead
<1>6. CASE ApiDies(r)
  BY <1>6 DEF ApiDies, InRequest, Fault, CallsAhead, TasksAhead
<1>7. QED
  BY <1>1, <1>2, <1>3, <1>4, <1>5, <1>6 DEF Handler

LEMMA TaskAdvances ==
    ASSUME Types, NEW r \in Requests, Task(r) \/ WorkerDies(r)
    PROVE  Advances(r)
<1> USE DEF Types, Advances, CallsAhead, TasksAhead
<1>1. CASE StartTask(r) \/ AckTask(r)
  BY <1>1 DEF StartTask, AckTask
<1>2. CASE EndRun(r)
  BY <1>2 DEF EndRun, release_slot, Fault
<1>3. CASE WorkerDies(r)
  <2>1. PICK outcome \in {"queued", "lost"} : task' = [task EXCEPT ![r] = outcome]
    BY <1>3 DEF WorkerDies
  <2>2. task[r] \in {"running", "released"} /\ UNCHANGED pc /\ faults' = faults + 1
    BY <1>3 DEF WorkerDies, Fault
  <2>3. /\ \A q \in Requests : q # r => task'[q] = task[q]
        /\ task'[r] \in {"queued", "lost"}
    BY <2>1
  <2>4. TasksAhead(task'[r]) \in {0, 3} /\ TasksAhead(task[r]) \in {1, 2}
    BY <2>2, <2>3
  <2>5. CallsAhead(pc'[r]) = CallsAhead(pc[r]) /\ CallsAhead(pc[r]) \in 0..7
    BY <2>2, AheadIsNatural
  <2>6. CallsAhead(pc'[r]) + TasksAhead(task'[r]) <= CallsAhead(pc[r]) + TasksAhead(task[r]) + 2
    BY <2>4, <2>5
  <2>7. QED
    BY <2>2, <2>3, <2>6
<1>4. QED
  BY <1>1, <1>2, <1>3 DEF Task

\* main.py, ingest, and tasks.py: no request and no pipeline goes on for ever,
\* and what they still do is not prolonged by anything another one does.
THEOREM WorkIsBounded ==
    Spec => /\ [](\A r \in Requests : StepsAhead(r) \in 0..(4 * MaxFaults + 11))
            /\ [][RequestsRunOut]_vars
<1>1. IInv => \A r \in Requests : StepsAhead(r) \in 0..(4 * MaxFaults + 11)
  <2> SUFFICES ASSUME IInv, NEW r \in Requests
               PROVE  StepsAhead(r) \in 0..(4 * MaxFaults + 11)
    OBVIOUS
  <2>1. faults \in 0..MaxFaults /\ MaxFaults \in Nat
    BY DEF IInv, Types
  <2>2. CallsAhead(pc[r]) \in 0..7 /\ TasksAhead(task[r]) \in 0..4
    BY AheadIsNatural
  <2>3. QED
    BY <2>1, <2>2 DEF StepsAhead
<1>2. IInv /\ [Next]_vars => [RequestsRunOut]_vars
  <2> SUFFICES ASSUME IInv, Next PROVE RequestsRunOut
    BY DEF vars
  <2>1. /\ Types /\ Order /\ faults \in Int /\ MaxFaults \in Int
        /\ \A r \in Requests : /\ CallsAhead(pc[r]) \in Int /\ CallsAhead(pc'[r]) \in Int
                               /\ TasksAhead(task[r]) \in Int /\ TasksAhead(task'[r]) \in Int
    BY AheadIsNatural DEF IInv, Types
  <2>2. ASSUME NEW r \in Requests, Advances(r)
        PROVE  /\ StepsAhead(r)' < StepsAhead(r)
               /\ \A q \in Requests : StepsAhead(q)' <= StepsAhead(q)
    <3>1. StepsAhead(r)' < StepsAhead(r)
      BY <2>1, <2>2 DEF Advances, StepsAhead
    <3>2. ASSUME NEW q \in Requests, q # r PROVE StepsAhead(q)' <= StepsAhead(q)
      BY <2>1, <2>2, <3>2 DEF Advances, StepsAhead
    <3>3. ASSUME NEW q \in Requests PROVE StepsAhead(q)' \in Int /\ StepsAhead(q) \in Int
      <4>1. faults' \in Int
        BY <2>1, <2>2 DEF Advances
      <4>2. QED
        BY <2>1, <4>1 DEF StepsAhead
    <3>4. QED
      BY <3>1, <3>2, <3>3
  <2>3. ASSUME NEW r \in Requests, Handler(r) \/ Task(r) \/ ApiDies(r) \/ WorkerDies(r)
        PROVE  /\ StepsAhead(r)' < StepsAhead(r)
               /\ \A q \in Requests : StepsAhead(q)' <= StepsAhead(q)
    BY <2>1, <2>2, <2>3, HandlerAdvances, TaskAdvances
  <2>4. ASSUME NEW k \in Keys, Expire(k), NEW q \in Requests
        PROVE  StepsAhead(q)' <= StepsAhead(q)
    <3>1. StepsAhead(q)' = StepsAhead(q)
      BY <2>4 DEF Expire, StepsAhead
    <3>2. StepsAhead(q) \in Int
      BY <2>1 DEF StepsAhead
    <3>3. QED
      BY <3>1, <3>2
  <2>5. \A q \in Requests : StepsAhead(q)' <= StepsAhead(q)
    BY <2>3, <2>4 DEF Next
  <2>6. QED
    BY <2>3, <2>5 DEF RequestsRunOut
<1>3. QED
  BY <1>1, <1>2, Invariance, PTL DEF Spec
=============================================================================
