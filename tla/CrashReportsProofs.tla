------------------------- MODULE CrashReportsProofs -------------------------
(***************************************************************************)
(* Theorems about CrashReports, for any number of requests and any         *)
(* reports: what the claim on a dedup key gives those that share it, and,  *)
(* where the keys tell the reports apart, the crashes they report. That    *)
(* dedup_key does so is model-checked: it is recursive over the text.      *)
(***************************************************************************)
EXTENDS CrashReports, AdmissionProofs

(***************************************************************************)
(* A duplicate has a rival: whoever holds a key is past its claim, so the  *)
(* request that finds the key held is another one. This survives every     *)
(* fault and the end of every window.                                      *)
(***************************************************************************)
Past(r) == pc[r] \notin {"acquire_slot", "roll_back", "claim_incident"}

Rivals ==
    /\ \A k \in Keys : dedup[k] # None => \E q \in Requests : KeyOf[q] = k /\ Past(q)
    /\ \A r \in Requests :
          pc[r] \in {"read_original", "release_duplicate"} \/ reply[r] = "deduplicated"
            => \E q \in Requests \ {r} : KeyOf[q] = KeyOf[r] /\ Past(q)

LEMMA PastStays ==
    ASSUME Types, [Next]_vars, NEW q \in Requests, Past(q)
    PROVE  Past(q)'
<1> USE DEF Types, Goto, Answer, Past
<1>1. ASSUME NEW r \in Requests,
             AcquireSlot(r) \/ RollBack(r) \/ AcquireFailsOpen(r) \/ ClaimIncident(r)
      PROVE  Past(q)'
  <2>1. r # q /\ \A p \in Requests : p # r => pc'[p] = pc[p]
    BY <1>1 DEF AcquireSlot, RollBack, AcquireFailsOpen, ClaimIncident
  <2>2. QED
    BY <2>1
<1>2. ASSUME NEW r \in Requests,
             \/ ReadOriginal(r) \/ ClaimFailsOpen(r) \/ ReleaseDuplicate(r) \/ EmbedAndStore(r)
             \/ Delay(r) \/ ReleaseFailed(r) \/ SetIncidentValue(r) \/ ApiDies(r)
      PROVE  Past(q)'
  <2>1. /\ Past(r)'
        /\ \A p \in Requests : p # r => pc'[p] = pc[p]
    BY <1>2 DEF ReadOriginal, ClaimFailsOpen, ReleaseDuplicate, EmbedAndStore, Delay,
       ReleaseFailed, SetIncidentValue, ApiDies
  <2>2. QED
    BY <2>1
<1>3. ASSUME UNCHANGED pc PROVE Past(q)'
  BY <1>3
<1>4. ASSUME NEW r \in Requests, Task(r) \/ WorkerDies(r) PROVE Past(q)'
  BY <1>3, <1>4 DEF Task, StartTask, EndRun, AckTask, WorkerDies
<1>5. ASSUME NEW k \in Keys, Expire(k) PROVE Past(q)'
  BY <1>3, <1>5 DEF Expire
<1>6. CASE UNCHANGED vars
  BY <1>3, <1>6 DEF vars
<1>7. QED
  BY <1>1, <1>2, <1>4, <1>5, <1>6 DEF Next, Handler

LEMMA NextRivals ==
    ASSUME Types, Rivals, [Next]_vars
    PROVE  Rivals'
<1> USE DEF Types, Goto, Answer
<1> DEFINE Holder(k)  == \E q \in Requests : KeyOf[q] = k /\ Past(q)
           Rival(r)   == \E q \in Requests \ {r} : KeyOf[q] = KeyOf[r] /\ Past(q)
           Repeat(r)  == pc[r] \in {"read_original", "release_duplicate"}
                           \/ reply[r] = "deduplicated"
<1>1. \A q \in Requests : Past(q) => Past(q)'
  BY PastStays
<1>2. /\ \A k \in Keys : dedup[k] # None => Holder(k)
      /\ \A r \in Requests : Repeat(r) => Rival(r)
  BY DEF Rivals
<1>3. SUFFICES /\ \A k \in Keys : dedup'[k] # None => dedup[k] # None \/ Holder(k)'
               /\ \A r \in Requests : Repeat(r)' => Repeat(r) \/ Rival(r)
  <2>1. \A k \in Keys : Holder(k) => Holder(k)'
    BY <1>1
  <2>2. \A r \in Requests : Rival(r) => Rival(r)'
    BY <1>1
  <2>3. QED
    BY <1>2, <1>3, <2>1, <2>2 DEF Rivals
\* The request that moves, and the key it sets if it sets one.
<1>4. ASSUME NEW r \in Requests,
             \A q \in Requests : q # r => pc'[q] = pc[q] /\ reply'[q] = reply[q],
             Repeat(r)' => Repeat(r) \/ Rival(r),
             \A k \in Keys : k # KeyOf[r] => dedup'[k] = dedup[k],
             dedup' = dedup \/ Past(r)'
      PROVE  /\ \A k \in Keys : dedup'[k] # None => dedup[k] # None \/ Holder(k)'
             /\ \A q \in Requests : Repeat(q)' => Repeat(q) \/ Rival(q)
  <2>1. ASSUME NEW k \in Keys, dedup'[k] # None PROVE dedup[k] # None \/ Holder(k)'
    <3>1. CASE dedup' = dedup
      BY <2>1, <3>1
    <3>2. CASE Past(r)'
      BY <1>4, <2>1, <3>2
    <3>3. QED
      BY <1>4, <3>1, <3>2
  <2>2. ASSUME NEW q \in Requests, Repeat(q)' PROVE Repeat(q) \/ Rival(q)
    BY <1>4, <2>2
  <2>3. QED
    BY <2>1, <2>2
<1>5. ASSUME NEW r \in Requests, ClaimIncident(r)
      PROVE  /\ \A k \in Keys : dedup'[k] # None => dedup[k] # None \/ Holder(k)'
             /\ \A q \in Requests : Repeat(q)' => Repeat(q) \/ Rival(q)
  <2>1. ~Past(r) /\ KeyOf[r] \in Keys
    BY <1>5, AdmissionAssumption DEF ClaimIncident, Past
  <2>2. CASE dedup[KeyOf[r]] = None
    <3>1. /\ pc' = [pc EXCEPT ![r] = "embed_and_store"]
          /\ dedup' = [dedup EXCEPT ![KeyOf[r]] = Claimed]
          /\ reply' = reply
      BY <1>5, <2>2 DEF ClaimIncident
    <3>2. QED
      BY <1>4, <3>1 DEF Past
  <2>3. CASE dedup[KeyOf[r]] # None
    <3>1. pc' = [pc EXCEPT ![r] = "read_original"] /\ dedup' = dedup /\ reply' = reply
      BY <1>5, <2>3 DEF ClaimIncident
    <3>2. Rival(r)
      BY <1>2, <2>1, <2>3
    <3>3. QED
      BY <1>4, <3>1, <3>2
  <2>4. QED
    BY <2>2, <2>3
<1>6. ASSUME NEW r \in Requests, ReadOriginal(r) \/ ReleaseDuplicate(r)
      PROVE  /\ \A k \in Keys : dedup'[k] # None => dedup[k] # None \/ Holder(k)'
             /\ \A q \in Requests : Repeat(q)' => Repeat(q) \/ Rival(q)
  <2>1. /\ Repeat(r) /\ dedup' = dedup
        /\ \A q \in Requests : q # r => pc'[q] = pc[q] /\ reply'[q] = reply[q]
    BY <1>6 DEF ReadOriginal, ReleaseDuplicate
  <2>2. QED
    BY <1>4, <2>1
<1>7. ASSUME NEW r \in Requests, ClaimFailsOpen(r) \/ SetIncidentValue(r)
      PROVE  /\ \A k \in Keys : dedup'[k] # None => dedup[k] # None \/ Holder(k)'
             /\ \A q \in Requests : Repeat(q)' => Repeat(q) \/ Rival(q)
  <2>1. /\ \A q \in Requests : q # r => pc'[q] = pc[q] /\ reply'[q] = reply[q]
        /\ pc'[r] \in {"embed_and_store", "replied"}
        /\ reply'[r] \in {reply[r], "queued"}
        /\ \A k \in Keys : k # KeyOf[r] => dedup'[k] = dedup[k]
    BY <1>7 DEF ClaimFailsOpen, SetIncidentValue
  <2>2. Past(r)' /\ (Repeat(r)' => Repeat(r))
    BY <2>1 DEF Past
  <2>3. QED
    BY <1>4, <2>1, <2>2
<1>8. ASSUME NEW r \in Requests,
             \/ AcquireSlot(r) \/ RollBack(r) \/ AcquireFailsOpen(r) \/ EmbedAndStore(r)
             \/ Delay(r) \/ ReleaseFailed(r) \/ ApiDies(r)
      PROVE  /\ \A k \in Keys : dedup'[k] # None => dedup[k] # None \/ Holder(k)'
             /\ \A q \in Requests : Repeat(q)' => Repeat(q) \/ Rival(q)
  <2>1. /\ dedup' = dedup
        /\ \A q \in Requests : q # r => pc'[q] = pc[q] /\ reply'[q] = reply[q]
        /\ pc'[r] \notin {"read_original", "release_duplicate"}
        /\ reply'[r] \in {reply[r], "shed", "error"}
    BY <1>8 DEF AcquireSlot, RollBack, AcquireFailsOpen, EmbedAndStore, Delay, ReleaseFailed, ApiDies
  <2>2. QED
    BY <1>4, <2>1
<1>9. ASSUME UNCHANGED <<pc, reply>>, \A k \in Keys : dedup'[k] # None => dedup[k] # None
      PROVE  /\ \A k \in Keys : dedup'[k] # None => dedup[k] # None \/ Holder(k)'
             /\ \A q \in Requests : Repeat(q)' => Repeat(q) \/ Rival(q)
  BY <1>9
<1>10. ASSUME NEW r \in Requests, Task(r) \/ WorkerDies(r)
       PROVE  /\ UNCHANGED <<pc, reply>>
              /\ \A k \in Keys : dedup'[k] # None => dedup[k] # None
  BY <1>10 DEF Task, StartTask, EndRun, AckTask, WorkerDies
<1>11. ASSUME NEW k \in Keys, Expire(k)
       PROVE  /\ UNCHANGED <<pc, reply>>
              /\ \A l \in Keys : dedup'[l] # None => dedup[l] # None
  BY <1>11 DEF Expire
<1>12. CASE UNCHANGED vars
  BY <1>9, <1>12 DEF vars
<1>13. QED
  BY <1>5, <1>6, <1>7, <1>8, <1>9, <1>10, <1>11, <1>12 DEF Next, Handler

\* claim_incident takes no request for a duplicate that has none: another one
\* has its key, whatever fails and whatever expires.
DuplicatesShareAKey == \A r \in Requests : reply[r] = "deduplicated" => SameKey[r] # {}

THEOREM DuplicatesAreRepeats == Spec => []DuplicatesShareAKey
<1>1. Init => Rivals
  BY DEF Init, Rivals
<1>2. IInv /\ Rivals /\ [Next]_vars => Rivals'
  BY NextRivals DEF IInv
<1>3. Rivals => DuplicatesShareAKey
  BY DEF Rivals, DuplicatesShareAKey, SameKey
<1>4. QED
  BY <1>1, <1>2, <1>3, Invariance, PTL DEF Spec

\* The keys of the requests at hand tell their crashes apart: no colon of a
\* service and no address that runs into its neighbour makes two of them one.
KeysFitReports ==
    \A q, r \in Requests : KeyOf[q] = KeyOf[r] <=> SameCrash(ReportOf[q], ReportOf[r])

\* As long as Redis works and the window lasts, a crash has one pipeline, in
\* however many ways it is reported, and only its reports are deduplicated,
\* provided the keys tell the crashes that are reported apart.
THEOREM OnePipelinePerCrash ==
    ASSUME Faults \subseteq {"backend"}, KeysFitReports
    PROVE  Spec => []DedupIsByCrash
<1>1. Init => OneClaim
  BY DEF Init, OneClaim, Claims
<1>2. IInv /\ OneClaim /\ [Next]_vars => OneClaim'
  BY NextOneClaim DEF IInv
<1>3. ASSUME NEW r \in Requests PROVE SameKey[r] = Repeats[r]
  BY <1>3 DEF SameKey, Repeats, KeysFitReports
<1>4. OneClaim /\ DuplicatesShareAKey => DedupIsByCrash
  <2> SUFFICES ASSUME OneClaim, DuplicatesShareAKey PROVE DedupIsByCrash
    OBVIOUS
  <2>1. ASSUME NEW r \in Requests, task[r] # "none", NEW q \in Repeats[r]
        PROVE  task[q] = "none"
    <3>1. q \in Requests /\ q # r /\ KeyOf[q] = KeyOf[r]
      BY <1>3, <2>1 DEF SameKey
    <3>2. QED
      BY <2>1, <3>1 DEF OneClaim, Claims
  <2>2. QED
    BY <1>3, <2>1 DEF DuplicatesShareAKey, DedupIsByCrash
<1>5. QED
  BY <1>1, <1>2, <1>4, Invariance, DuplicatesAreRepeats, PTL DEF Spec

-----------------------------------------------------------------------------
(***************************************************************************)
(* CrashReports implements Intake.                                         *)
(***************************************************************************)
\* A request is answered by its last step; it is refused only when as many
\* others as there are slots were made.
Replies ==
    /\ \A r \in Requests : pc[r] # "replied" => reply[r] = "none"
    /\ \A r \in Requests : pc[r] = "roll_back" => MaxActive < Started

LEMMA NextReplies ==
    ASSUME MaxFaults = 0, IInv, Replies, [Next]_vars
    PROVE  Replies'
<1>1. ASSUME NEW kind, Fault(kind) PROVE FALSE
  BY <1>1 DEF Fault, IInv, Types
<1>2. ASSUME NEW r \in Requests, Handler(r)
      PROVE  /\ \A q \in Requests : q # r => pc'[q] = pc[q] /\ reply'[q] = reply[q]
             /\ pc'[r] # "acquire_slot" /\ pc[r] # "replied"
             /\ pc'[r] = "replied" \/ reply'[r] = reply[r]
             /\ pc'[r] = "roll_back" => MaxActive < active'
  <2> USE DEF IInv, Types, Goto, Answer
  <2>1. CASE AcquireSlot(r) \/ RollBack(r) \/ ClaimIncident(r) \/ ReadOriginal(r)
    BY <2>1 DEF AcquireSlot, RollBack, ClaimIncident, ReadOriginal
  <2>2. CASE ReleaseDuplicate(r) \/ EmbedAndStore(r) \/ Delay(r) \/ ReleaseFailed(r)
               \/ SetIncidentValue(r)
    BY <2>2 DEF ReleaseDuplicate, EmbedAndStore, Delay, ReleaseFailed, SetIncidentValue
  <2>3. QED
    BY <1>1, <1>2, <2>1, <2>2 DEF Handler, AcquireFailsOpen, ClaimFailsOpen
<1>3. ASSUME ~(\E r \in Requests : Handler(r)) PROVE UNCHANGED <<pc, reply>>
  BY <1>1, <1>3 DEF Next, vars, Task, StartTask, EndRun, AckTask, Expire, ApiDies, WorkerDies
<1>4. MaxActive \in Int /\ Started \in Int /\ Started' \in Int /\ Started <= Started'
  <2> DEFINE C == {q \in Requests : pc[q] \in StartedLabels}
             D == {q \in Requests : pc'[q] \in StartedLabels}
  <2>1. \A q \in Requests : pc'[q] \in PcLabels
    BY NextTypes DEF IInv, Types
  <2>2. C \in SUBSET D /\ D \in SUBSET Requests
    BY <1>2, <1>3, <2>1 DEF StartedLabels
  <2>3. IsFiniteSet(D)
    BY <2>2, FS_Subset, AdmissionAssumption
  <2>4. Cardinality(C) <= Cardinality(D)
    BY <2>2, <2>3, FS_Subset
  <2>5. Cardinality(C) \in Nat /\ Cardinality(D) \in Nat
    BY <2>2, <2>3, FS_Subset, FS_CardinalityType
  <2>6. Started = Cardinality(C) /\ Started' = Cardinality(D)
    BY DEF Started, Count
  <2>7. QED
    BY <2>4, <2>5, <2>6, AdmissionAssumption
<1>5. active' <= Started' /\ active' \in Int
  BY NextCounter, NextTypes DEF IInv, Counter, Types
<1>6. CASE \E r \in Requests : Handler(r)
  <2>1. PICK r \in Requests : Handler(r)
    BY <1>6
  <2>2. \A q \in Requests : pc'[q] # "replied" => reply'[q] = "none"
    BY <1>2, <2>1 DEF Replies
  <2>3. \A q \in Requests : pc'[q] = "roll_back" => MaxActive < Started'
    BY <1>2, <1>4, <1>5, <2>1 DEF Replies
  <2>4. QED
    BY <2>2, <2>3 DEF Replies
<1>7. CASE ~(\E r \in Requests : Handler(r))
  BY <1>3, <1>4, <1>7 DEF Replies
<1>8. QED
  BY <1>6, <1>7

\* What a state has to satisfy for its steps to be Intake's.
Ready == IInv /\ OneClaim /\ Rivals /\ Replies

\* The instance's copy of the operator of FiniteSets.
LEMMA SameCardinality ==
    ASSUME NEW S
    PROVE  Promise!Cardinality(S) = Cardinality(S)
BY DEF Promise!Cardinality, Cardinality

LEMMA AskedAfter ==
    ASSUME Types, NEW r \in Requests, NEW l, l # "acquire_slot", Goto(r, l)
    PROVE  Asked' = Asked \cup {r}
BY DEF Types, Goto, Asked

LEMMA AnswersStay ==
    ASSUME \A r \in Requests : /\ reply'[r] = reply[r]
                               /\ reply[r] = "deduplicated" => ids'[r] = ids[r]
    PROVE  Answers' = Answers
BY DEF Answers

LEMMA PipelinesStay == UNCHANGED task => UNCHANGED <<Accepted, Live>>
BY DEF Accepted, Live

\* A request goes on and changes nothing that can be told.
LEMMA GoesOn ==
    ASSUME Types, NEW r \in Requests, pc[r] # "acquire_slot", NEW l, l # "acquire_slot",
           Goto(r, l), UNCHANGED task, Answers' = Answers
    PROVE  UNCHANGED Promise!vars
<1>1. Asked' = Asked
  BY AskedAfter DEF Asked
<1>2. QED
  BY <1>1, PipelinesStay DEF Promise!vars

\* A request is answered.
LEMMA IsAnswered ==
    ASSUME Ready, NEW r \in Requests, pc[r] \in InRequest \ {"acquire_slot"}, NEW status,
           Answer(r, status), UNCHANGED <<ids, task>>
    PROVE  Promise!Reply(r, Promise!Answered(status, IF status = "deduplicated" THEN ids[r] ELSE None))
<1> DEFINE a == Promise!Answered(status, IF status = "deduplicated" THEN ids[r] ELSE None)
<1>1. Types /\ reply[r] = "none"
  BY DEF Ready, IInv, Replies, InRequest
<1>2. r \in Asked /\ Asked' = Asked
  BY <1>1, AskedAfter DEF Answer, Asked
<1>3. Answers[r] = Promise!Waiting
  BY <1>1 DEF Answers, Promise!Waiting, Promise!Answered
<1>4. Answers' = [Answers EXCEPT ![r] = a]
  <2>1. reply' = [reply EXCEPT ![r] = status] /\ reply \in [Requests -> {"none", "queued", "deduplicated", "shed", "error"}]
    BY <1>1 DEF Answer, Types
  <2>2. \A q \in Requests : reply'[q] = IF q = r THEN status ELSE reply[q]
    BY <2>1
  <2>3. QED
    BY <2>2 DEF Answers, Promise!Answered
<1>5. QED
  BY <1>2, <1>3, <1>4, PipelinesStay DEF Promise!Reply

\* The pipelines of a key, and the requests that were made with it.
LEMMA SameKeyFacts ==
    ASSUME Ready, NEW r \in Requests
    PROVE  /\ SameKey[r] = {q \in Requests \ {r} : KeyOf[q] = KeyOf[r]}
           /\ pc[r] \in {"read_original", "release_duplicate"} => SameKey[r] \cap Asked # {}
           /\ Claims(r) /\ r \notin Accepted => SameKey[r] \cap Accepted = {}
<1>1. SameKey[r] = {q \in Requests \ {r} : KeyOf[q] = KeyOf[r]}
  BY DEF SameKey
<1>2. ASSUME pc[r] \in {"read_original", "release_duplicate"} PROVE SameKey[r] \cap Asked # {}
  BY <1>1, <1>2 DEF Ready, Rivals, Past, Asked
<1>3. ASSUME Claims(r), r \notin Accepted PROVE SameKey[r] \cap Accepted = {}
  BY <1>1, <1>3 DEF Ready, OneClaim, Claims, Accepted
<1>4. QED
  BY <1>1, <1>2, <1>3

LEMMA AcceptStep ==
    ASSUME MaxFaults = 0, Ready, NEW r \in Requests, pc[r] = "delay",
           task' = [task EXCEPT ![r] = "queued"], Goto(r, "set_incident_value"),
           UNCHANGED <<reply, ids>>
    PROVE  Promise!Accept(r)
<1>1. Types /\ task[r] = "none" /\ reply[r] = "none"
  BY DEF Ready, IInv, Types, Order, Replies
<1>2. r \in Asked \ Accepted /\ Asked' = Asked
  BY <1>1, AskedAfter DEF Asked, Accepted
<1>3. Answers[r] = Promise!Waiting /\ Answers' = Answers
  BY <1>1, AnswersStay DEF Answers, Promise!Waiting, Promise!Answered
<1>4. SameKey[r] \cap Accepted = {}
  BY <1>2, SameKeyFacts DEF Claims
<1>5. Accepted' = Accepted \cup {r} /\ Live' = Live \cup {r}
  BY <1>1 DEF Types, Accepted, Live
<1>6. Cardinality(Live) < MaxActive
  <2>1. Living = Cardinality(Live)
    BY DEF Living, Count, Live, LiveStates
  <2>2. Admitted # 0
    <3> DEFINE C == {q \in Requests : pc[q] \in AdmittedLabels}
    <3>1. C \in SUBSET Requests /\ r \in C
      BY DEF AdmittedLabels, HeldLabels, InRequest
    <3>2. IsFiniteSet(C)
      BY <3>1, FS_Subset, AdmissionAssumption
    <3>3. Cardinality(C) # 0
      BY <3>1, <3>2, FS_EmptySet
    <3>4. QED
      BY <3>3 DEF Admitted, Count
  <2>3. Admitted + Living <= MaxActive + faults /\ faults = 0
    BY AdmissionAssumption DEF Ready, IInv, Counter, Types
  <2>4. Admitted \in Nat /\ Living \in Nat /\ MaxActive \in Nat
    BY CountsAreNatural, AdmissionAssumption
  <2>5. QED
    BY <2>1, <2>2, <2>3, <2>4
<1>7. QED
  BY <1>2, <1>3, <1>4, <1>5, <1>6, SameCardinality DEF Promise!Accept

LEMMA ShedStep ==
    ASSUME Ready, NEW r \in Requests, pc[r] = "roll_back", Answer(r, "shed"),
           UNCHANGED <<ids, task>>
    PROVE  Promise!Shed(r)
<1>1. Promise!Reply(r, Promise!Answered("shed", None))
  BY IsAnswered DEF InRequest
<1>2. r \notin Accepted
  BY DEF Ready, IInv, Order, Accepted
<1>3. Cardinality(Asked \ {r}) >= MaxActive
  <2>1. Started = Cardinality(Asked) /\ MaxActive < Started
    <3>1. {q \in Requests : pc[q] \in StartedLabels} = Asked
      BY DEF Ready, IInv, Types, StartedLabels, Asked
    <3>2. QED
      BY <3>1 DEF Started, Count, Ready, Replies
  <2>2. Asked \in SUBSET Requests /\ r \in Asked
    BY DEF Asked
  <2>3. IsFiniteSet(Asked) /\ Cardinality(Asked) \in Nat
    BY <2>2, FS_Subset, FS_CardinalityType, AdmissionAssumption
  <2>4. Cardinality(Asked \ {r}) = Cardinality(Asked) - 1
    BY <2>2, <2>3, FS_RemoveElement
  <2>5. QED
    BY <2>1, <2>3, <2>4, AdmissionAssumption
<1>4. QED
  BY <1>1, <1>2, <1>3, SameCardinality DEF Promise!Shed

LEMMA DeduplicateStep ==
    ASSUME Ready, NEW r \in Requests, pc[r] = "release_duplicate", Answer(r, "deduplicated"),
           UNCHANGED <<ids, task>>
    PROVE  /\ ids[r] \in Requests \cup {None}
           /\ Promise!Deduplicate(r, ids[r])
<1>1. Promise!Reply(r, Promise!Answered("deduplicated", ids[r]))
  BY IsAnswered DEF InRequest
<1>2. task[r] = "none" /\ ids[r] \in Requests \cup {None}
  BY DEF Ready, IInv, Types, Order
<1>3. SameKey[r] \cap Asked # {} /\ SameKey[r] = {q \in Requests \ {r} : KeyOf[q] = KeyOf[r]}
  BY SameKeyFacts
<1>4. ids[r] \in (SameKey[r] \cap Accepted) \cup {None}
  BY <1>2, <1>3 DEF Ready, IInv, Names, DuplicateNamesAPipeline, Accepted
<1>5. QED
  BY <1>1, <1>2, <1>3, <1>4 DEF Promise!Deduplicate, Accepted

LEMMA NextImplements ==
    ASSUME MaxFaults = 0, Faults \subseteq {"backend"}, Ready, [Next]_vars
    PROVE  [Promise!Next]_(Promise!vars)
<1>1. Types
  BY DEF Ready, IInv
<1>2. ASSUME NEW kind, Fault(kind) PROVE FALSE
  BY <1>1, <1>2 DEF Fault, Types
<1>3. ASSUME NEW r \in Requests, AcquireSlot(r) PROVE Promise!Next
  <2>1. r \notin Asked /\ Asked' = Asked \cup {r}
    BY <1>1, <1>3, AskedAfter DEF AcquireSlot, Asked
  <2>2. Answers' = Answers /\ UNCHANGED <<Accepted, Live>>
    BY <1>3, AnswersStay, PipelinesStay DEF AcquireSlot
  <2>3. Promise!Ask(r)
    BY <2>1, <2>2 DEF Promise!Ask
  <2>4. QED
    BY <2>3 DEF Promise!Next
<1>4. ASSUME NEW r \in Requests, RollBack(r) PROVE Promise!Next
  BY <1>4, ShedStep DEF RollBack, Promise!Next
<1>5. ASSUME NEW r \in Requests, ReleaseDuplicate(r) PROVE Promise!Next
  BY <1>5, DeduplicateStep DEF ReleaseDuplicate, Promise!Next
<1>6. ASSUME NEW r \in Requests, ReleaseFailed(r) PROVE Promise!Next
  <2>1. r \notin Accepted
    BY <1>6 DEF ReleaseFailed, Ready, IInv, Order, Accepted
  <2>2. Promise!Reply(r, Promise!Answered("error", None))
    BY <1>6, IsAnswered DEF ReleaseFailed, InRequest
  <2>3. QED
    BY <2>1, <2>2 DEF Promise!Fail, Promise!Next
<1>7. ASSUME NEW r \in Requests, SetIncidentValue(r) PROVE Promise!Next
  <2>1. r \in Accepted
    BY <1>7 DEF SetIncidentValue, Ready, IInv, Order, Accepted
  <2>2. Promise!Reply(r, Promise!Answered("queued", None))
    BY <1>7, IsAnswered DEF SetIncidentValue, InRequest
  <2>3. QED
    BY <2>1, <2>2 DEF Promise!Queue, Promise!Next
<1>8. ASSUME NEW r \in Requests, Delay(r) PROVE Promise!Next \/ UNCHANGED Promise!vars
  <2>1. CASE Goto(r, "set_incident_value") /\ task' = [task EXCEPT ![r] = "queued"]
    BY <1>8, <2>1, AcceptStep DEF Delay, Promise!Next
  <2>2. CASE Goto(r, "release_failed") /\ UNCHANGED task
    <3>1. Answers' = Answers
      BY <1>8, AnswersStay DEF Delay
    <3>2. QED
      BY <1>1, <1>8, <2>2, <3>1, GoesOn DEF Delay
  <2>3. QED
    BY <1>2, <1>8, <2>1, <2>2 DEF Delay
<1>9. ASSUME NEW r \in Requests, ClaimIncident(r) \/ EmbedAndStore(r)
      PROVE  UNCHANGED Promise!vars
  <2>1. /\ pc[r] # "acquire_slot" /\ UNCHANGED <<task, reply, ids>>
        /\ \E l \in InRequest \ {"acquire_slot"} : Goto(r, l)
    BY <1>9 DEF ClaimIncident, EmbedAndStore, InRequest
  <2>2. QED
    BY <1>1, <2>1, GoesOn, AnswersStay
<1>10. ASSUME NEW r \in Requests, ReadOriginal(r) PROVE UNCHANGED Promise!vars
  <2>1. reply[r] = "none" /\ UNCHANGED <<task, reply>> /\ \A q \in Requests : q # r => ids'[q] = ids[q]
    BY <1>1, <1>10 DEF ReadOriginal, Ready, Replies, Types
  <2>2. Answers' = Answers
    BY <2>1, AnswersStay
  <2>3. QED
    BY <1>1, <1>10, <2>2, GoesOn DEF ReadOriginal
<1>11. ASSUME NEW r \in Requests, Task(r) PROVE Promise!Next \/ UNCHANGED Promise!vars
  <2>1. UNCHANGED <<pc, reply, ids>> /\ task[r] # "none"
    BY <1>11 DEF Task, StartTask, EndRun, AckTask
  <2>2. Asked' = Asked /\ Answers' = Answers
    BY <2>1, AnswersStay DEF Asked
  <2>3. Accepted' = Accepted
    BY <1>1, <1>11, <2>1 DEF Task, StartTask, EndRun, AckTask, Types, Accepted
  <2>4. ASSUME EndRun(r) PROVE r \in Live /\ Live' = Live \ {r}
    BY <1>1, <2>4 DEF EndRun, Types, Live
  <2>5. ASSUME StartTask(r) \/ AckTask(r) PROVE Live' = Live
    BY <1>1, <2>5 DEF StartTask, AckTask, Types, Live
  <2>6. CASE EndRun(r)
    BY <2>2, <2>3, <2>4, <2>6 DEF Promise!Finish, Promise!Next
  <2>7. CASE StartTask(r) \/ AckTask(r)
    BY <2>2, <2>3, <2>5, <2>7 DEF Promise!vars
  <2>8. QED
    BY <1>11, <2>6, <2>7 DEF Task
<1>12. ASSUME NEW r \in Requests,
              AcquireFailsOpen(r) \/ ClaimFailsOpen(r) \/ ApiDies(r) \/ WorkerDies(r)
       PROVE  FALSE
  BY <1>2, <1>12 DEF AcquireFailsOpen, ClaimFailsOpen, ApiDies, WorkerDies
<1>13. ASSUME NEW k \in Keys, Expire(k) PROVE FALSE
  BY <1>13 DEF Expire
<1>14. CASE UNCHANGED vars
  <2>1. UNCHANGED <<pc, task, reply, ids>>
    BY <1>14 DEF vars
  <2>2. Asked' = Asked /\ Answers' = Answers /\ UNCHANGED <<Accepted, Live>>
    BY <2>1, AnswersStay, PipelinesStay DEF Asked
  <2>3. QED
    BY <2>2 DEF Promise!vars
<1>15. QED
  BY <1>3, <1>4, <1>5, <1>6, <1>7, <1>8, <1>9, <1>10, <1>11, <1>12, <1>13, <1>14
     DEF Next, Handler

LEMMA InitImplements == Init => Promise!Init
BY DEF Init, Promise!Init, Asked, Accepted, Live, Answers, Promise!Waiting, Promise!Answered

\* While Redis, the broker and the processes work and no window ends, every
\* behaviour of the requests, the workers and the guardrails in Redis is one of
\* Intake, for any number of requests, any keys and any cap: one pipeline, and
\* answers that fit it, for the requests that share a dedup key.
THEOREM AdmissionImplementsIntake ==
    ASSUME MaxFaults = 0, Faults \subseteq {"backend"}
    PROVE  Spec => ImplementsIntake
<1>1. Init => Promise!Init
  BY InitImplements
<1>2. Init => OneClaim /\ Rivals /\ Replies
  BY DEF Init, OneClaim, Claims, Rivals, Replies
<1>3. IInv /\ OneClaim /\ Rivals /\ Replies /\ [Next]_vars => (OneClaim /\ Rivals /\ Replies)'
  BY NextOneClaim, NextRivals, NextReplies DEF IInv
<1>4. IInv /\ OneClaim /\ Rivals /\ Replies /\ [Next]_vars => [Promise!Next]_(Promise!vars)
  BY NextImplements DEF Ready
<1>5. QED
  BY <1>1, <1>2, <1>3, <1>4, Invariance, PTL DEF Spec, ImplementsIntake, Promise!Spec
=============================================================================
