--------------------------- MODULE QaHarnessProofs ---------------------------
(***************************************************************************)
(* Proofs about QaHarness for every set of coverages, hence every target   *)
(* project. Three inductive invariants, one on top of the other: what the  *)
(* answers and results are (Typed), what an answer proves (Proven), and    *)
(* what exists when (Owned).                                               *)
(***************************************************************************)
EXTENDS QaHarness, TLAPS

Reports == [kind : {"report"}, passed : BOOLEAN, delta : Int]
Texts   == {ErrorText} \cup Reports

\* The answer fits the call that waits for it; at the verdict there is one.
Typed ==
    /\ TypeOK
    /\ at \notin Calls => answer = Nothing
    /\ at \in {"spin_up_stack", "apply_patch", "teardown_stack"}
           => answer \in {Nothing, Ok, ErrorText}
    /\ at = "run_pytest" => answer \in {Nothing} \cup Texts
    /\ at \in {"teardown_stack", "verdict"} => result \in Texts
    /\ at = "stored" => result \in Reports

\* A report of a run whose patch was applied and whose coverage was measured.
Good(r) == r \in Reports => /\ r.passed => world.fixed
                            /\ r.delta = world.post - world.pre

Measured == mishaps \cap {"apply", "measure"} = {}

Proven ==
    Measured =>
        /\ stack \in {NoStack, world.pre}
        /\ at = "apply_patch" /\ answer # Nothing => patched
        /\ at = "run_pytest" => patched /\ Good(answer)
        /\ at \in {"teardown_stack", "verdict", "stored"} =>
               (result \in Reports /\ result.passed => patched /\ Good(result))

\* Nothing is left of the stack but what could not be removed.
Gone ==
    /\ containers \/ network => "docker" \in mishaps
    /\ dir => "disk" \in mishaps

\* As long as the attempt was not cut off: the stack is made during
\* spin_up_stack alone, known to qa_node and registered from its answer to the
\* teardown's, and gone after it.
Owned ==
    ~CutOff =>
        /\ at # "dead"
        /\ job \in {"copy", "build", "up", "baseline"} => at = "spin_up_stack"
        /\ at = "spin_up_stack" => /\ answer # ErrorText
                                   /\ answer = Ok => stack # NoStack
        /\ at \in {"apply_patch", "run_pytest"} => stack_id /\ stack # NoStack
        /\ tear # "idle" => at = "teardown_stack"
        /\ at = "teardown_stack" /\ answer = Nothing
               => tear # "idle" /\ stack # NoStack
        /\ at = "teardown_stack" /\ answer # Nothing
               => tear = "idle" /\ Gone
        /\ tear = "remove" /\ (containers \/ network) => "docker" \in mishaps
        /\ at \in {"check_patch_scope", "verdict", "stored", "raised"} => Gone
        /\ at = "check_patch_scope" => ~stack_id

IInv == Typed /\ Proven /\ Owned

-----------------------------------------------------------------------------
\* The kinds of answers are told apart by their fields.
LEMMA AnswerKinds ==
    /\ Nothing # Ok /\ Nothing # ErrorText /\ Ok # ErrorText
    /\ Nothing \notin Texts /\ Nothing \notin Reports
    /\ Ok \notin Texts /\ Ok \notin Reports /\ ErrorText \notin Reports
    /\ Failed \in Reports /\ ~Failed.passed
    /\ \A r \in Reports : r.kind = "report" /\ r.passed \in BOOLEAN /\ r.delta \in Int
    /\ \A p \in BOOLEAN, d \in Int : /\ Report(p, d) \in Reports
                                    /\ Report(p, d).passed = p
                                    /\ Report(p, d).delta = d
BY DEF Nothing, Ok, ErrorText, Texts, Reports, Report, Failed

LEMMA MishapType ==
    ASSUME mishaps \subseteq Mishaps,
           UNCHANGED mishaps \/ \E kinds \in SUBSET Mishaps : mishaps' = mishaps \cup kinds
    PROVE  mishaps' \subseteq Mishaps
OBVIOUS

\* What a test run reports is a Boolean and a difference of coverages.
LEMMA Reported ==
    ASSUME TypeOK
    PROVE  /\ Passes \in BOOLEAN
           /\ world.post \in Int /\ world.pre \in Int /\ stack \in Int
           /\ 0 \in Int /\ world.post - stack \in Int /\ world.pre - stack \in Int
           /\ NoStack \notin Coverages \cup {0}
<1>1. Passes \in BOOLEAN
  BY DEF TypeOK, Worlds, Passes
<1>2. world.post \in Nat /\ world.pre \in Nat
  <2>1. world.post \in Coverages /\ world.pre \in Coverages
    BY DEF TypeOK, Worlds
  <2> QED BY <2>1, QaHarnessAssumption
<1>4. NoStack \notin Coverages \cup {0}
  BY QaHarnessAssumption DEF NoStack
<1>3. stack \in Int
  BY QaHarnessAssumption DEF TypeOK, NoStack
<1> QED BY <1>1, <1>2, <1>3, <1>4

-----------------------------------------------------------------------------
(***************************************************************************)
(* Every step keeps the invariant                                          *)
(***************************************************************************)
LEMMA CheckPatchScopeKeeps == ASSUME IInv, CheckPatchScope PROVE IInv'
<1> USE AnswerKinds DEF IInv, CheckPatchScope, docker
<1>1. TypeOK'
  <2>1. /\ world' \in Worlds
        /\ at' \in Calls \cup Ended \cup {"check_patch_scope", "verdict"}
        /\ stack_id' \in BOOLEAN
        /\ job' \in Jobs \cup {"idle"} /\ tear' \in {"lookup", "down", "remove", "idle"}
    BY DEF Typed, TypeOK, Calls, Ended, Jobs
  <2>2. /\ stack' \in Coverages \cup {0, NoStack}
        /\ containers' \in BOOLEAN /\ network' \in BOOLEAN
        /\ dir' \in BOOLEAN /\ patched' \in BOOLEAN
    BY DEF Typed, TypeOK, Worlds
  <2>3. mishaps' \subseteq Mishaps
    BY MishapType DEF Typed, TypeOK, Mishaps
  <2>4. at' = "stored" => result'.kind = "report"
    BY DEF Typed, TypeOK, Calls, Ended, Texts
  <2> QED BY <2>1, <2>2, <2>3, <2>4 DEF TypeOK
<1>2. Typed'
  BY <1>1 DEF Typed, Calls, Ended, Texts
<1>3. Proven'
  <2> SUFFICES ASSUME Measured' PROVE Proven'
    BY DEF Proven
  <2>1. Measured
    BY DEF Measured
  <2> QED BY <2>1 DEF Typed, TypeOK, Worlds, Proven, Good, Calls, Ended, Measured
<1>4. Owned'
  <2> SUFFICES ASSUME ~CutOff' PROVE Owned'
    BY DEF Owned
  <2>1. ~CutOff
    BY DEF CutOff
  <2> QED BY <2>1 DEF Typed, TypeOK, Owned, CutOff, Gone, Calls, Ended
<1> QED BY <1>2, <1>3, <1>4

LEMMA ReceiveStackKeeps == ASSUME IInv, ReceiveStack PROVE IInv'
<1> USE AnswerKinds DEF IInv, ReceiveStack, LeaveTry, docker
<1>1. TypeOK'
  <2>1. /\ world' \in Worlds
        /\ at' \in Calls \cup Ended \cup {"check_patch_scope", "verdict"}
        /\ stack_id' \in BOOLEAN
        /\ job' \in Jobs \cup {"idle"} /\ tear' \in {"lookup", "down", "remove", "idle"}
    BY DEF Typed, TypeOK, Calls, Ended, Jobs
  <2>2. /\ stack' \in Coverages \cup {0, NoStack}
        /\ containers' \in BOOLEAN /\ network' \in BOOLEAN
        /\ dir' \in BOOLEAN /\ patched' \in BOOLEAN
    BY DEF Typed, TypeOK, Worlds
  <2>3. mishaps' \subseteq Mishaps
    BY MishapType DEF Typed, TypeOK, Mishaps
  <2>4. at' = "stored" => result'.kind = "report"
    BY DEF Typed, TypeOK, Calls, Ended, Texts
  <2> QED BY <2>1, <2>2, <2>3, <2>4 DEF TypeOK
<1>2. Typed'
  BY <1>1 DEF Typed, Calls, Ended, Texts
<1>3. Proven'
  <2> SUFFICES ASSUME Measured' PROVE Proven'
    BY DEF Proven
  <2>1. Measured
    BY DEF Measured
  <2> QED BY <2>1 DEF Typed, TypeOK, Worlds, Proven, Good, Calls, Ended, Measured
<1>4. Owned'
  <2> SUFFICES ASSUME ~CutOff' PROVE Owned'
    BY DEF Owned
  <2>1. ~CutOff
    BY DEF CutOff
  <2> QED BY <2>1 DEF Typed, TypeOK, Owned, CutOff, Gone, Calls, Ended
<1> QED BY <1>2, <1>3, <1>4

LEMMA ReceiveAppliedKeeps == ASSUME IInv, ReceiveApplied PROVE IInv'
<1> USE AnswerKinds DEF IInv, ReceiveApplied, docker
<1>1. TypeOK'
  <2>1. /\ world' \in Worlds
        /\ at' \in Calls \cup Ended \cup {"check_patch_scope", "verdict"}
        /\ stack_id' \in BOOLEAN
        /\ job' \in Jobs \cup {"idle"} /\ tear' \in {"lookup", "down", "remove", "idle"}
    BY DEF Typed, TypeOK, Calls, Ended, Jobs
  <2>2. /\ stack' \in Coverages \cup {0, NoStack}
        /\ containers' \in BOOLEAN /\ network' \in BOOLEAN
        /\ dir' \in BOOLEAN /\ patched' \in BOOLEAN
    BY DEF Typed, TypeOK, Worlds
  <2>3. mishaps' \subseteq Mishaps
    BY MishapType DEF Typed, TypeOK, Mishaps
  <2>4. at' = "stored" => result'.kind = "report"
    BY DEF Typed, TypeOK, Calls, Ended, Texts
  <2> QED BY <2>1, <2>2, <2>3, <2>4 DEF TypeOK
<1>2. Typed'
  BY <1>1 DEF Typed, Calls, Ended, Texts
<1>3. Proven'
  <2> SUFFICES ASSUME Measured' PROVE Proven'
    BY DEF Proven
  <2>1. Measured
    BY DEF Measured
  <2> QED BY <2>1 DEF Typed, TypeOK, Worlds, Proven, Good, Calls, Ended, Measured
<1>4. Owned'
  <2> SUFFICES ASSUME ~CutOff' PROVE Owned'
    BY DEF Owned
  <2>1. ~CutOff
    BY DEF CutOff
  <2> QED BY <2>1 DEF Typed, TypeOK, Owned, CutOff, Gone, Calls, Ended
<1> QED BY <1>2, <1>3, <1>4

LEMMA ReceiveReportKeeps == ASSUME IInv, ReceiveReport PROVE IInv'
<1> USE AnswerKinds DEF IInv, ReceiveReport, LeaveTry, docker
<1>1. TypeOK'
  <2>1. /\ world' \in Worlds
        /\ at' \in Calls \cup Ended \cup {"check_patch_scope", "verdict"}
        /\ stack_id' \in BOOLEAN
        /\ job' \in Jobs \cup {"idle"} /\ tear' \in {"lookup", "down", "remove", "idle"}
    BY DEF Typed, TypeOK, Calls, Ended, Jobs
  <2>2. /\ stack' \in Coverages \cup {0, NoStack}
        /\ containers' \in BOOLEAN /\ network' \in BOOLEAN
        /\ dir' \in BOOLEAN /\ patched' \in BOOLEAN
    BY DEF Typed, TypeOK, Worlds
  <2>3. mishaps' \subseteq Mishaps
    BY MishapType DEF Typed, TypeOK, Mishaps
  <2>4. at' = "stored" => result'.kind = "report"
    BY DEF Typed, TypeOK, Calls, Ended, Texts
  <2> QED BY <2>1, <2>2, <2>3, <2>4 DEF TypeOK
<1>2. Typed'
  BY <1>1 DEF Typed, Calls, Ended, Texts
<1>3. Proven'
  <2> SUFFICES ASSUME Measured' PROVE Proven'
    BY DEF Proven
  <2>1. Measured
    BY DEF Measured
  <2> QED BY <2>1 DEF Typed, TypeOK, Worlds, Proven, Good, Calls, Ended, Measured
<1>4. Owned'
  <2> SUFFICES ASSUME ~CutOff' PROVE Owned'
    BY DEF Owned
  <2>1. ~CutOff
    BY DEF CutOff
  <2> QED BY <2>1 DEF Typed, TypeOK, Owned, CutOff, Gone, Calls, Ended
<1> QED BY <1>2, <1>3, <1>4

LEMMA ClientTimeoutKeeps == ASSUME IInv, ClientTimeout PROVE IInv'
<1> USE AnswerKinds DEF IInv, ClientTimeout, LeaveTry, Mishap, docker
<1>1. TypeOK'
  <2>1. /\ world' \in Worlds
        /\ at' \in Calls \cup Ended \cup {"check_patch_scope", "verdict"}
        /\ stack_id' \in BOOLEAN
        /\ job' \in Jobs \cup {"idle"} /\ tear' \in {"lookup", "down", "remove", "idle"}
    BY DEF Typed, TypeOK, Calls, Ended, Jobs
  <2>2. /\ stack' \in Coverages \cup {0, NoStack}
        /\ containers' \in BOOLEAN /\ network' \in BOOLEAN
        /\ dir' \in BOOLEAN /\ patched' \in BOOLEAN
    BY DEF Typed, TypeOK, Worlds
  <2>3. mishaps' \subseteq Mishaps
    BY MishapType DEF Typed, TypeOK, Mishaps
  <2>4. at' = "stored" => result'.kind = "report"
    BY DEF Typed, TypeOK, Calls, Ended, Texts
  <2> QED BY <2>1, <2>2, <2>3, <2>4 DEF TypeOK
<1>2. Typed'
  BY <1>1 DEF Typed, Calls, Ended, Texts
<1>3. Proven'
  <2> SUFFICES ASSUME Measured' PROVE Proven'
    BY DEF Proven
  <2>1. Measured
    BY DEF Measured
  <2> QED BY <2>1 DEF Typed, TypeOK, Worlds, Proven, Good, Calls, Ended, Measured
<1>4. Owned'
  <2> SUFFICES ASSUME ~CutOff' PROVE Owned'
    BY DEF Owned
  <2>1. ~CutOff
    BY DEF CutOff
  <2> QED BY <2>1 DEF Typed, TypeOK, Owned, CutOff, Gone, Calls, Ended
<1> QED BY <1>2, <1>3, <1>4

LEMMA ReceiveTornDownKeeps == ASSUME IInv, ReceiveTornDown PROVE IInv'
<1> USE AnswerKinds DEF IInv, ReceiveTornDown, docker
<1>1. TypeOK'
  <2>1. /\ world' \in Worlds
        /\ at' \in Calls \cup Ended \cup {"check_patch_scope", "verdict"}
        /\ stack_id' \in BOOLEAN
        /\ job' \in Jobs \cup {"idle"} /\ tear' \in {"lookup", "down", "remove", "idle"}
    BY DEF Typed, TypeOK, Calls, Ended, Jobs
  <2>2. /\ stack' \in Coverages \cup {0, NoStack}
        /\ containers' \in BOOLEAN /\ network' \in BOOLEAN
        /\ dir' \in BOOLEAN /\ patched' \in BOOLEAN
    BY DEF Typed, TypeOK, Worlds
  <2>3. mishaps' \subseteq Mishaps
    BY MishapType DEF Typed, TypeOK, Mishaps
  <2>4. at' = "stored" => result'.kind = "report"
    BY DEF Typed, TypeOK, Calls, Ended, Texts
  <2> QED BY <2>1, <2>2, <2>3, <2>4 DEF TypeOK
<1>2. Typed'
  BY <1>1 DEF Typed, Calls, Ended, Texts
<1>3. Proven'
  <2> SUFFICES ASSUME Measured' PROVE Proven'
    BY DEF Proven
  <2>1. Measured
    BY DEF Measured
  <2> QED BY <2>1 DEF Typed, TypeOK, Worlds, Proven, Good, Calls, Ended, Measured
<1>4. Owned'
  <2> SUFFICES ASSUME ~CutOff' PROVE Owned'
    BY DEF Owned
  <2>1. ~CutOff
    BY DEF CutOff
  <2> QED BY <2>1 DEF Typed, TypeOK, Owned, CutOff, Gone, Calls, Ended
<1> QED BY <1>2, <1>3, <1>4

LEMMA TeardownTimeoutKeeps == ASSUME IInv, TeardownTimeout PROVE IInv'
<1> USE AnswerKinds DEF IInv, TeardownTimeout, Mishap, docker
<1>1. TypeOK'
  <2>1. /\ world' \in Worlds
        /\ at' \in Calls \cup Ended \cup {"check_patch_scope", "verdict"}
        /\ stack_id' \in BOOLEAN
        /\ job' \in Jobs \cup {"idle"} /\ tear' \in {"lookup", "down", "remove", "idle"}
    BY DEF Typed, TypeOK, Calls, Ended, Jobs
  <2>2. /\ stack' \in Coverages \cup {0, NoStack}
        /\ containers' \in BOOLEAN /\ network' \in BOOLEAN
        /\ dir' \in BOOLEAN /\ patched' \in BOOLEAN
    BY DEF Typed, TypeOK, Worlds
  <2>3. mishaps' \subseteq Mishaps
    BY MishapType DEF Typed, TypeOK, Mishaps
  <2>4. at' = "stored" => result'.kind = "report"
    BY DEF Typed, TypeOK, Calls, Ended, Texts
  <2> QED BY <2>1, <2>2, <2>3, <2>4 DEF TypeOK
<1>2. Typed'
  BY <1>1 DEF Typed, Calls, Ended, Texts
<1>3. Proven'
  <2> SUFFICES ASSUME Measured' PROVE Proven'
    BY DEF Proven
  <2>1. Measured
    BY DEF Measured
  <2> QED BY <2>1 DEF Typed, TypeOK, Worlds, Proven, Good, Calls, Ended, Measured
<1>4. Owned'
  <2> SUFFICES ASSUME ~CutOff' PROVE Owned'
    BY DEF Owned
  <2>1. ~CutOff
    BY DEF CutOff
  <2> QED BY <2>1 DEF Typed, TypeOK, Owned, CutOff, Gone, Calls, Ended
<1> QED BY <1>2, <1>3, <1>4

LEMMA ReturnVerdictKeeps == ASSUME IInv, ReturnVerdict PROVE IInv'
<1> USE AnswerKinds DEF IInv, ReturnVerdict, server, docker
<1>1. TypeOK'
  <2>1. /\ world' \in Worlds
        /\ at' \in Calls \cup Ended \cup {"check_patch_scope", "verdict"}
        /\ stack_id' \in BOOLEAN
        /\ job' \in Jobs \cup {"idle"} /\ tear' \in {"lookup", "down", "remove", "idle"}
    BY DEF Typed, TypeOK, Calls, Ended, Jobs
  <2>2. /\ stack' \in Coverages \cup {0, NoStack}
        /\ containers' \in BOOLEAN /\ network' \in BOOLEAN
        /\ dir' \in BOOLEAN /\ patched' \in BOOLEAN
    BY DEF Typed, TypeOK, Worlds
  <2>3. mishaps' \subseteq Mishaps
    BY MishapType DEF Typed, TypeOK, Mishaps
  <2>4. at' = "stored" => result'.kind = "report"
    BY DEF Typed, TypeOK, Calls, Ended, Texts
  <2> QED BY <2>1, <2>2, <2>3, <2>4 DEF TypeOK
<1>2. Typed'
  BY <1>1 DEF Typed, Calls, Ended, Texts
<1>3. Proven'
  <2> SUFFICES ASSUME Measured' PROVE Proven'
    BY DEF Proven
  <2>1. Measured
    BY DEF Measured
  <2> QED BY <2>1 DEF Typed, TypeOK, Worlds, Proven, Good, Calls, Ended, Measured
<1>4. Owned'
  <2> SUFFICES ASSUME ~CutOff' PROVE Owned'
    BY DEF Owned
  <2>1. ~CutOff
    BY DEF CutOff
  <2> QED BY <2>1 DEF Typed, TypeOK, Owned, CutOff, Gone, Calls, Ended
<1> QED BY <1>2, <1>3, <1>4

LEMMA CopyTargetKeeps == ASSUME IInv, CopyTarget PROVE IInv'
<1> USE AnswerKinds DEF IInv, CopyTarget, client, Reply, Waits, Mishap
<1>1. TypeOK'
  <2>1. /\ world' \in Worlds
        /\ at' \in Calls \cup Ended \cup {"check_patch_scope", "verdict"}
        /\ stack_id' \in BOOLEAN
        /\ job' \in Jobs \cup {"idle"} /\ tear' \in {"lookup", "down", "remove", "idle"}
    BY DEF Typed, TypeOK, Calls, Ended, Jobs
  <2>2. /\ stack' \in Coverages \cup {0, NoStack}
        /\ containers' \in BOOLEAN /\ network' \in BOOLEAN
        /\ dir' \in BOOLEAN /\ patched' \in BOOLEAN
    BY DEF Typed, TypeOK, Worlds
  <2>3. mishaps' \subseteq Mishaps
    BY MishapType DEF Typed, TypeOK, Mishaps
  <2>4. at' = "stored" => result'.kind = "report"
    BY DEF Typed, TypeOK, Calls, Ended, Texts
  <2> QED BY <2>1, <2>2, <2>3, <2>4 DEF TypeOK
<1>2. Typed'
  BY <1>1 DEF Typed, Calls, Ended, Texts
<1>3. Proven'
  <2> SUFFICES ASSUME Measured' PROVE Proven'
    BY DEF Proven
  <2>1. Measured
    BY DEF Measured
  <2> QED BY <2>1 DEF Typed, TypeOK, Worlds, Proven, Good, Calls, Ended, Measured
<1>4. Owned'
  <2> SUFFICES ASSUME ~CutOff' PROVE Owned'
    BY DEF Owned
  <2>1. ~CutOff
    BY DEF CutOff
  <2> QED BY <2>1 DEF Typed, TypeOK, Owned, CutOff, Gone, Calls, Ended
<1> QED BY <1>2, <1>3, <1>4

LEMMA ComposeBuildKeeps == ASSUME IInv, ComposeBuild PROVE IInv'
<1> USE AnswerKinds DEF IInv, ComposeBuild, client, docker, Reply, Waits, Mishap
<1>1. TypeOK'
  <2>1. /\ world' \in Worlds
        /\ at' \in Calls \cup Ended \cup {"check_patch_scope", "verdict"}
        /\ stack_id' \in BOOLEAN
        /\ job' \in Jobs \cup {"idle"} /\ tear' \in {"lookup", "down", "remove", "idle"}
    BY DEF Typed, TypeOK, Calls, Ended, Jobs
  <2>2. /\ stack' \in Coverages \cup {0, NoStack}
        /\ containers' \in BOOLEAN /\ network' \in BOOLEAN
        /\ dir' \in BOOLEAN /\ patched' \in BOOLEAN
    BY DEF Typed, TypeOK, Worlds
  <2>3. mishaps' \subseteq Mishaps
    BY MishapType DEF Typed, TypeOK, Mishaps
  <2>4. at' = "stored" => result'.kind = "report"
    BY DEF Typed, TypeOK, Calls, Ended, Texts
  <2> QED BY <2>1, <2>2, <2>3, <2>4 DEF TypeOK
<1>2. Typed'
  BY <1>1 DEF Typed, Calls, Ended, Texts
<1>3. Proven'
  <2> SUFFICES ASSUME Measured' PROVE Proven'
    BY DEF Proven
  <2>1. Measured
    BY DEF Measured
  <2> QED BY <2>1 DEF Typed, TypeOK, Worlds, Proven, Good, Calls, Ended, Measured
<1>4. Owned'
  <2> SUFFICES ASSUME ~CutOff' PROVE Owned'
    BY DEF Owned
  <2>1. ~CutOff
    BY DEF CutOff
  <2> QED BY <2>1 DEF Typed, TypeOK, Owned, CutOff, Gone, Calls, Ended
<1> QED BY <1>2, <1>3, <1>4

LEMMA ComposeUpKeeps == ASSUME IInv, ComposeUp PROVE IInv'
<1> USE AnswerKinds DEF IInv, ComposeUp, client, Reply, Waits, Mishap
<1>1. TypeOK'
  <2>1. /\ world' \in Worlds
        /\ at' \in Calls \cup Ended \cup {"check_patch_scope", "verdict"}
        /\ stack_id' \in BOOLEAN
        /\ job' \in Jobs \cup {"idle"} /\ tear' \in {"lookup", "down", "remove", "idle"}
    BY DEF Typed, TypeOK, Calls, Ended, Jobs
  <2>2. /\ stack' \in Coverages \cup {0, NoStack}
        /\ containers' \in BOOLEAN /\ network' \in BOOLEAN
        /\ dir' \in BOOLEAN /\ patched' \in BOOLEAN
    BY DEF Typed, TypeOK, Worlds
  <2>3. mishaps' \subseteq Mishaps
    BY MishapType DEF Typed, TypeOK, Mishaps
  <2>4. at' = "stored" => result'.kind = "report"
    BY DEF Typed, TypeOK, Calls, Ended, Texts
  <2> QED BY <2>1, <2>2, <2>3, <2>4 DEF TypeOK
<1>2. Typed'
  BY <1>1 DEF Typed, Calls, Ended, Texts
<1>3. Proven'
  <2> SUFFICES ASSUME Measured' PROVE Proven'
    BY DEF Proven
  <2>1. Measured
    BY DEF Measured
  <2> QED BY <2>1 DEF Typed, TypeOK, Worlds, Proven, Good, Calls, Ended, Measured
<1>4. Owned'
  <2> SUFFICES ASSUME ~CutOff' PROVE Owned'
    BY DEF Owned
  <2>1. ~CutOff
    BY DEF CutOff
  <2> QED BY <2>1 DEF Typed, TypeOK, Owned, CutOff, Gone, Calls, Ended
<1> QED BY <1>2, <1>3, <1>4

LEMMA MeasureBaselineKeeps == ASSUME IInv, MeasureBaseline PROVE IInv'
<1>0. /\ Passes \in BOOLEAN
      /\ world.post \in Int /\ world.pre \in Int /\ stack \in Int
      /\ world.pre # NoStack /\ 0 # NoStack /\ world.pre \in Coverages
  BY Reported DEF IInv, Typed, TypeOK, Worlds
<1> USE AnswerKinds DEF IInv, MeasureBaseline, client, docker, Reply, Waits, Mishap
<1>1. TypeOK'
  <2>1. /\ world' \in Worlds
        /\ at' \in Calls \cup Ended \cup {"check_patch_scope", "verdict"}
        /\ stack_id' \in BOOLEAN
        /\ job' \in Jobs \cup {"idle"} /\ tear' \in {"lookup", "down", "remove", "idle"}
    BY DEF Typed, TypeOK, Calls, Ended, Jobs
  <2>2. /\ stack' \in Coverages \cup {0, NoStack}
        /\ containers' \in BOOLEAN /\ network' \in BOOLEAN
        /\ dir' \in BOOLEAN /\ patched' \in BOOLEAN
    BY DEF Typed, TypeOK, Worlds
  <2>3. mishaps' \subseteq Mishaps
    BY MishapType DEF Typed, TypeOK, Mishaps
  <2>4. at' = "stored" => result'.kind = "report"
    BY DEF Typed, TypeOK, Calls, Ended, Texts
  <2> QED BY <2>1, <2>2, <2>3, <2>4 DEF TypeOK
<1>2. Typed'
  BY <1>0, <1>1 DEF Typed, Calls, Ended, Texts
<1>3. Proven'
  <2> SUFFICES ASSUME Measured' PROVE Proven'
    BY DEF Proven
  <2>1. Measured
    BY DEF Measured
  <2>2. stack' \in {NoStack, world.pre}
    BY <2>1 DEF Proven, Measured
  <2>3. /\ UNCHANGED <<at, world, result, patched>>
        /\ at # "spin_up_stack" => answer' = answer
    OBVIOUS
  <2> QED BY <2>1, <2>2, <2>3 DEF Proven, Good
<1>4. Owned'
  <2> SUFFICES ASSUME ~CutOff' PROVE Owned'
    BY DEF Owned
  <2>1. ~CutOff
    BY DEF CutOff
  <2> QED BY <1>0, <2>1 DEF Typed, TypeOK, Owned, CutOff, Gone, Calls, Ended
<1> QED BY <1>2, <1>3, <1>4

LEMMA ApplyPatchKeeps == ASSUME IInv, ApplyPatch PROVE IInv'
<1> USE AnswerKinds DEF IInv, ApplyPatch, client, Reply, Waits, Mishap
<1>1. TypeOK'
  <2>1. /\ world' \in Worlds
        /\ at' \in Calls \cup Ended \cup {"check_patch_scope", "verdict"}
        /\ stack_id' \in BOOLEAN
        /\ job' \in Jobs \cup {"idle"} /\ tear' \in {"lookup", "down", "remove", "idle"}
    BY DEF Typed, TypeOK, Calls, Ended, Jobs
  <2>2. /\ stack' \in Coverages \cup {0, NoStack}
        /\ containers' \in BOOLEAN /\ network' \in BOOLEAN
        /\ dir' \in BOOLEAN /\ patched' \in BOOLEAN
    BY DEF Typed, TypeOK, Worlds
  <2>3. mishaps' \subseteq Mishaps
    BY MishapType DEF Typed, TypeOK, Mishaps
  <2>4. at' = "stored" => result'.kind = "report"
    BY DEF Typed, TypeOK, Calls, Ended, Texts
  <2> QED BY <2>1, <2>2, <2>3, <2>4 DEF TypeOK
<1>2. Typed'
  BY <1>1 DEF Typed, Calls, Ended, Texts
<1>3. Proven'
  <2> SUFFICES ASSUME Measured' PROVE Proven'
    BY DEF Proven
  <2>1. Measured
    BY DEF Measured
  <2> QED BY <2>1 DEF Typed, TypeOK, Worlds, Proven, Good, Calls, Ended, Measured
<1>4. Owned'
  <2> SUFFICES ASSUME ~CutOff' PROVE Owned'
    BY DEF Owned
  <2>1. ~CutOff
    BY DEF CutOff
  <2> QED BY <2>1 DEF Typed, TypeOK, Owned, CutOff, Gone, Calls, Ended
<1> QED BY <1>2, <1>3, <1>4

LEMMA RunPytestKeeps == ASSUME IInv, RunPytest PROVE IInv'
<1> USE AnswerKinds DEF IInv, RunPytest, client, docker, Reply, Waits
<1>1. TypeOK'
  <2>1. /\ world' \in Worlds
        /\ at' \in Calls \cup Ended \cup {"check_patch_scope", "verdict"}
        /\ stack_id' \in BOOLEAN
        /\ job' \in Jobs \cup {"idle"} /\ tear' \in {"lookup", "down", "remove", "idle"}
    BY DEF Typed, TypeOK, Calls, Ended, Jobs
  <2>2. /\ stack' \in Coverages \cup {0, NoStack}
        /\ containers' \in BOOLEAN /\ network' \in BOOLEAN
        /\ dir' \in BOOLEAN /\ patched' \in BOOLEAN
    BY DEF Typed, TypeOK, Worlds
  <2>3. mishaps' \subseteq Mishaps
    BY MishapType DEF Typed, TypeOK, Mishaps
  <2>4. at' = "stored" => result'.kind = "report"
    BY DEF Typed, TypeOK, Calls, Ended, Texts
  <2> QED BY <2>1, <2>2, <2>3, <2>4 DEF TypeOK
<1>2. Typed'
  BY <1>1 DEF Typed, Calls, Ended, Texts
<1>3. Proven'
  <2> SUFFICES ASSUME Measured' PROVE Proven'
    BY DEF Proven
  <2>1. Measured
    BY DEF Measured
  <2> QED BY <2>1 DEF Typed, TypeOK, Worlds, Proven, Good, Calls, Ended, Measured
<1>4. Owned'
  <2> SUFFICES ASSUME ~CutOff' PROVE Owned'
    BY DEF Owned
  <2>1. ~CutOff
    BY DEF CutOff
  <2> QED BY <2>1 DEF Typed, TypeOK, Owned, CutOff, Gone, Calls, Ended
<1> QED BY <1>2, <1>3, <1>4

\* The report that run_pytest is answered with: where the patch was applied
\* and the coverage measured, it is that of the patched code.
LEMMA ReportedAnswer ==
    ASSUME IInv, ReportCoverage
    PROVE  /\ at # "run_pytest" => answer' = answer
           /\ at = "run_pytest" => answer' \in Texts
           /\ (at = "run_pytest" /\ Measured') => Good(answer')
<1>1. /\ Passes \in BOOLEAN
      /\ world.post \in Int /\ world.pre \in Int /\ stack \in Int
      /\ world.post - stack \in Int /\ world.pre - stack \in Int /\ 0 \in Int
  BY Reported DEF IInv, Typed
<1>2. at # "run_pytest" => answer' = answer
  BY DEF ReportCoverage, Reply, Waits
<1> DEFINE d == (IF patched THEN world.post ELSE world.pre) - stack
           r == Report(Passes, d)
           z == Report(Passes, 0)
<1>3. d \in Int
  BY <1>1
<1>4. CASE /\ stack # NoStack
           /\ Reply("run_pytest", r)
           /\ UNCHANGED mishaps
  <2>1. r \in Reports /\ r.passed = Passes /\ r.delta = d
    <3> HIDE DEF d
    <3> QED BY <1>1, <1>3, AnswerKinds
  <2>2. ASSUME at = "run_pytest", Measured' PROVE Good(r)
    <3>1. patched /\ stack \in {NoStack, world.pre}
      BY <1>4, <2>2 DEF IInv, Proven, Measured
    <3>2. CASE stack = world.pre
      BY <1>1, <2>1, <3>1, <3>2 DEF Good, Passes
    <3> QED BY <1>4, <3>1, <3>2
  <2> HIDE DEF r
  <2> QED BY <1>2, <1>4, <2>1, <2>2 DEF Reply, Waits, Texts
<1>5. CASE Reply("run_pytest", z) /\ Mishap("measure")
  <2>1. z \in Reports
    BY <1>1, AnswerKinds
  <2> HIDE DEF z
  <2> QED BY <1>2, <1>5, <2>1 DEF Reply, Waits, Texts, Measured, Mishap
<1>6. CASE Reply("run_pytest", ErrorText)
  BY <1>2, <1>6, AnswerKinds DEF Reply, Waits, Texts, Good
<1> QED BY <1>4, <1>5, <1>6 DEF ReportCoverage

LEMMA ReportCoverageKeeps == ASSUME IInv, ReportCoverage PROVE IInv'
<1>0. /\ at # "run_pytest" => answer' = answer
      /\ at = "run_pytest" => answer' \in Texts
      /\ (at = "run_pytest" /\ Measured') => Good(answer')
  BY ReportedAnswer
<1> USE AnswerKinds DEF IInv, ReportCoverage, client, docker, Reply, Waits, Mishap
<1>1. TypeOK'
  <2>1. /\ world' \in Worlds
        /\ at' \in Calls \cup Ended \cup {"check_patch_scope", "verdict"}
        /\ stack_id' \in BOOLEAN
        /\ job' \in Jobs \cup {"idle"} /\ tear' \in {"lookup", "down", "remove", "idle"}
    BY DEF Typed, TypeOK, Calls, Ended, Jobs
  <2>2. /\ stack' \in Coverages \cup {0, NoStack}
        /\ containers' \in BOOLEAN /\ network' \in BOOLEAN
        /\ dir' \in BOOLEAN /\ patched' \in BOOLEAN
    BY DEF Typed, TypeOK, Worlds
  <2>3. mishaps' \subseteq Mishaps
    BY MishapType DEF Typed, TypeOK, Mishaps
  <2>4. at' = "stored" => result'.kind = "report"
    BY DEF Typed, TypeOK, Calls, Ended, Texts
  <2> QED BY <2>1, <2>2, <2>3, <2>4 DEF TypeOK
<1>2. Typed'
  BY <1>0, <1>1 DEF Typed, Calls, Ended, Texts
<1>3. Proven'
  <2> SUFFICES ASSUME Measured' PROVE Proven'
    BY DEF Proven
  <2>1. Measured
    BY DEF Measured
  <2>2. /\ stack' = stack /\ UNCHANGED <<at, world, result, patched>>
    OBVIOUS
  <2>3. Good(result) => Good(result)'
    BY <2>2 DEF Good
  <2>4. at = "run_pytest" => Good(answer)'
    BY <1>0, <2>2 DEF Good
  <2> QED BY <1>0, <2>1, <2>2, <2>3, <2>4 DEF Proven
<1>4. Owned'
  <2> SUFFICES ASSUME ~CutOff' PROVE Owned'
    BY DEF Owned
  <2>1. ~CutOff
    BY DEF CutOff
  <2> QED BY <1>0, <2>1 DEF Typed, TypeOK, Owned, CutOff, Gone, Calls, Ended
<1> QED BY <1>2, <1>3, <1>4

LEMMA LookupStackKeeps == ASSUME IInv, LookupStack PROVE IInv'
<1> USE AnswerKinds DEF IInv, LookupStack, client, docker, Reply, Waits
<1>1. TypeOK'
  <2>1. /\ world' \in Worlds
        /\ at' \in Calls \cup Ended \cup {"check_patch_scope", "verdict"}
        /\ stack_id' \in BOOLEAN
        /\ job' \in Jobs \cup {"idle"} /\ tear' \in {"lookup", "down", "remove", "idle"}
    BY DEF Typed, TypeOK, Calls, Ended, Jobs
  <2>2. /\ stack' \in Coverages \cup {0, NoStack}
        /\ containers' \in BOOLEAN /\ network' \in BOOLEAN
        /\ dir' \in BOOLEAN /\ patched' \in BOOLEAN
    BY DEF Typed, TypeOK, Worlds
  <2>3. mishaps' \subseteq Mishaps
    BY MishapType DEF Typed, TypeOK, Mishaps
  <2>4. at' = "stored" => result'.kind = "report"
    BY DEF Typed, TypeOK, Calls, Ended, Texts
  <2> QED BY <2>1, <2>2, <2>3, <2>4 DEF TypeOK
<1>2. Typed'
  BY <1>1 DEF Typed, Calls, Ended, Texts
<1>3. Proven'
  <2> SUFFICES ASSUME Measured' PROVE Proven'
    BY DEF Proven
  <2>1. Measured
    BY DEF Measured
  <2> QED BY <2>1 DEF Typed, TypeOK, Worlds, Proven, Good, Calls, Ended, Measured
<1>4. Owned'
  <2> SUFFICES ASSUME ~CutOff' PROVE Owned'
    BY DEF Owned
  <2>1. ~CutOff
    BY DEF CutOff
  <2> QED BY <2>1 DEF Typed, TypeOK, Owned, CutOff, Gone, Calls, Ended
<1> QED BY <1>2, <1>3, <1>4

LEMMA ComposeDownKeeps == ASSUME IInv, ComposeDown PROVE IInv'
<1> USE AnswerKinds DEF IInv, ComposeDown, client, Mishap
<1>1. TypeOK'
  <2>1. /\ world' \in Worlds
        /\ at' \in Calls \cup Ended \cup {"check_patch_scope", "verdict"}
        /\ stack_id' \in BOOLEAN
        /\ job' \in Jobs \cup {"idle"} /\ tear' \in {"lookup", "down", "remove", "idle"}
    BY DEF Typed, TypeOK, Calls, Ended, Jobs
  <2>2. /\ stack' \in Coverages \cup {0, NoStack}
        /\ containers' \in BOOLEAN /\ network' \in BOOLEAN
        /\ dir' \in BOOLEAN /\ patched' \in BOOLEAN
    BY DEF Typed, TypeOK, Worlds
  <2>3. mishaps' \subseteq Mishaps
    BY MishapType DEF Typed, TypeOK, Mishaps
  <2>4. at' = "stored" => result'.kind = "report"
    BY DEF Typed, TypeOK, Calls, Ended, Texts
  <2> QED BY <2>1, <2>2, <2>3, <2>4 DEF TypeOK
<1>2. Typed'
  BY <1>1 DEF Typed, Calls, Ended, Texts
<1>3. Proven'
  <2> SUFFICES ASSUME Measured' PROVE Proven'
    BY DEF Proven
  <2>1. Measured
    BY DEF Measured
  <2> QED BY <2>1 DEF Typed, TypeOK, Worlds, Proven, Good, Calls, Ended, Measured
<1>4. Owned'
  <2> SUFFICES ASSUME ~CutOff' PROVE Owned'
    BY DEF Owned
  <2>1. ~CutOff
    BY DEF CutOff
  <2> QED BY <2>1 DEF Typed, TypeOK, Owned, CutOff, Gone, Calls, Ended
<1> QED BY <1>2, <1>3, <1>4

LEMMA RemoveContainersKeeps == ASSUME IInv, RemoveContainers PROVE IInv'
<1> USE AnswerKinds DEF IInv, RemoveContainers, client, Reply, Waits, Mishap
<1>1. TypeOK'
  <2>1. /\ world' \in Worlds
        /\ at' \in Calls \cup Ended \cup {"check_patch_scope", "verdict"}
        /\ stack_id' \in BOOLEAN
        /\ job' \in Jobs \cup {"idle"} /\ tear' \in {"lookup", "down", "remove", "idle"}
    BY DEF Typed, TypeOK, Calls, Ended, Jobs
  <2>2. /\ stack' \in Coverages \cup {0, NoStack}
        /\ containers' \in BOOLEAN /\ network' \in BOOLEAN
        /\ dir' \in BOOLEAN /\ patched' \in BOOLEAN
    BY DEF Typed, TypeOK, Worlds
  <2>3. mishaps' \subseteq Mishaps
    BY MishapType DEF Typed, TypeOK, Mishaps
  <2>4. at' = "stored" => result'.kind = "report"
    BY DEF Typed, TypeOK, Calls, Ended, Texts
  <2> QED BY <2>1, <2>2, <2>3, <2>4 DEF TypeOK
<1>2. Typed'
  BY <1>1 DEF Typed, Calls, Ended, Texts
<1>3. Proven'
  <2> SUFFICES ASSUME Measured' PROVE Proven'
    BY DEF Proven
  <2>1. Measured
    BY DEF Measured
  <2> QED BY <2>1 DEF Typed, TypeOK, Worlds, Proven, Good, Calls, Ended, Measured
<1>4. Owned'
  <2> SUFFICES ASSUME ~CutOff' PROVE Owned'
    BY DEF Owned
  <2>1. ~CutOff
    BY DEF CutOff
  <2> QED BY <2>1 DEF Typed, TypeOK, Owned, CutOff, Gone, Calls, Ended
<1> QED BY <1>2, <1>3, <1>4

LEMMA WorkerDiesKeeps == ASSUME IInv, WorkerDies PROVE IInv'
<1> USE AnswerKinds DEF IInv, WorkerDies, docker, Mishap
<1>1. TypeOK'
  <2>1. /\ world' \in Worlds
        /\ at' \in Calls \cup Ended \cup {"check_patch_scope", "verdict"}
        /\ stack_id' \in BOOLEAN
        /\ job' \in Jobs \cup {"idle"} /\ tear' \in {"lookup", "down", "remove", "idle"}
    BY DEF Typed, TypeOK, Calls, Ended, Jobs
  <2>2. /\ stack' \in Coverages \cup {0, NoStack}
        /\ containers' \in BOOLEAN /\ network' \in BOOLEAN
        /\ dir' \in BOOLEAN /\ patched' \in BOOLEAN
    BY DEF Typed, TypeOK, Worlds
  <2>3. mishaps' \subseteq Mishaps
    BY MishapType DEF Typed, TypeOK, Mishaps
  <2>4. at' = "stored" => result'.kind = "report"
    BY DEF Typed, TypeOK, Calls, Ended, Texts
  <2> QED BY <2>1, <2>2, <2>3, <2>4 DEF TypeOK
<1>2. Typed'
  BY <1>1 DEF Typed, Calls, Ended, Texts
<1>3. Proven'
  <2> SUFFICES ASSUME Measured' PROVE Proven'
    BY DEF Proven
  <2>1. Measured
    BY DEF Measured
  <2> QED BY <2>1 DEF Typed, TypeOK, Worlds, Proven, Good, Calls, Ended, Measured
<1>4. Owned'
  <2> SUFFICES ASSUME ~CutOff' PROVE Owned'
    BY DEF Owned
  <2>1. ~CutOff
    BY DEF CutOff
  <2> QED BY <2>1 DEF Typed, TypeOK, Owned, CutOff, Gone, Calls, Ended
<1> QED BY <1>2, <1>3, <1>4

LEMMA ServerRestartsKeeps == ASSUME IInv, ServerRestarts PROVE IInv'
<1> USE AnswerKinds DEF IInv, ServerRestarts, docker, Mishap, LeaveTry
<1>1. TypeOK'
  <2>1. /\ world' \in Worlds
        /\ at' \in Calls \cup Ended \cup {"check_patch_scope", "verdict"}
        /\ stack_id' \in BOOLEAN
        /\ job' \in Jobs \cup {"idle"} /\ tear' \in {"lookup", "down", "remove", "idle"}
    BY DEF Typed, TypeOK, Calls, Ended, Jobs
  <2>2. /\ stack' \in Coverages \cup {0, NoStack}
        /\ containers' \in BOOLEAN /\ network' \in BOOLEAN
        /\ dir' \in BOOLEAN /\ patched' \in BOOLEAN
    BY DEF Typed, TypeOK, Worlds
  <2>3. mishaps' \subseteq Mishaps
    BY MishapType DEF Typed, TypeOK, Mishaps
  <2>4. at' = "stored" => result'.kind = "report"
    BY DEF Typed, TypeOK, Calls, Ended, Texts
  <2> QED BY <2>1, <2>2, <2>3, <2>4 DEF TypeOK
<1>2. Typed'
  BY <1>1 DEF Typed, Calls, Ended, Texts
<1>3. Proven'
  <2> SUFFICES ASSUME Measured' PROVE Proven'
    BY DEF Proven
  <2>1. Measured
    BY DEF Measured
  <2> QED BY <2>1 DEF Typed, TypeOK, Worlds, Proven, Good, Calls, Ended, Measured
<1>4. Owned'
  <2> SUFFICES ASSUME ~CutOff' PROVE Owned'
    BY DEF Owned
  <2>1. ~CutOff
    BY DEF CutOff
  <2> QED BY <2>1 DEF Typed, TypeOK, Owned, CutOff, Gone, Calls, Ended
<1> QED BY <1>2, <1>3, <1>4

-----------------------------------------------------------------------------
LEMMA InitIInv == Init => IInv
<1> SUFFICES ASSUME Init PROVE IInv
  OBVIOUS
<1>1. TypeOK
  BY DEF Init, TypeOK
<1>2. Typed
  BY <1>1 DEF Init, Typed, Calls
<1>3. Proven /\ Owned
  BY DEF Init, Proven, Owned, Gone
<1> QED BY <1>2, <1>3 DEF IInv

LEMMA StepKeepsIInv == IInv /\ [Next]_vars => IInv'
<1> SUFFICES ASSUME IInv, [Next]_vars PROVE IInv'
  OBVIOUS
<1>1. CASE Client
  BY <1>1, CheckPatchScopeKeeps, ReceiveStackKeeps, ReceiveAppliedKeeps,
     ReceiveReportKeeps, ClientTimeoutKeeps, ReceiveTornDownKeeps,
     TeardownTimeoutKeeps, ReturnVerdictKeeps DEF Client
<1>2. CASE Server
  BY <1>2, CopyTargetKeeps, ComposeBuildKeeps, ComposeUpKeeps,
     MeasureBaselineKeeps, ApplyPatchKeeps, RunPytestKeeps, ReportCoverageKeeps,
     LookupStackKeeps, ComposeDownKeeps, RemoveContainersKeeps DEF Server
<1>3. CASE WorkerDies \/ ServerRestarts
  BY <1>3, WorkerDiesKeeps, ServerRestartsKeeps
<1>4. CASE UNCHANGED vars
  BY <1>4 DEF vars, IInv, Typed, TypeOK, Proven, Measured, Good, Owned, CutOff, Gone
<1> QED BY <1>1, <1>2, <1>3, <1>4 DEF Next

THEOREM IInvInvariant == Spec => []IInv
BY InitIInv, StepKeepsIInv, PTL DEF Spec

-----------------------------------------------------------------------------
(***************************************************************************)
(* The properties of run qa_attempt                                        *)
(***************************************************************************)
\* Every variable keeps its type, and what is stored is a verdict.
THEOREM TypeCorrect == Spec => []TypeOK
<1>1. IInv => TypeOK
  BY DEF IInv, Typed
<1> QED BY <1>1, IInvInvariant, PTL

\* Whatever is left behind by an attempt that is over has one of the causes.
THEOREM EveryLeakHasACause == Spec => []LeaksHaveACause
<1>1. IInv => LeaksHaveACause
  BY DEF IInv, Owned, CutOff, Gone, Ended, LeaksHaveACause
<1> QED BY <1>1, IInvInvariant, PTL

\* An open gate means a patched tree, passing tests and no coverage lost, if
\* the patch could be applied and the coverage measured.
THEOREM OpenGateIsProven == Spec => []GateMeansProven
<1>1. IInv => GateMeansProven
  <2> SUFFICES ASSUME IInv, GateOpen, Measured
               PROVE  patched /\ world.fixed /\ world.post >= world.pre
    BY DEF GateMeansProven, Measured
  <2>1. result \in Reports /\ result.passed /\ result.delta >= 0
    BY DEF IInv, Typed, GateOpen
  <2>2. patched /\ Good(result)
    BY <2>1 DEF IInv, Proven, GateOpen
  <2>3. world.post \in Int /\ world.pre \in Int
    BY Reported DEF IInv, Typed
  <2> QED BY <2>1, <2>2, <2>3 DEF Good
<1> QED BY <1>1, IInvInvariant, PTL

(***************************************************************************)
(* What QaNodeEnds rests on besides fairness: qa_node has at most six      *)
(* steps ahead of it, and no step of the server, of Docker or of its own,  *)
(* a failed one included, ever takes it back.                              *)
(***************************************************************************)
StepsAhead ==
    CASE at = "check_patch_scope" -> 6
      [] at = "spin_up_stack" -> 5
      [] at = "apply_patch" -> 4
      [] at = "run_pytest" -> 3
      [] at = "teardown_stack" -> 2
      [] at = "verdict" -> 1
      [] OTHER -> 0

QaNodeRunsOut ==
    /\ StepsAhead' <= StepsAhead
    /\ Client \/ WorkerDies => StepsAhead' < StepsAhead

LEMMA ClientAdvances ==
    ASSUME IInv, Client \/ WorkerDies
    PROVE  StepsAhead' < StepsAhead
<1> USE DEF StepsAhead
<1>1. CASE CheckPatchScope \/ ReceiveApplied \/ ReceiveTornDown \/ TeardownTimeout \/ ReturnVerdict
  BY <1>1 DEF CheckPatchScope, ReceiveApplied, ReceiveTornDown, TeardownTimeout, ReturnVerdict
<1>2. CASE ReceiveStack
  BY <1>2 DEF ReceiveStack, LeaveTry
<1>3. CASE ReceiveReport \/ ClientTimeout
  BY <1>3 DEF ReceiveReport, ClientTimeout, LeaveTry, Calls
<1>4. CASE WorkerDies
  BY <1>4 DEF WorkerDies, Ended, IInv, Typed, TypeOK, Calls
<1>5. QED
  BY <1>1, <1>2, <1>3, <1>4 DEF Client

LEMMA ServerHoldsNothingUp ==
    ASSUME Server \/ ServerRestarts
    PROVE  StepsAhead' <= StepsAhead
<1>1. StepsAhead \in 0..6
  BY DEF StepsAhead
<1>2. CASE Server
  <2>1. at' = at
    BY <1>2 DEF Server, CopyTarget, ComposeBuild, ComposeUp, MeasureBaseline, ApplyPatch,
                RunPytest, ReportCoverage, LookupStack, ComposeDown, RemoveContainers, client
  <2>2. QED
    BY <1>1, <2>1 DEF StepsAhead
<1>3. CASE ServerRestarts
  BY <1>3 DEF ServerRestarts, LeaveTry, Calls, StepsAhead
<1>4. QED
  BY <1>2, <1>3

\* nodes.py, qa_node: an attempt takes at most six steps of the worker,
\* whatever the server and Docker do meanwhile.
THEOREM AttemptIsBounded ==
    Spec => [](StepsAhead \in 0..6) /\ [][QaNodeRunsOut]_vars
<1>1. StepsAhead \in 0..6
  BY DEF StepsAhead
<1>2. ASSUME IInv, Next PROVE QaNodeRunsOut
  <2>1. CASE Client \/ WorkerDies
    <3>1. StepsAhead' < StepsAhead
      BY <1>2, <2>1, ClientAdvances
    <3>2. StepsAhead' \in 0..6
      BY DEF StepsAhead
    <3>3. QED
      BY <1>1, <3>1, <3>2 DEF QaNodeRunsOut
  <2>2. CASE (Server \/ ServerRestarts) /\ ~(Client \/ WorkerDies)
    BY <2>2, ServerHoldsNothingUp DEF QaNodeRunsOut
  <2>3. QED
    BY <1>2, <2>1, <2>2 DEF Next
<1>3. QED
  BY <1>1, <1>2, IInvInvariant, PTL DEF Spec
=============================================================================
