------------------------------ MODULE QaHarness ------------------------------
(***************************************************************************)
(* One qa_node attempt (agents/nodes.py) against the harness MCP server    *)
(* (mcp_servers/harness/server.py) and the Docker stack it builds.         *)
(*                                                                         *)
(* The client bounds every call and forgets a call it gave up; the server  *)
(* does not learn of it and goes on, or is cancelled, at any step. A tool  *)
(* that raises is answered with a text, which the client takes for the     *)
(* result. The server may restart, Docker commands may fail or hang, the   *)
(* worker may die.                                                         *)
(***************************************************************************)
EXTENDS Integers, FiniteSets

CONSTANTS
    Coverages   \* coverage percentages; 0 is what a failed measurement gives

ASSUME QaHarnessAssumption == Coverages \subseteq Nat \ {0}

\* What the attempt is about, fixed from the start: whether the tests pass
\* with the patch and without, the coverage then, whether the patched file
\* is one of the directories mounted into the container, and whether the
\* stack has service containers and so a network.
Worlds ==
    [fixed : BOOLEAN, green_before : BOOLEAN, post : Coverages, pre : Coverages,
     mounted : BOOLEAN, services : BOOLEAN]

VARIABLES
    world,
    at,           \* where qa_node is
    stack_id,     \* qa_node knows the stack's id
    result,       \* pytest_result
    answer,       \* the server's answer to the call qa_node waits for
    job,          \* the server's spin_up_stack, apply_patch or run_pytest
    tear,         \* the server's teardown_stack
    stack,        \* the server's own record of the stack: ACTIVE_STACKS
    containers,   \* Docker: the stack's containers run
    network,      \* Docker: the stack's network exists
    dir,          \* the stack's working copy exists, or a part of it
    patched,      \* the code the containers see is the patched code
    mishaps       \* what has gone wrong in this attempt

client == <<at, stack_id, result>>
server == <<answer, job, tear, stack>>
docker == <<containers, network, dir, patched>>
vars   == <<world, at, stack_id, result, answer, job, tear, stack,
            containers, network, dir, patched, mishaps>>

Calls   == {"spin_up_stack", "apply_patch", "run_pytest", "teardown_stack"}
Ended   == {"stored", "raised", "dead"}
Jobs    == {"copy", "build", "up", "baseline", "apply", "pytest", "coverage"}

\* What a call gives: nothing yet, a tool error's text, a plain success, or a
\* test report. Failed is the report qa_node makes up itself.
Nothing   == [kind |-> "nothing"]
ErrorText == [kind |-> "error"]
Ok        == [kind |-> "ok"]
Report(passed, delta) == [kind |-> "report", passed |-> passed, delta |-> delta]
Failed    == Report(FALSE, -999)

\* ACTIVE_STACKS[stack_id], as far as it is read: the baseline coverage.
NoStack == -1

Init ==
    /\ world \in Worlds
    /\ at = "check_patch_scope"
    /\ stack_id = FALSE
    /\ result = Nothing
    /\ answer = Nothing
    /\ job = "idle"
    /\ tear = "idle"
    /\ stack = NoStack
    /\ containers = FALSE
    /\ network = FALSE
    /\ dir = FALSE
    /\ patched = FALSE
    /\ mishaps = {}

Mishaps == {"spin_up", "apply", "measure", "docker", "disk", "teardown", "restart",
            "worker"}

Mishap(kind) == mishaps' = mishaps \cup {kind}

(***************************************************************************)
(* The client: qa_node                                                     *)
(***************************************************************************)
\* The try block is over: the finally block tears down a stack it knows.
LeaveTry(r) ==
    /\ result' = r
    /\ IF stack_id
       THEN at' = "teardown_stack" /\ tear' = "lookup"
       ELSE at' = "verdict" /\ UNCHANGED tear
    /\ answer' = Nothing

CheckPatchScope ==
    /\ at = "check_patch_scope"
    /\ \/ at' = "spin_up_stack" /\ job' = "copy" /\ UNCHANGED result
       \/ at' = "verdict" /\ result' = Failed /\ UNCHANGED job
    /\ UNCHANGED <<world, stack_id, answer, tear, stack, docker, mishaps>>

\* An error text has no stack_id: the TypeError ends the try block.
ReceiveStack ==
    /\ at = "spin_up_stack"
    /\ \/ /\ answer = Ok
          /\ stack_id' = TRUE
          /\ at' = "apply_patch"
          /\ job' = "apply"
          /\ answer' = Nothing
          /\ UNCHANGED <<result, tear>>
       \/ /\ answer = ErrorText
          /\ LeaveTry(Failed)
          /\ UNCHANGED <<stack_id, job>>
    /\ UNCHANGED <<world, stack, docker, mishaps>>

\* The answer of apply_patch is not looked at.
ReceiveApplied ==
    /\ at = "apply_patch"
    /\ answer # Nothing
    /\ at' = "run_pytest"
    /\ job' = "pytest"
    /\ answer' = Nothing
    /\ UNCHANGED <<world, stack_id, result, tear, stack, docker, mishaps>>

ReceiveReport ==
    /\ at = "run_pytest"
    /\ answer # Nothing
    /\ LeaveTry(answer)
    /\ UNCHANGED <<world, stack_id, job, stack, docker, mishaps>>

\* Seeded defect: only run_pytest is bounded in time.
ClientTimeout_RunPytestOnly ==
    /\ at = "run_pytest"
    /\ LeaveTry(Failed)
    /\ job' \in {job, "idle"}
    /\ UNCHANGED <<world, stack_id, stack, docker, mishaps>>

\* Seeded defect: a timeout leaves qa_node without the finally block.
ClientTimeout_NoFinally ==
    /\ at \in Calls \ {"teardown_stack"}
    /\ result' = Failed
    /\ at' = "verdict"
    /\ answer' = Nothing
    /\ job' \in {job, "idle"}
    /\ IF at = "spin_up_stack" THEN Mishap("spin_up") ELSE UNCHANGED mishaps
    /\ UNCHANGED <<world, stack_id, tear, stack, docker>>

\* mcp_call's bound, or qa_node's own on run_pytest. The server may go on.
ClientTimeout ==
    /\ at \in Calls \ {"teardown_stack"}
    /\ LeaveTry(Failed)
    /\ job' \in {job, "idle"}
    /\ IF at = "spin_up_stack" THEN Mishap("spin_up") ELSE UNCHANGED mishaps
    /\ UNCHANGED <<world, stack_id, stack, docker>>

ReceiveTornDown ==
    /\ at = "teardown_stack"
    /\ answer # Nothing
    /\ at' = "verdict"
    /\ answer' = Nothing
    /\ UNCHANGED <<world, stack_id, result, job, tear, stack, docker, mishaps>>

\* A timeout in the finally block is raised from it.
TeardownTimeout ==
    /\ at = "teardown_stack"
    /\ at' = "raised"
    /\ answer' = Nothing
    /\ tear' \in {tear, "idle"}
    /\ Mishap("teardown")
    /\ UNCHANGED <<world, stack_id, result, job, stack, docker>>

\* Seeded defect: the error text is taken for a verdict.
ReturnVerdict_AnyText ==
    /\ at = "verdict"
    /\ at' = "stored"
    /\ UNCHANGED <<world, stack_id, result, server, docker, mishaps>>

\* The first .get on an error text of run_pytest raises.
ReturnVerdict ==
    /\ at = "verdict"
    /\ at' = IF result = ErrorText THEN "raised" ELSE "stored"
    /\ UNCHANGED <<world, stack_id, result, server, docker, mishaps>>

WorkerDies ==
    /\ at \notin Ended
    /\ at' = "dead"
    /\ answer' = Nothing
    /\ Mishap("worker")
    /\ UNCHANGED <<world, stack_id, result, job, tear, stack, docker>>

(***************************************************************************)
(* The server. An answer only arrives while qa_node waits for it.          *)
(***************************************************************************)
Waits(tool) == at = tool

Reply(tool, a) == answer' = IF Waits(tool) THEN a ELSE answer

\* copytree may raise.
CopyTarget ==
    /\ job = "copy"
    /\ \/ dir' = TRUE /\ job' = "build" /\ UNCHANGED <<answer, mishaps>>
       \/ /\ job' = "idle" /\ Reply("spin_up_stack", ErrorText) /\ Mishap("spin_up")
          /\ dir' \in BOOLEAN
    /\ UNCHANGED <<world, client, tear, stack, containers, network, patched>>

\* docker compose build and up: exit codes are not looked at, a timeout raises.
ComposeBuild ==
    /\ job = "build"
    /\ \/ job' = "up" /\ UNCHANGED <<answer, mishaps>>
       \/ job' = "idle" /\ Reply("spin_up_stack", ErrorText) /\ Mishap("spin_up")
    /\ UNCHANGED <<world, client, tear, stack, docker>>

ComposeUp ==
    /\ job = "up"
    /\ containers' \in BOOLEAN
    /\ network' \in {FALSE, world.services}
    /\ containers' /\ world.services => network'
    /\ \/ job' = "baseline" /\ UNCHANGED <<answer, mishaps>>
       \/ job' = "idle" /\ Reply("spin_up_stack", ErrorText) /\ Mishap("spin_up")
    /\ UNCHANGED <<world, client, tear, stack, dir, patched>>

\* The stack is registered only here, after the baseline is measured; a
\* measurement that fails is a coverage of 0, one that times out raises.
MeasureBaseline ==
    /\ job = "baseline"
    /\ job' = "idle"
    /\ \/ /\ containers
          /\ stack' = world.pre
          /\ Reply("spin_up_stack", Ok)
          /\ UNCHANGED mishaps
       \/ /\ stack' = 0
          /\ Reply("spin_up_stack", Ok)
          /\ Mishap("measure")
       \/ /\ Reply("spin_up_stack", ErrorText)
          /\ Mishap("spin_up")
          /\ UNCHANGED stack
    /\ UNCHANGED <<world, client, tear, docker>>

\* The patched file is written, or the diff applied, into the working copy;
\* a file outside the mounts, a rejected diff or a raise changes nothing the
\* containers see.
ApplyPatch ==
    /\ job = "apply"
    /\ job' = "idle"
    /\ \/ /\ stack # NoStack /\ dir /\ world.mounted
          /\ patched' = TRUE
          /\ Reply("apply_patch", Ok)
          /\ UNCHANGED mishaps
       \/ /\ \E a \in {Ok, ErrorText} : Reply("apply_patch", a)
          /\ Mishap("apply")
          /\ UNCHANGED patched
    /\ UNCHANGED <<world, client, tear, stack, containers, network, dir>>

Passes == containers /\ IF patched THEN world.fixed ELSE world.green_before

\* A run that exceeds the server's own bound raises, as does an unknown stack.
RunPytest ==
    /\ job = "pytest"
    /\ \/ stack # NoStack /\ job' = "coverage" /\ UNCHANGED answer
       \/ job' = "idle" /\ Reply("run_pytest", ErrorText)
    /\ UNCHANGED <<world, client, tear, stack, docker, mishaps>>

\* Seeded defect: the tests' exit code is masked, as it is for the baseline.
ReportCoverage_ExitMasked ==
    /\ job = "coverage"
    /\ job' = "idle"
    /\ stack # NoStack
    /\ Reply("run_pytest", Report(containers, world.post - stack))
    /\ UNCHANGED <<world, client, tear, stack, docker, mishaps>>

\* A coverage report that cannot be read counts as the baseline.
ReportCoverage ==
    /\ job = "coverage"
    /\ job' = "idle"
    /\ \/ /\ stack # NoStack /\ containers
          /\ Reply("run_pytest",
                   Report(Passes, (IF patched THEN world.post ELSE world.pre) - stack))
          /\ UNCHANGED mishaps
       \/ /\ stack # NoStack
          /\ Reply("run_pytest", Report(Passes, 0))
          /\ Mishap("measure")
       \/ /\ Reply("run_pytest", ErrorText)
          /\ UNCHANGED mishaps
    /\ UNCHANGED <<world, client, tear, stack, docker>>

\* An unknown stack counts as torn down.
LookupStack ==
    /\ tear = "lookup"
    /\ IF stack = NoStack
       THEN tear' = "idle" /\ Reply("teardown_stack", Ok)
       ELSE tear' = "down" /\ UNCHANGED answer
    /\ UNCHANGED <<world, client, job, stack, docker, mishaps>>

\* docker compose down; a timeout of it is swallowed.
ComposeDown ==
    /\ tear = "down"
    /\ tear' = "remove"
    /\ \/ containers' = FALSE /\ network' = FALSE /\ UNCHANGED mishaps
       \/ containers' \in {containers, FALSE} /\ UNCHANGED network /\ Mishap("docker")
    /\ UNCHANGED <<world, client, answer, job, stack, dir, patched>>

\* The Docker API removes containers, not networks; rmtree the working copy.
\* The errors of either are swallowed, and the stack counts as torn down.
RemoveContainers ==
    /\ tear = "remove"
    /\ tear' = "idle"
    /\ \E failed \in SUBSET {"docker", "disk"} :
          /\ containers' = (containers /\ "docker" \in failed)
          /\ dir' = (dir /\ "disk" \in failed)
          /\ mishaps' = mishaps \cup failed
    /\ stack' = NoStack
    /\ Reply("teardown_stack", Ok)
    /\ UNCHANGED <<world, client, job, network, patched>>

\* ACTIVE_STACKS is in memory; a call in progress fails with a connection
\* error, which qa_node's except block takes for a failed attempt and its
\* finally block raises. Bound: at most one restart in an attempt.
ServerRestarts ==
    /\ "restart" \notin mishaps
    /\ Mishap("restart")
    /\ stack' = NoStack
    /\ job' = "idle"
    /\ IF at \in Calls \ {"teardown_stack"} /\ answer = Nothing THEN LeaveTry(Failed)
       ELSE /\ tear' = "idle"
            /\ at' = IF at = "teardown_stack" /\ answer = Nothing THEN "raised" ELSE at
            /\ UNCHANGED <<result, answer>>
    /\ UNCHANGED <<world, stack_id, docker>>

Client ==
    \/ CheckPatchScope \/ ReceiveStack \/ ReceiveApplied \/ ReceiveReport
    \/ ClientTimeout \/ ReceiveTornDown \/ TeardownTimeout \/ ReturnVerdict

Server ==
    \/ CopyTarget \/ ComposeBuild \/ ComposeUp \/ MeasureBaseline
    \/ ApplyPatch \/ RunPytest \/ ReportCoverage
    \/ LookupStack \/ ComposeDown \/ RemoveContainers

Next == Client \/ Server \/ WorkerDies \/ ServerRestarts

Spec == Init /\ [][Next]_vars

\* Only the client is scheduled: the server and Docker may hang for ever.
FairSpec == Spec /\ WF_vars(Client)

-----------------------------------------------------------------------------
(***************************************************************************)
(* Properties                                                              *)
(***************************************************************************)
\* Every variable keeps its type; what qa_node stores is a verdict, never
\* the text of a tool error.
TypeOK ==
    /\ world \in Worlds
    /\ at \in Calls \cup Ended \cup {"check_patch_scope", "verdict"}
    /\ stack_id \in BOOLEAN
    /\ job \in Jobs \cup {"idle"}
    /\ tear \in {"lookup", "down", "remove", "idle"}
    /\ stack \in Coverages \cup {0, NoStack}
    /\ containers \in BOOLEAN /\ network \in BOOLEAN /\ dir \in BOOLEAN /\ patched \in BOOLEAN
    /\ mishaps \subseteq Mishaps
    /\ at = "stored" => result.kind = "report"

\* The verdict route_after_qa lets through to pr_node.
GateOpen == at = "stored" /\ result.kind = "report" /\ result.passed /\ result.delta >= 0

\* README.md: no leaked containers or networks. An attempt that is over
\* leaves nothing behind, unless spin_up_stack failed or was given up, the
\* teardown call itself was given up, a process died, or what should remove
\* it failed: Docker for a container or network, the disk for the working
\* copy, neither of which keeps the teardown from the other. In particular a
\* test run that was given up and still runs does not keep the stack alive.
CutOff == mishaps \cap {"spin_up", "teardown", "restart", "worker"} # {}

LeaksHaveACause ==
    at \in Ended =>
        /\ containers \/ network => CutOff \/ "docker" \in mishaps
        /\ dir => CutOff \/ "disk" \in mishaps

\* The gate opens on a patch that was in the tested tree, passed its tests
\* and lost no coverage, unless applying it or measuring coverage failed.
GateMeansProven ==
    GateOpen /\ mishaps \cap {"apply", "measure"} = {} =>
        patched /\ world.fixed /\ world.post >= world.pre

\* mcp_clients.py, mcp_call: a hung server cannot freeze the worker. qa_node
\* ends although nothing is assumed of the server.
QaNodeEnds == at = "check_patch_scope" ~> at \in Ended

-----------------------------------------------------------------------------
(***************************************************************************)
(* What the repository says and the code does not do                       *)
(***************************************************************************)
\* README.md: the QA agent applies the patch and runs the tests; a PR is
\* opened once the patch passes.
PassedMeansPatched == GateOpen => patched
=============================================================================
