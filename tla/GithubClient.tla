---------------------------- MODULE GithubClient ----------------------------
(***************************************************************************)
(* The GitHub client (agents/mcp_clients.py) under pr_node, call by call,  *)
(* when several executions of one incident run at the same time: the       *)
(* broker redelivers the task of a worker it lost sight of, the timed-out  *)
(* call of an earlier run goes on in its thread. They share the branch     *)
(* prodrescue/<log_id>; humans edit, merge and close next to them. Without *)
(* a token the tools only write a report to disk.                          *)
(***************************************************************************)
EXTENDS Integers, Sequences

CONSTANTS
    Runs,      \* the executions of pr_node for one incident
    Texts,     \* contents of the file, as their blob shas tell them apart
    Original,  \* the content the incident began with
    PatchOf,   \* the verified patched_file of each run
    Absent,    \* the content of a file that is not there
    None,      \* the author of a commit no run made
    MaxEdits   \* bound: commits by humans

Contents == Texts \cup {Absent}

ASSUME GithubClientAssumption ==
    /\ Original \in Texts /\ Absent \notin Texts
    /\ PatchOf \in [Runs -> Texts]
    /\ None \notin Runs
    /\ MaxEdits \in Nat

VARIABLES
    token,    \* settings.github_token is set
    main,     \* the file on the default branch
    branch,   \* the branch's commits from where it left main; <<>>: no branch
    pulls,    \* the pull requests for the branch, by number
    step,     \* the call each run is at
    awaited,  \* the run still waits for the call
    source,   \* what dev_node read and the patch was written against
    sha,      \* what put_file read
    url,      \* the pull request create_pull_request returned
    edits,    \* commits by humans so far
    disturbed \* runs that met a failure, a human or another run on their way

github == <<main, branch, pulls>>
run    == <<step, awaited, source, sha, url>>
vars   == <<token, github, run, edits, disturbed>>

\* seen is the content its author knew when the commit was made.
Commits == [content : Contents, seen : Contents, by : Runs \cup {None}]
Pulls   == [by : Runs, status : {"open", "closed", "merged"}, head : Contents]
Calls   == {"create_branch", "get_contents", "write_file", "get_pulls", "create_pull"}

BranchPoint(c) == <<[content |-> c, seen |-> c, by |-> None]>>
Tip  == branch[Len(branch)].content
Open == {i \in DOMAIN pulls : pulls[i].status = "open"}
Busy == {r \in Runs : step[r] \in Calls}

Init ==
    /\ token \in BOOLEAN
    /\ main = Original
    /\ branch = <<>>
    /\ pulls = <<>>
    /\ step = [r \in Runs |-> "dev"]
    /\ awaited = [r \in Runs |-> TRUE]
    /\ source = [r \in Runs |-> Absent]
    /\ sha = [r \in Runs |-> Absent]
    /\ url = [r \in Runs |-> 0]
    /\ edits = 0
    /\ disturbed = {}

Goto(r, call) == step' = [step EXCEPT ![r] = call]

\* A tool ends: pr_node goes on, unless wait_for gave the call up.
Return(r, call) == Goto(r, IF awaited[r] THEN call ELSE "failed")

(***************************************************************************)
(* The calls of a run                                                      *)
(***************************************************************************)
\* list_files and get_file_contents of the default branch, the patch, and qa.
\* A file that is not listed ends the run.
ReadSource(r) ==
    /\ step[r] = "dev"
    /\ source' = [source EXCEPT ![r] = main]
    /\ Goto(r, IF main = Absent THEN "not_found" ELSE "create_branch")
    /\ UNCHANGED <<github, awaited, sha, url>>

\* Seeded defect: an existing branch is an error.
CreateBranch_Raises(r) ==
    /\ step[r] = "create_branch"
    /\ branch' = IF token /\ branch = <<>> THEN BranchPoint(main) ELSE branch
    /\ IF token /\ branch # <<>> THEN Goto(r, "failed") ELSE Return(r, "get_contents")
    /\ UNCHANGED <<main, pulls, awaited, source, sha, url>>

\* An existing branch is reused as it is.
CreateBranch(r) ==
    /\ step[r] = "create_branch"
    /\ branch' = IF token /\ branch = <<>> THEN BranchPoint(main) ELSE branch
    /\ Return(r, "get_contents")
    /\ UNCHANGED <<main, pulls, awaited, source, sha, url>>

\* put_file reads the sha it will name in update_file; a 404, for the file or
\* for the branch, leads to create_file, which names none.
GetContents(r) ==
    /\ step[r] = "get_contents"
    /\ sha' = [sha EXCEPT ![r] = IF branch = <<>> THEN Absent ELSE Tip]
    /\ IF token THEN Goto(r, "write_file") ELSE Return(r, "get_pulls")
    /\ UNCHANGED <<github, awaited, source, url>>

Commit(r) ==
    branch' = Append(branch, [content |-> PatchOf[r], seen |-> sha[r], by |-> r])

\* Seeded defects: a write that also makes the branch; a branch that was
\* written to is left as it is.
WriteFile_MakesBranch(r) ==
    /\ step[r] = "write_file"
    /\ IF branch = <<>> \/ Tip = sha[r]
       THEN Commit(r) /\ Return(r, "get_pulls")
       ELSE UNCHANGED branch /\ Goto(r, "failed")
    /\ UNCHANGED <<main, pulls, awaited, source, sha, url>>

WriteFile_KeepsWritten(r) ==
    /\ step[r] = "write_file"
    /\ IF branch # <<>> /\ Tip = sha[r]
       THEN /\ IF Len(branch) = 1 THEN Commit(r) ELSE UNCHANGED branch
            /\ Return(r, "get_pulls")
       ELSE UNCHANGED branch /\ Goto(r, "failed")
    /\ UNCHANGED <<main, pulls, awaited, source, sha, url>>

\* update_file or create_file: GitHub refuses when the file is not, or is no
\* longer, what the sha says, and the refusal is raised.
WriteFile(r) ==
    /\ step[r] = "write_file"
    /\ IF branch # <<>> /\ Tip = sha[r]
       THEN Commit(r) /\ Return(r, "get_pulls")
       ELSE UNCHANGED branch /\ Goto(r, "failed")
    /\ UNCHANGED <<main, pulls, awaited, source, sha, url>>

\* Seeded defect: the pull request, or the report, is always made.
GetPulls_Skipped(r) ==
    /\ step[r] = "get_pulls"
    /\ Goto(r, "create_pull")
    /\ UNCHANGED <<github, awaited, source, sha, url>>

GetPulls(r) ==
    /\ step[r] = "get_pulls"
    /\ \/ \E i \in Open : url' = [url EXCEPT ![r] = i] /\ Return(r, "done")
       \/ Open = {} /\ Goto(r, "create_pull") /\ UNCHANGED url
    /\ UNCHANGED <<github, awaited, source, sha>>

\* GitHub refuses a second open pull request, and one without commits.
Creatable == Open = {} /\ Len(branch) > 1

CreatePull(r) ==
    /\ step[r] = "create_pull"
    /\ IF ~token \/ Creatable
       THEN /\ pulls' = IF token
                        THEN Append(pulls, [by |-> r, status |-> "open", head |-> Tip])
                        ELSE <<[by |-> r, status |-> "open", head |-> PatchOf[r]]>>
            /\ url' = [url EXCEPT ![r] = Len(pulls')]
            /\ Return(r, "done")
       ELSE UNCHANGED <<pulls, url>> /\ Goto(r, "failed")
    /\ UNCHANGED <<main, branch, awaited, source, sha>>

Step(r) ==
    /\ \/ ReadSource(r) \/ CreateBranch(r) \/ GetContents(r) \/ WriteFile(r)
       \/ GetPulls(r) \/ CreatePull(r)
    /\ disturbed' = IF github' = github THEN disturbed
                    ELSE disturbed \cup (Busy \ {r})
    /\ UNCHANGED edits

(***************************************************************************)
(* What goes wrong, and who else is there                                  *)
(***************************************************************************)
\* The call raises without an effect, or the worker dies: the run is over. That
\* create_git_ref fails is not noticed.
Fails(r) ==
    /\ r \in Busy
    /\ \/ Goto(r, "failed")
       \/ token /\ step[r] = "create_branch" /\ Return(r, "get_contents")
    /\ disturbed' = disturbed \cup {r}
    /\ UNCHANGED <<github, awaited, source, sha, url, edits>>

\* mcp_call's wait_for gives up; the thread carries the tool to its end.
GivesUp(r) ==
    /\ token
    /\ r \in Busy /\ awaited[r]
    /\ awaited' = [awaited EXCEPT ![r] = FALSE]
    /\ disturbed' = disturbed \cup {r}
    /\ UNCHANGED <<github, step, source, sha, url, edits>>

Human ==
    /\ token
    /\ disturbed' = disturbed \cup Busy
    /\ UNCHANGED run

Edit == edits < MaxEdits /\ edits' = edits + 1

EditMain(c) ==
    /\ Human /\ Edit
    /\ main' = c
    /\ UNCHANGED <<branch, pulls>>

EditBranch(c) ==
    /\ Human /\ Edit
    /\ branch # <<>>
    /\ branch' = Append(branch, [content |-> c, seen |-> Tip, by |-> None])
    /\ UNCHANGED <<main, pulls>>

\* Without a conflict; the branch may be deleted or stay.
MergePull(i) ==
    /\ Human
    /\ i \in Open /\ branch # <<>>
    /\ main \in {branch[1].content, Tip}
    /\ main' = Tip
    /\ pulls' = [pulls EXCEPT ![i].status = "merged"]
    /\ branch' \in {BranchPoint(Tip), <<>>}
    /\ UNCHANGED edits

ClosePull(i) ==
    /\ Human
    /\ i \in Open
    /\ pulls' = [pulls EXCEPT ![i].status = "closed"]
    /\ branch' \in {branch, <<>>}
    /\ UNCHANGED <<main, edits>>

Next ==
    /\ \/ \E r \in Runs : Step(r) \/ Fails(r) \/ GivesUp(r)
       \/ \E c \in Contents : EditMain(c) \/ EditBranch(c)
       \/ \E i \in DOMAIN pulls : MergePull(i) \/ ClosePull(i)
    /\ UNCHANGED token

Spec == Init /\ [][Next]_vars

-----------------------------------------------------------------------------
(***************************************************************************)
(* Properties                                                              *)
(***************************************************************************)
\* Every variable keeps its type; a branch begins where it left main, and
\* what a run returned is a pull request.
TypeOK ==
    /\ token \in BOOLEAN
    /\ main \in Contents
    /\ branch \in Seq(Commits)
    /\ branch # <<>> => branch[1].by = None
    /\ pulls \in Seq(Pulls)
    /\ step \in [Runs -> Calls \cup {"dev", "not_found", "done", "failed"}]
    /\ awaited \in [Runs -> BOOLEAN]
    /\ source \in [Runs -> Contents] /\ sha \in [Runs -> Contents]
    /\ url \in [Runs -> 0..Len(pulls)]
    /\ edits \in 0..MaxEdits
    /\ disturbed \subseteq Runs

\* create_branch and create_pull_request are idempotent: whatever branch,
\* commits and pull requests earlier runs left, a run that no failure, human
\* or other run meets on its way gets through.
UndisturbedRunSucceeds ==
    \A r \in Runs : step[r] = "failed" => r \in disturbed

\* What a pull request is opened with is the patch that its run verified,
\* unless somebody else wrote the branch during that run.
ProposesItsOwnPatch ==
    \A i \in DOMAIN pulls :
        pulls[i].by \in disturbed \/ pulls[i].head = PatchOf[pulls[i].by]

\* When pr_node returns a pull request, that one is open and its branch shows
\* the patch the run verified, also when the run reused the branch or the pull
\* request of an earlier one, written with that one's patch: put_file writes
\* the reused branch again before create_pull_request looks. Exempt are runs
\* that a failure, a human or another run met on their way.
ReturnedPullShowsPatch ==
    [][\A r \in Runs :
          (/\ token /\ r \notin disturbed'
           /\ step[r] # "done" /\ step'[r] = "done")
          => pulls'[url'[r]].status = "open" /\ Tip' = PatchOf[r]]_vars

\* No run replaces the pull request or the report of an earlier one, except
\* for a report that another run wrote after it had looked.
ReportIsReused ==
    [][\A i \in DOMAIN pulls :
          /\ i \in DOMAIN pulls'
          /\ pulls'[i].by # pulls[i].by => pulls'[i].by \in disturbed]_vars

-----------------------------------------------------------------------------
(***************************************************************************)
(* What the repository says and the code does not do                       *)
(***************************************************************************)
\* put_file, comment: the sha pins the base. What a run replaces on a branch
\* that nobody wrote to yet is what dev_node read and the patch was written
\* against.
BaseIsPinned ==
    (Len(branch) > 1 /\ branch[2].by # None) => branch[2].seen = source[branch[2].by]
=============================================================================
