------------------------- MODULE GithubClientProofs -------------------------
(***************************************************************************)
(* Proofs about GithubClient for any number of executions, contents and    *)
(* human commits. The invariant says what an undisturbed run may rely on   *)
(* at each of its calls (OnItsWay); whoever changes GitHub in the middle   *)
(* of its calls disturbs it, so only its own steps have to keep that.      *)
(***************************************************************************)
EXTENDS GithubClient, SequenceTheorems, TLAPS

-----------------------------------------------------------------------------
(***************************************************************************)
(* The inductive invariant                                                 *)
(***************************************************************************)
\* Without a token there is at most one report, and nothing is written.
OneReport ==
    ~token => /\ Len(pulls) <= 1
              /\ \A i \in DOMAIN pulls : pulls[i].status = "open"
              /\ \A r \in Runs : step[r] # "write_file"

\* What a run that nobody disturbed finds when it makes its next call.
OnItsWay(r) ==
    /\ awaited[r]
    /\ step[r] # "failed"
    /\ token /\ step[r] \in {"get_contents", "write_file", "get_pulls", "create_pull"}
           => branch # <<>>
    /\ step[r] = "write_file" => Tip = sha[r]
    /\ token /\ step[r] \in {"get_pulls", "create_pull"}
           => Len(branch) > 1 /\ Tip = PatchOf[r]
    /\ step[r] = "create_pull" => Open = {}

Undisturbed == \A r \in Runs : r \in disturbed \/ OnItsWay(r)

IInv == TypeOK /\ OneReport /\ Undisturbed /\ ProposesItsOwnPatch

LEMMA InitIInv == Init => IInv
<1> SUFFICES ASSUME Init PROVE IInv
  OBVIOUS
<1>1. TypeOK
  <2>1. branch \in Seq(Commits) /\ pulls \in Seq(Pulls) /\ Len(pulls) = 0
    BY EmptySeq DEF Init
  <2>2. main \in Contents
    BY GithubClientAssumption DEF Init, Contents
  <2>3. /\ step \in [Runs -> Calls \cup {"dev", "not_found", "done", "failed"}]
        /\ awaited \in [Runs -> BOOLEAN]
        /\ source \in [Runs -> Contents] /\ sha \in [Runs -> Contents]
        /\ url \in [Runs -> 0..Len(pulls)]
    BY <2>1 DEF Init, Contents
  <2> QED BY <2>1, <2>2, <2>3, GithubClientAssumption DEF Init, TypeOK
<1>2. OneReport /\ ProposesItsOwnPatch
  BY DEF Init, OneReport, ProposesItsOwnPatch
<1>3. Undisturbed
  BY DEF Init, Undisturbed, OnItsWay
<1> QED BY <1>1, <1>2, <1>3 DEF IInv

-----------------------------------------------------------------------------
(***************************************************************************)
(* The branch and the list of pull requests                                *)
(***************************************************************************)
LEMMA TipType == ASSUME TypeOK, branch # <<>> PROVE Tip \in Contents /\ Len(branch) \in Nat \ {0}
<1>1. branch \in Seq(Commits)
  BY DEF TypeOK
<1>2. Len(branch) \in Nat \ {0}
  BY <1>1, EmptySeq
<1>3. branch[Len(branch)] \in Commits
  BY <1>1, <1>2, ElementOfSeq
<1> QED BY <1>2, <1>3 DEF Tip, Commits

\* One more commit on a branch.
LEMMA OneMoreCommit ==
    ASSUME TypeOK, branch # <<>>, NEW c \in Commits, branch' = Append(branch, c)
    PROVE  /\ branch' \in Seq(Commits) /\ branch' # <<>>
           /\ Len(branch') = Len(branch) + 1 /\ Len(branch') > 1
           /\ branch'[1] = branch[1]
           /\ Tip' = c.content
<1>1. branch \in Seq(Commits) /\ Len(branch) \in Nat \ {0}
  BY TipType DEF TypeOK
<1>2. /\ branch' \in Seq(Commits) /\ branch' # <<>>
      /\ Len(branch') = Len(branch) + 1
      /\ \A i \in 1..Len(branch) : branch'[i] = branch[i]
      /\ branch'[Len(branch) + 1] = c
  BY <1>1, AppendProperties
<1>3. 1 \in 1..Len(branch)
  BY <1>1
<1> QED BY <1>1, <1>2, <1>3 DEF Tip

\* A branch as it is cut: nothing on it was written yet.
LEMMA FreshBranch ==
    ASSUME NEW c \in Contents, branch' = BranchPoint(c)
    PROVE  /\ branch' \in Seq(Commits) /\ branch' # <<>>
           /\ branch'[1].by = None
<1>1. [content |-> c, seen |-> c, by |-> None] \in Commits
  BY DEF Commits
<1>2. Len(branch') = 1 /\ branch' \in Seq(Commits)
  BY <1>1 DEF BranchPoint
<1> QED BY <1>2 DEF BranchPoint

LEMMA NoBranch == ASSUME branch' = <<>> PROVE branch' \in Seq(Commits)
BY EmptySeq

LEMMA SameBranch == ASSUME UNCHANGED branch PROVE Tip' = Tip
BY DEF Tip

LEMMA PullsLength == ASSUME TypeOK PROVE Len(pulls) \in Nat /\ DOMAIN pulls = 1..Len(pulls)
BY LenProperties DEF TypeOK

\* A list that keeps its pull requests but for their status.
LEMMA StatusChanged ==
    ASSUME TypeOK, NEW i \in DOMAIN pulls, NEW st \in {"open", "closed", "merged"},
           pulls' = [pulls EXCEPT ![i].status = st]
    PROVE  /\ pulls' \in Seq(Pulls) /\ Len(pulls') = Len(pulls)
           /\ DOMAIN pulls' = DOMAIN pulls
           /\ \A j \in DOMAIN pulls : /\ pulls'[j].by = pulls[j].by
                                      /\ pulls'[j].head = pulls[j].head
<1>1. pulls \in Seq(Pulls) /\ DOMAIN pulls = 1..Len(pulls)
  BY PullsLength DEF TypeOK
<1>2. pulls[i] \in Pulls
  BY <1>1, ElementOfSeq
<1> DEFINE p == [pulls[i] EXCEPT !.status = st]
<1>3. p \in Pulls /\ p.by = pulls[i].by /\ p.head = pulls[i].head
  BY <1>2 DEF Pulls
<1>4. pulls' = [pulls EXCEPT ![i] = p]
  OBVIOUS
<1> HIDE DEF p
<1>5. /\ pulls' \in Seq(Pulls) /\ Len(pulls') = Len(pulls)
      /\ \A j \in 1..Len(pulls) : pulls'[j] = IF j = i THEN p ELSE pulls[j]
  BY <1>1, <1>3, <1>4, ExceptSeq
<1>6. DOMAIN pulls' = 1..Len(pulls')
  BY <1>5, LenProperties
<1> QED BY <1>1, <1>3, <1>5, <1>6

\* One more pull request.
LEMMA OneMorePull ==
    ASSUME TypeOK, NEW p \in Pulls, pulls' = Append(pulls, p)
    PROVE  /\ pulls' \in Seq(Pulls) /\ Len(pulls') = Len(pulls) + 1
           /\ DOMAIN pulls' = 1..(Len(pulls) + 1)
           /\ \A i \in DOMAIN pulls : pulls'[i] = pulls[i]
           /\ pulls'[Len(pulls) + 1] = p
<1>1. pulls \in Seq(Pulls) /\ DOMAIN pulls = 1..Len(pulls)
  BY PullsLength DEF TypeOK
<1>2. /\ pulls' \in Seq(Pulls) /\ Len(pulls') = Len(pulls) + 1
      /\ \A i \in 1..Len(pulls) : pulls'[i] = pulls[i]
      /\ pulls'[Len(pulls) + 1] = p
  BY <1>1, AppendProperties
<1>3. DOMAIN pulls' = 1..Len(pulls')
  BY <1>2, LenProperties
<1> QED BY <1>1, <1>2, <1>3

-----------------------------------------------------------------------------
(***************************************************************************)
(* The calls of a run                                                      *)
(***************************************************************************)
RunType ==
    /\ step \in [Runs -> Calls \cup {"dev", "not_found", "done", "failed"}]
    /\ awaited \in [Runs -> BOOLEAN]
    /\ source \in [Runs -> Contents] /\ sha \in [Runs -> Contents]
    /\ url \in [Runs -> 0..Len(pulls)]

GithubType ==
    /\ main \in Contents
    /\ branch \in Seq(Commits)
    /\ branch # <<>> => branch[1].by = None
    /\ pulls \in Seq(Pulls)

LEMMA TypeSplit ==
    TypeOK <=> /\ token \in BOOLEAN /\ RunType /\ GithubType
               /\ edits \in 0..MaxEdits /\ disturbed \subseteq Runs
BY DEF TypeOK, RunType, GithubType

\* The pull requests afterwards: those of before, by whom they were, and
\* those of disturbed runs or with their run's own patch.
PullsAreKept ==
    \A i \in DOMAIN pulls :
        /\ i \in DOMAIN pulls'
        /\ pulls'[i].by # pulls[i].by => pulls'[i].by \in disturbed

PullsAreOwn ==
    \A i \in DOMAIN pulls' :
        pulls'[i].by \in disturbed \/ pulls'[i].head = PatchOf[pulls'[i].by]

\* No other run is moved.
OnlyMoves(r) ==
    \A q \in Runs \ {r} :
        step'[q] = step[q] /\ awaited'[q] = awaited[q] /\ sha'[q] = sha[q]

\* What each call of r has to keep.
CallKeeps(r) ==
    /\ RunType' /\ GithubType' /\ OneReport'
    /\ PullsAreKept /\ PullsAreOwn /\ OnlyMoves(r)
    /\ r \in disturbed \/ OnItsWay(r)'

LEMMA SamePulls ==
    ASSUME IInv, UNCHANGED pulls
    PROVE  PullsAreKept /\ PullsAreOwn /\ Open' = Open
BY DEF IInv, ProposesItsOwnPatch, PullsAreKept, PullsAreOwn, Open

LEMMA ReturnMoves ==
    ASSUME TypeOK, NEW r \in Runs, NEW call \in Calls \cup {"done"}, Return(r, call)
    PROVE  /\ step' \in [Runs -> Calls \cup {"dev", "not_found", "done", "failed"}]
           /\ step'[r] \in {call, "failed"}
           /\ awaited[r] => step'[r] = call
           /\ \A q \in Runs \ {r} : step'[q] = step[q]
BY DEF TypeOK, Return, Goto

LEMMA GotoMoves ==
    ASSUME TypeOK, NEW r \in Runs,
           NEW call \in Calls \cup {"not_found", "done", "failed"}, Goto(r, call)
    PROVE  /\ step' \in [Runs -> Calls \cup {"dev", "not_found", "done", "failed"}]
           /\ step'[r] = call
           /\ \A q \in Runs \ {r} : step'[q] = step[q]
BY DEF TypeOK, Goto

LEMMA ReadSourceKeeps ==
    ASSUME IInv, NEW r \in Runs, ReadSource(r), UNCHANGED token
    PROVE  CallKeeps(r)
<1>1. TypeOK /\ UNCHANGED <<main, branch, pulls, awaited, sha, url>>
  BY DEF IInv, ReadSource, github
<1>2. /\ step' \in [Runs -> Calls \cup {"dev", "not_found", "done", "failed"}]
      /\ step'[r] \in {"not_found", "create_branch"}
      /\ \A q \in Runs \ {r} : step'[q] = step[q]
  BY <1>1, GotoMoves DEF ReadSource, Calls
<1>3. RunType' /\ GithubType'
  BY <1>1, <1>2 DEF TypeOK, RunType, GithubType, ReadSource
<1>4. OneReport'
  BY <1>1, <1>2 DEF IInv, OneReport
<1>5. PullsAreKept /\ PullsAreOwn /\ OnlyMoves(r)
  BY <1>1, <1>2, SamePulls, SameBranch DEF IInv, OnlyMoves
<1>6. r \in disturbed \/ OnItsWay(r)'
  BY <1>1, <1>2 DEF IInv, Undisturbed, OnItsWay
<1> QED BY <1>3, <1>4, <1>5, <1>6 DEF CallKeeps

LEMMA CreateBranchKeeps ==
    ASSUME IInv, NEW r \in Runs, CreateBranch(r), UNCHANGED token
    PROVE  CallKeeps(r)
<1>1. TypeOK /\ UNCHANGED <<main, pulls, awaited, source, sha, url>>
  BY DEF IInv, CreateBranch
<1>2. /\ step' \in [Runs -> Calls \cup {"dev", "not_found", "done", "failed"}]
      /\ step'[r] \in {"get_contents", "failed"}
      /\ awaited[r] => step'[r] = "get_contents"
      /\ \A q \in Runs \ {r} : step'[q] = step[q]
  BY <1>1, ReturnMoves DEF CreateBranch, Calls
<1>3. /\ branch' \in Seq(Commits)
      /\ branch' # <<>> => branch'[1].by = None
      /\ token => branch' # <<>>
  <2>1. CASE token /\ branch = <<>>
    BY <1>1, <2>1, FreshBranch DEF CreateBranch, TypeOK
  <2>2. CASE ~ (token /\ branch = <<>>)
    BY <1>1, <2>2, SameBranch DEF IInv, CreateBranch, TypeOK
  <2> QED BY <2>1, <2>2
<1>4. RunType' /\ GithubType'
  BY <1>1, <1>2, <1>3 DEF TypeOK, RunType, GithubType
<1>5. OneReport'
  BY <1>1, <1>2 DEF IInv, OneReport
<1>6. PullsAreKept /\ PullsAreOwn /\ OnlyMoves(r)
  BY <1>1, <1>2, SamePulls DEF OnlyMoves
<1>7. r \in disturbed \/ OnItsWay(r)'
  BY <1>1, <1>2, <1>3 DEF IInv, Undisturbed, OnItsWay
<1> QED BY <1>3, <1>4, <1>5, <1>6, <1>7 DEF CallKeeps

LEMMA GetContentsKeeps ==
    ASSUME IInv, NEW r \in Runs, GetContents(r), UNCHANGED token
    PROVE  CallKeeps(r)
<1>1. TypeOK /\ UNCHANGED <<main, branch, pulls, awaited, source, url>>
  BY DEF IInv, GetContents, github
<1>2. /\ step' \in [Runs -> Calls \cup {"dev", "not_found", "done", "failed"}]
      /\ token => step'[r] = "write_file"
      /\ ~token => step'[r] \in {"get_pulls", "failed"}
      /\ ~token /\ awaited[r] => step'[r] = "get_pulls"
      /\ \A q \in Runs \ {r} : step'[q] = step[q]
  <2>1. CASE token
    BY <1>1, <2>1, GotoMoves DEF GetContents, Calls
  <2>2. CASE ~token
    BY <1>1, <2>2, ReturnMoves DEF GetContents, Calls
  <2> QED BY <2>1, <2>2
<1>3. /\ sha' \in [Runs -> Contents]
      /\ sha'[r] = IF branch = <<>> THEN Absent ELSE Tip
      /\ \A q \in Runs \ {r} : sha'[q] = sha[q]
  BY <1>1, TipType DEF GetContents, TypeOK, Contents
<1>4. RunType' /\ GithubType'
  BY <1>1, <1>2, <1>3 DEF TypeOK, RunType, GithubType
<1>5. OneReport'
  BY <1>1, <1>2 DEF IInv, OneReport
<1>6. PullsAreKept /\ PullsAreOwn /\ OnlyMoves(r) /\ Tip' = Tip
  BY <1>1, <1>2, <1>3, SamePulls, SameBranch DEF IInv, OnlyMoves
<1>7. r \in disturbed \/ OnItsWay(r)'
  BY <1>1, <1>2, <1>3, <1>6 DEF IInv, Undisturbed, OnItsWay, GetContents
<1> QED BY <1>4, <1>5, <1>6, <1>7 DEF CallKeeps

LEMMA WriteFileKeeps ==
    ASSUME IInv, NEW r \in Runs, WriteFile(r), UNCHANGED token
    PROVE  CallKeeps(r)
<1>1. TypeOK /\ UNCHANGED <<main, pulls, awaited, source, sha, url>>
  BY DEF IInv, WriteFile
<1>2. CASE branch # <<>> /\ Tip = sha[r]
  <2> DEFINE c == [content |-> PatchOf[r], seen |-> sha[r], by |-> r]
  <2>1. c \in Commits /\ c.content = PatchOf[r] /\ c.seen = Tip
    BY <1>1, <1>2, GithubClientAssumption DEF TypeOK, Commits, Contents
  <2>2. branch' = Append(branch, c)
    BY <1>2 DEF WriteFile, Commit
  <2> HIDE DEF c
  <2>3. /\ branch' \in Seq(Commits) /\ branch' # <<>> /\ Len(branch') > 1
        /\ branch'[1] = branch[1] /\ Tip' = PatchOf[r]
    BY <1>1, <1>2, <2>1, <2>2, OneMoreCommit DEF IInv
  <2>4. /\ step' \in [Runs -> Calls \cup {"dev", "not_found", "done", "failed"}]
        /\ step'[r] \in {"get_pulls", "failed"}
        /\ awaited[r] => step'[r] = "get_pulls"
        /\ \A q \in Runs \ {r} : step'[q] = step[q]
    BY <1>1, <1>2, ReturnMoves DEF WriteFile, Calls
  <2>5. RunType' /\ GithubType'
    BY <1>1, <1>2, <2>3, <2>4 DEF TypeOK, RunType, GithubType
  <2>6. OneReport'
    BY <1>1, <2>4 DEF IInv, OneReport
  <2>7. PullsAreKept /\ PullsAreOwn /\ OnlyMoves(r)
    BY <1>1, <2>4, SamePulls DEF OnlyMoves
  <2>8. r \in disturbed \/ OnItsWay(r)'
    BY <1>1, <2>3, <2>4 DEF IInv, Undisturbed, OnItsWay
  <2> QED BY <2>3, <2>5, <2>6, <2>7, <2>8 DEF CallKeeps
<1>3. CASE ~ (branch # <<>> /\ Tip = sha[r])
  <2>1. UNCHANGED branch /\ Goto(r, "failed") /\ step[r] = "write_file"
    BY <1>3 DEF WriteFile
  <2>2. /\ step' \in [Runs -> Calls \cup {"dev", "not_found", "done", "failed"}]
        /\ step'[r] = "failed"
        /\ \A q \in Runs \ {r} : step'[q] = step[q]
    BY <1>1, <2>1, GotoMoves
  <2>3. RunType' /\ GithubType'
    BY <1>1, <2>1, <2>2 DEF TypeOK, RunType, GithubType
  <2>4. OneReport'
    BY <1>1, <2>2 DEF IInv, OneReport
  <2>5. PullsAreKept /\ PullsAreOwn /\ OnlyMoves(r)
    BY <1>1, <2>1, <2>2, SamePulls, SameBranch DEF IInv, OnlyMoves
  <2>6. r \in disturbed
    <3>1. ASSUME OnItsWay(r) PROVE FALSE
      <4>1. token
        BY <1>1, <2>1 DEF IInv, OneReport, TypeOK
      <4> QED BY <1>3, <2>1, <3>1, <4>1 DEF OnItsWay
    <3> QED BY <3>1 DEF IInv, Undisturbed
  <2> QED BY <2>3, <2>4, <2>5, <2>6 DEF CallKeeps
<1> QED BY <1>2, <1>3

LEMMA GetPullsKeeps ==
    ASSUME IInv, NEW r \in Runs, GetPulls(r), UNCHANGED token
    PROVE  CallKeeps(r)
<1>1. TypeOK /\ UNCHANGED <<main, branch, pulls, awaited, source, sha>>
  BY DEF IInv, GetPulls, github
<1>2. Tip' = Tip /\ Open' = Open /\ PullsAreKept /\ PullsAreOwn
  BY <1>1, SamePulls, SameBranch DEF IInv
<1>3. GithubType'
  BY <1>1 DEF TypeOK, GithubType
<1>4. CASE \E i \in Open : url' = [url EXCEPT ![r] = i] /\ Return(r, "done")
  <2>1. /\ step' \in [Runs -> Calls \cup {"dev", "not_found", "done", "failed"}]
        /\ step'[r] \in {"done", "failed"}
        /\ awaited[r] => step'[r] = "done"
        /\ \A q \in Runs \ {r} : step'[q] = step[q]
    BY <1>1, <1>4, ReturnMoves
  <2>2. url' \in [Runs -> 0..Len(pulls)]
    BY <1>1, <1>4, PullsLength DEF TypeOK, Open
  <2>3. RunType' /\ OneReport'
    BY <1>1, <2>1, <2>2 DEF IInv, TypeOK, RunType, OneReport
  <2>4. OnlyMoves(r) /\ (r \in disturbed \/ OnItsWay(r)')
    BY <1>1, <2>1 DEF IInv, Undisturbed, OnItsWay, OnlyMoves
  <2> QED BY <1>2, <1>3, <2>3, <2>4 DEF CallKeeps
<1>5. CASE Open = {} /\ Goto(r, "create_pull") /\ UNCHANGED url
  <2>1. /\ step' \in [Runs -> Calls \cup {"dev", "not_found", "done", "failed"}]
        /\ step'[r] = "create_pull"
        /\ \A q \in Runs \ {r} : step'[q] = step[q]
    BY <1>1, <1>5, GotoMoves DEF Calls
  <2>2. RunType' /\ OneReport'
    BY <1>1, <1>5, <2>1 DEF IInv, TypeOK, RunType, OneReport
  <2>3. OnlyMoves(r) /\ (r \in disturbed \/ OnItsWay(r)')
    BY <1>1, <1>2, <1>5, <2>1 DEF IInv, Undisturbed, OnItsWay, OnlyMoves, GetPulls
  <2> QED BY <1>2, <1>3, <2>2, <2>3 DEF CallKeeps
<1> QED BY <1>4, <1>5 DEF GetPulls

\* The pull request, or the report, that CreatePull(r) makes.
LEMMA CreatedPull ==
    ASSUME IInv, NEW r \in Runs, CreatePull(r), ~token \/ Creatable, UNCHANGED token
    PROVE  /\ pulls' \in Seq(Pulls) /\ Len(pulls') \in Nat \ {0}
           /\ Len(pulls) <= Len(pulls')
           /\ PullsAreKept /\ PullsAreOwn /\ OneReport'
           /\ url' \in [Runs -> 0..Len(pulls')]
<1>1. TypeOK /\ UNCHANGED <<main, branch, awaited, sha>>
  BY DEF IInv, CreatePull
<1>2. Len(pulls) \in Nat /\ DOMAIN pulls = 1..Len(pulls)
  BY <1>1, PullsLength
<1>3. r \in disturbed \/ (OnItsWay(r) /\ step[r] = "create_pull")
  BY DEF IInv, Undisturbed, CreatePull
<1>4. /\ pulls' \in Seq(Pulls) /\ Len(pulls') \in Nat \ {0}
      /\ Len(pulls) <= Len(pulls') /\ PullsAreKept /\ PullsAreOwn
      /\ ~token => Len(pulls') <= 1
      /\ ~token => \A i \in DOMAIN pulls' : pulls'[i].status = "open"
  <2>1. CASE token
    <3> DEFINE p == [by |-> r, status |-> "open", head |-> Tip]
    <3>1. branch # <<>>
      BY <1>1, <2>1, EmptySeq DEF Creatable, TypeOK
    <3>2. p \in Pulls /\ p.by = r /\ p.head = Tip
      BY <1>1, <3>1, TipType DEF Pulls
    <3>3. pulls' = Append(pulls, p)
      BY <2>1 DEF CreatePull
    <3> HIDE DEF p
    <3>4. /\ pulls' \in Seq(Pulls) /\ Len(pulls') = Len(pulls) + 1
          /\ DOMAIN pulls' = 1..(Len(pulls) + 1)
          /\ \A i \in DOMAIN pulls : pulls'[i] = pulls[i]
          /\ pulls'[Len(pulls) + 1] = p
      BY <1>1, <3>2, <3>3, OneMorePull
    <3>5. PullsAreKept
      BY <1>2, <3>4 DEF PullsAreKept
    <3>6. PullsAreOwn
      <4>1. r \in disturbed \/ p.head = PatchOf[r]
        BY <1>3, <2>1, <3>2 DEF OnItsWay
      <4>2. ASSUME NEW i \in DOMAIN pulls'
            PROVE  pulls'[i].by \in disturbed \/ pulls'[i].head = PatchOf[pulls'[i].by]
        <5>1. CASE i \in DOMAIN pulls
          BY <3>4, <5>1 DEF IInv, ProposesItsOwnPatch
        <5>2. CASE i = Len(pulls) + 1
          BY <3>2, <3>4, <4>1, <5>2
        <5> QED BY <1>2, <3>4, <5>1, <5>2
      <4> QED BY <4>2 DEF PullsAreOwn
    <3> QED BY <1>2, <2>1, <3>4, <3>5, <3>6
  <2>2. CASE ~token
    <3> DEFINE p == [by |-> r, status |-> "open", head |-> PatchOf[r]]
    <3>1. p \in Pulls /\ p.by = r /\ p.head = PatchOf[r] /\ p.status = "open"
      BY GithubClientAssumption DEF Pulls, Contents
    <3>2. pulls' = <<p>>
      BY <2>2 DEF CreatePull
    <3> HIDE DEF p
    <3>3. pulls' \in Seq(Pulls) /\ Len(pulls') = 1 /\ DOMAIN pulls' = {1} /\ pulls'[1] = p
      BY <3>1, <3>2
    <3>4. PullsAreKept
      <4>1. ASSUME NEW i \in DOMAIN pulls
            PROVE  i \in DOMAIN pulls' /\ r \in disturbed
        <5>1. Len(pulls) <= 1 /\ pulls[i].status = "open"
          BY <2>2 DEF IInv, OneReport
        <5>2. i = 1
          BY <1>2, <5>1
        <5>3. Open # {}
          BY <5>1 DEF Open
        <5> QED BY <1>3, <3>3, <5>2, <5>3 DEF OnItsWay
      <4>2. \A i \in DOMAIN pulls' : pulls'[i].by = r
        BY <3>1, <3>3
      <4> QED BY <4>1, <4>2 DEF PullsAreKept
    <3>5. PullsAreOwn
      BY <3>1, <3>3 DEF PullsAreOwn
    <3>6. Len(pulls) <= 1
      BY <2>2 DEF IInv, OneReport
    <3> QED BY <1>2, <3>1, <3>3, <3>4, <3>5, <3>6
  <2> QED BY <2>1, <2>2
<1>5. \A q \in Runs : step'[q] # step[q] => step'[q] # "write_file"
  BY <1>1, ReturnMoves DEF CreatePull
<1>6. OneReport'
  BY <1>4, <1>5 DEF IInv, OneReport
<1>7. url' \in [Runs -> 0..Len(pulls')]
  <2>1. url' = [url EXCEPT ![r] = Len(pulls')]
    BY DEF CreatePull
  <2>2. 0..Len(pulls) \subseteq 0..Len(pulls') /\ Len(pulls') \in 0..Len(pulls')
    BY <1>2, <1>4
  <2> QED BY <1>1, <2>1, <2>2 DEF TypeOK
<1> QED BY <1>4, <1>6, <1>7

LEMMA CreatePullKeeps ==
    ASSUME IInv, NEW r \in Runs, CreatePull(r), UNCHANGED token
    PROVE  CallKeeps(r)
<1>1. TypeOK /\ UNCHANGED <<main, branch, awaited, source, sha>>
  BY DEF IInv, CreatePull
<1>2. CASE ~token \/ Creatable
  <2>1. Return(r, "done")
    BY <1>2 DEF CreatePull
  <2>2. /\ step' \in [Runs -> Calls \cup {"dev", "not_found", "done", "failed"}]
        /\ step'[r] \in {"done", "failed"}
        /\ awaited[r] => step'[r] = "done"
        /\ \A q \in Runs \ {r} : step'[q] = step[q]
    BY <1>1, <2>1, ReturnMoves
  <2>3. /\ pulls' \in Seq(Pulls) /\ PullsAreKept /\ PullsAreOwn /\ OneReport'
        /\ url' \in [Runs -> 0..Len(pulls')]
    BY <1>2, CreatedPull
  <2>4. RunType' /\ GithubType'
    BY <1>1, <2>2, <2>3 DEF TypeOK, RunType, GithubType
  <2>5. OnlyMoves(r) /\ (r \in disturbed \/ OnItsWay(r)')
    BY <1>1, <2>2 DEF IInv, Undisturbed, OnItsWay, OnlyMoves
  <2> QED BY <2>3, <2>4, <2>5 DEF CallKeeps
<1>3. CASE ~ (~token \/ Creatable)
  <2>1. UNCHANGED <<pulls, url>> /\ Goto(r, "failed") /\ step[r] = "create_pull"
    BY <1>3 DEF CreatePull
  <2>2. /\ step' \in [Runs -> Calls \cup {"dev", "not_found", "done", "failed"}]
        /\ step'[r] = "failed"
        /\ \A q \in Runs \ {r} : step'[q] = step[q]
    BY <1>1, <2>1, GotoMoves
  <2>3. RunType' /\ GithubType' /\ OneReport'
    BY <1>1, <2>1, <2>2 DEF IInv, TypeOK, RunType, GithubType, OneReport
  <2>4. PullsAreKept /\ PullsAreOwn /\ OnlyMoves(r)
    BY <1>1, <2>1, <2>2, SamePulls DEF OnlyMoves
  <2>5. r \in disturbed
    BY <1>3, <2>1 DEF IInv, Undisturbed, OnItsWay, Creatable
  <2> QED BY <2>3, <2>4, <2>5 DEF CallKeeps
<1> QED BY <1>2, <1>3

-----------------------------------------------------------------------------
(***************************************************************************)
(* Every step                                                              *)
(***************************************************************************)
\* An undisturbed run only depends on its own variables and on GitHub.
LEMMA OnItsWayUnchanged ==
    ASSUME NEW q \in Runs, OnItsWay(q), UNCHANGED <<token, github>>,
           step'[q] = step[q], awaited'[q] = awaited[q], sha'[q] = sha[q]
    PROVE  OnItsWay(q)'
BY DEF OnItsWay, github, Tip, Open

\* One that is between its calls depends on nothing.
LEMMA OnItsWayOutside ==
    ASSUME NEW q \in Runs, OnItsWay(q), q \notin Busy,
           step'[q] = step[q], awaited'[q] = awaited[q]
    PROVE  OnItsWay(q)'
BY DEF OnItsWay, Busy, Calls

\* What every step keeps.
Kept == IInv' /\ PullsAreKept

LEMMA CallKept ==
    ASSUME IInv, NEW r \in Runs, CallKeeps(r), UNCHANGED <<token, edits>>,
           disturbed' = IF github' = github THEN disturbed
                        ELSE disturbed \cup (Busy \ {r})
    PROVE  Kept
<1>1. disturbed \subseteq disturbed' /\ disturbed' \subseteq Runs
  BY DEF IInv, TypeOK, Busy
<1>2. TypeOK'
  BY <1>1, TypeSplit DEF IInv, CallKeeps, TypeOK, RunType, GithubType
<1>3. ProposesItsOwnPatch'
  BY <1>1 DEF CallKeeps, PullsAreOwn, ProposesItsOwnPatch
<1>4. Undisturbed'
  <2> SUFFICES ASSUME NEW q \in Runs, q \notin disturbed' PROVE OnItsWay(q)'
    BY DEF Undisturbed
  <2>1. q \notin disturbed /\ OnItsWay(q)
    BY <1>1 DEF IInv, Undisturbed
  <2>2. CASE q = r
    BY <2>1, <2>2 DEF CallKeeps
  <2>3. CASE q # r
    <3>1. step'[q] = step[q] /\ awaited'[q] = awaited[q] /\ sha'[q] = sha[q]
      BY <2>3 DEF CallKeeps, OnlyMoves
    <3>2. CASE github' = github
      BY <2>1, <3>1, <3>2, OnItsWayUnchanged
    <3>3. CASE github' # github
      <4>1. q \notin Busy
        BY <2>3, <3>3
      <4> QED BY <2>1, <3>1, <4>1, OnItsWayOutside
    <3> QED BY <3>2, <3>3
  <2> QED BY <2>2, <2>3
<1> QED BY <1>2, <1>3, <1>4 DEF Kept, IInv, CallKeeps

LEMMA StepKept ==
    ASSUME IInv, NEW r \in Runs, Step(r), UNCHANGED token
    PROVE  Kept
<1>1. CallKeeps(r)
  BY ReadSourceKeeps, CreateBranchKeeps, GetContentsKeeps, WriteFileKeeps,
     GetPullsKeeps, CreatePullKeeps DEF Step
<1> QED BY <1>1, CallKept DEF Step

\* A step that leaves GitHub alone and disturbs the run it moves.
LEMMA DisturbedKept ==
    ASSUME IInv, NEW r \in Runs, disturbed' = disturbed \cup {r},
           UNCHANGED <<token, github, edits>>, RunType', OnlyMoves(r), OneReport'
    PROVE  Kept
<1>1. TypeOK'
  BY DEF IInv, TypeOK, RunType, github
<1>2. PullsAreKept
  BY SameBranch, SamePulls DEF IInv, github
<1>3. ProposesItsOwnPatch'
  BY DEF IInv, ProposesItsOwnPatch, github
<1>4. Undisturbed'
  <2> SUFFICES ASSUME NEW q \in Runs, q \notin disturbed' PROVE OnItsWay(q)'
    BY DEF Undisturbed
  <2>1. q # r /\ OnItsWay(q)
    BY DEF IInv, Undisturbed
  <2> QED BY <2>1, OnItsWayUnchanged DEF OnlyMoves
<1> QED BY <1>1, <1>2, <1>3, <1>4 DEF Kept, IInv

LEMMA FailsKept ==
    ASSUME IInv, NEW r \in Runs, Fails(r), UNCHANGED token
    PROVE  Kept
<1>1. /\ step' \in [Runs -> Calls \cup {"dev", "not_found", "done", "failed"}]
      /\ step'[r] # "write_file"
      /\ \A q \in Runs \ {r} : step'[q] = step[q]
  <2>1. CASE Goto(r, "failed")
    BY <2>1, GotoMoves DEF IInv
  <2>2. CASE Return(r, "get_contents")
    BY <2>2, ReturnMoves DEF IInv, Calls
  <2> QED BY <2>1, <2>2 DEF Fails
<1>2. RunType' /\ OnlyMoves(r)
  BY <1>1 DEF IInv, TypeOK, RunType, OnlyMoves, Fails, github
<1>3. OneReport'
  BY <1>1 DEF IInv, OneReport, Fails, github
<1> QED BY <1>2, <1>3, DisturbedKept DEF Fails

LEMMA GivesUpKept ==
    ASSUME IInv, NEW r \in Runs, GivesUp(r), UNCHANGED token
    PROVE  Kept
<1>1. RunType' /\ OnlyMoves(r) /\ OneReport'
  BY DEF IInv, TypeOK, RunType, OnlyMoves, OneReport, GivesUp, github
<1> QED BY <1>1, DisturbedKept DEF GivesUp

\* What a human does disturbs every run that is in the middle of its calls.
LEMMA HumanKept ==
    ASSUME IInv, Human, UNCHANGED token, edits' \in 0..MaxEdits,
           GithubType', Len(pulls') = Len(pulls),
           DOMAIN pulls' = DOMAIN pulls,
           \A i \in DOMAIN pulls : /\ pulls'[i].by = pulls[i].by
                                   /\ pulls'[i].head = pulls[i].head
    PROVE  Kept
<1>1. /\ token /\ disturbed' = disturbed \cup Busy
      /\ UNCHANGED <<step, awaited, source, sha, url>>
  BY DEF Human, run
<1>2. TypeOK'
  BY <1>1 DEF IInv, TypeOK, GithubType, Busy
<1>3. OneReport' /\ PullsAreKept
  BY <1>1 DEF OneReport, PullsAreKept
<1>4. ProposesItsOwnPatch'
  BY <1>1 DEF IInv, ProposesItsOwnPatch
<1>5. Undisturbed'
  <2> SUFFICES ASSUME NEW q \in Runs, q \notin disturbed' PROVE OnItsWay(q)'
    BY DEF Undisturbed
  <2>1. q \notin Busy /\ OnItsWay(q)
    BY <1>1 DEF IInv, Undisturbed
  <2> QED BY <1>1, <2>1, OnItsWayOutside
<1> QED BY <1>2, <1>3, <1>4, <1>5 DEF Kept, IInv

LEMMA EditMainKept ==
    ASSUME IInv, NEW c \in Contents, EditMain(c), UNCHANGED token
    PROVE  Kept
<1>1. edits' \in 0..MaxEdits
  BY GithubClientAssumption DEF IInv, TypeOK, EditMain, Edit
<1>2. GithubType'
  BY SameBranch DEF IInv, TypeOK, GithubType, EditMain
<1> QED BY <1>1, <1>2, HumanKept DEF EditMain

LEMMA EditBranchKept ==
    ASSUME IInv, NEW c \in Contents, EditBranch(c), UNCHANGED token
    PROVE  Kept
<1>1. edits' \in 0..MaxEdits
  BY GithubClientAssumption DEF IInv, TypeOK, EditBranch, Edit
<1> DEFINE e == [content |-> c, seen |-> Tip, by |-> None]
<1>2. e \in Commits /\ e.seen = Tip
  BY TipType DEF IInv, EditBranch, Commits
<1>3. branch # <<>> /\ branch' = Append(branch, e)
  BY DEF EditBranch
<1> HIDE DEF e
<1>4. GithubType'
  BY <1>2, <1>3, OneMoreCommit DEF IInv, TypeOK, GithubType, EditBranch
<1> QED BY <1>1, <1>4, HumanKept DEF EditBranch

LEMMA MergePullKept ==
    ASSUME IInv, NEW i \in DOMAIN pulls, MergePull(i), UNCHANGED token
    PROVE  Kept
<1>1. Tip \in Contents
  BY TipType DEF IInv, MergePull
<1>2. pulls' = [pulls EXCEPT ![i].status = "merged"]
  BY DEF MergePull
<1>3. /\ pulls' \in Seq(Pulls) /\ Len(pulls') = Len(pulls)
      /\ DOMAIN pulls' = DOMAIN pulls
      /\ \A j \in DOMAIN pulls : /\ pulls'[j].by = pulls[j].by
                                 /\ pulls'[j].head = pulls[j].head
  BY <1>2, StatusChanged DEF IInv
<1>4. /\ branch' \in Seq(Commits)
      /\ branch' # <<>> => branch'[1].by = None
  <2>1. CASE branch' = BranchPoint(Tip)
    BY <1>1, <2>1, FreshBranch
  <2>2. CASE branch' = <<>>
    BY <2>2, NoBranch
  <2> QED BY <2>1, <2>2 DEF MergePull
<1>5. GithubType'
  BY <1>1, <1>3, <1>4 DEF MergePull, GithubType
<1>6. edits' \in 0..MaxEdits
  BY DEF IInv, TypeOK, MergePull
<1> QED BY <1>3, <1>4, <1>5, <1>6, HumanKept DEF MergePull

LEMMA ClosePullKept ==
    ASSUME IInv, NEW i \in DOMAIN pulls, ClosePull(i), UNCHANGED token
    PROVE  Kept
<1>1. pulls' = [pulls EXCEPT ![i].status = "closed"]
  BY DEF ClosePull
<1>2. /\ pulls' \in Seq(Pulls) /\ Len(pulls') = Len(pulls)
      /\ DOMAIN pulls' = DOMAIN pulls
      /\ \A j \in DOMAIN pulls : /\ pulls'[j].by = pulls[j].by
                                 /\ pulls'[j].head = pulls[j].head
  BY <1>1, StatusChanged DEF IInv
<1>3. /\ branch' \in Seq(Commits)
      /\ branch' # <<>> => branch'[1].by = None
  <2>1. CASE branch' = branch
    BY <2>1, SameBranch DEF IInv, TypeOK
  <2>2. CASE branch' = <<>>
    BY <2>2, NoBranch
  <2> QED BY <2>1, <2>2 DEF ClosePull
<1>4. GithubType' /\ edits' \in 0..MaxEdits
  BY <1>2, <1>3 DEF IInv, TypeOK, ClosePull, GithubType
<1> QED BY <1>2, <1>3, <1>4, HumanKept DEF ClosePull

LEMMA StepKeeps == IInv /\ [Next]_vars => Kept \/ (IInv' /\ UNCHANGED vars)
<1> SUFFICES ASSUME IInv, [Next]_vars PROVE Kept \/ (IInv' /\ UNCHANGED vars)
  OBVIOUS
<1>1. ASSUME NEW r \in Runs, Step(r) \/ Fails(r) \/ GivesUp(r), UNCHANGED token
      PROVE  Kept
  BY <1>1, StepKept, FailsKept, GivesUpKept
<1>2. ASSUME NEW c \in Contents, EditMain(c) \/ EditBranch(c), UNCHANGED token
      PROVE  Kept
  BY <1>2, EditMainKept, EditBranchKept
<1>3. ASSUME NEW i \in DOMAIN pulls, MergePull(i) \/ ClosePull(i), UNCHANGED token
      PROVE  Kept
  BY <1>3, MergePullKept, ClosePullKept
<1>4. CASE UNCHANGED vars
  <2>1. IInv'
    BY <1>4 DEF IInv, TypeOK, OneReport, Undisturbed, OnItsWay,
                ProposesItsOwnPatch, Tip, Open, vars, github, run
  <2> QED BY <1>4, <2>1
<1> QED BY <1>1, <1>2, <1>3, <1>4 DEF Next

THEOREM IInvInvariant == Spec => []IInv
<1>1. IInv /\ [Next]_vars => IInv'
  BY StepKeeps DEF Kept
<1> QED BY InitIInv, <1>1, PTL DEF Spec

-----------------------------------------------------------------------------
(***************************************************************************)
(* The properties of run github                                            *)
(***************************************************************************)
\* Every variable keeps its type.
THEOREM TypeCorrect == Spec => []TypeOK
<1>1. IInv => TypeOK
  BY DEF IInv
<1> QED BY <1>1, IInvInvariant, PTL

\* Whatever earlier runs left, an undisturbed run of pr_node gets through.
THEOREM RerunGetsThrough == Spec => []UndisturbedRunSucceeds
<1>1. IInv => UndisturbedRunSucceeds
  BY DEF IInv, Undisturbed, OnItsWay, UndisturbedRunSucceeds
<1> QED BY <1>1, IInvInvariant, PTL

\* An undisturbed run proposes the patch it verified.
THEOREM OwnPatchIsProposed == Spec => []ProposesItsOwnPatch
<1>1. IInv => ProposesItsOwnPatch
  BY DEF IInv
<1> QED BY <1>1, IInvInvariant, PTL

\* pr_node returns a pull request in two steps only.
LEMMA WhoReturns ==
    ASSUME IInv, Next, NEW r \in Runs, step[r] # "done", step'[r] = "done"
    PROVE  (GetPulls(r) \/ CreatePull(r)) /\ disturbed \subseteq disturbed'
<1>1. TypeOK
  BY DEF IInv
<1>2. ASSUME NEW q \in Runs, Step(q) PROVE (GetPulls(r) \/ CreatePull(r)) /\ disturbed \subseteq disturbed'
  <2>1. q = r
    BY <1>1, <1>2 DEF TypeOK, Step, ReadSource, CreateBranch, GetContents, WriteFile,
                      GetPulls, CreatePull, Return, Goto
  <2>2. ~ (ReadSource(r) \/ CreateBranch(r) \/ GetContents(r) \/ WriteFile(r))
    BY <1>1 DEF TypeOK, ReadSource, CreateBranch, GetContents, WriteFile, Return, Goto
  <2> QED BY <1>2, <2>1, <2>2 DEF Step
<1>3. ASSUME NEW q \in Runs, Fails(q) \/ GivesUp(q) PROVE FALSE
  BY <1>1, <1>3 DEF TypeOK, Fails, GivesUp, Return, Goto
<1>4. ASSUME Human PROVE FALSE
  BY <1>4 DEF Human, run
<1> QED BY <1>2, <1>3, <1>4 DEF Next, EditMain, EditBranch, MergePull, ClosePull

\* The pull request an undisturbed run returns is open and shows its patch.
THEOREM ReturnedPullIsOwn == Spec => ReturnedPullShowsPatch
<1> DEFINE Shown ==
        \A r \in Runs :
            (/\ token /\ r \notin disturbed'
             /\ step[r] # "done" /\ step'[r] = "done")
            => pulls'[url'[r]].status = "open" /\ Tip' = PatchOf[r]
<1>1. ASSUME IInv, Next PROVE Shown
  <2> SUFFICES ASSUME NEW r \in Runs, token, r \notin disturbed',
                      step[r] # "done", step'[r] = "done"
               PROVE  pulls'[url'[r]].status = "open" /\ Tip' = PatchOf[r]
    OBVIOUS
  <2>1. TypeOK /\ (GetPulls(r) \/ CreatePull(r)) /\ OnItsWay(r)
    BY <1>1, WhoReturns DEF IInv, Undisturbed
  <2>2. Tip = PatchOf[r] /\ UNCHANGED branch
    BY <2>1 DEF OnItsWay, GetPulls, CreatePull, github
  <2>3. Tip' = PatchOf[r]
    BY <2>2, SameBranch
  <2>4. CASE GetPulls(r)
    <3>1. PICK i \in Open : url' = [url EXCEPT ![r] = i]
      BY <2>1, <2>4 DEF TypeOK, GetPulls, Goto
    <3>2. url'[r] = i /\ UNCHANGED pulls
      BY <2>1, <2>4, <3>1 DEF TypeOK, GetPulls, github
    <3> QED BY <2>3, <3>1, <3>2 DEF Open
  <2>5. CASE CreatePull(r)
    <3> DEFINE p == [by |-> r, status |-> "open", head |-> Tip]
    <3>1. Creatable
      BY <2>1, <2>5 DEF TypeOK, CreatePull, Goto
    <3>2. pulls' = Append(pulls, p) /\ url'[r] = Len(pulls')
      BY <2>1, <2>5, <3>1 DEF TypeOK, CreatePull
    <3>3. branch # <<>>
      BY <2>1, <3>1, EmptySeq DEF TypeOK, Creatable
    <3>4. p \in Pulls /\ p.status = "open"
      BY <2>1, <3>3, TipType DEF Pulls
    <3> HIDE DEF p
    <3>5. pulls'[Len(pulls')] = p
      BY <2>1, <3>2, <3>4, OneMorePull
    <3> QED BY <2>3, <3>2, <3>4, <3>5
  <2> QED BY <2>1, <2>4, <2>5
<1>2. IInv /\ [Next]_vars => [Shown]_vars
  BY <1>1
<1> QED BY <1>2, IInvInvariant, PTL DEF Spec, ReturnedPullShowsPatch

\* No undisturbed run replaces a pull request or report that is there.
THEOREM PullsAreReused == Spec => ReportIsReused
<1> DEFINE Reused ==
        \A i \in DOMAIN pulls :
            /\ i \in DOMAIN pulls'
            /\ pulls'[i].by # pulls[i].by => pulls'[i].by \in disturbed
<1>1. IInv /\ [Next]_vars => [Reused]_vars
  BY StepKeeps DEF Kept, PullsAreKept
<1> QED BY <1>1, IInvInvariant, PTL DEF Spec, ReportIsReused
=============================================================================
