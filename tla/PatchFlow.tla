----------------------------- MODULE PatchFlow -----------------------------
(***************************************************************************)
(* Which file a patch is for and what becomes of it: triage's pick, the    *)
(* file dev_node pins it to (mcp_clients.py, resolve_path), the source it  *)
(* reads, the LLM's answer, the scope guard (patching.py), the tree that   *)
(* the harness tests and the content pr_node pushes (nodes.py), while the  *)
(* default branch goes on changing and the harness's checkout does not.    *)
(***************************************************************************)
EXTENDS Integers, Sequences, FiniteSets

CONSTANTS
    Paths,       \* files that may be in the repository, sequences of segments
    Picks,       \* what triage may name as the file, likewise
    EditSets,    \* sets of paths a diff may change, or make, under "+++ b/"
    UnseenSets,  \* sets of paths it may change, or make, under other headers
    DeleteSets,  \* sets of paths it may delete
    Conftests,   \* the paths that end in conftest.py
    Fixture,     \* the one apply_patch writes: tests/conftest.py
    Lengths,     \* lengths of a file, which tell its versions apart
    MaxLength,   \* the longest patched_file an answer may have
    MaxGrowth,   \* settings.max_patch_growth_ratio
    MaxAttempts, \* bound: attempts of the loop
    MaxEdits,    \* bound: changes of the default branch
    None         \* no file, no content, not resolved

Trees    == [Paths -> Lengths \cup {None}]
Contents == [base : Lengths \cup {None}, patched : {"yes", "partly", "no"}]

\* PatchOutput: the length of patched_file, and what patch_diff does where.
\* "+++ b/" lines name the edits; git and patch also follow other prefixes and
\* quoted names, "rename to" and "copy to", and patch the name after "---".
Answers ==
    [length : 0..MaxLength, edits : EditSets, unseen : UnseenSets,
     deletes : DeleteSets]

ASSUME PatchFlowAssumption ==
    /\ IsFiniteSet(Paths)
    /\ \A p \in Paths \cup Picks : p \in Seq(STRING) /\ p # <<>>
    /\ Conftests \subseteq Paths /\ Fixture \in Conftests
    /\ EditSets \cup UnseenSets \cup DeleteSets \subseteq SUBSET Paths
    /\ Lengths \subseteq Nat
    /\ None \notin Paths \cup Picks /\ None \notin Lengths /\ None \notin Answers
    /\ {MaxLength, MaxGrowth, MaxEdits} \subseteq Nat
    /\ MaxAttempts \in Nat \ {0}

VARIABLES
    main,      \* the default branch on GitHub
    checkout,  \* target_repo_dir, which the harness copies
    edits,     \* changes of the default branch so far
    at,        \* where the loop is
    attempt,   \* retry_count
    file_path, \* the file_path in the spec, at first the one triage picked
    source,    \* the content dev_node read, original_len with it
    answer,    \* the LLM's
    touched,   \* files of the tested tree that differ from the checkout
    tested,    \* the content of file_path in the tested tree
    pushed     \* the content put_file sent

repo == <<main, checkout, edits>>
vars == <<repo, at, attempt, file_path, source, answer, touched, tested, pushed>>

Base(s) == s[Len(s)]
Files(tree) == {p \in Paths : tree[p] # None}

(***************************************************************************)
(* Pure parts                                                              *)
(***************************************************************************)
\* The picked path without its first i - 1 segments.
Stripped(path, i) == SubSeq(path, i, Len(path))

Sole(S) == IF Cardinality(S) = 1 THEN CHOOSE f \in S : TRUE ELSE None

\* Seeded defects: the path itself is not tried first; the first of several
\* files of the name is taken.
resolve_path_NotVerbatim(candidate, files) ==
    LET hits == {i \in 2..Len(candidate) : Stripped(candidate, i) \in files}
    IN  IF hits # {} THEN Stripped(candidate, CHOOSE i \in hits : \A j \in hits : i <= j)
        ELSE Sole({f \in files : Base(f) = Base(candidate)})

resolve_path_TakesFirst(candidate, files) ==
    LET hits == {i \in 1..Len(candidate) : Stripped(candidate, i) \in files}
        named == {f \in files : Base(f) = Base(candidate)}
    IN  IF hits # {} THEN Stripped(candidate, CHOOSE i \in hits : \A j \in hits : i <= j)
        ELSE IF named # {} THEN CHOOSE f \in named : TRUE ELSE None

\* Verbatim, then with leading segments stripped, then by a unique basename.
resolve_path(candidate, files) ==
    LET hits == {i \in 1..Len(candidate) : Stripped(candidate, i) \in files}
    IN  IF hits # {} THEN Stripped(candidate, CHOOSE i \in hits : \A j \in hits : i <= j)
        ELSE Sole({f \in files : Base(f) = Base(candidate)})

\* Seeded defect: only one of the diff's targets is looked at.
check_patch_scope_OneTarget(path, a, original) ==
    /\ original # 0 => a.length <= original * MaxGrowth
    /\ a.edits = {} \/ \E t \in a.edits : t = path \/ t \in Conftests

\* The patch is in scope. An empty original has no ratio, and only the lines
\* "+++ b/..." are looked at: neither unseen edits nor deletions have one.
check_patch_scope(path, a, original) ==
    /\ original # 0 => a.length <= original * MaxGrowth
    /\ \A t \in a.edits : t = path \/ t \in Conftests

(***************************************************************************)
(* The nodes                                                               *)
(***************************************************************************)
Init ==
    /\ main \in {t \in Trees : Files(t) # {}}
    /\ checkout = main
    /\ edits = 0
    /\ at = "list_files"
    /\ attempt = 0
    /\ file_path \in Picks
    /\ source = None
    /\ answer = None
    /\ touched = {}
    /\ tested = None
    /\ pushed = None

\* Seeded defect: a path that was not resolved is not noticed.
ListFiles_Unchecked ==
    /\ at = "list_files"
    /\ file_path' = resolve_path(file_path, Files(main))
    /\ at' = "get_file_contents"
    /\ UNCHANGED <<repo, attempt, source, answer, touched, tested, pushed>>

\* dev_node pins the path against a fresh listing, in every attempt.
ListFiles ==
    /\ at = "list_files"
    /\ LET resolved == resolve_path(file_path, Files(main))
       IN  IF resolved = None
           THEN at' = "failed" /\ UNCHANGED file_path
           ELSE at' = "get_file_contents" /\ file_path' = resolved
    /\ UNCHANGED <<repo, attempt, source, answer, touched, tested, pushed>>

GetFileContents ==
    /\ at = "get_file_contents"
    /\ source' = main[file_path]
    /\ at' = IF main[file_path] = None THEN "failed" ELSE "structured"
    /\ UNCHANGED <<repo, attempt, file_path, answer, touched, tested, pushed>>

Structured(a) ==
    /\ at = "structured"
    /\ answer' = a
    /\ at' = "qa"
    /\ UNCHANGED <<repo, attempt, file_path, source, touched, tested, pushed>>

\* Out of scope, or tested and not good; the stack is torn down.
QaFails ==
    /\ at = "qa"
    /\ attempt' = attempt + 1
    /\ at' = IF attempt' < MaxAttempts THEN "list_files" ELSE "gave_up"
    /\ UNCHANGED <<repo, file_path, source, answer, touched, tested, pushed>>

Targets == answer.edits \cup answer.unseen \cup answer.deletes

\* The file of a tree after the answer's diff.
Diffed(tree) ==
    IF file_path \in answer.deletes THEN None
    ELSE [base |-> tree[file_path],
          patched |-> IF file_path \in Targets THEN "yes" ELSE "no"]

\* The suite runs with content as file_path, changed files, and the fixture if
\* the answer has one.
Tests(content, changed) ==
    /\ tested' = content
    /\ \E fixture \in SUBSET {Fixture} : touched' = changed \cup fixture

\* apply_patch writes the full file; a path the checkout has no directory for
\* is an error that is not noticed.
TestsFullFile ==
    /\ answer.length > 0
    /\ \/ Tests([base |-> source, patched |-> "yes"], {file_path})
       \/ /\ checkout[file_path] = None
          /\ Tests([base |-> None, patched |-> "no"], {})

\* Without one the diff is applied to the whole tree. git applies all of it or
\* nothing; a failing patch, which is not noticed, leaves the hunks that did
\* apply, of any of the files, and .rej files, which the model does not show.
TestsDiff ==
    /\ answer.length = 0
    /\ \/ Tests(Diffed(checkout), Targets)
       \/ \E changed \in SUBSET Targets :
             \/ Tests(Diffed(checkout), changed) /\ file_path \in changed
             \/ Tests([base |-> checkout[file_path],
                       patched |-> IF file_path \in changed THEN "partly" ELSE "no"],
                      changed)

QaPasses ==
    /\ at = "qa"
    /\ check_patch_scope(file_path, answer, source)
    /\ TestsFullFile \/ TestsDiff
    /\ at' = "pr"
    /\ attempt' = attempt + 1
    /\ UNCHANGED <<repo, file_path, source, answer, pushed>>

\* Seeded defect: the diff is applied although there is a full file.
PushPatch_AppliesDiff ==
    /\ at = "pr"
    /\ \/ /\ main[file_path] # None /\ file_path \notin answer.deletes
          /\ pushed' = Diffed(main)
          /\ at' = "done"
       \/ at' = "failed" /\ UNCHANGED pushed
    /\ UNCHANGED <<repo, attempt, file_path, source, answer, touched, tested>>

\* pr_node pushes the full file, or applies the diff to the file as it now is.
PushPatch ==
    /\ at = "pr"
    /\ \/ /\ answer.length > 0
          /\ pushed' = [base |-> source, patched |-> "yes"]
          /\ at' = "done"
       \/ /\ answer.length = 0
          /\ \/ /\ main[file_path] # None /\ file_path \notin answer.deletes
                /\ pushed' = Diffed(main)
                /\ at' = "done"
             \/ at' = "failed" /\ UNCHANGED pushed
    /\ UNCHANGED <<repo, attempt, file_path, source, answer, touched, tested>>

\* Somebody adds, changes or removes a file of the default branch.
EditMain(p, version) ==
    /\ edits < MaxEdits
    /\ edits' = edits + 1
    /\ main' = [main EXCEPT ![p] = version]
    /\ UNCHANGED <<checkout, at, attempt, file_path, source, answer,
                   touched, tested, pushed>>

Next ==
    \/ ListFiles \/ GetFileContents
    \/ \E a \in Answers : Structured(a)
    \/ QaFails \/ QaPasses \/ PushPatch
    \/ \E p \in Paths, version \in Lengths \cup {None} : EditMain(p, version)

Spec == Init /\ [][Next]_vars

-----------------------------------------------------------------------------
(***************************************************************************)
(* Properties                                                              *)
(***************************************************************************)
\* Every variable keeps its type; past the listing the path is a file's.
TypeOK ==
    /\ main \in Trees /\ checkout \in Trees
    /\ edits \in 0..MaxEdits /\ attempt \in 0..MaxAttempts
    /\ at \in {"list_files", "get_file_contents", "structured", "qa", "pr",
               "done", "failed", "gave_up"}
    /\ file_path \in Picks \cup Paths
    /\ at \in {"structured", "qa", "pr", "done"} => file_path \in Paths
    /\ source \in Lengths \cup {None}
    /\ answer \in Answers \cup {None}
    /\ touched \subseteq Paths
    /\ tested \in Contents \cup {None} /\ pushed \in Contents \cup {None}

\* resolve_path does not choose among files by their name alone: a file that
\* is not the end of the path it stands for was the only one of its name.
NeverGuesses ==
    [][LET named == {f \in Files(main) : Base(f) = Base(file_path)}
           ends  == {Stripped(file_path, i) : i \in DOMAIN file_path}
       IN  file_path' \in {file_path} \cup ends \/ named = {file_path'}]_vars

\* A retry stays with the file of the attempt before it as long as that file
\* is there, whatever else the new listing holds.
RetryKeepsFile ==
    [][(file_path \in Files(main)) => (file_path' = file_path)]_vars

\* A full file that got into the tested tree is what pr_node pushes, however
\* the default branch changed since dev_node read it.
PushedIsTested ==
    (at = "done" /\ answer.length > 0 /\ tested.patched = "yes") => pushed = tested

\* A verdict for a full file is about a tree that differs from the checkout in
\* file_path and the fixture alone, whatever the diff beside it names; where
\* the diff stands in for the file, also in other conftests and in what the
\* guard cannot see: deleted files and edits without a "+++ b/" line.
TestedInScope ==
    touched \subseteq {file_path, Fixture} \cup
        (IF answer # None /\ answer.length = 0
         THEN Conftests \cup answer.unseen \cup answer.deletes ELSE {})
=============================================================================
