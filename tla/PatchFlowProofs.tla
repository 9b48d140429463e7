-------------------------- MODULE PatchFlowProofs --------------------------
(***************************************************************************)
(* Proofs about PatchFlow for every set of paths and picks, every edit and *)
(* deletion a diff may make and every length: first what resolve_path      *)
(* returns, then the inductive invariant IInv, then the run's properties.  *)
(***************************************************************************)
EXTENDS PatchFlow, FiniteSetTheorems, SequenceTheorems, WellFoundedInduction, TLAPS

-----------------------------------------------------------------------------
(***************************************************************************)
(* resolve_path                                                            *)
(***************************************************************************)
\* A set of numbers that is not empty has a least one: the first hit of
\* resolve_path's loop over the leading segments.
LEMMA LeastExists ==
    ASSUME NEW T, T \subseteq Nat, T # {}
    PROVE  \E x \in T : \A y \in T : x <= y
<1>1. IsWellFoundedOn(OpToRel(<, Nat), Nat)
  BY NatLessThanWellFounded
<1>2. PICK x \in T : \A y \in T : ~ (<<y, x>> \in OpToRel(<, Nat))
  BY <1>1, WFMin
<1>3. ASSUME NEW y \in T PROVE x <= y
  <2>1. y < x => <<y, x>> \in OpToRel(<, Nat)
    BY DEF OpToRel
  <2>2. ~ (y < x)
    BY <1>2, <2>1, Zenon
  <2>3. x \in Nat /\ y \in Nat
    OBVIOUS
  <2> QED BY <2>2, <2>3
<1> QED BY <1>3

\* The positions at which resolve_path finds a file, and the first of them.
Hits(candidate, files) ==
    {i \in 1..Len(candidate) : Stripped(candidate, i) \in files}

\* resolve_path returns the longest of the candidate's ends that is a file.
LEMMA FirstHit ==
    ASSUME NEW candidate \in Seq(STRING), NEW files, Hits(candidate, files) # {}
    PROVE  \E i \in 1..Len(candidate) :
               /\ resolve_path(candidate, files) = Stripped(candidate, i)
               /\ Stripped(candidate, i) \in files
               /\ \A j \in Hits(candidate, files) : i <= j
<1> DEFINE hits == Hits(candidate, files)
           i == CHOOSE k \in hits : \A j \in hits : k <= j
<1>1. Len(candidate) \in Nat
  OBVIOUS
<1>2. hits \subseteq Nat
  BY <1>1 DEF Hits
<1>3. i \in hits /\ \A j \in hits : i <= j
  BY <1>2, LeastExists
<1>4. resolve_path(candidate, files) = Stripped(candidate, i)
  BY DEF resolve_path, Hits
<1> HIDE DEF i
<1>5. i \in 1..Len(candidate) /\ Stripped(candidate, i) \in files
  BY <1>3 DEF Hits
<1> QED BY <1>3, <1>4, <1>5

\* Without such an end it returns the only file of the candidate's name, or
\* None.
LEMMA NoHit ==
    ASSUME NEW candidate \in Seq(STRING), NEW files, IsFiniteSet(files),
           Hits(candidate, files) = {},
           resolve_path(candidate, files) # None
    PROVE  {f \in files : Base(f) = Base(candidate)}
               = {resolve_path(candidate, files)}
<1> DEFINE named == {f \in files : Base(f) = Base(candidate)}
<1>1. resolve_path(candidate, files) = Sole(named)
  BY DEF resolve_path, Hits
<1> HIDE DEF named
<1>2. Cardinality(named) = 1 /\ Sole(named) = CHOOSE f \in named : TRUE
  BY <1>1 DEF Sole
<1>3. IsFiniteSet(named)
  BY FS_Subset DEF named
<1>4. PICK f : named = {f}
  BY <1>2, <1>3, FS_Singleton
<1> QED BY <1>1, <1>2, <1>4 DEF named

\* What resolve_path returns is a file, or None.
LEMMA ResolvedIsAFile ==
    ASSUME NEW candidate \in Seq(STRING), NEW files, IsFiniteSet(files)
    PROVE  resolve_path(candidate, files) \in files \cup {None}
<1>1. CASE Hits(candidate, files) # {}
  BY <1>1, FirstHit
<1>2. CASE Hits(candidate, files) = {}
  BY <1>2, NoHit
<1> QED BY <1>1, <1>2

\* A path that is a file is returned as it is.
LEMMA FileIsKept ==
    ASSUME NEW candidate \in Seq(STRING), candidate # <<>>, NEW files,
           candidate \in files
    PROVE  resolve_path(candidate, files) = candidate
<1>1. Len(candidate) \in Nat \ {0}
  BY EmptySeq
<1>2. Stripped(candidate, 1) = candidate
  BY SubSeqFull DEF Stripped
<1>3. 1 \in Hits(candidate, files)
  BY <1>1, <1>2 DEF Hits
<1>4. PICK i \in 1..Len(candidate) :
          /\ resolve_path(candidate, files) = Stripped(candidate, i)
          /\ \A j \in Hits(candidate, files) : i <= j
  BY <1>3, FirstHit
<1>5. i = 1
  BY <1>1, <1>3, <1>4
<1> QED BY <1>2, <1>4, <1>5

LEMMA Listing ==
    ASSUME main \in Trees
    PROVE  Files(main) \subseteq Paths /\ IsFiniteSet(Files(main))
<1>1. Files(main) \subseteq Paths
  BY DEF Files
<1> QED BY <1>1, PatchFlowAssumption, FS_Subset

-----------------------------------------------------------------------------
(***************************************************************************)
(* The inductive invariant                                                 *)
(***************************************************************************)
\* What the places of the loop say beyond TypeOK: there is an attempt left
\* before the verdict, and what a node reads has been written.
Placed ==
    /\ at \in {"list_files", "get_file_contents", "structured", "qa"}
           => attempt < MaxAttempts /\ touched = {}
    /\ at \in {"get_file_contents", "structured", "qa", "pr", "done"}
           => file_path \in Paths
    /\ at \in {"structured", "qa", "pr", "done"} => source \in Lengths
    /\ at \in {"qa", "pr", "done"} => answer \in Answers

\* The content a verdict was about, when the tree took the full file.
FullFileTested ==
    (at \in {"pr", "done"} /\ answer.length > 0 /\ tested.patched = "yes")
        => tested = [base |-> source, patched |-> "yes"]

IInv == TypeOK /\ Placed /\ FullFileTested /\ PushedIsTested /\ TestedInScope

LEMMA InitIInv == Init => IInv
<1> SUFFICES ASSUME Init PROVE IInv
  OBVIOUS
<1>1. TypeOK
  BY PatchFlowAssumption DEF Init, TypeOK, Trees
<1>2. Placed
  BY PatchFlowAssumption DEF Init, Placed
<1>3. FullFileTested /\ PushedIsTested /\ TestedInScope
  BY DEF Init, FullFileTested, PushedIsTested, TestedInScope
<1> QED BY <1>1, <1>2, <1>3 DEF IInv

LEMMA NamedPathsAreSequences ==
    ASSUME TypeOK
    PROVE  file_path \in Seq(STRING) /\ file_path # <<>>
BY PatchFlowAssumption DEF TypeOK

LEMMA ListFilesKeeps == ASSUME IInv, ListFiles PROVE IInv'
<1>1. file_path \in Seq(STRING) /\ main \in Trees
  BY NamedPathsAreSequences DEF IInv, TypeOK
<1>2. resolve_path(file_path, Files(main)) \in Paths \cup {None}
  BY <1>1, Listing, ResolvedIsAFile
<1>3. TypeOK'
  BY <1>2, PatchFlowAssumption DEF IInv, TypeOK, Placed, ListFiles, repo
<1>4. Placed'
  BY <1>2, PatchFlowAssumption DEF IInv, Placed, ListFiles, repo
<1>5. FullFileTested' /\ PushedIsTested' /\ TestedInScope'
  BY DEF IInv, Placed, ListFiles, FullFileTested, PushedIsTested, TestedInScope
<1> QED BY <1>3, <1>4, <1>5 DEF IInv

LEMMA GetFileContentsKeeps == ASSUME IInv, GetFileContents PROVE IInv'
<1>1. main[file_path] \in Lengths \cup {None}
  BY DEF IInv, TypeOK, Placed, GetFileContents, Trees
<1>2. TypeOK'
  BY <1>1 DEF IInv, TypeOK, Placed, GetFileContents, repo
<1>3. Placed'
  BY <1>1 DEF IInv, Placed, GetFileContents, repo
<1>4. FullFileTested' /\ PushedIsTested' /\ TestedInScope'
  BY DEF IInv, Placed, GetFileContents, FullFileTested, PushedIsTested, TestedInScope
<1> QED BY <1>2, <1>3, <1>4 DEF IInv

LEMMA StructuredKeeps ==
    ASSUME IInv, NEW a \in Answers, Structured(a)
    PROVE  IInv'
<1>1. TypeOK'
  BY DEF IInv, TypeOK, Placed, Structured, repo
<1>2. Placed'
  BY DEF IInv, Placed, Structured, repo
<1>3. FullFileTested' /\ PushedIsTested' /\ TestedInScope'
  BY DEF IInv, Placed, Structured, FullFileTested, PushedIsTested, TestedInScope
<1> QED BY <1>1, <1>2, <1>3 DEF IInv

LEMMA QaFailsKeeps == ASSUME IInv, QaFails PROVE IInv'
<1>1. TypeOK'
  BY PatchFlowAssumption DEF IInv, TypeOK, Placed, QaFails, repo
<1>2. Placed'
  BY PatchFlowAssumption DEF IInv, TypeOK, Placed, QaFails, repo
<1>3. FullFileTested' /\ PushedIsTested' /\ TestedInScope'
  BY DEF IInv, Placed, QaFails, FullFileTested, PushedIsTested, TestedInScope
<1> QED BY <1>1, <1>2, <1>3 DEF IInv

\* The content of the file in a tree that the diff was applied to.
LEMMA DiffedType ==
    ASSUME NEW tree \in Trees, file_path \in Paths
    PROVE  Diffed(tree) \in Contents \cup {None}
BY DEF Diffed, Trees, Contents

\* Which files of the tested tree may differ, and what it may hold as file_path.
LEMMA TestedTree ==
    ASSUME IInv, QaPasses
    PROVE  /\ tested' \in Contents \cup {None}
           /\ \E changed, fixture \in SUBSET Paths :
                 /\ touched' = changed \cup fixture /\ fixture \subseteq {Fixture}
                 /\ changed \subseteq IF answer.length = 0 THEN Targets ELSE {file_path}
           /\ (answer.length > 0 /\ tested'.patched = "yes")
                 => tested' = [base |-> source, patched |-> "yes"]
<1>1. /\ file_path \in Paths /\ source \in Lengths /\ answer \in Answers
      /\ checkout \in Trees /\ Fixture \in Paths
  BY PatchFlowAssumption DEF IInv, TypeOK, Placed, QaPasses
<1>2. answer.length \in Nat /\ Targets \subseteq Paths
  BY <1>1, PatchFlowAssumption DEF Targets, Answers
<1>3. ASSUME NEW content, NEW changed \in SUBSET Paths, Tests(content, changed)
      PROVE  /\ tested' = content
             /\ \E fixture \in SUBSET Paths :
                   touched' = changed \cup fixture /\ fixture \subseteq {Fixture}
  BY <1>1, <1>3 DEF Tests
<1>4. \A v \in {"yes", "partly", "no"} :
          /\ [base |-> source, patched |-> v] \in Contents
          /\ [base |-> checkout[file_path], patched |-> v] \in Contents
          /\ [base |-> None, patched |-> v] \in Contents
  BY <1>1 DEF Contents, Trees
<1>5. Diffed(checkout) \in Contents \cup {None}
  BY <1>1, DiffedType
<1>6. CASE TestsFullFile
  <2>1. answer.length # 0
    BY <1>2, <1>6 DEF TestsFullFile
  <2>2. CASE Tests([base |-> source, patched |-> "yes"], {file_path})
    BY <1>1, <1>3, <1>4, <2>1, <2>2
  <2>3. CASE Tests([base |-> None, patched |-> "no"], {})
    BY <1>3, <1>4, <2>1, <2>3
  <2> QED BY <1>6, <2>2, <2>3 DEF TestsFullFile
<1>7. CASE TestsDiff
  <2>1. answer.length = 0
    BY <1>7 DEF TestsDiff
  <2>2. PICK content \in Contents \cup {None}, changed \in SUBSET Targets :
            Tests(content, changed)
    <3>1. CASE Tests(Diffed(checkout), Targets)
      BY <1>5, <3>1
    <3>2. ASSUME NEW changed \in SUBSET Targets,
                 \/ Tests(Diffed(checkout), changed)
                 \/ Tests([base |-> checkout[file_path],
                           patched |-> IF file_path \in changed THEN "partly" ELSE "no"],
                          changed)
          PROVE  \E content \in Contents \cup {None} : Tests(content, changed)
      BY <1>4, <1>5, <3>2
    <3> QED BY <1>7, <3>1, <3>2 DEF TestsDiff
  <2> QED BY <1>2, <1>3, <2>1, <2>2
<1> QED BY <1>6, <1>7 DEF QaPasses

LEMMA QaPassesKeeps == ASSUME IInv, QaPasses PROVE IInv'
<1>1. /\ file_path \in Paths /\ source \in Lengths /\ answer \in Answers
      /\ attempt < MaxAttempts
  BY DEF IInv, Placed, QaPasses
<1>2. answer.length \in Nat /\ answer.edits \subseteq {file_path} \cup Conftests
  BY <1>1, PatchFlowAssumption DEF QaPasses, check_patch_scope, Answers
<1>3. UNCHANGED <<repo, file_path, source, answer, pushed>>
  BY DEF QaPasses
<1>4. PICK changed, fixture \in SUBSET Paths :
          /\ touched' = changed \cup fixture /\ fixture \subseteq {Fixture}
          /\ changed \subseteq IF answer.length = 0 THEN Targets ELSE {file_path}
  BY TestedTree
<1>5. TypeOK'
  <2>1. attempt' \in 0..MaxAttempts
    BY <1>1, PatchFlowAssumption DEF IInv, TypeOK, QaPasses
  <2>2. tested' \in Contents \cup {None}
    BY TestedTree
  <2>3. touched' \subseteq Paths
    BY <1>4
  <2> QED BY <1>1, <1>3, <2>1, <2>2, <2>3 DEF IInv, TypeOK, QaPasses, repo
<1>6. Placed'
  BY <1>1 DEF QaPasses, Placed
<1>7. FullFileTested'
  BY <1>3, TestedTree DEF FullFileTested
<1>8. PushedIsTested'
  BY DEF QaPasses, PushedIsTested
<1>9. TestedInScope'
  <2>1. answer # None
    BY <1>1, PatchFlowAssumption
  <2> QED BY <1>2, <1>3, <1>4, <2>1 DEF TestedInScope, Targets
<1> QED BY <1>5, <1>6, <1>7, <1>8, <1>9 DEF IInv

LEMMA PushPatchKeeps == ASSUME IInv, PushPatch PROVE IInv'
<1>1. /\ file_path \in Paths /\ source \in Lengths /\ answer \in Answers
      /\ main \in Trees
  BY DEF IInv, TypeOK, Placed, PushPatch
<1>2. pushed' \in Contents \cup {None}
  <2>1. [base |-> source, patched |-> "yes"] \in Contents
    BY <1>1 DEF Contents
  <2> QED BY <1>1, <2>1, DiffedType DEF IInv, TypeOK, PushPatch
<1>3. TypeOK'
  BY <1>1, <1>2 DEF IInv, TypeOK, PushPatch, repo
<1>4. Placed'
  BY <1>1 DEF PushPatch, Placed
<1>5. FullFileTested' /\ PushedIsTested'
  <2>1. at = "pr" /\ at' \in {"done", "failed"}
    BY DEF PushPatch
  <2>2. FullFileTested'
    BY <2>1 DEF IInv, FullFileTested, PushPatch
  <2>3. (at' = "done" /\ answer.length > 0)
            => pushed' = [base |-> source, patched |-> "yes"]
    BY <1>1 DEF PushPatch, Answers
  <2> QED BY <2>1, <2>2, <2>3 DEF PushPatch, FullFileTested, PushedIsTested
<1>6. TestedInScope'
  BY DEF IInv, PushPatch, TestedInScope
<1> QED BY <1>3, <1>4, <1>5, <1>6 DEF IInv

LEMMA EditMainKeeps ==
    ASSUME IInv, NEW p \in Paths, NEW version \in Lengths \cup {None},
           EditMain(p, version)
    PROVE  IInv'
<1>1. main' \in Trees
  BY DEF IInv, TypeOK, EditMain, Trees
<1>2. edits' \in 0..MaxEdits
  BY PatchFlowAssumption DEF IInv, TypeOK, EditMain
<1>3. TypeOK'
  BY <1>1, <1>2 DEF IInv, TypeOK, EditMain
<1>4. Placed'
  BY DEF IInv, Placed, EditMain
<1>5. FullFileTested' /\ PushedIsTested' /\ TestedInScope'
  BY DEF IInv, EditMain, FullFileTested, PushedIsTested, TestedInScope
<1> QED BY <1>3, <1>4, <1>5 DEF IInv

LEMMA StepKeepsIInv == IInv /\ [Next]_vars => IInv'
<1> SUFFICES ASSUME IInv, [Next]_vars PROVE IInv'
  OBVIOUS
<1>1. CASE ListFiles
  BY <1>1, ListFilesKeeps
<1>2. CASE GetFileContents
  BY <1>2, GetFileContentsKeeps
<1>3. ASSUME NEW a \in Answers, Structured(a) PROVE IInv'
  BY <1>3, StructuredKeeps
<1>4. CASE QaFails
  BY <1>4, QaFailsKeeps
<1>5. CASE QaPasses
  BY <1>5, QaPassesKeeps
<1>6. CASE PushPatch
  BY <1>6, PushPatchKeeps
<1>7. ASSUME NEW p \in Paths, NEW version \in Lengths \cup {None},
             EditMain(p, version)
      PROVE  IInv'
  BY <1>7, EditMainKeeps
<1>8. CASE UNCHANGED vars
  BY <1>8 DEF IInv, TypeOK, Placed, FullFileTested, PushedIsTested,
              TestedInScope, vars, repo
<1> QED BY <1>1, <1>2, <1>3, <1>4, <1>5, <1>6, <1>7, <1>8 DEF Next

THEOREM IInvInvariant == Spec => []IInv
BY InitIInv, StepKeepsIInv, PTL DEF Spec

-----------------------------------------------------------------------------
(***************************************************************************)
(* The properties of run patch_flow                                        *)
(***************************************************************************)
\* Every variable keeps its type; the file a patch is made for is one that a
\* listing named.
THEOREM TypeCorrect == Spec => []TypeOK
<1>1. IInv => TypeOK
  BY DEF IInv
<1> QED BY <1>1, IInvInvariant, PTL

\* A full file that got into the tested tree is the one that is pushed.
THEOREM PushedWasTested == Spec => []PushedIsTested
<1>1. IInv => PushedIsTested
  BY DEF IInv
<1> QED BY <1>1, IInvInvariant, PTL

\* A full file is tested in a tree that differs in it and the fixture alone; the
\* scope guard keeps that of a fallback diff to file_path, conftests, deletions
\* and the edits it cannot see.
THEOREM ScopeIsKept == Spec => []TestedInScope
<1>1. IInv => TestedInScope
  BY DEF IInv
<1> QED BY <1>1, IInvInvariant, PTL

\* Only ListFiles changes the path: resolve_path decides which file it is.
LEMMA OnlyListingMovesThePath ==
    ASSUME [Next]_vars
    PROVE  \/ UNCHANGED file_path
           \/ /\ file_path' = resolve_path(file_path, Files(main))
              /\ file_path' # None
<1>1. CASE ListFiles
  BY <1>1 DEF ListFiles
<1>2. CASE GetFileContents \/ QaFails \/ QaPasses \/ PushPatch
  BY <1>2 DEF GetFileContents, QaFails, QaPasses, PushPatch
<1>3. CASE \E a \in Answers : Structured(a)
  BY <1>3 DEF Structured
<1>4. CASE \E p \in Paths, version \in Lengths \cup {None} : EditMain(p, version)
  BY <1>4 DEF EditMain
<1>5. CASE UNCHANGED vars
  BY <1>5 DEF vars
<1> QED BY <1>1, <1>2, <1>3, <1>4, <1>5 DEF Next

\* The path moves to one of its own ends, or to the only file of its name.
THEOREM NoGuess == Spec => NeverGuesses
<1> DEFINE named == {f \in Files(main) : Base(f) = Base(file_path)}
           ends  == {Stripped(file_path, i) : i \in DOMAIN file_path}
           Move  == file_path' \in {file_path} \cup ends \/ named = {file_path'}
<1>1. ASSUME IInv, [Next]_vars PROVE Move
  <2>1. file_path \in Seq(STRING) /\ IsFiniteSet(Files(main))
    BY <1>1, NamedPathsAreSequences, Listing DEF IInv, TypeOK
  <2>2. CASE UNCHANGED file_path
    BY <2>2
  <2>3. CASE /\ file_path' = resolve_path(file_path, Files(main))
             /\ file_path' # None
    <3>1. CASE Hits(file_path, Files(main)) # {}
      <4>1. PICK i \in 1..Len(file_path) : file_path' = Stripped(file_path, i)
        BY <2>1, <2>3, <3>1, FirstHit
      <4>2. i \in DOMAIN file_path
        BY <2>1, LenProperties
      <4> QED BY <4>1, <4>2
    <3>2. CASE Hits(file_path, Files(main)) = {}
      BY <2>1, <2>3, <3>2, NoHit
    <3> QED BY <3>1, <3>2
  <2> QED BY <1>1, <2>2, <2>3, OnlyListingMovesThePath
<1>2. IInv /\ [Next]_vars => [Move]_vars
  BY <1>1
<1> QED BY <1>2, IInvInvariant, PTL DEF Spec, NeverGuesses

\* As long as the file of the last attempt is listed, a retry keeps to it.
THEOREM RetryStays == Spec => RetryKeepsFile
<1>1. ASSUME IInv, [Next]_vars, file_path \in Files(main)
      PROVE  file_path' = file_path
  <2>1. file_path \in Seq(STRING) /\ file_path # <<>>
    BY <1>1, NamedPathsAreSequences DEF IInv
  <2>2. resolve_path(file_path, Files(main)) = file_path
    BY <1>1, <2>1, FileIsKept
  <2> QED BY <1>1, <2>2, OnlyListingMovesThePath
<1>2. IInv /\ [Next]_vars
          => [(file_path \in Files(main)) => (file_path' = file_path)]_vars
  BY <1>1
<1> QED BY <1>2, IInvInvariant, PTL DEF Spec, RetryKeepsFile
=============================================================================
