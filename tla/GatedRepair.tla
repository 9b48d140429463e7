----------------------------- MODULE GatedRepair -----------------------------
(***************************************************************************)
(* What the repair of one incident promises, whatever fails on the way:    *)
(* runs make a bounded series of attempts that stops at the first success; *)
(* only patches that passed are published on the branch or proposed in a   *)
(* PR; there is no PR without a branch, and the incident is not resolved   *)
(* before a PR was proposed. A run may start over at any time.             *)
(***************************************************************************)
EXTENDS Integers

CONSTANTS
    Patches,
    None,
    Base,        \* the content of a branch nothing was pushed to
    MaxAttempts  \* attempts of one run

VARIABLES
    tried,     \* the attempts the present run has made: 0, 1, ...
    won,       \* the last of them passed
    approved,  \* every patch that ever passed
    content,   \* of the incident's branch
    proposal,  \* what the open PR proposes
    proposed,  \* a PR was opened at some time
    resolved

vars == <<tried, won, approved, content, proposal, proposed, resolved>>

Init ==
    /\ tried = {}
    /\ won = FALSE
    /\ approved = {}
    /\ content = None
    /\ proposal = None
    /\ proposed = FALSE
    /\ resolved = FALSE

Attempt(n, p, passed) ==
    /\ ~won
    /\ tried = 0..(n - 1)
    /\ tried' = 0..n
    /\ won' = passed
    /\ approved' = IF passed THEN approved \cup {p} ELSE approved
    /\ UNCHANGED <<content, proposal, proposed, resolved>>

StartOver ==
    /\ tried' = {}
    /\ won' = FALSE
    /\ UNCHANGED <<approved, content, proposal, proposed, resolved>>

CutBranch ==
    /\ content = None
    /\ content' = Base
    /\ UNCHANGED <<tried, won, approved, proposal, proposed, resolved>>

Publish(p) ==
    /\ p \in approved
    /\ content # None
    /\ content' = p
    /\ UNCHANGED <<tried, won, approved, proposal, proposed, resolved>>

Propose(p) ==
    /\ p \in approved
    /\ content # None
    /\ proposal = None
    /\ proposal' = p
    /\ proposed' = TRUE
    /\ UNCHANGED <<tried, won, approved, content, resolved>>

Resolve ==
    /\ proposed
    /\ resolved' = TRUE
    /\ UNCHANGED <<tried, won, approved, content, proposal, proposed>>

\* A human merges or closes the PR, and may delete its branch.
Withdraw ==
    /\ proposal # None
    /\ proposal' = None
    /\ content' \in {content, None}
    /\ UNCHANGED <<tried, won, approved, proposed, resolved>>

Next ==
    \/ \E n \in 0..(MaxAttempts - 1), p \in Patches, passed \in BOOLEAN :
         Attempt(n, p, passed)
    \/ StartOver
    \/ CutBranch
    \/ \E p \in Patches : Publish(p) \/ Propose(p)
    \/ Resolve
    \/ Withdraw

Spec == Init /\ [][Next]_vars
=============================================================================
