------------------------------- MODULE Intake -------------------------------
(***************************************************************************)
(* What POST /ingest promises while Redis, broker and processes work: one  *)
(* pipeline for a crash, however often it is reported, no more of them at  *)
(* a time than the cap, and an answer that says what happened. A request   *)
(* is refused only if the others may fill the slots, counts as a duplicate *)
(* only of another report, and is given the ids of a pipeline that exists; *)
(* only a request with a pipeline is told so.                              *)
(***************************************************************************)
EXTENDS Integers, FiniteSets

CONSTANTS
    Requests,
    Repeats,    \* for each request, the other ones taken to report its crash
    MaxActive,  \* pipelines at a time
    None        \* no ids

VARIABLES
    asked,     \* the requests that were made
    accepted,  \* ... that got a pipeline
    living,    \* ... whose pipeline is not over
    answer     \* what each was answered, and the ids of the original it was given

vars == <<asked, accepted, living, answer>>

Answered(status, original) == [status |-> status, original |-> original]

Waiting == Answered("none", None)

Init ==
    /\ asked = {}
    /\ accepted = {}
    /\ living = {}
    /\ answer = [r \in Requests |-> Waiting]

Ask(r) ==
    /\ r \notin asked
    /\ asked' = asked \cup {r}
    /\ UNCHANGED <<accepted, living, answer>>

Accept(r) ==
    /\ r \in asked \ accepted
    /\ answer[r] = Waiting
    /\ Repeats[r] \cap accepted = {}
    /\ Cardinality(living) < MaxActive
    /\ accepted' = accepted \cup {r}
    /\ living' = living \cup {r}
    /\ UNCHANGED <<asked, answer>>

Finish(r) ==
    /\ r \in living
    /\ living' = living \ {r}
    /\ UNCHANGED <<asked, accepted, answer>>

Reply(r, a) ==
    /\ r \in asked
    /\ answer[r] = Waiting
    /\ answer' = [answer EXCEPT ![r] = a]
    /\ UNCHANGED <<asked, accepted, living>>

Queue(r) ==
    /\ r \in accepted
    /\ Reply(r, Answered("queued", None))

Deduplicate(r, original) ==
    /\ r \notin accepted
    /\ Repeats[r] \cap asked # {}
    /\ original \in (Repeats[r] \cap accepted) \cup {None}
    /\ Reply(r, Answered("deduplicated", original))

Shed(r) ==
    /\ r \notin accepted
    /\ Cardinality(asked \ {r}) >= MaxActive
    /\ Reply(r, Answered("shed", None))

Fail(r) ==
    /\ r \notin accepted
    /\ Reply(r, Answered("error", None))

Next ==
    \E r \in Requests :
        \/ Ask(r) \/ Accept(r) \/ Finish(r) \/ Queue(r) \/ Shed(r) \/ Fail(r)
        \/ \E original \in Requests \cup {None} : Deduplicate(r, original)

Spec == Init /\ [][Next]_vars
=============================================================================
