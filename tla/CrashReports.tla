---------------------------- MODULE CrashReports ----------------------------
(***************************************************************************)
(* Admission of crash reports: the keys that its requests claim are the    *)
(* ones dedup_key computes from their service and message.                 *)
(***************************************************************************)
EXTENDS Admission, DedupKey

CONSTANTS
    ReportOf,   \* the service and the message each request reports
    Messages    \* the messages whose keys are compared, as they are written

ASSUME ReportsAssumption ==
    /\ \A r \in Requests : ReportOf[r].writing \in Seq(Pieces)
    /\ KeyOf = [r \in Requests |->
                   dedup_key(ReportOf[r].service, Text(ReportOf[r].writing))]
    /\ Messages \subseteq Seq(Pieces)

\* The messages and their keys, as reports of one service.
Keyed == {[writing |-> m, key |-> dedup_key(<<"payments">>, Text(m))] : m \in Messages}

KeysFit == \A p, q \in Keyed : p.key = q.key <=> SameMessage(p.writing, q.writing)

\* ratelimit.py, dedup_key, against the reference: two messages have the same
\* key exactly if they report the same crash. The keys are at issue as soon as
\* one of them has let a request through.
KeysTellCrashesApart == (\E r \in Requests : task[r] # "none") => KeysFit

\* The other requests that report the same crash.
Repeats == [r \in Requests |-> {q \in Requests \ {r} : SameCrash(ReportOf[r], ReportOf[q])}]

\* ratelimit.py, claim_incident: a crash that is reported again with another
\* address, case or spacing gets no second pipeline, and no crash of its own,
\* or of another service, is taken for a duplicate, in whatever order the
\* requests' steps interleave.
DedupIsByCrash ==
    \A r \in Requests :
        /\ task[r] # "none" => \A q \in Repeats[r] : task[q] = "none"
        /\ reply[r] = "deduplicated" => Repeats[r] # {}

(***************************************************************************)
(* What a client of the API and of the pipelines can tell, see Intake. To  *)
(* Intake a repeated report is one with the same key, whatever it reports. *)
(***************************************************************************)
SameKey  == [r \in Requests |-> {q \in Requests \ {r} : KeyOf[q] = KeyOf[r]}]
Asked    == {r \in Requests : pc[r] # "acquire_slot"}
Accepted == {r \in Requests : task[r] # "none"}

Answers ==
    [r \in Requests |->
        [status   |-> reply[r],
         original |-> IF reply[r] = "deduplicated" THEN ids[r] ELSE None]]

Promise ==
    INSTANCE Intake WITH
        Repeats <- SameKey,
        asked <- Asked, accepted <- Accepted, living <- Live, answer <- Answers

\* main.py, ingest, and run_graph's release of the slot: the steps of requests
\* and workers, in whatever order, add up to what Intake promises of reports
\* with the same dedup key.
ImplementsIntake == Promise!Spec
=============================================================================
