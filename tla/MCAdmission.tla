----------------------------- MODULE MCAdmission -----------------------------
(***************************************************************************)
(* Instances of Admission for TLC. The requests are crash reports, and     *)
(* their keys the ones dedup_key computes: r1 and r2 report the same       *)
(* crash, with another address, case and spacing, r3 has another message,  *)
(* r4 another service.                                                     *)
(***************************************************************************)
EXTENDS CrashReports, TLC

CONSTANTS r1, r2, r3, r4

MCRequests3 == {r1, r2, r3}
MCRequests4 == {r1, r2, r3, r4}

Piece(k, t)  == [kind |-> k, text |-> t]
Report(s, m) == [service |-> <<s>>, writing |-> m]

Hex4 == <<"0", "a", "1", "f">>
HEX4 == <<"9", "B", "2", "F">>
Id(h) == h \o h \o <<"-">> \o h \o <<"-">> \o h \o <<"-">> \o h \o <<"-">> \o h \o h \o h

Null    == Piece("word", <<"N", "u", "l", "l">>)
null    == Piece("word", <<"n", "u", "l", "l">>)
Blank   == Piece("gap", <<" ">>)
NewLine == Piece("gap", <<"\t", "\n">>)
Here    == Piece("address", <<"0", "x", "1", "f">>)
There   == Piece("address", <<"0", "X", "A", "1", "0">>)

MCReportOf ==
    r1 :> Report("payments", <<Null, Blank, Here>>)
    @@ r2 :> Report("payments", <<Blank, null, NewLine, There>>)
    @@ r3 :> Report("payments", <<Null, Here>>)
    @@ r4 :> Report("checkout", <<Null, Blank, Here>>)

\* Under names of their own, so that TLC evaluates them once.
KeyTable ==
    [r \in Requests |-> dedup_key(MCReportOf[r].service, Text(MCReportOf[r].writing))]
MCKeyOf  == KeyTable
KeySet   == {KeyTable[r] : r \in Requests}
MCKeys   == KeySet

\* Words that look like the beginning, the end or the mark of an address are
\* among the pieces; none of them has an address or a UUID in it.
Sample ==
    {Null, null, Blank, NewLine, Here, There,
     Piece("uuid", Id(Hex4)), Piece("uuid", Id(HEX4)),
     Piece("word", <<"0", "x", "z">>), Piece("word", <<"-", "A">>),
     Piece("word", <<"0", "x">>), Piece("word", <<"a", "d", "d", "r">>)}

MCMessages == {m \in UNION {[1..n -> Sample] : n \in 0..3} : Delimited(m)}
=============================================================================
