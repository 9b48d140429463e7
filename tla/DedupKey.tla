------------------------------ MODULE DedupKey ------------------------------
(***************************************************************************)
(* The dedup key of a crash report (api/ratelimit.py): the service and the *)
(* message, with its case, addresses, UUIDs and white space normalized. A  *)
(* text is the sequence of its characters, each a string of length one,    *)
(* because what the patterns match depends on the characters around it.    *)
(* The digest has no collisions, so the key is the text that is hashed.    *)
(***************************************************************************)
EXTENDS Integers, Sequences

HexDigits == {"0", "1", "2", "3", "4", "5", "6", "7", "8", "9",
              "a", "b", "c", "d", "e", "f"}
Spaces    == {" ", "\t", "\n", "\f", "\r"}

LowerCase ==
    [A |-> "a", B |-> "b", C |-> "c", D |-> "d", E |-> "e", F |-> "f", G |-> "g",
     H |-> "h", I |-> "i", J |-> "j", K |-> "k", L |-> "l", M |-> "m", N |-> "n",
     O |-> "o", P |-> "p", Q |-> "q", R |-> "r", S |-> "s", T |-> "t", U |-> "u",
     V |-> "v", W |-> "w", X |-> "x", Y |-> "y", Z |-> "z"]

Lower(s) == [i \in DOMAIN s |-> IF s[i] \in DOMAIN LowerCase THEN LowerCase[s[i]] ELSE s[i]]

(***************************************************************************)
(* The patterns. Each is a function that gives, for a place of a text, the *)
(* last place of the longest match that begins there, or 0.                *)
(***************************************************************************)
\* The last of the characters of C that follow each other in s from i on.
RunEnd(s, i, C) ==
    CHOOSE j \in i..Len(s) :
        /\ \A k \in i..j : s[k] \in C
        /\ j < Len(s) => s[j + 1] \notin C

Addresses(s) ==
    [i \in DOMAIN s |->
        IF i + 2 <= Len(s) /\ s[i] = "0" /\ s[i + 1] = "x" /\ s[i + 2] \in HexDigits
        THEN RunEnd(s, i + 2, HexDigits) ELSE 0]

Uuids(s) ==
    [i \in DOMAIN s |->
        IF i + 35 <= Len(s) /\ \A k \in 0..35 :
               IF k \in {8, 13, 18, 23} THEN s[i + k] = "-" ELSE s[i + k] \in HexDigits
        THEN i + 35 ELSE 0]

Blanks(s) == [i \in DOMAIN s |-> IF s[i] \in Spaces THEN RunEnd(s, i, Spaces) ELSE 0]

\* re.sub: the matches from left to right, none of which overlaps another.
Sub(s, match, mark) ==
    LET from[i \in 1..(Len(s) + 1)] ==
            IF i > Len(s) THEN <<>>
            ELSE IF match[i] = 0 THEN <<s[i]>> \o from[i + 1]
            ELSE mark \o from[match[i] + 1]
    IN  from[1]

SubAddresses(s) == Sub(s, Addresses(s), <<"0", "x", "A", "D", "D", "R">>)
SubUuids(s)     == Sub(s, Uuids(s), <<"U", "U", "I", "D">>)
SubBlanks(s)    == Sub(s, Blanks(s), <<" ">>)

\* Of a text whose blanks stand alone.
Strip(s) ==
    LET first == IF s # <<>> /\ Head(s) = " " THEN 2 ELSE 1
        last  == IF s # <<>> /\ s[Len(s)] = " " THEN Len(s) - 1 ELSE Len(s)
    IN  SubSeq(s, first, last)

Normalized(s) == Strip(SubBlanks(SubUuids(SubAddresses(s))))

\* Seeded defects: the message is lowered last; the service is left out.
dedup_key_LowersLast(service, message) ==
    service \o <<":">> \o Lower(Normalized(message))

dedup_key_NoService(service, message) ==
    <<":">> \o Normalized(Lower(message))

dedup_key(service, message) ==
    service \o <<":">> \o Normalized(Lower(message))

-----------------------------------------------------------------------------
(***************************************************************************)
(* The reference: what makes two reports reports of one crash. A message   *)
(* is written from pieces, of which only the author of its log statement   *)
(* knows the kinds: words, addresses, UUIDs and the gaps between them.     *)
(***************************************************************************)
Kinds  == {"word", "address", "uuid", "gap"}
Pieces == [kind : Kinds, text : Seq(STRING)]

Volatile(piece) == piece.kind \in {"address", "uuid"}

Text(writing) ==
    LET upTo[n \in 0..Len(writing)] ==
            IF n = 0 THEN <<>> ELSE upTo[n - 1] \o writing[n].text
    IN  upTo[Len(writing)]

\* A gap at an end of a message does not count.
Trimmed(writing) ==
    LET first == IF writing # <<>> /\ Head(writing).kind = "gap" THEN 2 ELSE 1
        last  == IF writing # <<>> /\ writing[Len(writing)].kind = "gap"
                 THEN Len(writing) - 1 ELSE Len(writing)
    IN  SubSeq(writing, first, last)

SamePiece(p, q) ==
    /\ p.kind = q.kind
    /\ p.kind = "word" => Lower(p.text) = Lower(q.text)

\* The same words with the same gaps, whatever their case, the addresses and
\* ids between them and the width of the gaps.
SameMessage(m, n) ==
    LET p == Trimmed(m)
        q == Trimmed(n)
    IN  /\ Len(p) = Len(q)
        /\ \A i \in DOMAIN p : SamePiece(p[i], q[i])

SameCrash(p, q) == p.service = q.service /\ SameMessage(p.writing, q.writing)

\* Two pieces whose border can be seen in the text: an address or a UUID does
\* not run into the characters next to it.
Bordered(p, q) ==
    /\ p.kind # q.kind
    /\ ~(Volatile(p) /\ Volatile(q))
    /\ p.kind = "word" /\ Volatile(q) =>
           Lower(p.text)[Len(p.text)] \notin HexDigits \cup {"x", "-"}
    /\ Volatile(p) /\ q.kind = "word" => Lower(q.text)[1] \notin HexDigits

\* The messages whose pieces can be told from their text. In others an
\* address swallows hex digits that follow it, those of another one included.
Delimited(writing) ==
    \A i \in 1..(Len(writing) - 1) : Bordered(writing[i], writing[i + 1])
=============================================================================
