----------------------------- MODULE MCPipeline -----------------------------
(***************************************************************************)
(* Instances of Pipeline for TLC: r1 and r2 report the same crash, r3 has  *)
(* its own.                                                                *)
(***************************************************************************)
EXTENDS Pipeline, TLC

CONSTANTS r1, r2, r3, k1, k2, s1, s2

MCRequests2 == {r1, r2}
MCRequests3 == {r1, r2, r3}
MCKeys      == {k1, k2}
MCKeyOf2    == r1 :> k1 @@ r2 :> k1
MCKeyOf3    == r1 :> k1 @@ r2 :> k1 @@ r3 :> k2
MCSeeds     == {s1, s2}
MCOneSeed   == {s1}
=============================================================================
