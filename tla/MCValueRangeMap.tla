--------------------------- MODULE MCValueRangeMap ---------------------------
(* Three instructions, two of which share a slot of a two-slot table, and  *)
(* a chain of three blocks b2 -> b1 -> b0 in the dominator tree.           *)
EXTENDS ValueRangeMap, TLC

CONSTANTS i1, i2, i3, r1, r2, b0, b1, b2

MCInstrs == {i1, i2, i3}
MCRanges == {r1, r2}
MCBlocks == {b0, b1, b2}
MCDominator == (b0 :> NoBlock) @@ (b1 :> b0) @@ (b2 :> b1)
MCHashCode == (i1 :> 0) @@ (i2 :> 2) @@ (i3 :> 1)
MCK == 2
MCMaxAdds == 4
MCMaxAddsShort == 3
=============================================================================
