---------------------------- MODULE MCSpanRegistry ----------------------------
(* The main goroutine and two more, and one or two go statements.              *)
EXTENDS SpanRegistry, TLC

CONSTANTS g2, g3, pc1, pc2

MCGoroutines == {Main, g2, g3}
MCPCs == {pc1, pc2}
MCOnePC == {pc1}
MCSymmetry == Permutations({g2, g3}) \cup Permutations(PCs)
===============================================================================
