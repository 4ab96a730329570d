----------------------------- MODULE MCScanLists -----------------------------
(* Nodes are alike.                                                        *)
EXTENDS ScanLists, TLC

Memory == Permutations(Nodes)
=============================================================================
