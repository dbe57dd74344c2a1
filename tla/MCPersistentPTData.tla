------------------------- MODULE MCPersistentPTData -------------------------
(* Two pointers to two objects. *)
EXTENDS PersistentPTData, TLC

CONSTANTS p, q, a, b

MCKey == {p, q}
MCData == {a, b}
MCSources == {{a, b}}

Sym == Permutations(MCKey) \cup Permutations(MCData)

(* No operation reads the difference sets or what the last one returned,   *)
(* so states that differ in them alone go on alike.                        *)
ReadState == <<cache, ptsMap, revPtsMap, propaPtsMap>>
=============================================================================
