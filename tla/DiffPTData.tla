----------------------------- MODULE DiffPTData -----------------------------
(***************************************************************************)
(* What a solver sees of the points-to data of its pointers: their sets,   *)
(* the reverse sets, the part that is to be propagated and the part that   *)
(* has been.  This is class MutableDiffPTData, which stores just that.     *)
(***************************************************************************)
CONSTANTS
    Key, \* pointers
    Data \* objects

VARIABLES
    pts,    \* the points-to sets
    revPts, \* the pointers each object is in the set of
    diff,   \* what the last computeDiffPts has found new
    propa,  \* what had been seen by then
    changed \* what the last operation returned

vars == <<pts, revPts, diff, propa, changed>>

Init ==
    /\ pts = [k \in Key |-> {}]
    /\ revPts = [d \in Data |-> {}]
    /\ diff = [k \in Key |-> {}]
    /\ propa = [k \in Key |-> {}]
    /\ changed = FALSE

AddRevPts(S, k) == [d \in Data |-> IF d \in S THEN revPts[d] \cup {k} ELSE revPts[d]]
ClearRevPts(S, k) == [d \in Data |-> IF d \in S THEN revPts[d] \ {k} ELSE revPts[d]]

UnionData(k, S) ==
    /\ pts' = [pts EXCEPT ![k] = @ \cup S]
    /\ revPts' = AddRevPts(S, k)
    /\ changed' = ~ (S \subseteq pts[k])
    /\ UNCHANGED <<diff, propa>>

AddPts(k, d) == UnionData(k, {d})
UnionPts(dst, src) == UnionData(dst, pts[src])

ClearPts(k, d) ==
    /\ pts' = [pts EXCEPT ![k] = @ \ {d}]
    /\ revPts' = ClearRevPts({d}, k)
    /\ UNCHANGED <<diff, propa, changed>>

ClearFullPts(k) ==
    /\ pts' = [pts EXCEPT ![k] = {}]
    /\ revPts' = ClearRevPts(pts[k], k)
    /\ UNCHANGED <<diff, propa, changed>>

ComputeDiffPts(k) ==
    /\ diff' = [diff EXCEPT ![k] = pts[k] \ propa[k]]
    /\ propa' = [propa EXCEPT ![k] = pts[k]]
    /\ changed' = (pts[k] \ propa[k] # {})
    /\ UNCHANGED <<pts, revPts>>

UpdatePropaPts(src, dst) ==
    /\ propa' = [propa EXCEPT ![dst] = @ \cap propa[src]]
    /\ UNCHANGED <<pts, revPts, diff, changed>>

ClearPropaPts(k) ==
    /\ propa' = [propa EXCEPT ![k] = {}]
    /\ UNCHANGED <<pts, revPts, diff, changed>>

Next ==
    \/ \E k \in Key, d \in Data : AddPts(k, d) \/ ClearPts(k, d)
    \/ \E k \in Key, S \in SUBSET Data : UnionData(k, S)
    \/ \E k, l \in Key : UnionPts(k, l) \/ UpdatePropaPts(k, l)
    \/ \E k \in Key : ClearFullPts(k) \/ ComputeDiffPts(k) \/ ClearPropaPts(k)

Spec == Init /\ [][Next]_vars
=============================================================================
