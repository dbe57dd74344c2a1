-------------------------- MODULE PersistentPTData --------------------------
(***************************************************************************)
(* Class PersistentDiffPTData: the points-to data of a solver as numbers   *)
(* of sets in a PointsToCache.  Whether a set has changed is decided by    *)
(* comparing numbers.                                                      *)
(***************************************************************************)
EXTENDS PointsToCache

CONSTANTS
    Key,    \* pointers
    Sources \* the sets unionPts is given by value

ASSUME PersistentPTDataAssumption == Sources \subseteq SUBSET Data

VARIABLES
    cache,
    ptsMap,      \* the number of the points-to set of each pointer
    revPtsMap,
    diffPtsMap,
    propaPtsMap,
    changed      \* what the last operation returned

maps == <<ptsMap, revPtsMap, diffPtsMap, propaPtsMap, changed>>
vars == <<cache, maps>>

Init ==
    /\ cache \in {EmptyCache(limit) : limit \in IdLimits}
    /\ ptsMap = [k \in Key |-> EmptyId]
    /\ revPtsMap = [d \in Data |-> {}]
    /\ diffPtsMap = [k \in Key |-> EmptyId]
    /\ propaPtsMap = [k \in Key |-> EmptyId]
    /\ changed = FALSE

(* A failed assertion is the end of the program.                           *)
Running == ~ cache.exhausted
Abort(c) == cache' = c /\ UNCHANGED maps

(* unionPtsFromId *)
UnionFromId(c, dst, src) ==
    LET u == Operate(c, "union", ptsMap[dst], src)
    IN  IF u.cache.exhausted THEN Abort(u.cache)
        ELSE /\ cache' = u.cache
             /\ changed' = (u.id # ptsMap[dst])
             /\ ptsMap' = [ptsMap EXCEPT ![dst] = u.id]
             /\ revPtsMap' = [d \in Data |-> IF changed' /\ d \in GetActualPts(c, src)
                                             THEN revPtsMap[d] \cup {dst} ELSE revPtsMap[d]]
             /\ UNCHANGED <<diffPtsMap, propaPtsMap>>

UnionData(k, S) ==
    LET e == EmplacePts(cache, S)
    IN  /\ Running
        /\ IF e.exhausted THEN Abort(e) ELSE UnionFromId(e, k, IdOf(e, S))

AddPts(k, d) == UnionData(k, {d})

UnionPts(dst, src) == Running /\ UnionFromId(cache, dst, ptsMap[src])

ClearPts(k, d) ==
    LET e == EmplacePts(cache, {d})
        r == Operate(e, "complement", ptsMap[k], IdOf(e, {d}))
    IN  /\ Running
        /\ IF e.exhausted THEN Abort(e) ELSE IF r.cache.exhausted THEN Abort(r.cache)
           ELSE /\ cache' = r.cache
                /\ ptsMap' = [ptsMap EXCEPT ![k] = r.id]
                /\ revPtsMap' = IF r.id # ptsMap[k] THEN [revPtsMap EXCEPT ![d] = @ \ {k}]
                                ELSE revPtsMap
                /\ UNCHANGED <<diffPtsMap, propaPtsMap, changed>>

(* Variant: the set is emptied before the reverse sets are gone through.   *)
ClearFullPtsFirst(k) ==
    /\ Running
    /\ ptsMap' = [ptsMap EXCEPT ![k] = EmptyId]
    /\ UNCHANGED <<cache, revPtsMap, diffPtsMap, propaPtsMap, changed>>

ClearFullPts(k) ==
    /\ Running
    /\ revPtsMap' = [d \in Data |-> IF d \in GetActualPts(cache, ptsMap[k])
                                    THEN revPtsMap[d] \ {k} ELSE revPtsMap[d]]
    /\ ptsMap' = [ptsMap EXCEPT ![k] = EmptyId]
    /\ UNCHANGED <<cache, diffPtsMap, propaPtsMap, changed>>

(* computeDiffPts of the set of the pointer itself, which is stored.       *)
ComputeDiffPts(k) ==
    LET r == Operate(cache, "complement", ptsMap[k], propaPtsMap[k])
    IN  /\ Running
        /\ IF r.cache.exhausted THEN Abort(r.cache)
           ELSE /\ cache' = r.cache
                /\ diffPtsMap' = [diffPtsMap EXCEPT ![k] = r.id]
                /\ propaPtsMap' = [propaPtsMap EXCEPT ![k] = ptsMap[k]]
                /\ changed' = (r.id # EmptyId)
                /\ UNCHANGED <<ptsMap, revPtsMap>>

(* updatePropaPtsMap *)
UpdatePropaPts(src, dst) ==
    LET r == Operate(cache, "intersection", propaPtsMap[dst], propaPtsMap[src])
    IN  /\ Running
        /\ IF r.cache.exhausted THEN Abort(r.cache)
           ELSE /\ cache' = r.cache
                /\ propaPtsMap' = [propaPtsMap EXCEPT ![dst] = r.id]
                /\ UNCHANGED <<ptsMap, revPtsMap, diffPtsMap, changed>>

ClearPropaPts(k) ==
    /\ Running
    /\ propaPtsMap' = [propaPtsMap EXCEPT ![k] = EmptyId]
    /\ UNCHANGED <<cache, ptsMap, revPtsMap, diffPtsMap, changed>>

Next ==
    \/ \E k \in Key, d \in Data : AddPts(k, d) \/ ClearPts(k, d)
    \/ \E k \in Key, S \in Sources : UnionData(k, S)
    \/ \E k, l \in Key : UnionPts(k, l) \/ UpdatePropaPts(k, l)
    \/ \E k \in Key : ClearFullPts(k) \/ ComputeDiffPts(k) \/ ClearPropaPts(k)

Spec == Init /\ [][Next]_vars

-----------------------------------------------------------------------------
(* The numbers in use are numbers of stored sets; getActualPts asserts it. *)
TypeOK ==
    /\ cache \in CacheType
    /\ Len(cache.idToPts) \in 1 .. cache.limit
    /\ cache.memo \subseteq Ops \X (Ids(cache) \X Ids(cache)) \X Ids(cache)
    /\ ptsMap \in [Key -> Ids(cache)]
    /\ diffPtsMap \in [Key -> Ids(cache)]
    /\ propaPtsMap \in [Key -> Ids(cache)]
    /\ revPtsMap \in [Data -> SUBSET Key]
    /\ changed \in BOOLEAN

(* A set has one number, and the empty set has number 0: comparing numbers *)
(* is comparing sets.                                                      *)
IdsExact(c) ==
    /\ GetActualPts(c, EmptyId) = {}
    /\ \A i, j \in Ids(c) : GetActualPts(c, i) = GetActualPts(c, j) => i = j
OneIdEach == IdsExact(cache)

(* What the caches of results hold is right, also what no operation has    *)
(* been performed for: it would be returned for ever.                      *)
IsRight(c, m) ==
    GetActualPts(c, m[3]) = Perform(m[1], GetActualPts(c, m[2][1]), GetActualPts(c, m[2][2]))
MemoRight == \A m \in cache.memo : IsRight(cache, m)

CacheExact == OneIdEach /\ MemoRight

(* The reverse sets, by which collapseField finds the pointers to rewrite, *)
(* are the reverse of the points-to sets.                                  *)
RevPtsExact ==
    \A k \in Key, d \in Data : k \in revPtsMap[d] <=> d \in GetActualPts(cache, ptsMap[k])

IInv == TypeOK /\ OneIdEach /\ MemoRight /\ RevPtsExact

(* A solver cannot tell the persistent data from the mutable one: the sets *)
(* and the values returned are the same, whatever is shared and remembered.*)
Sets(m) == [k \in Key |-> GetActualPts(cache, m[k])]

Mutable == INSTANCE DiffPTData WITH
    pts <- Sets(ptsMap), revPts <- revPtsMap, diff <- Sets(diffPtsMap),
    propa <- Sets(propaPtsMap)

ImplementsMutable == Mutable!Spec
=============================================================================
