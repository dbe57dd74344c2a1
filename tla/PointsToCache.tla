---------------------------- MODULE PointsToCache ----------------------------
(***************************************************************************)
(* Class PersistentPointsToCache: every points-to set is stored once and   *)
(* known by its number, and the results of unions, complements and         *)
(* intersections are kept under the numbers of the operands.  Performing   *)
(* one operation enters results of others that have not been asked for.    *)
(*                                                                         *)
(* The operators map a cache to the cache an operation leaves behind.  The *)
(* numbers count from 0 and are places in idToPts; ptsToId, which always   *)
(* changes with it, is its inverse and is not kept a second time.          *)
(***************************************************************************)
EXTENDS Integers, Sequences

CONSTANTS
    Data,    \* the elements of points-to sets
    IdLimits \* numbers of values type PointsToID may have

ASSUME PointsToCacheAssumption == IdLimits \subseteq Nat \ {0}

Ops == {"union", "complement", "intersection"}
EmptyId == 0

(* exhausted: the assertion of newPointsToId has failed. *)
EmptyCache(limit) ==
    [idToPts |-> <<{}>>, memo |-> {}, limit |-> limit, exhausted |-> FALSE]

CacheType ==
    [idToPts : Seq(SUBSET Data), memo : SUBSET (Ops \X (Nat \X Nat) \X Nat),
     limit : IdLimits, exhausted : BOOLEAN]

Ids(c) == 0 .. (Len(c.idToPts) - 1)
GetActualPts(c, i) == c.idToPts[i + 1]
IsStored(c, S) == \E i \in Ids(c) : GetActualPts(c, i) = S
IdOf(c, S) == CHOOSE i \in Ids(c) : GetActualPts(c, i) = S

EmplacePts(c, S) ==
    IF IsStored(c, S) THEN c
    ELSE IF Len(c.idToPts) = c.limit THEN [c EXCEPT !.exhausted = TRUE]
    ELSE [c EXCEPT !.idToPts = Append(@, S)]

-----------------------------------------------------------------------------
(* The three OpCaches: memo has <<operation, operands, result>>.           *)
MinMax(i, j) == IF j < i THEN <<j, i>> ELSE <<i, j>>

(* Variant: the operands of a complement are ordered as well.              *)
OperandsSorted(op, i, j) == MinMax(i, j)

Operands(op, i, j) == IF op = "complement" THEN <<i, j>> ELSE MinMax(i, j)

Perform(op, S, T) ==
    CASE op = "union" -> S \cup T
      [] op = "complement" -> S \ T
      [] op = "intersection" -> S \cap T

Found(c, op, ij) == {m \in c.memo : m[1] = op /\ m[2] = ij}

Remember(c, new) ==
    [c EXCEPT !.memo = {m \in @ : \A n \in new : <<n[1], n[2]>> # <<m[1], m[2]>>} \cup new]

(* Operands that need no lookup, and what the operation is on them.        *)
IsPropertyCase(i, j) == i = j \/ i = EmptyId \/ j = EmptyId

PropertyCase(op, i, j) ==
    CASE op = "union" -> IF i = EmptyId THEN j ELSE i
      [] op = "complement" -> IF i = j THEN EmptyId ELSE i
      [] op = "intersection" -> IF i = j THEN i ELSE EmptyId

(* What is entered in advance when an operation on i and j has given r.    *)
(* x U y = z, so x U z = z and y U z = z.                                  *)
PreemptiveUnion(i, j, r) == {<<"union", MinMax(x, r), r>> : x \in {i, j} \ {r}}

(* x - y = z, so z and y have nothing in common, z is part of x, and       *)
(* taking y from z changes nothing.                                        *)
PreemptiveComplement(i, j, r) ==
    {<<"intersection", MinMax(r, j), EmptyId>>, <<"intersection", MinMax(r, i), r>>,
     <<"complement", <<r, j>>, r>>}

(* Variant: the intersection is entered as the union.                      *)
PreemptiveIntersectionUnion(i, j, r) ==
    UNION {{<<"intersection", MinMax(r, x), r>>, <<"union", MinMax(x, r), r>>} :
              x \in {i, j} \ {r}}

(* The intersection is part of x and of y.                                 *)
PreemptiveIntersection(i, j, r) ==
    UNION {{<<"intersection", MinMax(r, x), r>>, <<"union", MinMax(x, r), x>>} :
              x \in {i, j} \ {r}}

Preemptive(op, i, j, r) ==
    CASE op = "union" -> PreemptiveUnion(i, j, r)
      [] op = "complement" /\ r # EmptyId -> PreemptiveComplement(i, j, r)
      [] op = "intersection" /\ r # EmptyId -> PreemptiveIntersection(i, j, r)
      [] OTHER -> {}

(* opPts for operands that have not been found, and what follows it.       *)
Performed(c, op, i, j) ==
    LET result == Perform(op, GetActualPts(c, i), GetActualPts(c, j))
        e == EmplacePts(c, result)
        r == IdOf(e, result)
    IN  IF e.exhausted THEN [cache |-> e, id |-> EmptyId]
        ELSE [cache |-> Remember(Remember(e, {<<op, Operands(op, i, j), r>>}),
                                 Preemptive(op, i, j, r)),
              id |-> r]

(* unionPts, complementPts and intersectPts: the cache and the result.     *)
Operate(c, op, i, j) ==
    IF IsPropertyCase(i, j) THEN [cache |-> c, id |-> PropertyCase(op, i, j)]
    ELSE IF Found(c, op, Operands(op, i, j)) # {}
         THEN [cache |-> c, id |-> (CHOOSE m \in Found(c, op, Operands(op, i, j)) : TRUE)[3]]
    ELSE Performed(c, op, i, j)
=============================================================================
