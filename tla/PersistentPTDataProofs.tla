----------------------- MODULE PersistentPTDataProofs -----------------------
(***************************************************************************)
(* Proofs about PersistentPTData: the caches are right for every set of    *)
(* objects and every sequence of operations, and a solver cannot tell the  *)
(* numbers from the sets.                                                  *)
(***************************************************************************)
EXTENDS PersistentPTData, TLAPS

(* A cache in order, and one that has grown out of another.                *)
CacheOK(c) ==
    /\ c \in CacheType
    /\ Len(c.idToPts) \in 1 .. c.limit
    /\ c.memo \subseteq Ops \X (Ids(c) \X Ids(c)) \X Ids(c)
    /\ IdsExact(c)
    /\ \A m \in c.memo : IsRight(c, m)

Grown(c, e) ==
    /\ Ids(c) \subseteq Ids(e)
    /\ \A i \in Ids(c) : GetActualPts(e, i) = GetActualPts(c, i)

LEMMA CacheIds ==
    ASSUME NEW c, CacheOK(c)
    PROVE  /\ EmptyId \in Ids(c)
           /\ Ids(c) \subseteq Nat
           /\ \A i \in Ids(c) : GetActualPts(c, i) \in SUBSET Data
           /\ Len(c.idToPts) \in Nat
BY PointsToCacheAssumption DEF CacheOK, CacheType, Ids, EmptyId, GetActualPts

LEMMA StoredId ==
    ASSUME NEW c, NEW S, IsStored(c, S)
    PROVE  IdOf(c, S) \in Ids(c) /\ GetActualPts(c, IdOf(c, S)) = S
BY DEF IsStored, IdOf

(* The places of an entry of the caches of results.                        *)
LEMMA Entries ==
    ASSUME NEW A, NEW m \in Ops \X (A \X A) \X A
    PROVE  /\ m[1] \in Ops /\ m[2][1] \in A /\ m[2][2] \in A /\ m[3] \in A
           /\ m[2] = <<m[2][1], m[2][2]>>
           /\ m = <<m[1], <<m[2][1], m[2][2]>>, m[3]>>
OBVIOUS

-----------------------------------------------------------------------------
(* emplacePts stores a set once.                                           *)
LEMMA EmplaceOK ==
    ASSUME NEW c, CacheOK(c), ~ c.exhausted, NEW S \in SUBSET Data
    PROVE  /\ CacheOK(EmplacePts(c, S))
           /\ Grown(c, EmplacePts(c, S))
           /\ EmplacePts(c, S).memo = c.memo
           /\ ~ EmplacePts(c, S).exhausted => IsStored(EmplacePts(c, S), S)
<1> DEFINE e == EmplacePts(c, S)
<1>1. CASE IsStored(c, S)
  BY <1>1 DEF EmplacePts, Grown
<1>2. CASE ~ IsStored(c, S) /\ Len(c.idToPts) = c.limit
  <2>1. /\ e = [c EXCEPT !.exhausted = TRUE]
        /\ e \in CacheType /\ e.exhausted
        /\ e.idToPts = c.idToPts /\ e.memo = c.memo /\ e.limit = c.limit
    BY <1>2 DEF EmplacePts, CacheOK, CacheType
  <2>2. Ids(e) = Ids(c) /\ \A i : GetActualPts(e, i) = GetActualPts(c, i)
    BY <2>1 DEF Ids, GetActualPts
  <2>3. CacheOK(e)
    BY <2>1, <2>2 DEF CacheOK, IdsExact, IsRight
  <2> QED BY <2>1, <2>2, <2>3 DEF Grown
<1>3. CASE ~ IsStored(c, S) /\ Len(c.idToPts) # c.limit
  <2> DEFINE n == Len(c.idToPts)
  <2>1. /\ c.idToPts \in Seq(SUBSET Data) /\ n \in Nat /\ n >= 1
        /\ c.limit \in Nat /\ n < c.limit
    BY <1>3, PointsToCacheAssumption DEF CacheOK, CacheType
  <2>2. /\ e.idToPts = Append(c.idToPts, S)
        /\ e.memo = c.memo /\ e.limit = c.limit /\ ~ e.exhausted
        /\ e \in CacheType
    <3>1. e = [c EXCEPT !.idToPts = Append(c.idToPts, S)]
      BY <1>3 DEF EmplacePts
    <3>2. Append(c.idToPts, S) \in Seq(SUBSET Data)
      BY <2>1
    <3>3. c \in CacheType
      BY DEF CacheOK
    <3> HIDE DEF e, n
    <3> QED BY <3>1, <3>2, <3>3 DEF CacheType
  <2>3. Len(e.idToPts) = n + 1 /\ Ids(c) = 0 .. (n - 1) /\ Ids(e) = 0 .. n
    BY <2>1, <2>2 DEF Ids
  <2>4. /\ \A i \in Ids(c) : GetActualPts(e, i) = GetActualPts(c, i)
        /\ GetActualPts(e, n) = S
    BY <2>1, <2>2, <2>3 DEF GetActualPts
  <2>5. Grown(c, e)
    BY <2>1, <2>3, <2>4 DEF Grown
  <2>6. IsStored(e, S)
    BY <2>1, <2>3, <2>4 DEF IsStored
  <2>7. \A i \in Ids(c) : GetActualPts(c, i) # S
    BY <1>3 DEF IsStored
  <2>8. IdsExact(e)
    <3>1. EmptyId \in Ids(c)
      BY <2>1, <2>3 DEF EmptyId
    <3>2. \A i \in Ids(e) : i \in Ids(c) \/ i = n
      BY <2>1, <2>3
    <3> QED BY <2>4, <2>7, <3>1, <3>2 DEF IdsExact, CacheOK
  <2>9. c.memo \subseteq Ops \X (Ids(c) \X Ids(c)) \X Ids(c)
    BY DEF CacheOK
  <2>10. \A m \in e.memo : m \in Ops \X (Ids(e) \X Ids(e)) \X Ids(e) /\ IsRight(e, m)
    <3> SUFFICES ASSUME NEW m \in c.memo
                 PROVE  m \in Ops \X (Ids(e) \X Ids(e)) \X Ids(e) /\ IsRight(e, m)
      BY <2>2
    <3>1. /\ m[1] \in Ops /\ m[2][1] \in Ids(c) /\ m[2][2] \in Ids(c) /\ m[3] \in Ids(c)
          /\ m = <<m[1], <<m[2][1], m[2][2]>>, m[3]>>
      BY <2>9, Entries
    <3>2. IsRight(c, m)
      BY DEF CacheOK
    <3> HIDE DEF e, n
    <3>3. IsRight(e, m)
      BY <2>4, <3>1, <3>2 DEF IsRight
    <3> QED BY <2>5, <3>1, <3>3 DEF Grown
  <2>11. Len(e.idToPts) \in 1 .. e.limit
    BY <2>1, <2>2, <2>3
  <2>12. CacheOK(e)
    <3> HIDE DEF e, n
    <3> QED BY <2>2, <2>8, <2>10, <2>11 DEF CacheOK
  <2> QED BY <2>2, <2>5, <2>6, <2>12
<1> QED BY <1>1, <1>2, <1>3

(* Right entries may be added and may replace others.                      *)
LEMMA RememberOK ==
    ASSUME NEW c, CacheOK(c),
           NEW new \in SUBSET (Ops \X (Ids(c) \X Ids(c)) \X Ids(c)),
           \A m \in new : IsRight(c, m)
    PROVE  /\ CacheOK(Remember(c, new))
           /\ Grown(c, Remember(c, new)) /\ Ids(Remember(c, new)) = Ids(c)
           /\ \A i : GetActualPts(Remember(c, new), i) = GetActualPts(c, i)
           /\ Remember(c, new).exhausted = c.exhausted
<1> DEFINE e == Remember(c, new)
           kept == {m \in c.memo : \A n \in new : <<n[1], n[2]>> # <<m[1], m[2]>>}
<1>1. /\ e = [c EXCEPT !.memo = kept \cup new]
      /\ e.idToPts = c.idToPts /\ e.limit = c.limit /\ e.exhausted = c.exhausted
      /\ e.memo = kept \cup new
  BY DEF Remember, CacheOK, CacheType
<1>2. Ids(e) = Ids(c) /\ \A i : GetActualPts(e, i) = GetActualPts(c, i)
  BY <1>1 DEF Ids, GetActualPts
<1>3. /\ e.memo \subseteq Ops \X (Ids(c) \X Ids(c)) \X Ids(c)
      /\ \A m \in e.memo : IsRight(c, m)
  BY <1>1 DEF CacheOK
<1>4. e.memo \in SUBSET (Ops \X (Nat \X Nat) \X Nat)
  BY <1>3, CacheIds
<1>5. e \in CacheType
  BY <1>1, <1>4 DEF CacheType, CacheOK
<1>6. CacheOK(e)
  BY <1>1, <1>2, <1>3, <1>5 DEF CacheOK, IdsExact, IsRight
<1> QED BY <1>1, <1>2, <1>6 DEF Grown

-----------------------------------------------------------------------------
(* An entry made of operands and what the operation is on them is right.   *)
LEMMA EntryRight ==
    ASSUME NEW c, NEW op \in Ops, NEW x \in Ids(c), NEW y \in Ids(c), NEW z \in Ids(c),
           GetActualPts(c, z) = Perform(op, GetActualPts(c, x), GetActualPts(c, y))
    PROVE  /\ <<op, Operands(op, x, y), z>> \in Ops \X (Ids(c) \X Ids(c)) \X Ids(c)
           /\ IsRight(c, <<op, Operands(op, x, y), z>>)
<1>1. Operands(op, x, y) = <<x, y>> \/ (op # "complement" /\ Operands(op, x, y) = <<y, x>>)
  BY DEF Operands, MinMax
<1>2. op # "complement" =>
        Perform(op, GetActualPts(c, x), GetActualPts(c, y))
          = Perform(op, GetActualPts(c, y), GetActualPts(c, x))
  BY DEF Perform, Ops
<1>3. CASE Operands(op, x, y) = <<x, y>>
  BY <1>3 DEF IsRight
<1>4. CASE op # "complement" /\ Operands(op, x, y) = <<y, x>>
  BY <1>2, <1>4 DEF IsRight
<1> QED BY <1>1, <1>3, <1>4

(* So is every entry made in advance.                                      *)
LEMMA PreemptiveRight ==
    ASSUME NEW c, EmptyId \in Ids(c), GetActualPts(c, EmptyId) = {},
           NEW op \in Ops, NEW i \in Ids(c), NEW j \in Ids(c), NEW r \in Ids(c),
           GetActualPts(c, r) = Perform(op, GetActualPts(c, i), GetActualPts(c, j))
    PROVE  \A m \in Preemptive(op, i, j, r) :
              m \in Ops \X (Ids(c) \X Ids(c)) \X Ids(c) /\ IsRight(c, m)
<1> DEFINE X == GetActualPts(c, i)
           Y == GetActualPts(c, j)
           R == GetActualPts(c, r)
<1>1. \A x, y : /\ MinMax(x, y) = Operands("union", x, y)
                /\ MinMax(x, y) = Operands("intersection", x, y)
                /\ <<x, y>> = Operands("complement", x, y)
  BY DEF Operands
<1>2. CASE op = "union"
  <2>1. R = X \cup Y
    BY <1>2 DEF Perform
  <2>2. \A x \in {i, j} : R = Perform("union", GetActualPts(c, x), R)
    BY <2>1 DEF Perform
  <2> SUFFICES ASSUME NEW x \in {i, j}
               PROVE  /\ <<"union", MinMax(x, r), r>> \in Ops \X (Ids(c) \X Ids(c)) \X Ids(c)
                      /\ IsRight(c, <<"union", MinMax(x, r), r>>)
    BY <1>2 DEF Preemptive, PreemptiveUnion
  <2> QED BY <1>1, <2>2, EntryRight DEF Ops
<1>3. CASE op = "complement" /\ r # EmptyId
  <2>1. R = X \ Y
    BY <1>3 DEF Perform
  <2>2. /\ {} = Perform("intersection", R, Y)
        /\ R = Perform("intersection", R, X)
        /\ R = Perform("complement", R, Y)
    BY <2>1 DEF Perform
  <2>3. Preemptive(op, i, j, r) =
          {<<"intersection", Operands("intersection", r, j), EmptyId>>,
           <<"intersection", Operands("intersection", r, i), r>>,
           <<"complement", Operands("complement", r, j), r>>}
    BY <1>1, <1>3 DEF Preemptive, PreemptiveComplement
  <2> QED BY <2>2, <2>3, EntryRight DEF Ops
<1>4. CASE op = "intersection" /\ r # EmptyId
  <2>1. R = X \cap Y
    BY <1>4 DEF Perform
  <2>2. \A x \in {i, j} : /\ R = Perform("intersection", R, GetActualPts(c, x))
                          /\ GetActualPts(c, x) = Perform("union", GetActualPts(c, x), R)
    BY <2>1 DEF Perform
  <2> SUFFICES ASSUME NEW x \in {i, j},
                      NEW m \in {<<"intersection", MinMax(r, x), r>>, <<"union", MinMax(x, r), x>>}
               PROVE  m \in Ops \X (Ids(c) \X Ids(c)) \X Ids(c) /\ IsRight(c, m)
    BY <1>4 DEF Preemptive, PreemptiveIntersection
  <2> QED BY <1>1, <2>2, EntryRight DEF Ops
<1>5. CASE Preemptive(op, i, j, r) = {}
  BY <1>5
<1> QED BY <1>2, <1>3, <1>4, <1>5 DEF Preemptive, Ops

(* An operation grows the cache and gives the number of what it computes,  *)
(* whether by a property, from memory or by performing it.                 *)
Result(c, op, i, j, r) ==
    /\ CacheOK(r.cache)
    /\ Grown(c, r.cache)
    /\ ~ r.cache.exhausted =>
          /\ r.id \in Ids(r.cache)
          /\ GetActualPts(r.cache, r.id) = Perform(op, GetActualPts(c, i), GetActualPts(c, j))

LEMMA PerformedOK ==
    ASSUME NEW c, CacheOK(c), ~ c.exhausted, NEW op \in Ops, NEW i \in Ids(c), NEW j \in Ids(c)
    PROVE  Result(c, op, i, j, Performed(c, op, i, j))
<1> DEFINE S == Perform(op, GetActualPts(c, i), GetActualPts(c, j))
           e == EmplacePts(c, S)
           r == IdOf(e, S)
           new == {<<op, Operands(op, i, j), r>>}
           more == Preemptive(op, i, j, r)
           f == Remember(e, new)
           g == Remember(f, more)
<1>1. S \in SUBSET Data
  BY CacheIds DEF Perform, Ops
<1>2. CacheOK(e) /\ Grown(c, e) /\ (~ e.exhausted => IsStored(e, S))
  <2> HIDE DEF S
  <2> QED BY <1>1, EmplaceOK
<1>3. CASE e.exhausted
  <2>1. Performed(c, op, i, j) = [cache |-> e, id |-> EmptyId]
    BY <1>3 DEF Performed
  <2> HIDE DEF e, S
  <2> QED BY <1>2, <1>3, <2>1 DEF Result
<1>4. CASE ~ e.exhausted
  <2>1. Performed(c, op, i, j) = [cache |-> g, id |-> r]
    BY <1>4 DEF Performed
  <2>2. r \in Ids(e) /\ GetActualPts(e, r) = S
    <3> HIDE DEF e, S
    <3> QED BY <1>2, <1>4, StoredId
  <2>3. /\ i \in Ids(e) /\ j \in Ids(e)
        /\ GetActualPts(e, i) = GetActualPts(c, i) /\ GetActualPts(e, j) = GetActualPts(c, j)
    <3> HIDE DEF e, S
    <3> QED BY <1>2 DEF Grown
  <2>4. GetActualPts(e, r) = Perform(op, GetActualPts(e, i), GetActualPts(e, j))
    <3> HIDE DEF e, r
    <3> QED BY <2>2, <2>3
  <2>5. /\ new \in SUBSET (Ops \X (Ids(e) \X Ids(e)) \X Ids(e))
        /\ \A m \in new : IsRight(e, m)
    <3> HIDE DEF e, r
    <3> QED BY <2>2, <2>3, <2>4, EntryRight
  <2>6. /\ more \in SUBSET (Ops \X (Ids(e) \X Ids(e)) \X Ids(e))
        /\ \A m \in more : IsRight(e, m)
    <3>1. EmptyId \in Ids(e) /\ GetActualPts(e, EmptyId) = {}
      <4> HIDE DEF e
      <4> QED BY <1>2, CacheIds DEF CacheOK, IdsExact
    <3> HIDE DEF e, r
    <3> QED BY <2>2, <2>3, <2>4, <3>1, PreemptiveRight
  <2> HIDE DEF e, S, r, new, more
  <2>7. /\ CacheOK(f) /\ Ids(f) = Ids(e)
        /\ \A k : GetActualPts(f, k) = GetActualPts(e, k)
        /\ f.exhausted = e.exhausted
    BY <1>2, <2>5, RememberOK
  <2>8. /\ more \in SUBSET (Ops \X (Ids(f) \X Ids(f)) \X Ids(f))
        /\ \A m \in more : IsRight(f, m)
    <3> HIDE DEF f
    <3> QED BY <2>6, <2>7 DEF IsRight
  <2> HIDE DEF f
  <2>9. /\ CacheOK(g) /\ Ids(g) = Ids(e)
        /\ \A k : GetActualPts(g, k) = GetActualPts(e, k)
    BY <2>7, <2>8, RememberOK
  <2> HIDE DEF g
  <2>10. Grown(c, g)
    BY <1>2, <2>9 DEF Grown
  <2>11. r \in Ids(g) /\ GetActualPts(g, r) = S
    BY <2>2, <2>9
  <2> QED BY <2>1, <2>9, <2>10, <2>11 DEF Result, S
<1> QED BY <1>3, <1>4

LEMMA OperateOK ==
    ASSUME NEW c, CacheOK(c), ~ c.exhausted, NEW op \in Ops, NEW i \in Ids(c), NEW j \in Ids(c)
    PROVE  Result(c, op, i, j, Operate(c, op, i, j))
<1> DEFINE found == Found(c, op, Operands(op, i, j))
<1>1. EmptyId \in Ids(c) /\ GetActualPts(c, EmptyId) = {}
  BY CacheIds DEF CacheOK, IdsExact
<1>2. Grown(c, c)
  BY DEF Grown
<1>3. CASE IsPropertyCase(i, j)
  <2>1. Operate(c, op, i, j) = [cache |-> c, id |-> PropertyCase(op, i, j)]
    BY <1>3 DEF Operate
  <2>2. PropertyCase(op, i, j) \in Ids(c)
    BY <1>1 DEF PropertyCase, Ops
  <2>3. GetActualPts(c, PropertyCase(op, i, j))
          = Perform(op, GetActualPts(c, i), GetActualPts(c, j))
    <3>1. CASE op = "union"
      BY <1>1, <1>3, <3>1 DEF IsPropertyCase, PropertyCase, Perform
    <3>2. CASE op = "complement"
      BY <1>1, <1>3, <3>2 DEF IsPropertyCase, PropertyCase, Perform
    <3>3. CASE op = "intersection"
      BY <1>1, <1>3, <3>3 DEF IsPropertyCase, PropertyCase, Perform
    <3> QED BY <3>1, <3>2, <3>3 DEF Ops
  <2> QED BY <1>2, <2>1, <2>2, <2>3 DEF Result
<1>4. CASE ~ IsPropertyCase(i, j) /\ found # {}
  <2> DEFINE m == CHOOSE n \in found : TRUE
  <2>1. Operate(c, op, i, j) = [cache |-> c, id |-> m[3]]
    BY <1>4 DEF Operate
  <2>2. m \in c.memo /\ m[1] = op /\ m[2] = Operands(op, i, j)
    BY <1>4 DEF Found
  <2> HIDE DEF m
  <2>3. m[3] \in Ids(c) /\ IsRight(c, m)
    BY <2>2, Entries DEF CacheOK
  <2>4. GetActualPts(c, m[3]) = Perform(op, GetActualPts(c, i), GetActualPts(c, j))
    <3>1. \/ m[2] = <<i, j>>
          \/ op # "complement" /\ m[2] = <<j, i>>
      BY <2>2 DEF Operands, MinMax
    <3>2. op # "complement" =>
            Perform(op, GetActualPts(c, i), GetActualPts(c, j))
              = Perform(op, GetActualPts(c, j), GetActualPts(c, i))
      BY DEF Perform, Ops
    <3>3. CASE m[2] = <<i, j>>
      BY <2>2, <2>3, <3>3 DEF IsRight
    <3>4. CASE op # "complement" /\ m[2] = <<j, i>>
      BY <2>2, <2>3, <3>2, <3>4 DEF IsRight
    <3> QED BY <3>1, <3>3, <3>4
  <2> QED BY <1>2, <2>1, <2>3, <2>4 DEF Result
<1>5. CASE ~ IsPropertyCase(i, j) /\ found = {}
  <2>1. Operate(c, op, i, j) = Performed(c, op, i, j)
    BY <1>5 DEF Operate
  <2> QED BY <2>1, PerformedOK
<1> QED BY <1>3, <1>4, <1>5

-----------------------------------------------------------------------------
(* The invariant as a cache in order, numbers in use and exact reverse     *)
(* sets.                                                                   *)
MapsOK ==
    /\ ptsMap \in [Key -> Ids(cache)]
    /\ diffPtsMap \in [Key -> Ids(cache)]
    /\ propaPtsMap \in [Key -> Ids(cache)]
    /\ revPtsMap \in [Data -> SUBSET Key]
    /\ changed \in BOOLEAN

LEMMA InvariantParts ==
    /\ IInv <=> CacheOK(cache) /\ MapsOK /\ RevPtsExact
    /\ IInv' <=> (CacheOK(cache) /\ MapsOK /\ RevPtsExact)'
BY DEF IInv, TypeOK, OneIdEach, MemoRight, CacheOK, MapsOK

LEMMA GrownMap ==
    ASSUME NEW c, NEW e, Grown(c, e), NEW m \in [Key -> Ids(c)]
    PROVE  m \in [Key -> Ids(e)] /\ \A k \in Key : GetActualPts(e, m[k]) = GetActualPts(c, m[k])
BY DEF Grown

LEMMA GrownGrown ==
    ASSUME NEW c, NEW d, NEW e, Grown(c, d), Grown(d, e)
    PROVE  Grown(c, e)
BY DEF Grown

(* A failed assertion leaves the sets as they are.                         *)
LEMMA AbortOK ==
    ASSUME IInv, NEW e, CacheOK(e), Grown(cache, e), Abort(e)
    PROVE  IInv' /\ UNCHANGED Mutable!vars
<1>1. CacheOK(cache) /\ MapsOK /\ RevPtsExact
  BY InvariantParts
<1>2. /\ cache' = e /\ ptsMap' = ptsMap /\ revPtsMap' = revPtsMap
      /\ diffPtsMap' = diffPtsMap /\ propaPtsMap' = propaPtsMap /\ changed' = changed
  BY DEF Abort, maps
<1>3. MapsOK'
  BY <1>1, <1>2, GrownMap DEF MapsOK
<1>4. /\ \A k \in Key : GetActualPts(e, ptsMap[k]) = GetActualPts(cache, ptsMap[k])
      /\ \A k \in Key : GetActualPts(e, diffPtsMap[k]) = GetActualPts(cache, diffPtsMap[k])
      /\ \A k \in Key : GetActualPts(e, propaPtsMap[k]) = GetActualPts(cache, propaPtsMap[k])
  BY <1>1, GrownMap DEF MapsOK
<1>5. RevPtsExact'
  BY <1>1, <1>2, <1>4 DEF RevPtsExact
<1>6. IInv'
  BY <1>2, <1>3, <1>5, InvariantParts
<1> QED BY <1>2, <1>4, <1>6 DEF Mutable!vars, Sets

(* The operations, each with the step of the mutable data it is.           *)
LEMMA UnionFromIdOK ==
    ASSUME IInv, NEW c, CacheOK(c), ~ c.exhausted, Grown(cache, c),
           NEW k \in Key, NEW src \in Ids(c), UnionFromId(c, k, src)
    PROVE  /\ IInv'
           /\ Mutable!UnionData(k, GetActualPts(c, src)) \/ UNCHANGED Mutable!vars
<1> DEFINE u == Operate(c, "union", ptsMap[k], src)
           S == GetActualPts(c, src)
<1>1. CacheOK(cache) /\ MapsOK /\ RevPtsExact
  BY InvariantParts
<1>2. ptsMap \in [Key -> Ids(c)] /\ \A l \in Key : GetActualPts(c, ptsMap[l]) = GetActualPts(cache, ptsMap[l])
  BY <1>1, GrownMap DEF MapsOK
<1>3. Result(c, "union", ptsMap[k], src, u)
  BY <1>2, OperateOK DEF Ops
<1> HIDE DEF u
<1>4. CacheOK(u.cache) /\ Grown(c, u.cache) /\ Grown(cache, u.cache)
  BY <1>3, GrownGrown DEF Result
<1>5. CASE u.cache.exhausted
  BY <1>4, <1>5, AbortOK DEF UnionFromId, u
<1>6. CASE ~ u.cache.exhausted
  <2>1. /\ cache' = u.cache
        /\ changed' = (u.id # ptsMap[k])
        /\ ptsMap' = [ptsMap EXCEPT ![k] = u.id]
        /\ revPtsMap' = [d \in Data |-> IF changed' /\ d \in S
                                        THEN revPtsMap[d] \cup {k} ELSE revPtsMap[d]]
        /\ diffPtsMap' = diffPtsMap /\ propaPtsMap' = propaPtsMap
    BY <1>6 DEF UnionFromId, u
  <2>2. /\ u.id \in Ids(u.cache)
        /\ GetActualPts(u.cache, u.id) = GetActualPts(cache, ptsMap[k]) \cup S
    BY <1>2, <1>3, <1>6 DEF Result, Perform
  <2>3. /\ \A l \in Key : GetActualPts(u.cache, ptsMap[l]) = GetActualPts(cache, ptsMap[l])
        /\ \A l \in Key : GetActualPts(u.cache, diffPtsMap[l]) = GetActualPts(cache, diffPtsMap[l])
        /\ \A l \in Key : GetActualPts(u.cache, propaPtsMap[l]) = GetActualPts(cache, propaPtsMap[l])
        /\ ptsMap \in [Key -> Ids(u.cache)] /\ diffPtsMap \in [Key -> Ids(u.cache)]
        /\ propaPtsMap \in [Key -> Ids(u.cache)]
    BY <1>1, <1>4, GrownMap DEF MapsOK
  <2>4. \A l \in Key : GetActualPts(cache', ptsMap'[l]) =
           IF l = k THEN GetActualPts(cache, ptsMap[k]) \cup S ELSE GetActualPts(cache, ptsMap[l])
    BY <2>1, <2>2, <2>3
  (* Numbers differ just when sets do.                                     *)
  <2>5. changed' <=> ~ (S \subseteq GetActualPts(cache, ptsMap[k]))
    <3>1. \A i, j \in Ids(u.cache) : GetActualPts(u.cache, i) = GetActualPts(u.cache, j) => i = j
      BY <1>4 DEF CacheOK, IdsExact
    <3>2. ptsMap[k] \in Ids(u.cache) /\ GetActualPts(u.cache, ptsMap[k]) = GetActualPts(cache, ptsMap[k])
      BY <2>3
    <3>3. u.id = ptsMap[k] <=> GetActualPts(cache, ptsMap[k]) \cup S = GetActualPts(cache, ptsMap[k])
      BY <2>2, <3>1, <3>2
    <3> QED BY <2>1, <3>3
  <2>6. MapsOK'
    BY <1>1, <2>1, <2>2, <2>3 DEF MapsOK
  <2>7. revPtsMap' = [d \in Data |-> IF d \in S THEN revPtsMap[d] \cup {k} ELSE revPtsMap[d]]
    <3>1. \A d \in Data : d \in GetActualPts(cache, ptsMap[k]) => revPtsMap[d] \cup {k} = revPtsMap[d]
      BY <1>1 DEF RevPtsExact
    <3> QED BY <2>1, <2>5, <3>1
  <2>8. RevPtsExact'
    <3> SUFFICES ASSUME NEW l \in Key, NEW d \in Data
                 PROVE  l \in revPtsMap'[d] <=> d \in GetActualPts(cache', ptsMap'[l])
      BY DEF RevPtsExact
    <3>1. l \in revPtsMap[d] <=> d \in GetActualPts(cache, ptsMap[l])
      BY <1>1 DEF RevPtsExact
    <3> QED BY <2>4, <2>7, <3>1
  <2>9. IInv'
    BY <1>4, <2>1, <2>6, <2>8, InvariantParts
  <2>10. Sets(ptsMap)' = [Sets(ptsMap) EXCEPT ![k] = @ \cup S]
    BY <2>4 DEF Sets
  <2>11. Sets(diffPtsMap)' = Sets(diffPtsMap) /\ Sets(propaPtsMap)' = Sets(propaPtsMap)
    BY <2>1, <2>3 DEF Sets
  <2>12. changed' = ~ (S \subseteq Sets(ptsMap)[k])
    BY <2>1, <2>5 DEF Sets
  <2> QED BY <2>7, <2>9, <2>10, <2>11, <2>12 DEF Mutable!UnionData, Mutable!AddRevPts
<1> QED BY <1>5, <1>6

LEMMA UnionDataOK ==
    ASSUME IInv, NEW k \in Key, NEW S \in SUBSET Data, UnionData(k, S)
    PROVE  IInv' /\ (Mutable!UnionData(k, S) \/ UNCHANGED Mutable!vars)
<1> DEFINE e == EmplacePts(cache, S)
<1>1. CacheOK(cache) /\ ~ cache.exhausted
  BY InvariantParts DEF UnionData, Running
<1>2. CacheOK(e) /\ Grown(cache, e) /\ (~ e.exhausted => IsStored(e, S))
  BY <1>1, EmplaceOK
<1>3. CASE e.exhausted
  BY <1>2, <1>3, AbortOK DEF UnionData
<1>4. CASE ~ e.exhausted
  <2>1. UnionFromId(e, k, IdOf(e, S))
    BY <1>4 DEF UnionData
  <2> HIDE DEF e
  <2>2. IdOf(e, S) \in Ids(e) /\ GetActualPts(e, IdOf(e, S)) = S
    BY <1>2, <1>4, StoredId
  <2> QED BY <1>2, <1>4, <2>1, <2>2, UnionFromIdOK
<1> QED BY <1>3, <1>4

LEMMA UnionPtsOK ==
    ASSUME IInv, NEW k \in Key, NEW l \in Key, UnionPts(k, l)
    PROVE  IInv' /\ (Mutable!UnionPts(k, l) \/ UNCHANGED Mutable!vars)
<1>1. CacheOK(cache) /\ ~ cache.exhausted /\ ptsMap[l] \in Ids(cache)
  BY InvariantParts DEF UnionPts, Running, MapsOK
<1>2. Grown(cache, cache)
  BY DEF Grown
<1>3. UnionFromId(cache, k, ptsMap[l])
  BY DEF UnionPts
<1>4. Sets(ptsMap)[l] = GetActualPts(cache, ptsMap[l])
  BY DEF Sets
<1> QED BY <1>1, <1>2, <1>3, <1>4, UnionFromIdOK DEF Mutable!UnionPts

LEMMA ClearPtsOK ==
    ASSUME IInv, NEW k \in Key, NEW d \in Data, ClearPts(k, d)
    PROVE  IInv' /\ (Mutable!ClearPts(k, d) \/ UNCHANGED Mutable!vars)
<1> DEFINE e == EmplacePts(cache, {d})
           r == Operate(e, "complement", ptsMap[k], IdOf(e, {d}))
<1>1. CacheOK(cache) /\ MapsOK /\ RevPtsExact /\ ~ cache.exhausted
  BY InvariantParts DEF ClearPts, Running
<1>2. CacheOK(e) /\ Grown(cache, e) /\ (~ e.exhausted => IsStored(e, {d}))
  BY <1>1, EmplaceOK
<1>3. CASE e.exhausted
  BY <1>2, <1>3, AbortOK DEF ClearPts
<1>4. CASE ~ e.exhausted
  <2> HIDE DEF e
  <2>1. IdOf(e, {d}) \in Ids(e) /\ GetActualPts(e, IdOf(e, {d})) = {d}
    BY <1>2, <1>4, StoredId
  <2>2. ptsMap[k] \in Ids(e) /\ GetActualPts(e, ptsMap[k]) = GetActualPts(cache, ptsMap[k])
    BY <1>1, <1>2, GrownMap DEF MapsOK
  <2>3. Result(e, "complement", ptsMap[k], IdOf(e, {d}), r)
    BY <1>2, <1>4, <2>1, <2>2, OperateOK DEF Ops
  <2> HIDE DEF r
  <2>4. CacheOK(r.cache) /\ Grown(cache, r.cache)
    BY <1>2, <2>3, GrownGrown DEF Result
  <2>5. CASE r.cache.exhausted
    BY <1>4, <2>4, <2>5, AbortOK DEF ClearPts, e, r
  <2>6. CASE ~ r.cache.exhausted
    <3>1. /\ cache' = r.cache
          /\ ptsMap' = [ptsMap EXCEPT ![k] = r.id]
          /\ revPtsMap' = IF r.id # ptsMap[k] THEN [revPtsMap EXCEPT ![d] = @ \ {k}]
                          ELSE revPtsMap
          /\ diffPtsMap' = diffPtsMap /\ propaPtsMap' = propaPtsMap /\ changed' = changed
      BY <1>4, <2>6 DEF ClearPts, e, r
    <3>2. /\ r.id \in Ids(r.cache)
          /\ GetActualPts(r.cache, r.id) = GetActualPts(cache, ptsMap[k]) \ {d}
      BY <2>1, <2>2, <2>3, <2>6 DEF Result, Perform
    <3>3. /\ \A l \in Key : GetActualPts(r.cache, ptsMap[l]) = GetActualPts(cache, ptsMap[l])
          /\ \A l \in Key : GetActualPts(r.cache, diffPtsMap[l]) = GetActualPts(cache, diffPtsMap[l])
          /\ \A l \in Key : GetActualPts(r.cache, propaPtsMap[l]) = GetActualPts(cache, propaPtsMap[l])
          /\ ptsMap \in [Key -> Ids(r.cache)] /\ diffPtsMap \in [Key -> Ids(r.cache)]
          /\ propaPtsMap \in [Key -> Ids(r.cache)]
      BY <1>1, <2>4, GrownMap DEF MapsOK
    <3>4. \A l \in Key : GetActualPts(cache', ptsMap'[l]) =
             IF l = k THEN GetActualPts(cache, ptsMap[k]) \ {d} ELSE GetActualPts(cache, ptsMap[l])
      BY <3>1, <3>2, <3>3
    <3>5. r.id = ptsMap[k] => d \notin GetActualPts(cache, ptsMap[k])
      BY <3>2, <3>3
    <3>6. revPtsMap' = [x \in Data |-> IF x \in {d} THEN revPtsMap[x] \ {k} ELSE revPtsMap[x]]
      <4>1. r.id = ptsMap[k] => revPtsMap[d] \ {k} = revPtsMap[d]
        BY <1>1, <3>5 DEF RevPtsExact
      <4> QED BY <1>1, <3>1, <4>1 DEF MapsOK
    <3>7. MapsOK'
      BY <1>1, <3>1, <3>2, <3>3 DEF MapsOK
    <3>8. RevPtsExact'
      <4> SUFFICES ASSUME NEW l \in Key, NEW x \in Data
                   PROVE  l \in revPtsMap'[x] <=> x \in GetActualPts(cache', ptsMap'[l])
        BY DEF RevPtsExact
      <4>1. l \in revPtsMap[x] <=> x \in GetActualPts(cache, ptsMap[l])
        BY <1>1 DEF RevPtsExact
      <4> QED BY <3>4, <3>6, <4>1
    <3>9. IInv'
      BY <2>4, <3>1, <3>7, <3>8, InvariantParts
    <3>10. Sets(ptsMap)' = [Sets(ptsMap) EXCEPT ![k] = @ \ {d}]
      BY <3>4 DEF Sets
    <3>11. Sets(diffPtsMap)' = Sets(diffPtsMap) /\ Sets(propaPtsMap)' = Sets(propaPtsMap)
      BY <3>1, <3>3 DEF Sets
    <3> QED BY <3>1, <3>6, <3>9, <3>10, <3>11 DEF Mutable!ClearPts, Mutable!ClearRevPts
  <2> QED BY <2>5, <2>6
<1> QED BY <1>3, <1>4

LEMMA ClearFullPtsOK ==
    ASSUME IInv, NEW k \in Key, ClearFullPts(k)
    PROVE  IInv' /\ Mutable!ClearFullPts(k)
<1>1. CacheOK(cache) /\ MapsOK /\ RevPtsExact
  BY InvariantParts
<1>2. EmptyId \in Ids(cache) /\ GetActualPts(cache, EmptyId) = {}
  BY <1>1, CacheIds DEF CacheOK, IdsExact
<1>3. /\ cache' = cache /\ ptsMap' = [ptsMap EXCEPT ![k] = EmptyId]
      /\ revPtsMap' = [d \in Data |-> IF d \in GetActualPts(cache, ptsMap[k])
                                      THEN revPtsMap[d] \ {k} ELSE revPtsMap[d]]
      /\ diffPtsMap' = diffPtsMap /\ propaPtsMap' = propaPtsMap /\ changed' = changed
  BY DEF ClearFullPts
<1>4. \A l \in Key : GetActualPts(cache, ptsMap'[l]) =
         IF l = k THEN {} ELSE GetActualPts(cache, ptsMap[l])
  BY <1>1, <1>2, <1>3 DEF MapsOK
<1>5. MapsOK'
  BY <1>1, <1>2, <1>3 DEF MapsOK
<1>6. RevPtsExact'
  <2> SUFFICES ASSUME NEW l \in Key, NEW d \in Data
               PROVE  l \in revPtsMap'[d] <=> d \in GetActualPts(cache, ptsMap'[l])
    BY <1>3 DEF RevPtsExact
  <2>1. l \in revPtsMap[d] <=> d \in GetActualPts(cache, ptsMap[l])
    BY <1>1 DEF RevPtsExact
  <2> QED BY <1>3, <1>4, <2>1
<1>7. IInv'
  BY <1>1, <1>3, <1>5, <1>6, InvariantParts
<1>8. /\ Sets(ptsMap)' = [Sets(ptsMap) EXCEPT ![k] = {}]
      /\ Sets(diffPtsMap)' = Sets(diffPtsMap) /\ Sets(propaPtsMap)' = Sets(propaPtsMap)
      /\ Sets(ptsMap)[k] = GetActualPts(cache, ptsMap[k])
  BY <1>3, <1>4 DEF Sets
<1> QED BY <1>3, <1>7, <1>8 DEF Mutable!ClearFullPts, Mutable!ClearRevPts

LEMMA ComputeDiffPtsOK ==
    ASSUME IInv, NEW k \in Key, ComputeDiffPts(k)
    PROVE  IInv' /\ (Mutable!ComputeDiffPts(k) \/ UNCHANGED Mutable!vars)
<1> DEFINE r == Operate(cache, "complement", ptsMap[k], propaPtsMap[k])
           New == GetActualPts(cache, ptsMap[k]) \ GetActualPts(cache, propaPtsMap[k])
<1>1. CacheOK(cache) /\ MapsOK /\ RevPtsExact /\ ~ cache.exhausted
  BY InvariantParts DEF ComputeDiffPts, Running
<1>2. Result(cache, "complement", ptsMap[k], propaPtsMap[k], r)
  BY <1>1, OperateOK DEF MapsOK, Ops
<1> HIDE DEF r
<1>3. CacheOK(r.cache) /\ Grown(cache, r.cache)
  BY <1>2 DEF Result
<1>4. CASE r.cache.exhausted
  BY <1>3, <1>4, AbortOK DEF ComputeDiffPts, r
<1>5. CASE ~ r.cache.exhausted
  <2>1. /\ cache' = r.cache
        /\ diffPtsMap' = [diffPtsMap EXCEPT ![k] = r.id]
        /\ propaPtsMap' = [propaPtsMap EXCEPT ![k] = ptsMap[k]]
        /\ changed' = (r.id # EmptyId)
        /\ ptsMap' = ptsMap /\ revPtsMap' = revPtsMap
    BY <1>5 DEF ComputeDiffPts, r
  <2>2. r.id \in Ids(r.cache) /\ GetActualPts(r.cache, r.id) = New
    BY <1>2, <1>5 DEF Result, Perform
  <2>3. /\ \A l \in Key : GetActualPts(r.cache, ptsMap[l]) = GetActualPts(cache, ptsMap[l])
        /\ \A l \in Key : GetActualPts(r.cache, diffPtsMap[l]) = GetActualPts(cache, diffPtsMap[l])
        /\ \A l \in Key : GetActualPts(r.cache, propaPtsMap[l]) = GetActualPts(cache, propaPtsMap[l])
        /\ ptsMap \in [Key -> Ids(r.cache)] /\ diffPtsMap \in [Key -> Ids(r.cache)]
        /\ propaPtsMap \in [Key -> Ids(r.cache)]
    BY <1>1, <1>3, GrownMap DEF MapsOK
  <2>4. MapsOK'
    BY <1>1, <2>1, <2>2, <2>3 DEF MapsOK
  <2>5. RevPtsExact'
    BY <1>1, <2>1, <2>3 DEF RevPtsExact
  <2>6. IInv'
    BY <1>3, <2>1, <2>4, <2>5, InvariantParts
  <2>7. changed' = (New # {})
    <3>1. /\ EmptyId \in Ids(r.cache) /\ GetActualPts(r.cache, EmptyId) = {}
          /\ \A i, j \in Ids(r.cache) : GetActualPts(r.cache, i) = GetActualPts(r.cache, j) => i = j
      BY <1>3, CacheIds DEF CacheOK, IdsExact
    <3>2. r.id = EmptyId <=> New = {}
      BY <2>2, <3>1
    <3> QED BY <2>1, <3>2
  <2>8. Sets(ptsMap)' = Sets(ptsMap)
    BY <2>1, <2>3 DEF Sets
  <2>9. Sets(diffPtsMap)' = [Sets(diffPtsMap) EXCEPT ![k] = New]
    <3>1. \A l \in Key : GetActualPts(r.cache, diffPtsMap'[l]) =
             IF l = k THEN New ELSE GetActualPts(cache, diffPtsMap[l])
      BY <2>1, <2>2, <2>3
    <3> QED BY <2>1, <3>1 DEF Sets
  <2>10. Sets(propaPtsMap)' = [Sets(propaPtsMap) EXCEPT ![k] = GetActualPts(cache, ptsMap[k])]
    <3>1. \A l \in Key : GetActualPts(r.cache, propaPtsMap'[l]) =
             IF l = k THEN GetActualPts(cache, ptsMap[k]) ELSE GetActualPts(cache, propaPtsMap[l])
      BY <2>1, <2>3
    <3> QED BY <2>1, <3>1 DEF Sets
  <2>11. /\ Sets(ptsMap)[k] = GetActualPts(cache, ptsMap[k])
         /\ Sets(propaPtsMap)[k] = GetActualPts(cache, propaPtsMap[k])
    BY DEF Sets
  <2> QED BY <2>1, <2>6, <2>7, <2>8, <2>9, <2>10, <2>11 DEF Mutable!ComputeDiffPts
<1> QED BY <1>4, <1>5

LEMMA UpdatePropaPtsOK ==
    ASSUME IInv, NEW src \in Key, NEW dst \in Key, UpdatePropaPts(src, dst)
    PROVE  IInv' /\ (Mutable!UpdatePropaPts(src, dst) \/ UNCHANGED Mutable!vars)
<1> DEFINE r == Operate(cache, "intersection", propaPtsMap[dst], propaPtsMap[src])
           Both == GetActualPts(cache, propaPtsMap[dst]) \cap GetActualPts(cache, propaPtsMap[src])
<1>1. CacheOK(cache) /\ MapsOK /\ RevPtsExact /\ ~ cache.exhausted
  BY InvariantParts DEF UpdatePropaPts, Running
<1>2. Result(cache, "intersection", propaPtsMap[dst], propaPtsMap[src], r)
  BY <1>1, OperateOK DEF MapsOK, Ops
<1> HIDE DEF r
<1>3. CacheOK(r.cache) /\ Grown(cache, r.cache)
  BY <1>2 DEF Result
<1>4. CASE r.cache.exhausted
  BY <1>3, <1>4, AbortOK DEF UpdatePropaPts, r
<1>5. CASE ~ r.cache.exhausted
  <2>1. /\ cache' = r.cache
        /\ propaPtsMap' = [propaPtsMap EXCEPT ![dst] = r.id]
        /\ ptsMap' = ptsMap /\ revPtsMap' = revPtsMap
        /\ diffPtsMap' = diffPtsMap /\ changed' = changed
    BY <1>5 DEF UpdatePropaPts, r
  <2>2. r.id \in Ids(r.cache) /\ GetActualPts(r.cache, r.id) = Both
    BY <1>2, <1>5 DEF Result, Perform
  <2>3. /\ \A l \in Key : GetActualPts(r.cache, ptsMap[l]) = GetActualPts(cache, ptsMap[l])
        /\ \A l \in Key : GetActualPts(r.cache, diffPtsMap[l]) = GetActualPts(cache, diffPtsMap[l])
        /\ \A l \in Key : GetActualPts(r.cache, propaPtsMap[l]) = GetActualPts(cache, propaPtsMap[l])
        /\ ptsMap \in [Key -> Ids(r.cache)] /\ diffPtsMap \in [Key -> Ids(r.cache)]
        /\ propaPtsMap \in [Key -> Ids(r.cache)]
    BY <1>1, <1>3, GrownMap DEF MapsOK
  <2>4. MapsOK'
    BY <1>1, <2>1, <2>2, <2>3 DEF MapsOK
  <2>5. RevPtsExact'
    BY <1>1, <2>1, <2>3 DEF RevPtsExact
  <2>6. IInv'
    BY <1>3, <2>1, <2>4, <2>5, InvariantParts
  <2>7. Sets(ptsMap)' = Sets(ptsMap) /\ Sets(diffPtsMap)' = Sets(diffPtsMap)
    BY <2>1, <2>3 DEF Sets
  <2>8. \A l \in Key : GetActualPts(r.cache, propaPtsMap'[l]) =
           IF l = dst THEN Both ELSE GetActualPts(cache, propaPtsMap[l])
    BY <2>1, <2>2, <2>3
  <2>9. Sets(propaPtsMap)' = [Sets(propaPtsMap) EXCEPT ![dst] = @ \cap Sets(propaPtsMap)[src]]
    BY <2>1, <2>8 DEF Sets
  <2> QED BY <2>1, <2>6, <2>7, <2>9 DEF Mutable!UpdatePropaPts
<1> QED BY <1>4, <1>5

LEMMA ClearPropaPtsOK ==
    ASSUME IInv, NEW k \in Key, ClearPropaPts(k)
    PROVE  IInv' /\ Mutable!ClearPropaPts(k)
<1>1. CacheOK(cache) /\ MapsOK /\ RevPtsExact
  BY InvariantParts
<1>2. EmptyId \in Ids(cache) /\ GetActualPts(cache, EmptyId) = {}
  BY <1>1, CacheIds DEF CacheOK, IdsExact
<1>3. /\ cache' = cache /\ propaPtsMap' = [propaPtsMap EXCEPT ![k] = EmptyId]
      /\ ptsMap' = ptsMap /\ revPtsMap' = revPtsMap
      /\ diffPtsMap' = diffPtsMap /\ changed' = changed
  BY DEF ClearPropaPts
<1>4. MapsOK' /\ RevPtsExact'
  BY <1>1, <1>2, <1>3 DEF MapsOK, RevPtsExact
<1>5. IInv'
  BY <1>1, <1>3, <1>4, InvariantParts
<1>6. Sets(ptsMap)' = Sets(ptsMap) /\ Sets(diffPtsMap)' = Sets(diffPtsMap)
  BY <1>3 DEF Sets
<1>7. \A l \in Key : GetActualPts(cache, propaPtsMap'[l]) =
         IF l = k THEN {} ELSE GetActualPts(cache, propaPtsMap[l])
  BY <1>1, <1>2, <1>3 DEF MapsOK
<1>8. Sets(propaPtsMap)' = [Sets(propaPtsMap) EXCEPT ![k] = {}]
  BY <1>3, <1>7 DEF Sets
<1> QED BY <1>3, <1>5, <1>6, <1>8 DEF Mutable!ClearPropaPts

-----------------------------------------------------------------------------
LEMMA InitOK == Init => IInv /\ Mutable!Init
<1> SUFFICES ASSUME Init PROVE IInv /\ Mutable!Init
  OBVIOUS
<1>1. PICK limit \in IdLimits : cache = EmptyCache(limit)
  BY DEF Init
<1>2. limit \in Nat /\ limit >= 1
  BY PointsToCacheAssumption
<1>3. /\ cache.idToPts = <<{}>> /\ cache.memo = {} /\ cache.limit = limit
      /\ Len(cache.idToPts) = 1 /\ Ids(cache) = {0} /\ GetActualPts(cache, 0) = {}
  BY <1>1 DEF EmptyCache, Ids, GetActualPts
<1>4. cache \in CacheType
  <2>1. <<{}>> \in Seq(SUBSET Data)
    OBVIOUS
  <2> QED BY <1>1, <2>1 DEF EmptyCache, CacheType
<1>5. CacheOK(cache)
  BY <1>2, <1>3, <1>4 DEF CacheOK, IdsExact, EmptyId
<1>6. MapsOK /\ RevPtsExact
  BY <1>3 DEF Init, MapsOK, RevPtsExact, EmptyId
<1>7. IInv
  BY <1>5, <1>6, InvariantParts
<1>8. Mutable!Init
  BY <1>3 DEF Init, Mutable!Init, Sets, EmptyId
<1> QED BY <1>7, <1>8

LEMMA StepOK == IInv /\ [Next]_vars => IInv' /\ [Mutable!Next]_Mutable!vars
<1> SUFFICES ASSUME IInv, [Next]_vars PROVE IInv' /\ [Mutable!Next]_Mutable!vars
  OBVIOUS
<1>1. ASSUME NEW k \in Key, NEW d \in Data, AddPts(k, d)
      PROVE  IInv' /\ [Mutable!Next]_Mutable!vars
  BY <1>1, UnionDataOK DEF AddPts, Mutable!AddPts, Mutable!Next
<1>2. ASSUME NEW k \in Key, NEW d \in Data, ClearPts(k, d)
      PROVE  IInv' /\ [Mutable!Next]_Mutable!vars
  BY <1>2, ClearPtsOK DEF Mutable!Next
<1>3. ASSUME NEW k \in Key, NEW S \in Sources, UnionData(k, S)
      PROVE  IInv' /\ [Mutable!Next]_Mutable!vars
  BY <1>3, UnionDataOK, PersistentPTDataAssumption DEF Mutable!Next
<1>4. ASSUME NEW k \in Key, NEW l \in Key, UnionPts(k, l)
      PROVE  IInv' /\ [Mutable!Next]_Mutable!vars
  BY <1>4, UnionPtsOK DEF Mutable!Next
<1>5. ASSUME NEW k \in Key, NEW l \in Key, UpdatePropaPts(k, l)
      PROVE  IInv' /\ [Mutable!Next]_Mutable!vars
  BY <1>5, UpdatePropaPtsOK DEF Mutable!Next
<1>6. ASSUME NEW k \in Key, ClearFullPts(k)
      PROVE  IInv' /\ [Mutable!Next]_Mutable!vars
  BY <1>6, ClearFullPtsOK DEF Mutable!Next
<1>7. ASSUME NEW k \in Key, ComputeDiffPts(k)
      PROVE  IInv' /\ [Mutable!Next]_Mutable!vars
  BY <1>7, ComputeDiffPtsOK DEF Mutable!Next
<1>8. ASSUME NEW k \in Key, ClearPropaPts(k)
      PROVE  IInv' /\ [Mutable!Next]_Mutable!vars
  BY <1>8, ClearPropaPtsOK DEF Mutable!Next
<1>9. CASE UNCHANGED vars
  <2>1. /\ cache' = cache /\ ptsMap' = ptsMap /\ revPtsMap' = revPtsMap
        /\ diffPtsMap' = diffPtsMap /\ propaPtsMap' = propaPtsMap /\ changed' = changed
    BY <1>9 DEF vars, maps
  <2>2. (CacheOK(cache) /\ MapsOK /\ RevPtsExact)'
    BY <2>1, InvariantParts DEF MapsOK, RevPtsExact
  <2> QED BY <2>1, <2>2, InvariantParts DEF Mutable!vars, Sets
<1> QED BY <1>1, <1>2, <1>3, <1>4, <1>5, <1>6, <1>7, <1>8, <1>9 DEF Next

LEMMA Invariance == Spec => []IInv
BY InitOK, StepOK, PTL DEF Spec

(* Numbers in use are numbers of stored sets: the assertion of             *)
(* getActualPts never fails.                                               *)
THEOREM TypeCorrect == Spec => []TypeOK
<1>1. IInv => TypeOK
  BY DEF IInv
<1> QED BY <1>1, Invariance, PTL

(* A set has one number, so unionPts may compare numbers; the caches of    *)
(* unionPts, complementPts and intersectPts hold nothing but results of    *)
(* the operation, entered in advance or not.                               *)
THEOREM CachesRight == Spec => []CacheExact
<1>1. IInv => CacheExact
  BY DEF IInv, CacheExact
<1> QED BY <1>1, Invariance, PTL

(* addSingleRevPts and clearSingleRevPts keep the reverse sets exact.      *)
THEOREM ReverseExact == Spec => []RevPtsExact
<1>1. IInv => RevPtsExact
  BY DEF IInv
<1> QED BY <1>1, Invariance, PTL

(* PersistentDiffPTData does what MutableDiffPTData does, until the        *)
(* numbers run out.                                                        *)
THEOREM PersistentImplementsMutable == Spec => ImplementsMutable
BY InitOK, StepOK, PTL DEF Spec, ImplementsMutable, Mutable!Spec
=============================================================================
