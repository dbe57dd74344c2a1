------------------------- MODULE DemandDrivenProofs -------------------------
(***************************************************************************)
(* Proofs about DemandDriven, for every value-flow graph, every order, and *)
(* every budget.                                                           *)
(***************************************************************************)
EXTENDS DemandDriven, TLAPS

-----------------------------------------------------------------------------
(* The invariant.  An item is at a node that defines it; what it is asked  *)
(* for lies in the solution; and what a call in progress has collected, or *)
(* waits for, is part of what the solution has for its item.               *)

Valid(i) ==
    IF TopLevel(i[1])
    THEN /\ i[2] \in Var
         /\ Kind[i[1]] \in Definers => Def[i[1]] = i[2]
         /\ IsParam(i[1]) => Use[i[1]] = {i[2]}
    ELSE i[2] \in Obj \ ConstantObj

Items == {i \in Item : Valid(i)}

Frames ==
    [item : Items, step : {"query", "calls", "ptr", "src", "new", "out"}, todo : SUBSET Items,
     ptr : SUBSET Obj, left : SUBSET Obj, got : SUBSET Obj, edges : SUBSET (Node \X BOOLEAN)]

Access(n) == Kind[n] \in {"load", "store"}

(* What the sources of an item may bring: a gep turns it into fields.      *)
Base(i) == IF Kind[i[1]] = "gep" THEN UseOf(Solution, i[1]) ELSE Right(i)

Wanted(f, i) ==
    /\ f.step = "ptr" => Right(i) \subseteq Solution.pts[Ptr[f.item[1]]]
    /\ f.step = "src" => Right(i) \subseteq Base(f.item)

Good(f) ==
    /\ \A j \in f.todo : Wanted(f, j)
    /\ f.step \in {"calls", "ptr"} => f.got = {} /\ f.left = {}
    /\ f.step = "calls" => f.ptr = {}
    /\ f.step = "ptr" \/ f.ptr # {} => Access(f.item[1])
    /\ f.ptr \subseteq Solution.pts[Ptr[f.item[1]]]
    /\ f.left \subseteq f.ptr
    /\ f.step = "src" => f.got \subseteq Base(f.item)
    /\ f.step = "query" => TopLevel(f.item[1])

Chain(s) ==
    /\ s \in Seq(Frames)
    /\ \A k \in 1..Len(s) : Good(s[k])
    /\ \A k \in 1..(Len(s) - 1) : Wanted(s[k + 1], s[k].item)

Caches ==
    /\ pts \in [Var -> SUBSET Obj] /\ ad \in [Node -> [Obj -> SUBSET Obj]]
    /\ \A v \in Var : pts[v] \subseteq Solution.pts[v]
    /\ \A n \in Node, o \in Obj : ~ TopLevel(n) => ad[n][o] \subseteq Right(<<n, o>>)

Inv == Caches /\ connected \subseteq Solution.conn /\ located \subseteq Items /\ Chain(stack)

IInv == NothingAdded => Inv

-----------------------------------------------------------------------------
(* Items and their sets in the solution. *)

LEMMA DefItems == ASSUME NEW v \in Var PROVE DefItem(v) \in Items /\ Right(DefItem(v)) = Solution.pts[v]
<1>1. DefNode[v] \in Node /\ (Kind[DefNode[v]] = "other" \/ (Kind[DefNode[v]] \in Definers /\ Def[DefNode[v]] = v))
  BY DemandAssumption
<1> QED BY <1>1 DEF DefItem, Items, Item, Valid, TopLevel, IsParam, Definers, Right

LEMMA RightTyped == ASSUME NEW i \in Items PROVE Right(i) \subseteq Obj /\ Base(i) \subseteq Obj
<1>1. i[1] \in Node /\ (TopLevel(i[1]) => i[2] \in Var) /\ (~ TopLevel(i[1]) => i[2] \in Obj)
  BY DEF Items, Item, Valid
<1>2. Right(i) \subseteq Obj
  BY <1>1, SolutionAssumption DEF Right, Solutions
<1>3. \A n \in Node : UseOf(Solution, n) \subseteq Obj
  <2>1. \A n \in Node : Uses(Solution.conn, n) \subseteq Var
    BY TypeAssumption, SolutionAssumption DEF Uses, Solutions
  <2> QED BY <2>1, SolutionAssumption DEF UseOf, Solutions
<1> QED BY <1>1, <1>2, <1>3 DEF Base

LEMMA CachedRight == ASSUME Caches, NEW i \in Items PROVE Cached(i) \subseteq Right(i)
BY DEF Caches, Cached, Right, Items, Item, Valid

LEMMA Operands ==
    ASSUME NEW n \in Node, IsParam(n) \/ IsStore(n)
    PROVE  Operand(n) \in Var /\ Use[n] = {Operand(n)}
BY DemandAssumption DEF Operand

(* The solution solves the equations. *)
LEMMA SolutionFacts ==
    /\ Solution \in Solutions
    /\ \A n \in Node : Defined(Solution, n) \subseteq Solution.pts[Def[n]]
    /\ \A n \in Node, o \in Obj : InFront(Solution, n, o) \subseteq Solution.in[n][o]
    /\ \A n \in Node, o \in Obj : IsStore(n) => Behind(Solution, n, o) \subseteq Solution.out[n][o]
    /\ \A c \in Call : c[2] \in Solution.pts[FunPtr[c[1]]] => c \in Solution.conn
<1>1. Solution \in Solutions /\ Within(Apply(Solution), Solution)
  BY SolutionAssumption DEF Solves
<1>2. ASSUME NEW n \in Node PROVE Defined(Solution, n) \subseteq Solution.pts[Def[n]]
  <2>1. Def[n] \in Var
    BY TypeAssumption
  <2>2. Apply(Solution).pts[Def[n]] \subseteq Solution.pts[Def[n]]
    BY <1>1, <2>1 DEF Within
  <2>3. Defined(Solution, n) \subseteq Apply(Solution).pts[Def[n]]
    BY <2>1 DEF Apply
  <2> QED BY <2>2, <2>3
<1>3. ASSUME NEW n \in Node, NEW o \in Obj
      PROVE  /\ InFront(Solution, n, o) \subseteq Solution.in[n][o]
             /\ IsStore(n) => Behind(Solution, n, o) \subseteq Solution.out[n][o]
  <2>1. Apply(Solution).in[n][o] \subseteq Solution.in[n][o] /\ Apply(Solution).out[n][o] \subseteq Solution.out[n][o]
    BY <1>1 DEF Within
  <2>2. Apply(Solution).in[n][o] = Solution.in[n][o] \cup InFront(Solution, n, o)
    BY DEF Apply
  <2>3. Apply(Solution).out[n][o] = Solution.out[n][o] \cup IF IsStore(n) THEN Behind(Solution, n, o) ELSE {}
    BY DEF Apply
  <2> QED BY <2>1, <2>2, <2>3
<1>4. \A c \in Call : c[2] \in Solution.pts[FunPtr[c[1]]] => c \in Solution.conn
  BY <1>1, SolutionAssumption DEF Within, Apply, Called
<1> QED BY <1>1, <1>2, <1>3, <1>4

-----------------------------------------------------------------------------
(* What the sources bring is part of what the item has in the solution.    *)

LEMMA DirectRight ==
    ASSUME connected \subseteq Solution.conn, NEW i \in Items, TopLevel(i[1]), ~ Access(i[1]),
           NEW j \in DirectSources(i[1])
    PROVE  j \in Items /\ Right(j) \subseteq Base(i)
<1> DEFINE n == i[1]
<1>1. n \in Node /\ i[2] \in Var /\ (Kind[n] \in Definers => Def[n] = i[2]) /\ (IsParam(n) => Use[n] = {i[2]})
  BY DEF Items, Item, Valid
<1>2. PICK m \in Node : j = <<m, LHS(m)>> /\ <<m, n>> \in DirOf(connected)
  BY DEF DirectSources
<1>3. Solution.conn \subseteq Call /\ connected \subseteq Call
  BY SolutionFacts DEF Solutions
<1>4. \/ <<m, n>> \in DirEdges
      \/ \E c \in connected : <<m, n>> \in CallDir[c]
  BY <1>2 DEF DirOf
<1>5. Base(i) = IF Kind[n] = "gep" THEN UseOf(Solution, n) ELSE Solution.pts[i[2]]
  BY DEF Base, Right
<1>6. CASE IsParam(m)
  <2>1. Operand(m) \in Var /\ Use[m] = {Operand(m)}
    BY <1>6, Operands
  <2>2. j \in Items /\ Right(j) = Solution.pts[Operand(m)]
    BY <1>2, <1>6, <2>1 DEF Items, Item, Valid, LHS, TopLevel, IsParam, Definers, Right
  <2>3. Kind[n] \in {"fparm", "aret"}
    BY <1>3, <1>4, <1>6, EdgeAssumption DEF IsParam
  <2>4. Solution.pts[Operand(m)] \subseteq UseOf(Solution, m)
    BY <2>1 DEF UseOf, Uses
  <2>5. <<m, n>> \in DirOf(Solution.conn)
    BY <1>4 DEF DirOf
  <2>6. UseOf(Solution, m) \subseteq Defined(Solution, n)
    BY <2>3, <2>5, <1>6 DEF Defined
  <2>7. Defined(Solution, n) \subseteq Solution.pts[i[2]]
    BY <1>1, <2>3, SolutionFacts DEF Definers
  <2> QED BY <2>2, <2>3, <2>4, <2>6, <2>7, <1>5
<1>7. CASE ~ IsParam(m)
  <2>1. TopLevel(m) /\ Def[m] \in Reads(Solution.conn, n)
    <3>1. CASE <<m, n>> \in DirEdges
      BY <3>1, <1>7, SourceAssumption DEF Reads, Uses
    <3>2. CASE \E c \in connected : <<m, n>> \in CallDir[c]
      <4>1. PICK c \in connected : <<m, n>> \in CallDir[c]
        BY <3>2
      <4>2. TopLevel(m) /\ Def[m] \in CallUse[c][n]
        BY <4>1, <1>3, <1>7, SourceAssumption
      <4>3. Kind[n] = "phi"
        BY <4>2, <1>1, <1>3, <4>1, DefUseAssumption
      <4> QED BY <4>1, <4>2, <4>3 DEF Reads, Uses
    <3> QED BY <3>1, <3>2, <1>4
  <2>2. Def[m] \in Var
    BY TypeAssumption
  <2>3. j \in Items /\ Right(j) = Solution.pts[Def[m]]
    BY <1>2, <1>7, <2>1, <2>2 DEF Items, Item, Valid, LHS, Right
  <2>4. Kind[n] \in {"copy", "phi", "gep", "aparm", "fret"} /\ Def[m] \in Uses(Solution.conn, n)
    BY <2>1 DEF Reads, Access
  <2>5. Solution.pts[Def[m]] \subseteq UseOf(Solution, n)
    BY <2>4 DEF UseOf
  <2>6. CASE Kind[n] \in {"copy", "phi"}
    BY <2>3, <2>5, <2>6, <1>1, <1>5, SolutionFacts DEF Defined, Definers
  <2>7. CASE Kind[n] = "gep"
    BY <2>3, <2>5, <2>7, <1>5
  <2>8. CASE IsParam(n)
    <3>1. \A c \in Solution.conn : CallUse[c][n] = {}
      BY <1>1, <1>3, <2>8, DefUseAssumption DEF IsParam
    <3>2. Uses(Solution.conn, n) = Use[n]
      BY <3>1 DEF Uses
    <3> QED BY <3>2, <2>3, <2>4, <2>8, <1>1, <1>5 DEF IsParam
  <2> QED BY <2>4, <2>6, <2>7, <2>8 DEF IsParam
<1> QED BY <1>6, <1>7

LEMMA IndirectRight ==
    ASSUME connected \subseteq Solution.conn, NEW n \in Node, NEW o \in Obj, NEW j \in IndirectSources(n, o)
    PROVE  j \in Items /\ Right(j) \subseteq Solution.in[n][o] /\ o \notin ConstantObj
<1>1. o \notin ConstantObj
  BY DEF IndirectSources
<1>2. PICK m \in Node : j = <<m, o>> /\ <<m, n, o>> \in IndOf(connected)
  BY <1>1 DEF IndirectSources
<1>3. <<m, n, o>> \in IndOf(Solution.conn) /\ Kind[m] \in {"store", "mssa"}
  <2>1. connected \subseteq Call
    BY SolutionFacts DEF Solutions
  <2>2. <<m, n, o>> \in IndEdges \cup UNION {CallInd[c] : c \in Call}
    BY <1>2, <2>1 DEF IndOf
  <2> QED BY <1>2, <2>2, EdgeAssumption DEF IndOf
<1>4. j \in Items
  BY <1>1, <1>2, <1>3 DEF Items, Item, Valid, TopLevel
<1>5. o \in Carried(IndOf(Solution.conn), m, n)
  <2> DEFINE es == {e \in IndOf(Solution.conn) : e[1] = m /\ e[2] = n}
  <2>1. o \in {e[3] : e \in es}
    BY <1>3
  <2> QED BY <2>1 DEF Carried, Expand
<1>6. Right(j) \subseteq InFront(Solution, n, o)
  BY <1>2, <1>3, <1>5 DEF Right, TopLevel, InFront, IsStore
<1> QED BY <1>1, <1>4, <1>6, SolutionFacts

(* What a load or store takes in for one target of its pointer: a strong   *)
(* update decided from a part of the targets is one only if no other is    *)
(* known, and whatever is passed on the solution passes on too.            *)
LEMMA ViaRight ==
    ASSUME connected \subseteq Solution.conn, NEW i \in Items, Access(i[1]),
           NEW P \in SUBSET Obj, P \subseteq Solution.pts[Ptr[i[1]]], NEW o \in P,
           NEW j \in SourcesVia(i[1], i[2], P, o)
    PROVE  j \in Items /\ Right(j) \subseteq Base(i)
<1> DEFINE n == i[1]
           x == i[2]
           Q == Solution.pts[Ptr[n]]
<1>1. n \in Node /\ Ptr[n] \in Var /\ Q \subseteq Obj /\ o \in Q
  BY TypeAssumption, SolutionFacts DEF Items, Item, Solutions
<1>2. CASE ~ IsStore(n)
  <2>1. Kind[n] = "load" /\ Base(i) = Solution.pts[Def[n]]
    BY <1>2 DEF Access, IsStore, Base, Right, TopLevel, Items, Item, Valid, Definers
  <2>2. j \in Items /\ Right(j) \subseteq Solution.in[n][o] /\ o \notin ConstantObj
    BY <1>1, <1>2, IndirectRight DEF SourcesVia
  <2>3. o \in Read(Q)
    BY <1>1, <2>2 DEF Read, Expand
  <2>4. Solution.in[n][o] \subseteq Defined(Solution, n)
    BY <2>1, <2>3 DEF Defined
  <2> QED BY <1>1, <2>1, <2>2, <2>4, SolutionFacts
<1>3. CASE IsStore(n)
  <2>1. Base(i) = Solution.out[n][x] /\ x \in Obj \ ConstantObj
    BY <1>3 DEF IsStore, Base, Right, TopLevel, Items, Item, Valid
  <2>2. Behind(Solution, n, x) \subseteq Base(i)
    BY <1>1, <1>3, <2>1, SolutionFacts
  <2>3. CASE j \in IndirectSources(n, x) /\ (o # x \/ o \notin Killed(P))
    <3>1. j \in Items /\ Right(j) \subseteq Solution.in[n][x]
      BY <1>1, <2>1, <2>3, IndirectRight
    <3>2. x \notin Killed(Q)
      BY <1>1, <2>3 DEF Killed
    <3>3. Solution.in[n][x] \subseteq Behind(Solution, n, x)
      BY <1>1, <3>2 DEF Behind
    <3> QED BY <2>2, <3>1, <3>3
  <2>4. CASE j = DefItem(Operand(n)) /\ o = x
    <3>1. Operand(n) \in Var /\ Use[n] = {Operand(n)}
      BY <1>1, <1>3, Operands
    <3>2. j \in Items /\ Right(j) = Solution.pts[Operand(n)]
      BY <2>4, <3>1, DefItems
    <3>3. Solution.pts[Operand(n)] \subseteq UseOf(Solution, n)
      BY <3>1 DEF UseOf, Uses
    <3>4. UseOf(Solution, n) \subseteq Behind(Solution, n, x)
      BY <1>1, <2>1, <2>4 DEF Behind, Written
    <3> QED BY <2>2, <3>2, <3>3, <3>4
  <2> QED BY <1>3, <2>3, <2>4 DEF SourcesVia
<1> QED BY <1>2, <1>3

-----------------------------------------------------------------------------
(* The stack. *)

LEMMA ChainPush ==
    ASSUME NEW s, Chain(s), NEW f \in Frames, Good(f), s # <<>> => Wanted(s[1], f.item)
    PROVE  Chain(<<f>> \o s)
<1>1. s \in Seq(Frames) /\ Len(s) \in Nat
  BY DEF Chain
<1>2. <<f>> \o s \in Seq(Frames) /\ Len(<<f>> \o s) = Len(s) + 1 /\ (<<f>> \o s)[1] = f
  BY <1>1
<1>3. \A k \in 1..Len(s) : (<<f>> \o s)[k + 1] = s[k]
  BY <1>1
<1>4. \A k \in 1..(Len(s) + 1) : k = 1 \/ (k - 1 \in 1..Len(s) /\ (<<f>> \o s)[k] = s[k - 1])
  BY <1>1, <1>3
<1>5. \A k \in 1..(Len(s) + 1) : Good((<<f>> \o s)[k])
  BY <1>2, <1>4 DEF Chain
<1>6. ASSUME NEW k \in 1..Len(s)
      PROVE  Wanted((<<f>> \o s)[k + 1], (<<f>> \o s)[k].item)
  <2>1. CASE k = 1
    BY <2>1, <1>1, <1>2, <1>3
  <2>2. CASE k # 1
    <3>1. k - 1 \in 1..(Len(s) - 1) /\ (k - 1) + 1 = k
      BY <2>2, <1>1
    <3>2. Wanted(s[(k - 1) + 1], s[k - 1].item)
      BY <3>1 DEF Chain
    <3> QED BY <3>1, <3>2, <1>1, <1>3, <1>4
  <2> QED BY <2>1, <2>2
<1> QED BY <1>1, <1>2, <1>5, <1>6 DEF Chain

LEMMA ChainTail ==
    ASSUME NEW s, Chain(s), s # <<>>
    PROVE  /\ Chain(Tail(s)) /\ s[1] \in Frames /\ Good(s[1])
           /\ Tail(s) # <<>> => Wanted(Tail(s)[1], s[1].item)
<1>1. s \in Seq(Frames) /\ Len(s) \in Nat /\ Len(s) > 0
  BY DEF Chain
<1>2. Tail(s) \in Seq(Frames) /\ Len(Tail(s)) = Len(s) - 1 /\ \A k \in 1..(Len(s) - 1) : Tail(s)[k] = s[k + 1]
  BY <1>1
<1>3. \A k \in 1..(Len(s) - 1) : Good(Tail(s)[k])
  BY <1>1, <1>2 DEF Chain
<1>4. ASSUME NEW k \in 1..(Len(s) - 2) PROVE Wanted(Tail(s)[k + 1], Tail(s)[k].item)
  <2>1. k + 1 \in 1..(Len(s) - 1) /\ k \in 1..(Len(s) - 1)
    BY <1>1
  <2>2. Wanted(s[(k + 1) + 1], s[k + 1].item)
    BY <2>1 DEF Chain
  <2> QED BY <2>1, <2>2, <1>2
<1>5. Tail(s) # <<>> => Wanted(Tail(s)[1], s[1].item)
  <2> SUFFICES ASSUME Tail(s) # <<>> PROVE Wanted(Tail(s)[1], s[1].item)
    OBVIOUS
  <2>1. 1 \in 1..(Len(s) - 1)
    BY <1>1, <1>2
  <2>2. Wanted(s[1 + 1], s[1].item)
    BY <2>1 DEF Chain
  <2> QED BY <2>1, <2>2, <1>2
<1>6. s[1] \in Frames /\ Good(s[1])
  BY <1>1 DEF Chain
<1>7. Chain(Tail(s))
  BY <1>1, <1>2, <1>3, <1>4 DEF Chain
<1> QED BY <1>5, <1>6, <1>7

LEMMA ChainOn ==
    ASSUME NEW s, Chain(s), s # <<>>, NEW f \in Frames, Good(f), f.item = s[1].item
    PROVE  Chain(On(s, f)) /\ On(s, f) # <<>> /\ On(s, f)[1] = f
<1>1. s \in Seq(Frames) /\ Len(s) \in Nat /\ Len(s) > 0
  BY DEF Chain
<1>2. /\ On(s, f) \in Seq(Frames) /\ Len(On(s, f)) = Len(s) /\ On(s, f)[1] = f
      /\ \A k \in 1..Len(s) : k # 1 => On(s, f)[k] = s[k]
  BY <1>1 DEF On
<1>3. \A k \in 1..Len(s) : Good(On(s, f)[k]) /\ On(s, f)[k].item = s[k].item
  BY <1>2 DEF Chain
<1>4. \A k \in 1..(Len(s) - 1) : k \in 1..Len(s) /\ k + 1 \in 1..Len(s) /\ k + 1 # 1
  BY <1>1
<1>5. \A k \in 1..(Len(s) - 1) : Wanted(On(s, f)[k + 1], On(s, f)[k].item)
  BY <1>2, <1>3, <1>4 DEF Chain
<1>6. On(s, f) # <<>>
  BY <1>1, <1>2
<1> QED BY <1>2, <1>3, <1>5, <1>6 DEF Chain

LEMMA ChainResume ==
    ASSUME NEW s, Chain(s), NEW i \in Items, s # <<>> => Wanted(s[1], i),
           NEW answer \in SUBSET Obj, answer \subseteq Right(i)
    PROVE  Chain(Resume(s, answer))
<1>1. CASE s = <<>>
  BY <1>1 DEF Resume
<1>2. CASE s # <<>>
  <2>1. s[1] \in Frames /\ Good(s[1])
    BY <1>2, ChainTail
  <2>2. CASE s[1].step = "ptr"
    <3> DEFINE f == [s[1] EXCEPT !.ptr = @ \cup answer]
    <3>1. f \in Frames /\ f.item = s[1].item
      BY <2>1 DEF Frames
    <3>2. Good(f)
      BY <2>1, <2>2, <1>2 DEF Good, Wanted, Frames
    <3> QED BY <3>1, <3>2, <1>2, <2>2, ChainOn DEF Resume
  <2>3. CASE s[1].step = "src"
    <3> DEFINE f == [s[1] EXCEPT !.got = @ \cup answer]
    <3>1. f \in Frames /\ f.item = s[1].item
      BY <2>1 DEF Frames
    <3>2. Good(f)
      BY <2>1, <2>3, <1>2 DEF Good, Wanted, Frames
    <3> QED BY <3>1, <3>2, <1>2, <2>3, ChainOn DEF Resume
  <2> QED BY <2>2, <2>3, <1>2 DEF Resume
<1> QED BY <1>1, <1>2

(* The top frame asks for the next item of its list. *)
LEMMA FollowChain ==
    ASSUME Inv, NEW j, Follow(j)
    PROVE  Chain(stack') /\ located' \subseteq Items
<1> DEFINE f == [Top EXCEPT !.todo = @ \ {j}]
           s == On(stack, f)
<1>1. Chain(stack) /\ stack # <<>> /\ j \in Top.todo
  BY DEF Inv, Follow, IsNext
<1>2. Top \in Frames /\ Good(Top)
  BY <1>1, ChainTail DEF Top
<1>3. f \in Frames /\ f.item = Top.item /\ f.step = Top.step /\ j \in Items
  BY <1>1, <1>2 DEF Frames
<1>4. Good(f) /\ Wanted(f, j)
  BY <1>1, <1>2 DEF Good, Wanted, Frames
<1>5. Chain(s) /\ s # <<>> /\ s[1] = f
  BY <1>1, <1>3, <1>4, ChainOn DEF Top
<1>6. Cached(j) \subseteq Right(j) /\ Cached(j) \in SUBSET Obj
  BY <1>3, CachedRight, RightTyped DEF Inv
<1>7. Chain(Resume(s, Cached(j)))
  BY <1>3, <1>4, <1>5, <1>6, ChainResume
<1>8. Fresh(j) \in Frames /\ Good(Fresh(j)) /\ Fresh(j).item = j
  <2>1. \A cs \in ResolveAt[j[1]] : DefItem(FunPtr[cs]) \in Items
    BY <1>3, DefItems, DemandAssumption, TypeAssumption DEF Items, Item
  <2> QED BY <1>3, <2>1 DEF Fresh, Frame, Frames, Good, Wanted
<1>9. Chain(<<Fresh(j)>> \o s)
  BY <1>4, <1>5, <1>8, ChainPush
<1>10. FindPT(j, IF Top.step \in {"new", "out"} THEN visited \ {j} ELSE visited, s)
  BY DEF Follow
<1> HIDE DEF s
<1>11. stack' \in {Resume(s, Cached(j)), <<Fresh(j)>> \o s} /\ located' \subseteq located \cup {j}
  BY <1>10 DEF FindPT
<1> QED BY <1>3, <1>7, <1>9, <1>11 DEF Inv

(* The set of an item grows within the solution, and so do the calls. *)
LEMMA UpdateInv ==
    ASSUME Inv, NEW i \in Items, NEW new \in SUBSET Obj, new \subseteq Right(i), NEW s, Chain(s),
           s # <<>> => Wanted(s[1], i), Update(i, new, s)
    PROVE  Caches' /\ connected' \subseteq Solution.conn /\ Chain(stack')
<1>1. Cached(i) \subseteq Right(i) /\ Right(i) \subseteq Obj
  BY CachedRight, RightTyped DEF Inv
<1>2. CASE new \subseteq Cached(i)
  <2>1. stack' = Resume(s, Cached(i)) /\ UNCHANGED <<pts, ad, connected>>
    BY <1>2 DEF Update
  <2>2. Chain(Resume(s, Cached(i)))
    BY <1>1, ChainResume
  <2> QED BY <2>1, <2>2 DEF Inv, Caches
<1>3. CASE ~ (new \subseteq Cached(i))
  <2> DEFINE answer == Cached(i) \cup new
             f == [Frame(i, "new", {}) EXCEPT !.edges =
                     {<<e[2], TRUE>> : e \in UNION {CallDir[c] \cup CallInd[c] : c \in Found(i, answer)}}]
  <2>1. Union(i, new) /\ connected' = connected \cup Found(i, answer) /\ stack' = <<f>> \o s
    BY <1>3 DEF Update, ReCompute
  <2>2. Caches'
    <3>1. i[1] \in Node /\ (TopLevel(i[1]) => i[2] \in Var) /\ (~ TopLevel(i[1]) => i[2] \in Obj) /\ i = <<i[1], i[2]>>
      BY DEF Items, Item, Valid
    <3>2. CASE TopLevel(i[1])
      <4>1. pts' = [pts EXCEPT ![i[2]] = @ \cup new] /\ ad' = ad
        BY <2>1, <3>2 DEF Union
      <4>2. new \subseteq Solution.pts[i[2]]
        BY <3>2 DEF Right
      <4> QED BY <3>1, <3>2, <4>1, <4>2 DEF Inv, Caches
    <3>3. CASE ~ TopLevel(i[1])
      <4>1. pts' = pts /\ ad' = [ad EXCEPT ![i[1]][i[2]] = @ \cup new]
        BY <2>1, <3>3 DEF Union
      <4>2. ad' \in [Node -> [Obj -> SUBSET Obj]]
        BY <3>1, <3>3, <4>1 DEF Inv, Caches
      <4>3. ASSUME NEW n \in Node, NEW o \in Obj, ~ TopLevel(n)
            PROVE  ad'[n][o] \subseteq Right(<<n, o>>)
        <5>1. CASE n = i[1] /\ o = i[2]
          <6>1. ad'[n][o] = ad[n][o] \cup new /\ Right(<<n, o>>) = Right(i)
            BY <3>1, <3>3, <4>1, <5>1 DEF Inv, Caches, Right
          <6> QED BY <6>1, <4>3 DEF Inv, Caches
        <5>2. CASE n # i[1] \/ o # i[2]
          <6>1. ad'[n][o] = ad[n][o]
            BY <3>1, <3>3, <4>1, <5>2 DEF Inv, Caches
          <6> QED BY <6>1, <4>3 DEF Inv, Caches
        <5> QED BY <5>1, <5>2
      <4> QED BY <4>1, <4>2, <4>3 DEF Inv, Caches
    <3> QED BY <3>2, <3>3
  <2>3. answer \subseteq Right(i)
    BY <1>1
  <2>4. Found(i, answer) \subseteq Call /\ Found(i, answer) \subseteq Solution.conn
    <3> SUFFICES ASSUME NEW c \in Found(i, answer) PROVE c \in Call /\ c \in Solution.conn
      OBVIOUS
    <3>1. c \in Call /\ FunPtr[c[1]] = i[2] /\ c[2] \in answer
      BY DEF Found
    <3>2. i[2] \in Var
      BY <3>1, TypeAssumption DEF Call
    <3>3. Right(i) = Solution.pts[i[2]]
      BY <3>2, DemandAssumption DEF Items, Valid, Right
    <3> QED BY <2>3, <3>1, <3>3, SolutionFacts
  <2>5. f \in Frames /\ Good(f) /\ f.item = i
    <3>1. \A c \in Call : \A e \in CallDir[c] \cup CallInd[c] : e[2] \in Node
      BY TypeAssumption
    <3>2. {<<e[2], TRUE>> : e \in UNION {CallDir[c] \cup CallInd[c] : c \in Found(i, answer)}}
             \in SUBSET (Node \X BOOLEAN)
      <4> DEFINE es == UNION {CallDir[c] \cup CallInd[c] : c \in Found(i, answer)}
      <4>1. \A e \in es : e[2] \in Node
        BY <2>4, <3>1
      <4> HIDE DEF es
      <4>2. \A e \in es : <<e[2], TRUE>> \in Node \X BOOLEAN
        BY <4>1
      <4>3. {<<e[2], TRUE>> : e \in es} \subseteq Node \X BOOLEAN
        BY <4>2, Zenon
      <4> QED BY <4>3, Zenon DEF es
    <3> HIDE DEF answer
    <3> QED BY <3>2 DEF Frame, Frames, Good, Wanted
  <2>6. Chain(<<f>> \o s)
    BY <2>5, ChainPush
  <2> QED BY <2>1, <2>2, <2>4, <2>6 DEF Inv
<1> QED BY <1>2, <1>3

(* A step of the top frame alone. *)
LEMMA MoveInv ==
    ASSUME Inv, stack # <<>>, NEW f \in Frames, Good(f), f.item = Top.item, Move(f)
    PROVE  Inv'
<1>1. Chain(On(stack, f))
  BY ChainOn DEF Inv, Top
<1> QED BY <1>1 DEF Move, Inv, Caches

LEMMA TopFrame == ASSUME Inv, stack # <<>> PROVE Top \in Frames /\ Good(Top) /\ Top.item \in Items
BY ChainTail DEF Inv, Top, Frames

LEMMA HandleStatementInv == ASSUME Inv, HandleStatement PROVE Inv'
<1> DEFINE i == Top.item
           n == i[1]
<1>1. stack # <<>> /\ Top.step = "calls" /\ Top.todo = {}
  BY DEF HandleStatement, AtEnd
<1>2. Top \in Frames /\ Good(Top) /\ i \in Items /\ n \in Node
  BY <1>1, TopFrame DEF Items, Item
<1>3. Top.got = {} /\ Top.left = {} /\ Top.ptr = {}
  BY <1>1, <1>2 DEF Good
<1>4. CASE Kind[n] \in {"load", "store"}
  <2> DEFINE f == [Top EXCEPT !.step = "ptr", !.todo = {DefItem(Ptr[n])}]
  <2>1. DefItem(Ptr[n]) \in Items /\ Right(DefItem(Ptr[n])) = Solution.pts[Ptr[n]]
    BY <1>2, DefItems, TypeAssumption
  <2>2. f \in Frames /\ f.item = Top.item
    BY <1>2, <2>1 DEF Frames
  <2>3. Good(f)
    BY <1>2, <1>3, <1>4, <2>1 DEF Good, Wanted, Frames, Access
  <2>4. Move(f)
    BY <1>4 DEF HandleStatement
  <2> QED BY <1>1, <2>2, <2>3, <2>4, MoveInv
<1>5. CASE Kind[n] = "addr"
  <2> DEFINE f == [Top EXCEPT !.step = "src", !.got = {AddrOf[n]}]
  <2>1. {AddrOf[n]} \subseteq Base(i) /\ AddrOf[n] \in Obj
    BY <1>2, <1>5, SolutionFacts, TypeAssumption
       DEF Defined, Base, Right, TopLevel, Items, Valid, Definers
  <2>2. f \in Frames /\ f.item = Top.item
    BY <1>2, <2>1 DEF Frames
  <2>3. Good(f)
    BY <1>1, <1>2, <1>3, <2>1 DEF Good, Wanted, Frames
  <2>4. Move(f)
    BY <1>5 DEF HandleStatement
  <2> QED BY <1>1, <2>2, <2>3, <2>4, MoveInv
<1>6. CASE Kind[n] = "mssa"
  <2> DEFINE f == [Top EXCEPT !.step = "src", !.todo = IndirectSources(n, i[2])]
  <2>1. i[2] \in Obj /\ Base(i) = Solution.in[n][i[2]]
    BY <1>2, <1>6 DEF Items, Valid, TopLevel, Base, Right, IsStore
  <2>2. \A j \in IndirectSources(n, i[2]) : j \in Items /\ Right(j) \subseteq Base(i)
    BY <1>2, <2>1, IndirectRight DEF Inv
  <2>3. f \in Frames /\ f.item = Top.item
    BY <1>2, <2>2 DEF Frames
  <2>4. Good(f)
    BY <1>2, <1>3, <2>2 DEF Good, Wanted, Frames
  <2>5. Move(f)
    BY <1>6 DEF HandleStatement
  <2> QED BY <1>1, <2>3, <2>4, <2>5, MoveInv
<1>7. CASE Kind[n] \notin {"load", "store", "addr", "mssa"}
  <2> DEFINE f == [Top EXCEPT !.step = "src", !.todo = DirectSources(n)]
  <2>1. \A j \in DirectSources(n) : j \in Items /\ Right(j) \subseteq Base(i)
    BY <1>2, <1>7, DirectRight DEF Inv, TopLevel, Access
  <2>2. f \in Frames /\ f.item = Top.item
    BY <1>2, <2>1 DEF Frames
  <2>3. Good(f)
    BY <1>2, <1>3, <2>1 DEF Good, Wanted, Frames
  <2>4. Move(f)
    BY <1>7 DEF HandleStatement
  <2> QED BY <1>1, <2>2, <2>3, <2>4, MoveInv
<1> QED BY <1>4, <1>5, <1>6, <1>7

LEMMA HandleTargetsInv == ASSUME Inv, HandleTargets PROVE Inv'
<1> DEFINE f == [Top EXCEPT !.step = "src", !.left = Top.ptr]
<1>1. stack # <<>> /\ Top.step = "ptr" /\ Top.todo = {} /\ Move(f)
  BY DEF HandleTargets, AtEnd
<1>2. Top \in Frames /\ Good(Top)
  BY <1>1, TopFrame
<1>3. f \in Frames /\ f.item = Top.item
  BY <1>2 DEF Frames
<1>4. Good(f)
  BY <1>1, <1>2 DEF Good, Wanted, Frames
<1> QED BY <1>1, <1>3, <1>4, MoveInv

LEMMA HandleTargetInv == ASSUME Inv, NEW o \in Obj, HandleTarget(o) PROVE Inv'
<1> DEFINE i == Top.item
           srcs == SourcesVia(i[1], i[2], Top.ptr, o)
           f == [Top EXCEPT !.left = @ \ {o}, !.todo = srcs]
<1>1. stack # <<>> /\ Top.step = "src" /\ o \in Top.left /\ Move(f)
  BY DEF HandleTarget, AtEnd
<1>2. Top \in Frames /\ Good(Top) /\ i \in Items
  BY <1>1, TopFrame
<1>3. Access(i[1]) /\ o \in Top.ptr /\ Top.ptr \in SUBSET Obj /\ Top.ptr \subseteq Solution.pts[Ptr[i[1]]]
  BY <1>1, <1>2 DEF Good, Frames
<1>4. \A j \in srcs : j \in Items /\ Right(j) \subseteq Base(i)
  BY <1>2, <1>3, ViaRight DEF Inv
<1> HIDE DEF srcs
<1>5. f \in Frames /\ f.item = Top.item
  BY <1>2, <1>4 DEF Frames
<1>6. Good(f)
  BY <1>1, <1>2, <1>4 DEF Good, Wanted, Frames
<1> QED BY <1>1, <1>5, <1>6, MoveInv

LEMMA FinishStatementInv == ASSUME Inv, FinishStatement PROVE Inv'
<1> DEFINE i == Top.item
           n == i[1]
           new == IF Kind[n] = "gep" THEN Fields(n, Top.got) ELSE Top.got
<1>1. stack # <<>> /\ Top.step = "src" /\ Update(i, new, Tail(stack)) /\ located' = located
  BY DEF FinishStatement, AtEnd
<1>2. Top \in Frames /\ Good(Top) /\ i \in Items /\ n \in Node
  BY <1>1, TopFrame DEF Items, Item
<1>3. Top.got \subseteq Base(i) /\ Top.got \subseteq Obj
  BY <1>1, <1>2 DEF Good, Frames
<1>4. new \in SUBSET Obj /\ new \subseteq Right(i)
  <2>1. CASE Kind[n] = "gep"
    <3>1. Top.got \subseteq UseOf(Solution, n) /\ Right(i) = Solution.pts[Def[n]]
      BY <1>2, <1>3, <2>1 DEF Base, Right, TopLevel, Items, Valid, Definers
    <3>2. Fields(n, Top.got) \subseteq Fields(n, UseOf(Solution, n))
      BY <3>1 DEF Fields
    <3>3. Fields(n, UseOf(Solution, n)) = Defined(Solution, n)
      BY <2>1 DEF Defined
    <3>4. new \subseteq Right(i)
      BY <1>2, <2>1, <3>1, <3>2, <3>3, SolutionFacts
    <3> QED BY <3>4, <1>2, RightTyped
  <2>2. CASE Kind[n] # "gep"
    BY <1>3, <2>2 DEF Base
  <2> QED BY <2>1, <2>2
<1>5. Chain(Tail(stack)) /\ (Tail(stack) # <<>> => Wanted(Tail(stack)[1], i))
  BY <1>1, ChainTail DEF Inv, Top
<1> HIDE DEF new
<1>6. Caches' /\ connected' \subseteq Solution.conn /\ Chain(stack')
  BY <1>1, <1>2, <1>4, <1>5, UpdateInv
<1> QED BY <1>1, <1>6 DEF Inv

LEMMA ReComputeInv ==
    ASSUME Inv, TransitiveClosure \/ (\E e \in Node \X BOOLEAN : NextEdge(e)) PROVE Inv'
<1>1. CASE TransitiveClosure
  <2> DEFINE f == [Top EXCEPT !.step = "out", !.edges = OutEdges(Top.item[1])]
  <2>1. stack # <<>> /\ Move(f) /\ Top.step = "new" /\ Top.todo = {}
    BY <1>1 DEF TransitiveClosure, AtEnd
  <2>2. Top \in Frames /\ Good(Top)
    BY <2>1, TopFrame
  <2>3. OutEdges(Top.item[1]) \subseteq Node \X BOOLEAN
    <3>1. connected \subseteq Call
      BY SolutionFacts DEF Inv, Solutions
    <3>2. IndOf(connected) \subseteq Node \X Node \X Obj
      BY <3>1, TypeAssumption DEF IndOf
    <3>3. \A e \in IndOf(connected) : e[2] \in Node
      BY <3>2
    <3>4. \A e \in IndOf(connected) : <<e[2], Kind[e[2]] = "load">> \in Node \X BOOLEAN
      BY <3>3
    <3>5. \A m \in Node : <<m, TRUE>> \in Node \X BOOLEAN
      OBVIOUS
    <3> QED BY <3>4, <3>5, Zenon DEF OutEdges
  <2>4. f \in Frames /\ f.item = Top.item
    BY <2>2, <2>3 DEF Frames
  <2>5. Good(f)
    BY <2>1, <2>2 DEF Good, Wanted, Frames
  <2> QED BY <2>1, <2>4, <2>5, MoveInv
<1>2. CASE \E e \in Node \X BOOLEAN : NextEdge(e)
  <2>1. PICK e \in Node \X BOOLEAN : NextEdge(e)
    BY <1>2
  <2> DEFINE again == {j \in located : j[1] = e[1] /\ (e[2] \/ j[2] = Top.item[2])}
             f == [Top EXCEPT !.edges = @ \ {e}, !.todo = again]
  <2>2. stack # <<>> /\ Move(f) /\ Top.step \in {"new", "out"}
    BY <2>1 DEF NextEdge, AtEnd
  <2>3. Top \in Frames /\ Good(Top) /\ again \subseteq Items
    BY <2>2, TopFrame DEF Inv
  <2> HIDE DEF again
  <2>4. f \in Frames /\ f.item = Top.item
    BY <2>3 DEF Frames
  <2>5. Good(f)
    BY <2>2, <2>3 DEF Good, Wanted, Frames
  <2> QED BY <2>2, <2>4, <2>5, MoveInv
<1> QED BY <1>1, <1>2

LEMMA FinishReComputeInv == ASSUME Inv, FinishReCompute PROVE Inv'
<1>1. stack # <<>> /\ stack' = Resume(Tail(stack), Cached(Top.item))
  BY DEF FinishReCompute, AtEnd
<1>2. Top.item \in Items
  BY <1>1, TopFrame
<1>3. Chain(Tail(stack)) /\ (Tail(stack) # <<>> => Wanted(Tail(stack)[1], Top.item))
  BY <1>1, ChainTail DEF Inv, Top
<1>4. Cached(Top.item) \in SUBSET Obj /\ Cached(Top.item) \subseteq Right(Top.item)
  BY <1>2, CachedRight, RightTyped DEF Inv
<1>5. Chain(stack')
  BY <1>1, <1>2, <1>3, <1>4, ChainResume
<1> QED BY <1>5 DEF FinishReCompute, Inv, Caches

LEMMA DowngradeInv == ASSUME Inv, NothingAdded', Downgrade PROVE Inv'
<1> DEFINE i == Top.item
<1>1. /\ stack # <<>> /\ Top.step = "query" /\ overItems' = overItems \cup {i}
      /\ Update(i, Conservative[i[2]], stack) /\ located' = located
  BY DEF Downgrade, AtEnd
<1>2. Top \in Frames /\ Good(Top) /\ i \in Items
  BY <1>1, TopFrame
<1>3. Conservative[i[2]] \in SUBSET Obj /\ Conservative[i[2]] \subseteq Right(i)
  BY <1>1, <1>2, DemandAssumption DEF Good, NothingAdded, Items, Valid, Right
<1>4. Chain(stack) /\ Wanted(stack[1], i)
  BY <1>1 DEF Inv, Wanted, Top
<1>5. Caches' /\ connected' \subseteq Solution.conn /\ Chain(stack')
  BY <1>1, <1>2, <1>3, <1>4, UpdateInv
<1> QED BY <1>1, <1>5 DEF Inv

-----------------------------------------------------------------------------
(* The invariant holds of every behaviour.                                 *)

LEMMA EmptyChain == Chain(<<>>)
BY DEF Chain

LEMMA Initially == Init => IInv
BY EmptyChain DEF Init, IInv, Inv, Caches

LEMMA AskInv == ASSUME Inv, NEW v \in Queries, Ask(v) PROVE Inv'
<1> DEFINE f == Frame(DefItem(v), "query", {DefItem(v)})
<1>1. DefItem(v) \in Items /\ TopLevel(DefItem(v)[1])
  <2>1. v \in Var
    BY DemandAssumption
  <2> QED BY <2>1, DefItems, DemandAssumption DEF DefItem, TopLevel, Definers
<1>2. f \in Frames /\ Good(f)
  BY <1>1 DEF Frame, Frames, Good, Wanted
<1>3. Chain(<<f>>)
  <2> HIDE DEF f
  <2>1. Chain(<<f>> \o <<>>)
    BY <1>2, EmptyChain, ChainPush
  <2>2. <<f>> \o <<>> = <<f>>
    OBVIOUS
  <2> QED BY <2>1, <2>2, Zenon
<1>4. stack' = <<f>> /\ located' = {} /\ connected' = connected /\ pts' = pts /\ ad' = ad
  BY DEF Ask
<1>5. Chain(stack')
  BY <1>3, <1>4, Zenon
<1>6. Caches' /\ connected' \subseteq Solution.conn /\ located' \subseteq Items
  BY <1>4 DEF Inv, Caches
<1> QED BY <1>5, <1>6 DEF Inv

LEMMA Preserved == IInv /\ [Next]_vars => IInv'
<1> SUFFICES ASSUME IInv, [Next]_vars, NothingAdded' PROVE Inv'
  BY DEF IInv
<1>1. Inv
  <2>1. overItems \subseteq overItems'
    BY DEF Next, Step, Ask, Follow, HandleStatement, HandleTargets, HandleTarget, FinishStatement,
           NextEdge, TransitiveClosure, FinishReCompute, Downgrade, Answer, Move, vars
  <2> QED BY <2>1 DEF IInv, NothingAdded
<1>2. CASE UNCHANGED vars
  BY <1>1, <1>2 DEF vars, Inv, Caches
<1>3. CASE \E v \in Queries : Ask(v)
  BY <1>1, <1>3, AskInv
<1>4. CASE Step
  <2>1. CASE \E j \in Item : Follow(j)
    <3>1. PICK j \in Item : Follow(j)
      BY <2>1
    <3>2. Chain(stack') /\ located' \subseteq Items
      BY <1>1, <3>1, FollowChain
    <3> QED BY <1>1, <3>1, <3>2 DEF Follow, Inv, Caches
  <2>2. CASE HandleStatement
    BY <1>1, <2>2, HandleStatementInv
  <2>3. CASE HandleTargets
    BY <1>1, <2>3, HandleTargetsInv
  <2>4. CASE \E o \in Obj : HandleTarget(o)
    BY <1>1, <2>4, HandleTargetInv
  <2>5. CASE FinishStatement
    BY <1>1, <2>5, FinishStatementInv
  <2>6. CASE TransitiveClosure \/ \E e \in Node \X BOOLEAN : NextEdge(e)
    BY <1>1, <2>6, ReComputeInv
  <2>7. CASE FinishReCompute
    BY <1>1, <2>7, FinishReComputeInv
  <2>8. CASE Downgrade
    BY <1>1, <2>8, DowngradeInv
  <2>9. CASE Answer
    BY <1>1, <2>9, EmptyChain DEF Answer, Inv, Caches
  <2> QED BY <1>4, <2>1, <2>2, <2>3, <2>4, <2>5, <2>6, <2>7, <2>8, <2>9 DEF Step
<1> QED BY <1>2, <1>3, <1>4 DEF Next

(* On-demand answers add nothing: as long as no query was answered with    *)
(* more, every set findPT and reCompute cache is within every solution of  *)
(* the equations, in whatever order items are done and done again.         *)
THEOREM NeverTooMuch == Spec => []WithinSolution
<1>1. IInv => WithinSolution
  BY DEF IInv, Inv, Caches, WithinSolution
<1> QED BY <1>1, Initially, Preserved, PTL DEF Spec
=============================================================================
