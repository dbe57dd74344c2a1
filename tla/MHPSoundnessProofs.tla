------------------------- MODULE MHPSoundnessProofs -------------------------
(***************************************************************************)
(* MHP is sound for every program with one entry function, as long as no   *)
(* fork is part of a cycle of calls, no call may lead both to functions    *)
(* that fork and to others, and every cycle of instructions is known to be *)
(* a loop: two instructions that two running threads are about to execute  *)
(* may happen in parallel.  First, what the tree of threads keeps true for *)
(* every program: no thread is ever given a second parent, and all descend *)
(* from the main thread.                                                   *)
(***************************************************************************)
EXTENDS MHPSoundness, FiniteSetTheorems, SequenceTheorems, WellFoundedInduction, TLAPS

-----------------------------------------------------------------------------
(* Closure(R) connects what one or more edges of R connect.                *)

(* What follows a by edges of R is in every set with that property.        *)
LEMMA ClosureInduction ==
    ASSUME NEW R, NEW a, NEW b, <<a, b>> \in Closure(R), NEW S,
           \A e \in R : e[1] \in {a} \cup S => e[2] \in S
    PROVE  b \in S
<1> DEFINE ends == UNION {{e[1], e[2]} : e \in R}
           T == S \cap ends
<1>1. /\ <<a, b>> \in ends \X ends
      /\ \A U \in SUBSET ends : (\A e \in R : e[1] \in {a} \cup U => e[2] \in U) => b \in U
    BY DEF Closure
<1>2. \A e \in R : e[1] \in {a} \cup T => e[2] \in T
    OBVIOUS
<1>3. T \in SUBSET ends
    OBVIOUS
<1> HIDE DEF T
<1>4. b \in T
    BY <1>1, <1>2, <1>3
<1> QED
    BY <1>4 DEF T

(* The other way round: what is in every such set is connected.            *)
LEMMA ClosureIntro ==
    ASSUME NEW R, NEW a, NEW b,
           a \in UNION {{e[1], e[2]} : e \in R}, b \in UNION {{e[1], e[2]} : e \in R},
           \A S : (\A e \in R : e[1] \in {a} \cup S => e[2] \in S) => b \in S
    PROVE  <<a, b>> \in Closure(R)
BY DEF Closure

LEMMA ClosureEnds ==
    ASSUME NEW R, NEW a, NEW b, <<a, b>> \in Closure(R)
    PROVE  /\ a \in UNION {{e[1], e[2]} : e \in R}
           /\ b \in UNION {{e[1], e[2]} : e \in R}
BY DEF Closure

LEMMA ClosureEdge ==
    ASSUME NEW R, NEW a, NEW b, <<a, b>> \in R
    PROVE  <<a, b>> \in Closure(R)
<1>1. /\ a \in UNION {{e[1], e[2]} : e \in R}
      /\ b \in UNION {{e[1], e[2]} : e \in R}
    <2>1. {<<a, b>>[1], <<a, b>>[2]} \in {{e[1], e[2]} : e \in R}
        OBVIOUS
    <2> QED
        BY <2>1
<1>2. ASSUME NEW S, \A e \in R : e[1] \in {a} \cup S => e[2] \in S
      PROVE  b \in S
    <2>1. <<a, b>>[1] \in {a} \cup S => <<a, b>>[2] \in S
        BY <1>2
    <2> QED
        BY <2>1
<1> QED
    BY <1>1, <1>2, ClosureIntro

LEMMA ClosureTransitive ==
    ASSUME NEW R, NEW a, NEW b, NEW c,
           <<a, b>> \in Closure(R), <<b, c>> \in Closure(R)
    PROVE  <<a, c>> \in Closure(R)
<1>1. ASSUME NEW S, \A e \in R : e[1] \in {a} \cup S => e[2] \in S
      PROVE  c \in S
    <2>1. b \in S
        BY <1>1, ClosureInduction
    <2>2. \A e \in R : e[1] \in {b} \cup S => e[2] \in S
        BY <1>1, <2>1
    <2> QED
        BY <2>2, ClosureInduction
<1> QED
    BY <1>1, ClosureEnds, ClosureIntro

LEMMA ClosureMonotone ==
    ASSUME NEW R, NEW T, R \subseteq T, NEW a, NEW b, <<a, b>> \in Closure(R)
    PROVE  <<a, b>> \in Closure(T)
<1>1. ASSUME NEW S, \A e \in T : e[1] \in {a} \cup S => e[2] \in S
      PROVE  b \in S
    <2>1. \A e \in R : e[1] \in {a} \cup S => e[2] \in S
        BY <1>1
    <2> QED
        BY <2>1, ClosureInduction
<1>2. /\ a \in UNION {{e[1], e[2]} : e \in T}
      /\ b \in UNION {{e[1], e[2]} : e \in T}
    BY ClosureEnds
<1> QED
    BY <1>1, <1>2, ClosureIntro

(* A connection has a last edge. *)
LEMMA ClosureLast ==
    ASSUME NEW R, \A e \in R : e = <<e[1], e[2]>>,
           NEW a, NEW b, <<a, b>> \in Closure(R)
    PROVE  \E e \in R : e[2] = b /\ (e[1] = a \/ <<a, e[1]>> \in Closure(R))
<1> DEFINE S == {e[2] : e \in {x \in R : x[1] = a \/ <<a, x[1]>> \in Closure(R)}}
<1>1. ASSUME NEW e \in R, e[1] \in {a} \cup S
      PROVE  e[2] \in S
    <2>1. CASE e[1] = a
        BY <2>1
    <2>2. CASE e[1] \in S
        <3>1. PICK x \in R : e[1] = x[2] /\ (x[1] = a \/ <<a, x[1]>> \in Closure(R))
            BY <2>2
        <3>2. <<x[1], e[1]>> \in Closure(R)
            BY <3>1, ClosureEdge
        <3>3. <<a, e[1]>> \in Closure(R)
            BY <3>1, <3>2, ClosureTransitive
        <3> QED
            BY <3>3
    <2> QED
        BY <1>1, <2>1, <2>2
<1> HIDE DEF S
<1>2. b \in S
    BY <1>1, ClosureInduction
<1> QED
    BY <1>2 DEF S

(* A connection has a first edge. *)
LEMMA ClosureFirst ==
    ASSUME NEW R, \A e \in R : e = <<e[1], e[2]>>,
           NEW a, NEW b, <<a, b>> \in Closure(R)
    PROVE  \E e \in R : e[1] = a /\ (e[2] = b \/ <<e[2], b>> \in Closure(R))
<1> DEFINE First(y) == \E e \in R : e[1] = a /\ (e[2] = y \/ <<e[2], y>> \in Closure(R))
           S == {y \in UNION {{e[1], e[2]} : e \in R} : First(y)}
<1>1. ASSUME NEW e \in R, e[1] \in {a} \cup S
      PROVE  e[2] \in S
    <2>1. e[2] \in UNION {{x[1], x[2]} : x \in R}
        OBVIOUS
    <2>2. CASE e[1] = a
        BY <2>1, <2>2
    <2>3. CASE e[1] \in S
        <3>1. PICK x \in R : x[1] = a /\ (x[2] = e[1] \/ <<x[2], e[1]>> \in Closure(R))
            BY <2>3
        <3>2. <<e[1], e[2]>> \in Closure(R)
            BY ClosureEdge
        <3>3. <<x[2], e[2]>> \in Closure(R)
            BY <3>1, <3>2, ClosureTransitive
        <3> QED
            BY <2>1, <3>1, <3>3
    <2> QED
        BY <1>1, <2>2, <2>3
<1> HIDE DEF S
<1>2. b \in S
    BY <1>1, ClosureInduction
<1> QED
    BY <1>2 DEF S
-----------------------------------------------------------------------------
(* Cycles of calls. *)

LEMMA CallersTransitive ==
    ASSUME NEW f \in Fun, NEW g, NEW h, f \in Callers(g), g \in Callers(h)
    PROVE  f \in Callers(h)
BY ClosureTransitive DEF Callers

(* Functions that reach each other are those of a component.               *)
LEMMA SameSCCEquivalence ==
    ASSUME callersOf = [f \in Fun |-> Callers(f)],
           NEW f \in Fun, NEW g \in Fun, NEW h \in Fun
    PROVE  /\ SameSCC(f, f)
           /\ SameSCC(f, g) => SameSCC(g, f)
           /\ SameSCC(f, g) /\ SameSCC(g, h) => SameSCC(f, h)
<1>1. callersOf[f] = Callers(f) /\ callersOf[g] = Callers(g) /\ callersOf[h] = Callers(h)
    OBVIOUS
<1>2. f \in Callers(f)
    BY DEF Callers
<1>3. SameSCC(f, g) /\ SameSCC(g, h) => SameSCC(f, h)
    BY <1>1, CallersTransitive DEF SameSCC
<1> QED
    BY <1>1, <1>2, <1>3 DEF SameSCC

-----------------------------------------------------------------------------
(* The invariant.                                                          *)

TreeTypes ==
    /\ prog \in Program
    /\ callersOf = [f \in Fun |-> Callers(f)]
    /\ visited \in SUBSET (Tid \X Cxt \X Fun)
    /\ ctpList \subseteq visited
    /\ tctEdges \in SUBSET (Tid \X Tid)

(* What has been visited belongs to a thread of the tree.                  *)
VisitedInTree == \A p \in visited : p[1] \in TIds

(* A function is visited in a context whose last call led to its cycle of  *)
(* calls: calls out of a cycle are pushed, the others are not.             *)
TopOfContext ==
    \A p \in visited : p[2] = <<>> \/ SameSCC(p[2][Len(p[2])][2], p[3])

ForkedBy(p, c) == <<Spawned(p[2], c), PushCxt(p[2], c[1], c[2]), c[2]>>

(* Whoever has an edge to a child has been processed, with all its forks.  *)
EdgesFromVisited ==
    \A e \in tctEdges : \E p \in visited :
        /\ \E c \in prog.forks : prog.fn[c[1]] = p[3] /\ e = <<p[1], Spawned(p[2], c)>>
        /\ \A c \in prog.forks : prog.fn[c[1]] = p[3] => ForkedBy(p, c) \in visited

OneEdge == \A e, g \in tctEdges : e[2] = g[2] => e[1] = g[1]

FromMain == \A t \in TIds : t = MainTid \/ (MainTid \in TIds /\ <<MainTid, t>> \in Closure(tctEdges))

TreeInv ==
    /\ TreeTypes /\ VisitedInTree /\ TopOfContext /\ EdgesFromVisited /\ OneEdge /\ FromMain

(* What TreeInv is about.                                                  *)
treeVars == <<prog, callersOf, candidates, ctpList, visited, threads, tctEdges>>

LEMMA ContextsStable ==
    ASSUME UNCHANGED <<prog, callersOf, candidates>>
    PROVE  /\ \A f, g : SameSCC(f, g)' = SameSCC(f, g)
           /\ \A x, i, g : PushCxt(x, i, g)' = PushCxt(x, i, g)
           /\ \A x, c : Spawned(x, c)' = Spawned(x, c)
           /\ \A p, c : ForkedBy(p, c)' = ForkedBy(p, c)
           /\ \A f : Callers(f)' = Callers(f)
<1>1. \A f, g : SameSCC(f, g)' = SameSCC(f, g)
    BY DEF SameSCC
<1>2. \A x, i, g : PushCxt(x, i, g)' = PushCxt(x, i, g)
    BY <1>1 DEF PushCxt
<1>3. \A x, c : Spawned(x, c)' = Spawned(x, c)
    BY <1>2 DEF Spawned
<1>4. \A p, c : ForkedBy(p, c)' = ForkedBy(p, c)
    BY <1>2, <1>3 DEF ForkedBy
<1>5. \A f : Callers(f)' = Callers(f)
    BY DEF Callers, Closure, CallGraph, Sites
<1> QED
    BY <1>1, <1>2, <1>3, <1>4, <1>5

LEMMA TreeInvStable ==
    ASSUME TreeInv, UNCHANGED treeVars
    PROVE  TreeInv'
<1>1. /\ prog' = prog /\ callersOf' = callersOf /\ candidates' = candidates
      /\ ctpList' = ctpList /\ visited' = visited /\ threads' = threads /\ tctEdges' = tctEdges
    BY DEF treeVars
<1>2. TIds' = TIds
    BY <1>1 DEF TIds
<1>3. Closure(tctEdges)' = Closure(tctEdges)
    BY <1>1 DEF Closure
<1>4. TreeTypes'
    BY <1>1, ContextsStable DEF TreeInv, TreeTypes
<1>5. VisitedInTree' /\ OneEdge' /\ FromMain'
    BY <1>1, <1>2, <1>3 DEF TreeInv, VisitedInTree, OneEdge, FromMain, MainTid
<1>6. TopOfContext'
    BY <1>1, ContextsStable DEF TreeInv, TopOfContext
<1>7. EdgesFromVisited'
    BY <1>1, ContextsStable DEF TreeInv, EdgesFromVisited
<1> QED
    BY <1>4, <1>5, <1>6, <1>7 DEF TreeInv

LEMMA TreeInvInit == TCTInit => TreeInv
<1> SUFFICES ASSUME TCTInit
             PROVE  TreeInv
    OBVIOUS
<1> DEFINE start == {<<MainTid, <<>>, f>> : f \in EntryFuns \cap candidates}
<1>1. /\ prog \in Program
      /\ callersOf = [f \in Fun |-> Callers(f)]
    BY ProgramAssumption DEF TCTInit, ProgramInit
<1>2. /\ visited = start /\ ctpList = start /\ tctEdges = {}
      /\ IF start = {} THEN threads = {} ELSE \E p \in start : threads = {<<MainTid, <<>>, p[3]>>}
    BY DEF TCTInit
<1>3. EntryFuns \subseteq Fun
    BY <1>1 DEF EntryFuns, Program
<1>4. MainTid \in Tid /\ <<>> \in Cxt
    <2>1. <<>> \in Cxt
        BY DEF Cxt
    <2> QED
        BY <2>1, Zenon DEF MainTid, Tid
<1>5. \A p \in start : p \in Tid \X Cxt \X Fun /\ p[1] = MainTid /\ p[2] = <<>>
    BY <1>3, <1>4
<1>6. start # {} => TIds = {MainTid}
    BY <1>2 DEF TIds
<1>7. start = {} => TIds = {}
    BY <1>2 DEF TIds
<1>8. TreeTypes
    BY <1>1, <1>2, <1>5 DEF TreeTypes
<1> HIDE DEF start
<1>9. VisitedInTree /\ TopOfContext /\ EdgesFromVisited /\ OneEdge /\ FromMain
    BY <1>2, <1>5, <1>6, <1>7
    DEF VisitedInTree, TopOfContext, EdgesFromVisited, OneEdge, FromMain
<1> QED
    BY <1>8, <1>9 DEF TreeInv
-----------------------------------------------------------------------------
(* Steps.                                                                  *)

LEMMA AppendLast ==
    ASSUME NEW S, NEW s \in Seq(S), NEW e \in S
    PROVE  /\ Append(s, e) \in Seq(S) /\ Append(s, e) # <<>>
           /\ Len(Append(s, e)) = Len(s) + 1
           /\ Append(s, e)[Len(Append(s, e))] = e
           /\ \A k \in DOMAIN s : k \in DOMAIN Append(s, e) /\ Append(s, e)[k] = s[k]
OBVIOUS

LEMMA SameAppended ==
    ASSUME NEW S, NEW s \in Seq(S), NEW t \in Seq(S), NEW d \in S, NEW e \in S,
           Append(s, d) = Append(t, e)
    PROVE  s = t /\ d = e
BY AppendInjective

LEMMA PushCxtType ==
    ASSUME NEW x \in Cxt, NEW c \in CallSite
    PROVE  /\ PushCxt(x, c[1], c[2]) \in Cxt
           /\ Spawned(x, c) \in Tid
<1>1. c = <<c[1], c[2]>> /\ c[1] \in Inst
    BY DEF CallSite
<1>2. PushCxt(x, c[1], c[2]) \in Cxt
    <2>1. x \in Seq(CallSite) /\ Append(x, c) \in Seq(CallSite)
        BY DEF Cxt
    <2> QED
        BY <1>1, <2>1 DEF Cxt, PushCxt
<1>3. Spawned(x, c) \in Tid
    BY <1>1, <1>2, Zenon DEF Spawned, Tid
<1> QED
    BY <1>2, <1>3

(* Calls and forks keep TopOfContext. *)
LEMMA PushCxtTop ==
    ASSUME TreeTypes, NEW x \in Cxt, NEW c \in Sites, prog.fn[c[1]] \in candidates,
           x = <<>> \/ SameSCC(x[Len(x)][2], prog.fn[c[1]])
    PROVE  LET y == PushCxt(x, c[1], c[2])
           IN  y = <<>> \/ SameSCC(y[Len(y)][2], c[2])
<1> DEFINE f == prog.fn[c[1]]
           g == c[2]
           y == PushCxt(x, c[1], c[2])
<1>1. c \in CallSite /\ f \in Fun /\ g \in Fun /\ x \in Seq(CallSite)
    BY DEF TreeTypes, Program, Sites, CallSite, Cxt
<1>2. callersOf = [h \in Fun |-> Callers(h)]
    BY DEF TreeTypes
<1>3. CASE SameSCC(f, g)
    <2>1. y = x
        BY <1>3 DEF PushCxt
    <2>2. CASE x = <<>>
        BY <2>1, <2>2
    <2>3. CASE x # <<>>
        <3>1. x[Len(x)][2] \in Fun
            BY <1>1, <2>3 DEF CallSite
        <3>2. SameSCC(x[Len(x)][2], f)
            BY <2>3
        <3>3. SameSCC(x[Len(x)][2], g)
            BY <1>1, <1>2, <1>3, <3>1, <3>2, SameSCCEquivalence
        <3> QED
            BY <2>1, <3>3
    <2> QED
        BY <2>2, <2>3
<1>4. CASE ~ SameSCC(f, g)
    <2>1. y = Append(x, <<c[1], g>>)
        BY <1>4 DEF PushCxt
    <2>2. y[Len(y)][2] = g
        BY <1>1, <2>1
    <2>3. SameSCC(g, g)
        BY <1>1, <1>2, SameSCCEquivalence
    <2> QED
        BY <2>2, <2>3
<1> QED
    BY <1>3, <1>4

(* Two functions that fork the same thread agree on the context: so what   *)
(* one of them has visited the other has too.                              *)
LEMMA SameThreadForked ==
    ASSUME TreeTypes, TopOfContext,
           NEW p \in visited, NEW c \in prog.forks, prog.fn[c[1]] = p[3],
           NEW q \in visited, NEW d \in prog.forks, prog.fn[d[1]] = q[3],
           Spawned(p[2], c) = Spawned(q[2], d)
    PROVE  p[3] = q[3] /\ ForkedBy(q, c) = ForkedBy(p, c)
<1> DEFINE i == c[1]
           f == prog.fn[i]
           x == p[2]
           y == q[2]
<1>1. i = d[1] /\ PushCxt(x, i, c[2]) = PushCxt(y, i, d[2])
    BY DEF Spawned
<1>2. /\ x \in Seq(CallSite) /\ y \in Seq(CallSite)
      /\ c \in CallSite /\ d \in CallSite
      /\ f \in Fun /\ c[2] \in Fun /\ d[2] \in Fun
    BY DEF TreeTypes, Program, CallSite, Cxt
<1> c = <<i, c[2]>> /\ d = <<i, d[2]>>
    BY <1>1, <1>2 DEF CallSite
<1>3. (x = <<>> \/ SameSCC(x[Len(x)][2], f)) /\ (y = <<>> \/ SameSCC(y[Len(y)][2], f))
    BY <1>1 DEF TopOfContext
<1>4. \A g \in Fun : SameSCC(g, f) => SameSCC(f, g)
    BY <1>2, SameSCCEquivalence DEF TreeTypes
<1>5. PushCxt(x, i, c[2]) = PushCxt(y, i, c[2])
    <2>1. CASE f \notin candidates \/ (SameSCC(f, c[2]) /\ SameSCC(f, d[2]))
        BY <1>1, <2>1 DEF PushCxt
    <2>2. CASE f \in candidates /\ ~ SameSCC(f, c[2]) /\ ~ SameSCC(f, d[2])
        <3>1. Append(x, c) = Append(y, d)
            BY <1>1, <2>2 DEF PushCxt
        <3>2. x = y
            BY <1>2, <3>1, SameAppended
        <3> QED
            BY <3>2
    <2>3. CASE f \in candidates /\ SameSCC(f, c[2]) /\ ~ SameSCC(f, d[2])
        <3>1. x = Append(y, d)
            BY <1>1, <2>3 DEF PushCxt
        <3>2. x # <<>> /\ x[Len(x)] = d
            BY <1>2, <3>1, AppendLast
        <3> QED
            BY <1>2, <1>3, <1>4, <2>3, <3>2
    <2>4. CASE f \in candidates /\ ~ SameSCC(f, c[2]) /\ SameSCC(f, d[2])
        <3>1. y = Append(x, c)
            BY <1>1, <2>4 DEF PushCxt
        <3>2. y # <<>> /\ y[Len(y)] = c
            BY <1>2, <3>1, AppendLast
        <3> QED
            BY <1>2, <1>3, <1>4, <2>4, <3>2
    <2> QED
        BY <2>1, <2>2, <2>3, <2>4
<1> QED
    BY <1>1, <1>5 DEF ForkedBy, Spawned

LEMMA ProcessCtpKeepsTree ==
    ASSUME TreeInv, NEW p \in ctpList, ProcessCtp(p)
    PROVE  TreeInv'
<1> DEFINE calls == {c \in prog.calls : prog.fn[c[1]] = p[3]}
           forks == {c \in prog.forks : prog.fn[c[1]] = p[3]}
           called == {<<p[1], PushCxt(p[2], c[1], c[2]), c[2]>> : c \in calls}
           spawned == {ForkedBy(p, c) : c \in forks}
           created == {q[1] : q \in spawned} \ TIds
<1>1. UNCHANGED <<prog, callersOf, candidates>>
    BY DEF ProcessCtp, progVars
<1>2. ASSUME p[3] \notin candidates
      PROVE  TreeInv'
    <2>1. ctpList' = ctpList \ {p} /\ UNCHANGED <<visited, tctEdges, threads>>
        BY <1>2 DEF ProcessCtp
    <2>2. TIds' = TIds /\ Closure(tctEdges)' = Closure(tctEdges)
        BY <2>1 DEF TIds, Closure
    <2>3. TreeTypes'
        BY <1>1, <2>1, ContextsStable DEF TreeInv, TreeTypes
    <2>4. VisitedInTree' /\ OneEdge' /\ FromMain'
        BY <2>1, <2>2 DEF TreeInv, VisitedInTree, OneEdge, FromMain, MainTid
    <2>5. TopOfContext'
        BY <1>1, <2>1, ContextsStable DEF TreeInv, TopOfContext
    <2>6. EdgesFromVisited'
        BY <1>1, <2>1, ContextsStable DEF TreeInv, EdgesFromVisited
    <2> QED
        BY <2>3, <2>4, <2>5, <2>6 DEF TreeInv
<1>3. ASSUME p[3] \in candidates
      PROVE  TreeInv'
    <2>1. /\ ctpList' = (ctpList \ {p}) \cup ((called \cup spawned) \ visited)
          /\ visited' = visited \cup called \cup spawned
          /\ tctEdges' = tctEdges \cup {<<p[1], q[1]>> : q \in spawned \ visited}
          /\ \E r \in [created -> Fun] : threads' = threads \cup {<<t, p[2], r[t]>> : t \in created}
        BY <1>3 DEF ProcessCtp, TreeEdges, ForkedBy
    <2>2. TIds' = TIds \cup created
        <3>1. PICK r : threads' = threads \cup {<<t, p[2], r[t]>> : t \in created}
            BY <2>1
        <3> HIDE DEF created
        <3>2. TIds' = TIds \cup {x[1] : x \in {<<t, p[2], r[t]>> : t \in created}}
            BY <3>1 DEF TIds
        <3>3. {x[1] : x \in {<<t, p[2], r[t]>> : t \in created}} = created
            <4> DEFINE new(t) == <<t, p[2], r[t]>>
            <4>1. \A t : new(t)[1] = t
                OBVIOUS
            <4> HIDE DEF new
            <4>2. {x[1] : x \in {new(t) : t \in created}} = created
                BY <4>1
            <4> QED
                BY <4>2 DEF new
        <3> QED
            BY <3>2, <3>3
    <2>3. /\ prog \in Program /\ callersOf = [f \in Fun |-> Callers(f)]
          /\ p \in visited /\ p \in Tid \X Cxt \X Fun
          /\ calls \subseteq CallSite /\ forks \subseteq CallSite
          /\ calls \subseteq Sites /\ forks \subseteq Sites
        BY DEF TreeInv, TreeTypes, Program, Sites, CallSite
    <2>4. \A q \in called : q \in Tid \X Cxt \X Fun /\ q[1] = p[1]
        <3>1. \A c \in calls : c[2] \in Fun /\ PushCxt(p[2], c[1], c[2]) \in Cxt
            BY <2>3, PushCxtType DEF CallSite
        <3> QED
            BY <2>3, <3>1
    <2>5. \A c \in forks : ForkedBy(p, c) \in Tid \X Cxt \X Fun
        <3>1. \A c \in forks : c[2] \in Fun /\ PushCxt(p[2], c[1], c[2]) \in Cxt
                               /\ Spawned(p[2], c) \in Tid
            BY <2>3, PushCxtType DEF CallSite
        <3> QED
            BY <3>1 DEF ForkedBy
    <2>6. \A q \in spawned : \E c \in forks : q = ForkedBy(p, c) /\ q[1] = Spawned(p[2], c)
        BY DEF ForkedBy
    <2>7. \A q \in spawned : q[1] \in TIds'
        BY <2>2
    <2>8. TreeTypes'
        <3>1. visited' \in SUBSET (Tid \X Cxt \X Fun) /\ ctpList' \subseteq visited'
            BY <2>1, <2>4, <2>5 DEF TreeInv, TreeTypes
        <3>2. \A e \in tctEdges' : e \in Tid \X Tid
            <4>1. \A q \in spawned : <<p[1], q[1]>> \in Tid \X Tid
                BY <2>3, <2>5
            <4>2. tctEdges \subseteq Tid \X Tid
                BY DEF TreeInv, TreeTypes
            <4> QED
                BY <2>1, <4>1, <4>2
        <3> QED
            BY <1>1, <2>3, <3>1, <3>2, ContextsStable DEF TreeTypes
    <2>9. VisitedInTree'
        BY <2>1, <2>2, <2>3, <2>4, <2>7 DEF TreeInv, VisitedInTree
    <2>10. TopOfContext'
        <3>1. \A c \in calls \cup forks :
                  LET y == PushCxt(p[2], c[1], c[2]) IN y = <<>> \/ SameSCC(y[Len(y)][2], c[2])
            <4>1. p[2] = <<>> \/ SameSCC(p[2][Len(p[2])][2], p[3])
                BY <2>3 DEF TreeInv, TopOfContext
            <4>2. p[2] \in Cxt
                BY <2>3
            <4> QED
                BY <1>3, <2>3, <4>1, <4>2, PushCxtTop DEF TreeInv
        <3>2. \A q \in called \cup spawned : q[2] = <<>> \/ SameSCC(q[2][Len(q[2])][2], q[3])
            <4>1. \A q \in called : \E c \in calls : q[2] = PushCxt(p[2], c[1], c[2]) /\ q[3] = c[2]
                OBVIOUS
            <4>2. \A q \in spawned : \E c \in forks : q[2] = PushCxt(p[2], c[1], c[2]) /\ q[3] = c[2]
                BY DEF ForkedBy
            <4> QED
                BY <3>1, <4>1, <4>2
        <3> HIDE DEF called, spawned
        <3>3. \A q \in visited' : q[2] = <<>> \/ SameSCC(q[2][Len(q[2])][2], q[3])
            BY <2>1, <3>2 DEF TreeInv, TopOfContext
        <3> QED
            BY <1>1, <3>3, ContextsStable DEF TopOfContext
    <2>11. EdgesFromVisited'
        <3>1. \A e \in tctEdges' : \E q \in visited' :
                  /\ \E c \in prog.forks : prog.fn[c[1]] = q[3] /\ e = <<q[1], Spawned(q[2], c)>>
                  /\ \A c \in prog.forks : prog.fn[c[1]] = q[3] => ForkedBy(q, c) \in visited'
            <4>1. ASSUME NEW e \in tctEdges
                  PROVE  \E q \in visited' :
                            /\ \E c \in prog.forks : prog.fn[c[1]] = q[3] /\ e = <<q[1], Spawned(q[2], c)>>
                            /\ \A c \in prog.forks : prog.fn[c[1]] = q[3] => ForkedBy(q, c) \in visited'
                BY <2>1 DEF TreeInv, EdgesFromVisited
            <4>2. ASSUME NEW e, e \in {<<p[1], q[1]>> : q \in spawned}
                  PROVE  /\ \E c \in prog.forks : prog.fn[c[1]] = p[3] /\ e = <<p[1], Spawned(p[2], c)>>
                         /\ \A c \in prog.forks : prog.fn[c[1]] = p[3] => ForkedBy(p, c) \in visited'
                BY <2>1, <2>6, <4>2
            <4> QED
                BY <2>1, <2>3, <4>1, <4>2
        <3> QED
            BY <1>1, <3>1, ContextsStable DEF EdgesFromVisited
    <2>12. OneEdge'
        <3>1. ASSUME NEW e \in tctEdges, NEW q \in spawned \ visited
              PROVE  e[2] # q[1]
            <4>1. SUFFICES ASSUME e[2] = q[1]
                           PROVE  FALSE
                OBVIOUS
            <4>2. PICK c \in forks : q = ForkedBy(p, c) /\ q[1] = Spawned(p[2], c)
                BY <2>6
            <4>3. PICK o \in visited :
                    /\ \E d \in prog.forks : prog.fn[d[1]] = o[3] /\ e = <<o[1], Spawned(o[2], d)>>
                    /\ \A d \in prog.forks : prog.fn[d[1]] = o[3] => ForkedBy(o, d) \in visited
                BY DEF TreeInv, EdgesFromVisited
            <4>4. PICK d \in prog.forks : prog.fn[d[1]] = o[3] /\ e = <<o[1], Spawned(o[2], d)>>
                BY <4>3
            <4>5. c \in prog.forks /\ prog.fn[c[1]] = p[3] /\ Spawned(p[2], c) = Spawned(o[2], d)
                BY <4>1, <4>2, <4>4
            <4>6. p[3] = o[3] /\ ForkedBy(o, c) = ForkedBy(p, c)
                BY <2>3, <4>4, <4>5, SameThreadForked DEF TreeInv
            <4> QED
                BY <4>2, <4>3, <4>5, <4>6
        <3> QED
            BY <2>1, <3>1 DEF TreeInv, OneEdge
    <2>13. FromMain'
        <3>1. \A e \in tctEdges : e = <<e[1], e[2]>>
            BY DEF TreeInv, TreeTypes
        <3>2. tctEdges \subseteq tctEdges'
            BY <2>1
        <3>3. p[1] \in TIds /\ (p[1] = MainTid \/ (MainTid \in TIds /\ <<MainTid, p[1]>> \in Closure(tctEdges')))
            <4>1. p[1] \in TIds
                BY <2>3 DEF TreeInv, VisitedInTree
            <4> QED
                BY <3>2, <4>1, ClosureMonotone DEF TreeInv, FromMain
        <3>4. ASSUME NEW t \in created
              PROVE  MainTid \in TIds /\ <<MainTid, t>> \in Closure(tctEdges')
            <4>1. PICK q \in spawned : t = q[1] /\ t \notin TIds
                OBVIOUS
            <4>2. q \notin visited
                BY <4>1 DEF TreeInv, VisitedInTree
            <4>3. <<p[1], t>> \in tctEdges'
                BY <2>1, <4>1, <4>2
            <4>4. <<p[1], t>> \in Closure(tctEdges')
                BY <4>3, ClosureEdge
            <4> QED
                BY <3>3, <4>4, ClosureTransitive
        <3>5. \A t \in TIds : t = MainTid \/ (MainTid \in TIds /\ <<MainTid, t>> \in Closure(tctEdges'))
            BY <3>2, ClosureMonotone DEF TreeInv, FromMain
        <3>6. Closure(tctEdges)' = Closure(tctEdges')
            BY DEF Closure
        <3> HIDE DEF created
        <3>7. MainTid' = MainTid
            BY DEF MainTid
        <3> QED
            BY <2>2, <3>4, <3>5, <3>6, <3>7 DEF FromMain
    <2> QED
        BY <2>8, <2>9, <2>10, <2>11, <2>12, <2>13 DEF TreeInv
<1> QED
    BY <1>2, <1>3

LEMMA TreeInvStep == TreeInv /\ [SystemNext]_vars => TreeInv'
<1> SUFFICES ASSUME TreeInv, [SystemNext]_vars
             PROVE  TreeInv'
    OBVIOUS
<1>1. ASSUME NEW p \in ctpList, ProcessCtp(p)
      PROVE  TreeInv'
    BY <1>1, ProcessCtpKeepsTree
<1>2. (\E p \in ctpList : ProcessCtp(p)) \/ UNCHANGED treeVars
    BY DEF SystemNext, Analyse, Run, MHPNext, BuildTCT, BeginMHP, CollectMultiForkedThreads, StartRoot,
           ProcessStmt, FinishMHP, vars, mhpVars, tctVars, progVars, treeVars
<1> QED
    BY <1>1, <1>2, TreeInvStable

THEOREM TreeInvariant == SystemSpec => []TreeInv
<1>1. SystemInit => TreeInv
    BY TreeInvInit DEF SystemInit, MHPInit
<1> QED
    BY <1>1, TreeInvStep, PTL DEF SystemSpec

(* OneParent is a consequence: the edges to a thread all come from its     *)
(* parent, and there is one, as the thread descends from the main thread.  *)
LEMMA TreeInvOneParent == TreeInv => OneParent
<1> SUFFICES ASSUME TreeInv, NEW t \in TIds, t # MainTid
             PROVE  Cardinality(Parents(t)) = 1 /\ MainTid \in Ancestors(t)
    BY DEF OneParent
<1>1. MainTid \in TIds /\ <<MainTid, t>> \in Closure(tctEdges)
    BY DEF TreeInv, FromMain
<1>2. \A e \in tctEdges : e = <<e[1], e[2]>>
    BY DEF TreeInv, TreeTypes
<1>3. PICK e \in tctEdges : e[2] = t
    BY <1>1, <1>2, ClosureLast
<1>4. Parents(t) = {e[1]}
    BY <1>3 DEF Parents, TreeInv, OneEdge
<1>5. Cardinality(Parents(t)) = 1
    BY <1>4, FS_Singleton
<1> QED
    BY <1>1, <1>5 DEF Ancestors

(* Every thread but the main one has one parent, which is what             *)
(* getParentThread asserts (TCT.h), and is below the main thread, whatever *)
(* the calls, forks and cycles of the program and whichever order the      *)
(* worklist is emptied in.                                                 *)
THEOREM TreeHasOneParent == SystemSpec => []OneParent
BY TreeInvariant, TreeInvOneParent, PTL

-----------------------------------------------------------------------------
(* The programs.                                                           *)

CallSites == {c[1] : c \in prog.calls}

(* True of the control-flow graphs the front end builds: edges stay within *)
(* a function, and an instruction does one thing.                          *)
WellFormed ==
    /\ \A e \in prog.next : prog.fn[e[1]] = prog.fn[e[2]]
    /\ \A f \in Fun : prog.fn[prog.entry[f]] = f
    /\ ForkSites \cap prog.joins = {}
    /\ CallSites \cap (ForkSites \cup prog.joins \cup prog.rets \cup LockSites \cup UnlockSites) = {}
    /\ prog.rets \cap (ForkSites \cup prog.joins \cup LockSites \cup UnlockSites) = {}

OneEntry == EntryFuns = {prog.main}

NoRecursiveFork == \A c \in prog.forks : ~ SameSCC(prog.fn[c[1]], c[2])

(* handleCall steps over a call only if none of the callees is a candidate *)
(* (MHP.cpp:290).                                                          *)
NoMixedCall == \A i \in Inst : Callees(i) \cap candidates = {} \/ Callees(i) \subseteq candidates

LoopsFound == \A i \in Inst : <<i, i>> \in Closure(prog.next) => i \in prog.loops

Tame == WellFormed /\ OneEntry /\ NoRecursiveFork /\ NoMixedCall /\ LoopsFound

-----------------------------------------------------------------------------
(* The thread and the context a running thread is analysed as.             *)

(* The contexts along a path of calls and forks. *)
AreCxts(path, cx) ==
    /\ cx \in [0 .. Len(path) -> Cxt]
    /\ cx[0] = <<>>
    /\ \A k \in 1 .. Len(path) : cx[k] = PushCxt(cx[k - 1], path[k][1], path[k][2])

CxtAt(path, k) == (CHOOSE cx : AreCxts(path, cx))[k]

FunAt(path, k) == IF k = 0 THEN prog.main ELSE path[k][2]

At(d, k) == IF k = Len(d.path) THEN d.at ELSE d.path[k + 1][1]

TidOf(d) == IF d.base = 0 THEN MainTid ELSE <<CxtAt(d.path, d.base), d.path[d.base][1]>>

LiveThread == [id : Nat, at : Inst, path : Seq(CallSite), base : Nat, holds : SUBSET Mem]

(* The frames of a thread are connected by its path.                       *)
Shape(d) ==
    /\ d \in LiveThread
    /\ d.base \in 0 .. Len(d.path)
    /\ \A k \in 0 .. Len(d.path) : prog.fn[At(d, k)] = FunAt(d.path, k)
    /\ \A k \in 1 .. Len(d.path) : d.path[k] \in Sites
    /\ \A k \in (d.base + 1) .. Len(d.path) : d.path[k] \in prog.calls
    /\ d.base > 0 => d.path[d.base] \in prog.forks
    /\ \A k \in 0 .. Len(d.path) : \A j \in 0 .. k : FunAt(d.path, j) \in callersOf[FunAt(d.path, k)]

(* The functions that may come to a fork. *)
Forking(f) == \E c \in prog.forks : f \in callersOf[prog.fn[c[1]]]

(* What may come to a fork has been visited. *)
InTree(d) ==
    \A k \in d.base .. Len(d.path) : Forking(FunAt(d.path, k)) =>
        <<TidOf(d), CxtAt(d.path, k), FunAt(d.path, k)>> \in visited

-----------------------------------------------------------------------------
(* The threads a running thread is known to run in parallel with: in the   *)
(* set of the statement it has come to, and in those it goes on from when  *)
(* a function that is no candidate returns.                                *)
CoversAt(q, path, at, base, t) ==
    /\ <<<<q, CxtAt(path, Len(path)), at>>, t>> \in inter
    /\ \A k \in base .. Len(path) : FunAt(path, k) \notin candidates =>
          <<<<q, CxtAt(path, k), prog.entry[FunAt(path, k)]>>, t>> \in inter
    /\ \A k \in base .. (Len(path) - 1) : FunAt(path, k + 1) \notin candidates =>
          <<<<q, CxtAt(path, k), path[k + 1][1]>>, t>> \in inter

Covers(d, t) == CoversAt(TidOf(d), d.path, d.at, d.base, t)

(* A thread and what descends from it. *)
Below(t) == {x \in TIds : x = t \/ t \in Ancestors(x)}

CoversAll(d, t) == \A x \in Below(t) : Covers(d, x)

(* Itself, and all that is known where it or an ancestor starts. *)
CoversOwn(d) ==
    /\ TidOf(d) \in TIds /\ Covers(d, TidOf(d))
    /\ \A a \in threads : \A t : a[1] \in {TidOf(d)} \cup Ancestors(TidOf(d))
          /\ <<StartOf(a), t>> \in inter => Covers(d, t)

(* A thread is covered by another and by all that may descend from it.     *)
(* Only when the other may have forked it, or the thread it comes from,    *)
(* one of the two knows what the descendants on that side are.             *)
CoversOther(d, e) ==
    IF TidOf(e) \in Ancestors(TidOf(d))
    THEN /\ Covers(d, TidOf(e))
         /\ \A t : <<TidOf(e), t>> \in tctEdges /\ t \in {TidOf(d)} \cup Ancestors(TidOf(d))
               => CoversAll(d, t) \/ CoversAll(e, t)
    ELSE CoversAll(d, TidOf(e))

-----------------------------------------------------------------------------
(* A path without loops is taken once: whoever may still take it is alone. *)
Once(q) == \A k \in 1 .. Len(q) : <<q[k][1], q[k][1]>> \notin Closure(prog.next)

Shared(d, m, q) == m \in 0 .. Len(d.path) /\ m <= Len(q) /\ \A k \in 1 .. m : d.path[k] = q[k]

Ahead(d, m, i) ==
    IF m = Len(d.path) THEN d.at = i \/ <<d.at, i>> \in Closure(prog.next)
    ELSE <<d.path[m + 1][1], i>> \in Closure(prog.next)

MayTake(d, q) ==
    \/ d.base = Len(q) /\ Shared(d, d.base, q)
    \/ \E m \in d.base .. Len(d.path) : m < Len(q) /\ Shared(d, m, q) /\ Ahead(d, m, q[m + 1][1])

-----------------------------------------------------------------------------
(* The invariant of the run. *)
Alone(L) == \A q \in Seq(CallSite) : Once(q) =>
    \A d, e \in L : MayTake(d, q) /\ MayTake(e, q) => d = e

RunInv(L) ==
    /\ \A d \in L : Shape(d) /\ InTree(d)
    /\ \A d, e \in L : d.id = e.id => d = e
    /\ Alone(L)
    /\ prog.main \notin candidates => \A d, e \in L : d = e
    /\ prog.main \in candidates =>
          /\ \A d \in L : CoversOwn(d)
          /\ \A d, e \in L : d # e => CoversOther(d, e)

-----------------------------------------------------------------------------
(* Contexts along a path.                                                  *)

LEMMA Induction ==
    ASSUME NEW S, 0 \in S, \A n \in Nat : n \in S => n + 1 \in S
    PROVE  \A n \in Nat : n \in S
<1> SUFFICES ASSUME Nat \ S # {}
             PROVE  FALSE
    OBVIOUS
<1>1. \E n \in Nat \ S : \A m \in Nat \ S : ~ (m < n)
    <2>1. \E n \in Nat \ S : \A m \in Nat \ S : ~ (<<m, n>> \in OpToRel(<, Nat))
        BY NatLessThanWellFounded, WFMin
    <2> QED
        BY <2>1, Zenon DEF OpToRel
<1>2. PICK n \in Nat \ S : \A m \in Nat \ S : ~ (m < n)
    BY <1>1
<1>3. n # 0 /\ n - 1 \in Nat
    BY <1>2
<1>4. n - 1 \in S
    BY <1>2, <1>3
<1>5. (n - 1) + 1 \in S
    BY <1>3, <1>4
<1> QED
    BY <1>2, <1>3, <1>5

LEMMA CxtsExist ==
    ASSUME NEW path \in Seq(CallSite)
    PROVE  \E cx : AreCxts(path, cx)
<1> DEFINE Part(n) == \E cx \in [0 .. n -> Cxt] :
               /\ cx[0] = <<>>
               /\ \A k \in 1 .. n : cx[k] = PushCxt(cx[k - 1], path[k][1], path[k][2])
           S == {n \in Nat : n <= Len(path) => Part(n)}
<1>1. Len(path) \in Nat
    OBVIOUS
<1>2. 0 \in S
    <2> DEFINE cx == [k \in 0 .. 0 |-> <<>>]
    <2>1. cx \in [0 .. 0 -> Cxt] /\ cx[0] = <<>>
        BY DEF Cxt
    <2>2. \A k \in 1 .. 0 : cx[k] = PushCxt(cx[k - 1], path[k][1], path[k][2])
        OBVIOUS
    <2> HIDE DEF cx
    <2>3. Part(0)
        BY <2>1, <2>2
    <2> QED
        BY <2>3
<1>3. ASSUME NEW n \in Nat, n \in S
      PROVE  n + 1 \in S
    <2> SUFFICES ASSUME n + 1 <= Len(path)
                 PROVE  Part(n + 1)
        OBVIOUS
    <2>1. PICK cx \in [0 .. n -> Cxt] :
              /\ cx[0] = <<>>
              /\ \A k \in 1 .. n : cx[k] = PushCxt(cx[k - 1], path[k][1], path[k][2])
        BY <1>1, <1>3
    <2>2. n + 1 \in 1 .. Len(path) /\ path[n + 1] \in CallSite
        BY <1>1
    <2>3. PushCxt(cx[n], path[n + 1][1], path[n + 1][2]) \in Cxt
        BY <2>1, <2>2, PushCxtType
    <2> DEFINE cy == [k \in 0 .. (n + 1) |->
                         IF k = n + 1 THEN PushCxt(cx[n], path[n + 1][1], path[n + 1][2]) ELSE cx[k]]
    <2>4. cy \in [0 .. (n + 1) -> Cxt]
        BY <2>1, <2>3
    <2>5. \A k \in 0 .. n : cy[k] = cx[k]
        OBVIOUS
    <2>6. cy[n + 1] = PushCxt(cx[n], path[n + 1][1], path[n + 1][2])
        OBVIOUS
    <2> HIDE DEF cy
    <2>7. \A k \in 1 .. (n + 1) : cy[k] = PushCxt(cy[k - 1], path[k][1], path[k][2])
        <3>1. ASSUME NEW k \in 1 .. n
              PROVE  cy[k] = PushCxt(cy[k - 1], path[k][1], path[k][2])
            BY <2>1, <2>5
        <3>2. cy[n + 1] = PushCxt(cy[(n + 1) - 1], path[n + 1][1], path[n + 1][2])
            BY <2>5, <2>6
        <3> QED
            BY <3>1, <3>2
    <2> QED
        BY <2>1, <2>4, <2>5, <2>7
<1> HIDE DEF S
<1>4. Len(path) \in S
    BY <1>1, <1>2, <1>3, Induction
<1> QED
    BY <1>1, <1>4 DEF S, AreCxts

LEMMA CxtAtIs ==
    ASSUME NEW path \in Seq(CallSite)
    PROVE  /\ CxtAt(path, 0) = <<>>
           /\ \A k \in 0 .. Len(path) : CxtAt(path, k) \in Cxt
           /\ \A k \in 1 .. Len(path) :
                 CxtAt(path, k) = PushCxt(CxtAt(path, k - 1), path[k][1], path[k][2])
<1> DEFINE cx == CHOOSE c : AreCxts(path, c)
<1>1. AreCxts(path, cx)
    BY CxtsExist
<1>2. \A k : CxtAt(path, k) = cx[k]
    BY DEF CxtAt
<1> HIDE DEF cx
<1> QED
    BY <1>1, <1>2 DEF AreCxts

(* Paths that begin in the same way have the same contexts there. *)
LEMMA CxtAtPrefix ==
    ASSUME NEW p \in Seq(CallSite), NEW q \in Seq(CallSite),
           NEW m \in Nat, m <= Len(p), m <= Len(q), \A k \in 1 .. m : p[k] = q[k]
    PROVE  \A k \in 0 .. m : CxtAt(p, k) = CxtAt(q, k)
<1> DEFINE S == {n \in Nat : n <= m => CxtAt(p, n) = CxtAt(q, n)}
<1>1. 0 \in S
    BY CxtAtIs
<1>2. ASSUME NEW n \in Nat, n \in S
      PROVE  n + 1 \in S
    <2> SUFFICES ASSUME n + 1 <= m
                 PROVE  CxtAt(p, n + 1) = CxtAt(q, n + 1)
        OBVIOUS
    <2>1. n + 1 \in 1 .. Len(p) /\ n + 1 \in 1 .. Len(q) /\ n + 1 \in 1 .. m /\ (n + 1) - 1 = n
        OBVIOUS
    <2>2. CxtAt(p, n) = CxtAt(q, n)
        BY <1>2
    <2>3. CxtAt(p, n + 1) = PushCxt(CxtAt(p, n), p[n + 1][1], p[n + 1][2])
        BY <2>1, CxtAtIs
    <2>4. CxtAt(q, n + 1) = PushCxt(CxtAt(q, n), q[n + 1][1], q[n + 1][2])
        BY <2>1, CxtAtIs
    <2> QED
        BY <2>1, <2>2, <2>3, <2>4
<1> HIDE DEF S
<1>3. \A n \in Nat : n \in S
    BY <1>1, <1>2, Induction
<1> QED
    BY <1>3 DEF S

-----------------------------------------------------------------------------
(* What the analysis has found when it is done.                            *)

(* The thread a context belongs to is named by the last fork in it.        *)
ThreadOf(x, t) ==
    \/ t = MainTid /\ \A k \in 1 .. Len(x) : x[k] \notin prog.forks
    \/ \E k \in 1 .. Len(x) :
          /\ x[k] \in prog.forks /\ \A j \in (k + 1) .. Len(x) : x[j] \notin prog.forks
          /\ t[2] = x[k][1] /\ Len(t[1]) = k /\ \A j \in 1 .. k : t[1][j] = x[j]

VisitedThreads == \A p \in visited : ThreadOf(p[2], p[1])

Expanded(p) ==
    /\ \A c \in prog.calls : prog.fn[c[1]] = p[3] =>
          <<p[1], PushCxt(p[2], c[1], c[2]), c[2]>> \in visited
    /\ \A c \in prog.forks : prog.fn[c[1]] = p[3] => ForkedBy(p, c) \in visited

VisitedClosed == \A p \in visited : p[3] \in candidates => Expanded(p)

MainThread == <<MainTid, <<>>, prog.main>>

ThreadsForked ==
    \A t \in threads : t = MainThread \/ \E p \in visited, c \in prog.forks :
        prog.fn[c[1]] = p[3] /\ t = <<Spawned(p[2], c), p[2], c[2]>>

MainVisited == prog.main \in candidates => MainThread \in visited /\ MainThread \in threads

FlowClosed == \A x \in inter : \A s \in Targets(x[1]) : <<s, x[2]>> \in inter

InsideClosed ==
    \A a, x, t : \A i \in Inst :
        prog.fn[i] \notin candidates /\ <<<<a, x, prog.entry[prog.fn[i]]>>, t>> \in inter
        => <<<<a, x, i>>, t>> \in inter

Seeds(t) == {<<StartOf(t), t[1]>>} \cup BehindForks(t[1]) \cup WithSiblings(t[1])

Seeded == \A t \in threads : Seeds(t) \subseteq inter

Often == {t \in TIds : \E a \in {t} \cup Ancestors(t) : ForkedOften(a)}

Settled ==
    /\ TreeInv /\ Tame /\ candidates = RelevantFuns
    /\ VisitedThreads /\ VisitedClosed /\ ThreadsForked /\ MainVisited
    /\ FlowClosed /\ InsideClosed /\ Seeded
    /\ multiforked = Often

-----------------------------------------------------------------------------
(* Forks.                                                                  *)

LEMMA ForkingRelevant ==
    ASSUME TreeTypes, candidates = RelevantFuns, NEW f, Forking(f)
    PROVE  f \in candidates
<1>1. PICK c \in prog.forks : f \in callersOf[prog.fn[c[1]]]
    BY DEF Forking
<1>2. prog.fn[c[1]] \in Fun
    BY DEF TreeTypes, Program
<1>3. f \in Callers(prog.fn[c[1]])
    BY <1>1, <1>2 DEF TreeTypes
<1>4. c[1] \in prog.joins \cup {x[1] : x \in prog.forks}
    OBVIOUS
<1> QED
    BY <1>3, <1>4 DEF RelevantFuns

(* A fork is pushed. *)
LEMMA ForkPushed ==
    ASSUME TreeTypes, candidates = RelevantFuns, NoRecursiveFork, NEW c \in prog.forks, NEW x
    PROVE  /\ PushCxt(x, c[1], c[2]) = Append(x, c)
           /\ Spawned(x, c) = <<Append(x, c), c[1]>>
           /\ Forking(prog.fn[c[1]])
<1>1. prog.fn[c[1]] \in Fun /\ c \in CallSite
    BY DEF TreeTypes, Program, CallSite
<1>2. prog.fn[c[1]] \in callersOf[prog.fn[c[1]]]
    BY <1>1 DEF TreeTypes, Callers
<1>3. Forking(prog.fn[c[1]])
    BY <1>2 DEF Forking
<1>4. prog.fn[c[1]] \in candidates
    BY <1>3, ForkingRelevant
<1>5. c = <<c[1], c[2]>>
    BY <1>1 DEF CallSite
<1> QED
    BY <1>3, <1>4, <1>5 DEF PushCxt, Spawned, NoRecursiveFork

LEMMA ThreadOfUnique ==
    ASSUME NEW x \in Cxt, NEW t \in Tid, NEW u \in Tid, ThreadOf(x, t), ThreadOf(x, u)
    PROVE  t = u
<1>1. /\ t = <<t[1], t[2]>> /\ u = <<u[1], u[2]>>
      /\ t[1] \in Seq(CallSite) /\ u[1] \in Seq(CallSite) /\ x \in Seq(CallSite)
    BY DEF Tid, Cxt
<1>2. CASE \A k \in 1 .. Len(x) : x[k] \notin prog.forks
    BY <1>2 DEF ThreadOf
<1>3. CASE \E k \in 1 .. Len(x) : x[k] \in prog.forks
    <2>1. PICK k \in 1 .. Len(x) :
              /\ x[k] \in prog.forks /\ \A j \in (k + 1) .. Len(x) : x[j] \notin prog.forks
              /\ t[2] = x[k][1] /\ Len(t[1]) = k /\ \A j \in 1 .. k : t[1][j] = x[j]
        BY <1>3 DEF ThreadOf
    <2>2. PICK l \in 1 .. Len(x) :
              /\ x[l] \in prog.forks /\ \A j \in (l + 1) .. Len(x) : x[j] \notin prog.forks
              /\ u[2] = x[l][1] /\ Len(u[1]) = l /\ \A j \in 1 .. l : u[1][j] = x[j]
        BY <1>3 DEF ThreadOf
    <2>3. k = l
        <3>1. Len(x) \in Nat
            BY <1>1
        <3>2. ~ (k < l) /\ ~ (l < k)
            BY <2>1, <2>2, <3>1
        <3> QED
            BY <3>1, <3>2
    <2>4. t[1] = u[1]
        <3>1. \A j \in 1 .. k : t[1][j] = u[1][j]
            BY <2>1, <2>2, <2>3
        <3>2. Len(t[1]) = Len(u[1]) /\ k = Len(t[1])
            BY <2>1, <2>2, <2>3
        <3> QED
            BY <1>1, <3>1, <3>2, SeqEqual
    <2> QED
        BY <1>1, <2>1, <2>2, <2>3, <2>4
<1> QED
    BY <1>2, <1>3

(* A call does not change the thread, a fork begins one. *)
LEMMA ThreadOfCall ==
    ASSUME NEW x \in Seq(CallSite), NEW c \in CallSite, c \notin prog.forks, NEW t, ThreadOf(x, t)
    PROVE  ThreadOf(Append(x, c), t)
<1> DEFINE y == Append(x, c)
<1>1. /\ Len(x) \in Nat /\ Len(y) = Len(x) + 1 /\ y[Len(x) + 1] = c
      /\ \A k \in 1 .. Len(x) : y[k] = x[k]
    OBVIOUS
<1> HIDE DEF y
<1>2. ASSUME t = MainTid, \A k \in 1 .. Len(x) : x[k] \notin prog.forks
      PROVE  ThreadOf(y, t)
    BY <1>1, <1>2 DEF ThreadOf
<1>3. ASSUME NEW k \in 1 .. Len(x),
             x[k] \in prog.forks, \A j \in (k + 1) .. Len(x) : x[j] \notin prog.forks,
             t[2] = x[k][1], Len(t[1]) = k, \A j \in 1 .. k : t[1][j] = x[j]
      PROVE  ThreadOf(y, t)
    <2>1. k \in 1 .. Len(y) /\ y[k] = x[k]
        BY <1>1
    <2>2. \A j \in (k + 1) .. Len(y) : y[j] \notin prog.forks
        BY <1>1, <1>3
    <2>3. \A j \in 1 .. k : t[1][j] = y[j]
        BY <1>1, <1>3
    <2> QED
        BY <1>3, <2>1, <2>2, <2>3 DEF ThreadOf
<1>4. CASE \E k \in 1 .. Len(x) :
          /\ x[k] \in prog.forks /\ \A j \in (k + 1) .. Len(x) : x[j] \notin prog.forks
          /\ t[2] = x[k][1] /\ Len(t[1]) = k /\ \A j \in 1 .. k : t[1][j] = x[j]
    BY <1>3, <1>4, Zenon DEF y
<1>5. CASE t = MainTid /\ \A k \in 1 .. Len(x) : x[k] \notin prog.forks
    BY <1>2, <1>5, Zenon DEF y
<1> QED
    BY <1>4, <1>5, Zenon DEF ThreadOf

LEMMA ThreadOfFork ==
    ASSUME NEW x \in Seq(CallSite), NEW c \in prog.forks, c \in CallSite
    PROVE  ThreadOf(Append(x, c), <<Append(x, c), c[1]>>)
<1> DEFINE y == Append(x, c)
           t == <<y, c[1]>>
<1>1. Len(y) \in Nat /\ Len(y) > 0 /\ y[Len(y)] = c
    OBVIOUS
<1>2. t[1] = y /\ t[2] = c[1]
    OBVIOUS
<1> HIDE DEF y, t
<1>3. Len(y) \in 1 .. Len(y) /\ (Len(y) + 1) .. Len(y) = {}
    BY <1>1
<1>4. ThreadOf(y, t)
    BY <1>1, <1>2, <1>3 DEF ThreadOf
<1> QED
    BY <1>4 DEF y, t

LEMMA ThreadOfLength ==
    ASSUME NEW x \in Cxt, NEW t, ThreadOf(x, t)
    PROVE  Len(t[1]) <= Len(x) /\ Len(t[1]) \in Nat
<1>1. Len(x) \in Nat
    BY DEF Cxt
<1>2. CASE t = MainTid
    BY <1>1, <1>2 DEF MainTid
<1>3. CASE t # MainTid
    BY <1>1, <1>3 DEF ThreadOf
<1> QED
    BY <1>2, <1>3

-----------------------------------------------------------------------------
(* The tree.                                                               *)

(* The edge to a forked thread comes from the thread that forks it. *)
LEMMA ThreadForked ==
    ASSUME Settled, NEW p \in visited, NEW c \in prog.forks, prog.fn[c[1]] = p[3]
    PROVE  /\ ForkedBy(p, c) \in visited
           /\ Spawned(p[2], c) \in TIds \ {MainTid}
           /\ <<p[1], Spawned(p[2], c)>> \in tctEdges
<1> DEFINE t == Spawned(p[2], c)
<1>1. /\ TreeTypes /\ TopOfContext /\ candidates = RelevantFuns /\ NoRecursiveFork
      /\ p \in Tid \X Cxt \X Fun /\ c \in CallSite
    BY DEF Settled, Tame, TreeInv, TreeTypes, Program, CallSite
<1>2. t = <<Append(p[2], c), c[1]>> /\ p[3] \in candidates
    BY <1>1, ForkPushed, ForkingRelevant
<1>3. ForkedBy(p, c) \in visited
    BY <1>2 DEF Settled, VisitedClosed, Expanded
<1>4. t \in TIds
    BY <1>3 DEF Settled, TreeInv, VisitedInTree, ForkedBy
<1>5. t # MainTid
    <2>1. c[1] \in Inst
        BY <1>1 DEF CallSite
    <2> QED
        BY <1>2, <2>1, TCTAssumption DEF MainTid
<1>6. PICK e \in tctEdges : e[2] = t
    <2>1. <<MainTid, t>> \in Closure(tctEdges)
        BY <1>4, <1>5 DEF Settled, TreeInv, FromMain
    <2>2. \A e \in tctEdges : e = <<e[1], e[2]>>
        BY <1>1 DEF TreeTypes
    <2> HIDE DEF t
    <2>3. \E e \in tctEdges : e[2] = t /\ (e[1] = MainTid \/ <<MainTid, e[1]>> \in Closure(tctEdges))
        BY <2>1, <2>2, ClosureLast
    <2> QED
        BY <2>3
<1>7. PICK o \in visited, d \in prog.forks :
          prog.fn[d[1]] = o[3] /\ e = <<o[1], Spawned(o[2], d)>>
    BY DEF Settled, TreeInv, EdgesFromVisited
<1>8. o \in Tid \X Cxt \X Fun
    BY <1>1 DEF TreeTypes
<1>9. ForkedBy(o, c) = ForkedBy(p, c)
    <2>1. Spawned(p[2], c) = Spawned(o[2], d)
        BY <1>6, <1>7
    <2> QED
        BY <1>1, <1>7, <2>1, SameThreadForked
<1>10. o[2] = p[2]
    <2>1. Append(o[2], c) = Append(p[2], c)
        BY <1>1, <1>9, ForkPushed DEF ForkedBy
    <2>2. o[2] \in Seq(CallSite) /\ p[2] \in Seq(CallSite)
        BY <1>1, <1>8 DEF Cxt
    <2> QED
        BY <1>1, <2>1, <2>2, SameAppended
<1>11. o[1] = p[1]
    <2>1. ThreadOf(p[2], o[1]) /\ ThreadOf(p[2], p[1])
        BY <1>10 DEF Settled, VisitedThreads
    <2>2. p[2] \in Cxt /\ o[1] \in Tid /\ p[1] \in Tid
        BY <1>1, <1>8
    <2> QED
        BY <2>1, <2>2, ThreadOfUnique
<1> QED
    BY <1>3, <1>4, <1>5, <1>6, <1>7, <1>11

LEMMA EdgeForks ==
    ASSUME Settled, NEW e \in tctEdges
    PROVE  \E p \in visited, c \in prog.forks :
               prog.fn[c[1]] = p[3] /\ e = <<p[1], Spawned(p[2], c)>>
BY DEF Settled, TreeInv, EdgesFromVisited

LEMMA EdgeLonger ==
    ASSUME Settled, NEW e \in tctEdges
    PROVE  /\ Len(e[1][1]) \in Nat /\ Len(e[2][1]) \in Nat
           /\ Len(e[1][1]) < Len(e[2][1])
<1>1. PICK p \in visited, c \in prog.forks :
          prog.fn[c[1]] = p[3] /\ e = <<p[1], Spawned(p[2], c)>>
    BY EdgeForks
<1>2. TreeTypes /\ candidates = RelevantFuns /\ NoRecursiveFork
    BY DEF Settled, Tame, TreeInv
<1>3. e[2][1] = Append(p[2], c)
    <2>1. e[2] = Spawned(p[2], c)
        BY <1>1
    <2>2. Spawned(p[2], c) = <<Append(p[2], c), c[1]>>
        BY <1>2, ForkPushed
    <2> QED
        BY <2>1, <2>2
<1>4. p[2] \in Cxt /\ c \in CallSite
    BY <1>2 DEF TreeTypes, Program, CallSite
<1>5. Len(e[2][1]) = Len(p[2]) + 1 /\ Len(p[2]) \in Nat
    <2>1. p[2] \in Seq(CallSite)
        BY <1>4 DEF Cxt
    <2>2. Len(Append(p[2], c)) = Len(p[2]) + 1 /\ Len(p[2]) \in Nat
        BY <1>4, <2>1, AppendLast
    <2> QED
        BY <1>3, <2>2
<1>6. Len(p[1][1]) <= Len(p[2]) /\ Len(p[1][1]) \in Nat
    BY <1>4, ThreadOfLength DEF Settled, VisitedThreads
<1> QED
    BY <1>1, <1>5, <1>6

LEMMA AncestorShorter ==
    ASSUME Settled, NEW a, NEW b, <<a, b>> \in Closure(tctEdges)
    PROVE  a # b /\ <<b, a>> \notin Closure(tctEdges)
<1> DEFINE S(x) == {y \in Tid : Len(y[1]) \in Nat /\ Len(x[1]) \in Nat /\ Len(x[1]) < Len(y[1])}
<1>1. ASSUME NEW x, NEW y, <<x, y>> \in Closure(tctEdges)
      PROVE  y \in S(x)
    <2>1. ASSUME NEW e \in tctEdges, e[1] \in {x} \cup S(x)
          PROVE  e[2] \in S(x)
        <3>1. e[2] \in Tid
            BY DEF Settled, TreeInv, TreeTypes
        <3> QED
            BY <2>1, <3>1, EdgeLonger
    <2> HIDE DEF S
    <2> QED
        BY <1>1, <2>1, ClosureInduction
<1> QED
    BY <1>1

(* A child has the ancestors of its parent, and the parent. *)
LEMMA ChildAncestors ==
    ASSUME Settled, NEW p, NEW t, <<p, t>> \in tctEdges
    PROVE  /\ p \in TIds /\ t \in TIds
           /\ Ancestors(t) = {p} \cup Ancestors(p)
           /\ t \notin {p} \cup Ancestors(p)
           /\ Below(t) \subseteq Below(p)
<1>1. \A e \in tctEdges : e = <<e[1], e[2]>>
    BY DEF Settled, TreeInv, TreeTypes
<1>2. p \in TIds /\ t \in TIds
    <2>1. PICK o \in visited, c \in prog.forks :
              prog.fn[c[1]] = o[3] /\ <<p, t>> = <<o[1], Spawned(o[2], c)>>
        BY EdgeForks
    <2>2. o[1] \in TIds
        BY DEF Settled, TreeInv, VisitedInTree
    <2> QED
        BY <2>1, <2>2, ThreadForked
<1>3. <<p, t>> \in Closure(tctEdges)
    BY ClosureEdge
<1>4. ASSUME NEW a \in Ancestors(t)
      PROVE  a \in {p} \cup Ancestors(p)
    <2>1. PICK e \in tctEdges : e[2] = t /\ (e[1] = a \/ <<a, e[1]>> \in Closure(tctEdges))
        BY <1>1, <1>4, ClosureLast DEF Ancestors
    <2>2. e[1] = p
        BY <2>1 DEF Settled, TreeInv, OneEdge
    <2> QED
        BY <1>4, <2>1, <2>2 DEF Ancestors
<1>5. ASSUME NEW a \in {p} \cup Ancestors(p)
      PROVE  a \in Ancestors(t)
    BY <1>2, <1>3, <1>5, ClosureTransitive DEF Ancestors
<1>6. t \notin {p} \cup Ancestors(p)
    BY <1>3, AncestorShorter DEF Ancestors
<1>7. Below(t) \subseteq Below(p)
    BY <1>2, <1>3, ClosureTransitive DEF Below, Ancestors
<1> QED
    BY <1>2, <1>4, <1>5, <1>6, <1>7

(* The child of an ancestor that leads to a thread. *)
LEMMA ChildTowards ==
    ASSUME Settled, NEW t \in TIds, NEW a \in Ancestors(t)
    PROVE  \E u \in {t} \cup Ancestors(t) : <<a, u>> \in tctEdges
<1>1. \A e \in tctEdges : e = <<e[1], e[2]>>
    BY DEF Settled, TreeInv, TreeTypes
<1>2. PICK e \in tctEdges : e[1] = a /\ (e[2] = t \/ <<e[2], t>> \in Closure(tctEdges))
    BY <1>1, ClosureFirst DEF Ancestors
<1>3. <<a, e[2]>> \in tctEdges
    BY <1>1, <1>2
<1>4. e[2] \in TIds
    BY <1>3, ChildAncestors
<1> QED
    BY <1>2, <1>3, <1>4 DEF Ancestors

(* A sibling starts in parallel with all below a thread. *)
LEMMA SiblingStarts ==
    ASSUME Settled, NEW p, NEW t, NEW u, <<p, t>> \in tctEdges, <<p, u>> \in tctEdges, t # u,
           NEW x \in Below(t), NEW a \in threads, a[1] = u
    PROVE  <<StartOf(a), x>> \in inter
<1>1. u \in Siblings(t)
    <2>1. p \in Parents(t)
        BY DEF Parents
    <2> QED
        BY <2>1 DEF Siblings
<1>2. x \in TIds /\ t \in {x} \cup Ancestors(x)
    BY DEF Below
<1>3. PICK b \in threads : b[1] = x
    BY <1>2 DEF TIds
<1>4. <<StartOf(a), x>> \in WithSiblings(x)
    BY <1>1, <1>2 DEF WithSiblings
<1> QED
    BY <1>3, <1>4 DEF Settled, Seeded, Seeds

(* All below a thread are alive behind the fork site of the thread. *)
LEMMA BehindTheFork ==
    ASSUME Settled, NEW p, NEW t, <<p, t>> \in tctEdges,
           NEW x \in Below(t), NEW a \in threads, a[1] = t, NEW i \in Next1(t[2])
    PROVE  <<<<p, a[2], i>>, x>> \in inter
<1>1. p \in Parents(a[1])
    BY DEF Parents
<1>2. x \in TIds /\ t \in {x} \cup Ancestors(x)
    BY DEF Below
<1>3. PICK b \in threads : b[1] = x
    BY <1>2 DEF TIds
<1>4. <<<<p, a[2], i>>, x>> \in BehindForks(x)
    <2>1. a \in {y \in threads : y[1] \in {x} \cup Ancestors(x)}
        BY <1>2
    <2>2. <<<<p, a[2], i>>, x>> \in {<<<<q, a[2], i>>, x>> : q \in Parents(a[1])}
        BY <1>1
    <2> QED
        BY <2>1, <2>2 DEF BehindForks
<1> QED
    BY <1>3, <1>4 DEF Settled, Seeded, Seeds

-----------------------------------------------------------------------------
(* What a running thread does.                                             *)

Stays(d, e) ==
    /\ d.at \notin CallSites \cup prog.rets /\ e.at \in Next1(d.at)
    /\ e.path = d.path /\ e.base = d.base

Calls(d, e) == \E c \in prog.calls :
    /\ c[1] = d.at /\ e.at = prog.entry[c[2]]
    /\ e.path = Append(d.path, c) /\ e.base = d.base

Returns(d, e) ==
    /\ d.at \in prog.rets /\ d.base < Len(d.path)
    /\ e.at \in Next1(d.path[Len(d.path)][1])
    /\ e.path = SubSeq(d.path, 1, Len(d.path) - 1) /\ e.base = d.base

Moves(d, e) == e \in LiveThread /\ (Stays(d, e) \/ Calls(d, e) \/ Returns(d, e))

Forks(d, e) ==
    /\ e \in LiveThread
    /\ \E c \in prog.forks :
          /\ c[1] = d.at /\ e.at = prog.entry[c[2]]
          /\ e.path = Append(d.path, c) /\ e.base = Len(e.path)

-----------------------------------------------------------------------------
(* Paths.                                                                  *)

LEMMA PathPrefix ==
    ASSUME NEW p \in Seq(CallSite), NEW q \in Seq(CallSite),
           NEW m \in Nat, m <= Len(p), m <= Len(q), \A k \in 1 .. m : p[k] = q[k]
    PROVE  \A k \in 0 .. m : CxtAt(p, k) = CxtAt(q, k) /\ FunAt(p, k) = FunAt(q, k)
<1>1. \A k \in 0 .. m : CxtAt(p, k) = CxtAt(q, k)
    BY CxtAtPrefix
<1>2. \A k \in 0 .. m : FunAt(p, k) = FunAt(q, k)
    BY DEF FunAt
<1> QED
    BY <1>1, <1>2

(* p is q without the last call or fork. *)
Longer(p, q) ==
    /\ p \in Seq(CallSite) /\ q \in Seq(CallSite) /\ Len(p) \in Nat /\ Len(q) = Len(p) + 1
    /\ \A k \in 1 .. Len(p) : q[k] = p[k]

LEMMA AppendLonger ==
    ASSUME NEW p \in Seq(CallSite), NEW c \in CallSite
    PROVE  Longer(p, Append(p, c)) /\ Append(p, c)[Len(p) + 1] = c
BY AppendLast DEF Longer

LEMMA ButLastLonger ==
    ASSUME NEW q \in Seq(CallSite), Len(q) > 0
    PROVE  Longer(SubSeq(q, 1, Len(q) - 1), q)
<1> DEFINE p == SubSeq(q, 1, Len(q) - 1)
<1>1. Len(q) \in Nat /\ Len(q) - 1 \in Nat
    OBVIOUS
<1>2. p = [k \in 1 .. (Len(q) - 1) |-> q[k]]
    BY <1>1
<1> HIDE DEF p
<1>3. p \in Seq(CallSite) /\ Len(p) = Len(q) - 1
    BY <1>1, <1>2
<1>4. \A k \in 1 .. Len(p) : q[k] = p[k]
    BY <1>1, <1>2, <1>3
<1> QED
    BY <1>1, <1>3, <1>4 DEF Longer, p

LEMMA LongerPath ==
    ASSUME NEW p, NEW q, Longer(p, q)
    PROVE  /\ \A k \in 0 .. Len(p) : CxtAt(q, k) = CxtAt(p, k) /\ FunAt(q, k) = FunAt(p, k)
           /\ CxtAt(q, Len(q)) = PushCxt(CxtAt(p, Len(p)), q[Len(q)][1], q[Len(q)][2])
           /\ FunAt(q, Len(q)) = q[Len(q)][2]
<1>1. /\ p \in Seq(CallSite) /\ q \in Seq(CallSite) /\ Len(p) \in Nat /\ Len(q) = Len(p) + 1
      /\ \A k \in 1 .. Len(p) : p[k] = q[k]
    BY DEF Longer
<1>2. \A k \in 0 .. Len(p) : CxtAt(p, k) = CxtAt(q, k) /\ FunAt(p, k) = FunAt(q, k)
    BY <1>1, PathPrefix
<1>3. \A k \in 1 .. Len(q) : CxtAt(q, k) = PushCxt(CxtAt(q, k - 1), q[k][1], q[k][2])
    BY <1>1, CxtAtIs
<1>4. Len(q) \in 1 .. Len(q) /\ Len(q) - 1 = Len(p) /\ Len(p) \in 0 .. Len(p) /\ Len(q) # 0
    BY <1>1
<1>5. FunAt(q, Len(q)) = q[Len(q)][2]
    BY <1>4 DEF FunAt
<1> QED
    BY <1>2, <1>3, <1>4, <1>5

-----------------------------------------------------------------------------
(* Moves keep the shape of a thread.                                       *)

LEMMA CallerOfCallee ==
    ASSUME TreeTypes, NEW c \in Sites
    PROVE  /\ c = <<c[1], c[2]>> /\ c \in CallSite /\ c[1] \in Inst /\ c[2] \in Fun
           /\ prog.fn[c[1]] \in Fun /\ c[2] \in callersOf[c[2]]
           /\ \A f : f \in callersOf[prog.fn[c[1]]] => f \in callersOf[c[2]]
<1>1. c = <<c[1], c[2]>> /\ c \in CallSite /\ c[1] \in Inst /\ c[2] \in Fun /\ prog.fn[c[1]] \in Fun
    BY DEF TreeTypes, Program, Sites, CallSite
<1>2. \A f \in Fun : callersOf[f] = Callers(f)
    BY DEF TreeTypes
<1>3. <<prog.fn[c[1]], c[2]>> \in Closure(CallGraph)
    BY ClosureEdge DEF CallGraph
<1>4. ASSUME NEW f, f \in Callers(prog.fn[c[1]])
      PROVE  f \in Callers(c[2])
    BY <1>1, <1>3, <1>4, ClosureTransitive DEF Callers
<1>5. c[2] \in Callers(c[2])
    BY DEF Callers
<1> QED
    BY <1>1, <1>2, <1>4, <1>5

LEMMA ForkingCaller ==
    ASSUME TreeTypes, NEW g \in Fun, Forking(g), NEW f \in callersOf[g]
    PROVE  Forking(f)
<1>1. PICK c \in prog.forks : g \in callersOf[prog.fn[c[1]]]
    BY DEF Forking
<1>2. prog.fn[c[1]] \in Fun
    BY DEF TreeTypes, Program
<1>3. \A h \in Fun : callersOf[h] = Callers(h)
    BY DEF TreeTypes
<1>4. f \in Callers(g) /\ g \in Callers(prog.fn[c[1]])
    BY <1>1, <1>2, <1>3
<1>5. f \in Fun
    BY <1>4 DEF Callers
<1>6. f \in Callers(prog.fn[c[1]])
    BY <1>4, <1>5, CallersTransitive
<1> QED
    BY <1>2, <1>3, <1>6 DEF Forking

(* The shape without the base. *)
Path(path, at) ==
    LET i(k) == IF k = Len(path) THEN at ELSE path[k + 1][1]
    IN  /\ path \in Seq(CallSite) /\ at \in Inst
        /\ \A k \in 0 .. Len(path) : prog.fn[i(k)] = FunAt(path, k) /\ FunAt(path, k) \in Fun
        /\ \A k \in 1 .. Len(path) : path[k] \in Sites
        /\ \A k \in 0 .. Len(path) : \A j \in 0 .. k : FunAt(path, j) \in callersOf[FunAt(path, k)]

LEMMA ShapePath ==
    ASSUME TreeTypes, NEW d, Shape(d)
    PROVE  /\ Path(d.path, d.at) /\ d.base \in Nat /\ d.base <= Len(d.path) /\ Len(d.path) \in Nat
           /\ d.base > 0 => d.path[d.base] \in prog.forks
           /\ prog.fn[d.at] = FunAt(d.path, Len(d.path))
<1>1. Len(d.path) \in Nat /\ d.base \in 0 .. Len(d.path) /\ d.path \in Seq(CallSite) /\ d.at \in Inst
    BY DEF Shape, LiveThread
<1>2. \A k \in 0 .. Len(d.path) : FunAt(d.path, k) \in Fun
    <2>1. prog.main \in Fun /\ \A k \in 1 .. Len(d.path) : d.path[k][2] \in Fun
        BY <1>1 DEF TreeTypes, Program, CallSite
    <2> QED
        BY <1>1, <2>1 DEF FunAt
<1>3. Path(d.path, d.at)
    BY <1>1, <1>2 DEF Shape, Path, At
<1> QED
    BY <1>1, <1>3 DEF Shape, Path

LEMMA LongerShape ==
    ASSUME TreeTypes, NEW p, NEW at, Path(p, at), NEW q, Longer(p, q), q[Len(q)] \in Sites,
           q[Len(q)][1] = at, NEW i \in Inst, prog.fn[i] = q[Len(q)][2]
    PROVE  Path(q, i)
<1> DEFINE n == Len(p)
           c == q[Len(q)]
<1>1. /\ p \in Seq(CallSite) /\ q \in Seq(CallSite) /\ n \in Nat /\ Len(q) = n + 1
      /\ \A k \in 1 .. n : q[k] = p[k]
    BY DEF Longer
<1>2. /\ \A k \in 0 .. n : FunAt(q, k) = FunAt(p, k)
      /\ FunAt(q, n + 1) = c[2]
    BY <1>1, LongerPath
<1>3. /\ c[1] = at /\ c[2] \in Fun /\ c[2] \in callersOf[c[2]]
      /\ \A f : f \in callersOf[prog.fn[c[1]]] => f \in callersOf[c[2]]
    BY CallerOfCallee
<1> HIDE DEF n, c
<1>4. \A k \in 1 .. Len(q) : q[k] \in Sites
    BY <1>1 DEF Path, n
<1>5. prog.fn[at] = FunAt(p, n)
    BY <1>1 DEF Path, n
<1>6. \A k \in 0 .. Len(q) : /\ prog.fn[IF k = Len(q) THEN i ELSE q[k + 1][1]] = FunAt(q, k)
                             /\ FunAt(q, k) \in Fun
    <2> SUFFICES ASSUME NEW k \in 0 .. Len(q)
                 PROVE  /\ prog.fn[IF k = Len(q) THEN i ELSE q[k + 1][1]] = FunAt(q, k)
                        /\ FunAt(q, k) \in Fun
        OBVIOUS
    <2>1. CASE k = n + 1
        BY <1>1, <1>2, <1>3, <2>1 DEF c
    <2>2. CASE k = n
        <3>1. q[k + 1][1] = at
            BY <1>1, <1>3, <2>2 DEF c
        <3>2. FunAt(q, k) = FunAt(p, n) /\ FunAt(p, n) \in Fun
            BY <1>1, <1>2, <2>2 DEF Path, n
        <3> QED
            BY <1>1, <1>5, <2>2, <3>1, <3>2
    <2>3. CASE k < n
        <3>1. k \in 0 .. n /\ k + 1 \in 1 .. n /\ k # n /\ k # Len(q)
            BY <1>1, <2>3
        <3>2. prog.fn[p[k + 1][1]] = FunAt(p, k) /\ FunAt(p, k) \in Fun
            BY <3>1 DEF Path, n
        <3> QED
            BY <1>1, <1>2, <3>1, <3>2
    <2> QED
        BY <1>1, <2>1, <2>2, <2>3
<1>7. \A k \in 0 .. Len(q) : \A j \in 0 .. k : FunAt(q, j) \in callersOf[FunAt(q, k)]
    <2> SUFFICES ASSUME NEW k \in 0 .. Len(q), NEW j \in 0 .. k
                 PROVE  FunAt(q, j) \in callersOf[FunAt(q, k)]
        OBVIOUS
    <2>1. CASE k # n + 1
        <3>1. k \in 0 .. n /\ j \in 0 .. n
            BY <1>1, <2>1
        <3>2. FunAt(p, j) \in callersOf[FunAt(p, k)]
            BY <3>1 DEF Path, n
        <3> QED
            BY <1>2, <3>1, <3>2
    <2>2. CASE k = n + 1 /\ j # n + 1
        <3>1. j \in 0 .. n /\ n \in 0 .. n
            BY <1>1, <2>2
        <3>2. FunAt(p, j) \in callersOf[FunAt(p, n)]
            BY <3>1 DEF Path, n
        <3> QED
            BY <1>2, <1>3, <1>5, <2>2, <3>1, <3>2
    <2>3. CASE k = n + 1 /\ j = n + 1
        BY <1>2, <1>3, <2>3
    <2> QED
        BY <2>1, <2>2, <2>3
<1> QED
    BY <1>1, <1>4, <1>6, <1>7 DEF Path

LEMMA ShorterShape ==
    ASSUME NEW q, NEW at, Path(q, at), NEW p, Longer(p, q),
           NEW i \in Inst, prog.fn[i] = prog.fn[q[Len(q)][1]]
    PROVE  Path(p, i) /\ prog.fn[q[Len(q)][1]] = FunAt(p, Len(p))
<1> DEFINE n == Len(p)
<1>1. /\ p \in Seq(CallSite) /\ n \in Nat /\ Len(q) = n + 1
      /\ \A k \in 1 .. n : q[k] = p[k]
    BY DEF Longer
<1>2. \A k \in 0 .. n : FunAt(q, k) = FunAt(p, k)
    BY LongerPath
<1>3. \A k \in 0 .. n : prog.fn[q[k + 1][1]] = FunAt(q, k) /\ FunAt(q, k) \in Fun
    BY <1>1 DEF Path
<1> HIDE DEF n
<1>4. \A k \in 1 .. n : p[k] \in Sites
    BY <1>1 DEF Path
<1>5. \A k \in 0 .. n : \A j \in 0 .. k : FunAt(p, j) \in callersOf[FunAt(p, k)]
    <2> SUFFICES ASSUME NEW k \in 0 .. n, NEW j \in 0 .. k
                 PROVE  FunAt(p, j) \in callersOf[FunAt(p, k)]
        OBVIOUS
    <2>1. k \in 0 .. Len(q) /\ j \in 0 .. n
        BY <1>1
    <2>2. FunAt(q, j) \in callersOf[FunAt(q, k)]
        BY <2>1 DEF Path
    <2> QED
        BY <1>2, <2>1, <2>2
<1>6. prog.fn[q[Len(q)][1]] = FunAt(p, n)
    BY <1>1, <1>2, <1>3
<1>7. \A k \in 0 .. n : /\ prog.fn[IF k = n THEN i ELSE p[k + 1][1]] = FunAt(p, k)
                        /\ FunAt(p, k) \in Fun
    BY <1>1, <1>2, <1>3, <1>6
<1> QED
    BY <1>1, <1>4, <1>5, <1>6, <1>7 DEF Path, n

LEMMA CallsLonger ==
    ASSUME TreeTypes, NEW d, Shape(d), NEW e, NEW c \in Sites, e.path = Append(d.path, c)
    PROVE  /\ Longer(d.path, e.path) /\ e.path[Len(e.path)] = c
           /\ Len(e.path) = Len(d.path) + 1 /\ Len(d.path) \in Nat
<1>1. d.path \in Seq(CallSite) /\ c \in CallSite
    BY CallerOfCallee DEF Shape, LiveThread
<1> QED
    BY <1>1, AppendLonger DEF Longer

LEMMA ReturnsShorter ==
    ASSUME TreeTypes, NEW d, Shape(d), NEW e, Returns(d, e)
    PROVE  /\ Longer(e.path, d.path) /\ d.path[Len(d.path)] \in prog.calls
           /\ Len(d.path) = Len(e.path) + 1 /\ Len(e.path) \in Nat /\ d.base <= Len(e.path)
<1>1. d.path \in Seq(CallSite) /\ Len(d.path) \in Nat /\ d.base \in Nat /\ d.base < Len(d.path)
    BY DEF Shape, LiveThread, Returns
<1>2. Longer(e.path, d.path)
    BY <1>1, ButLastLonger DEF Returns
<1>3. d.path[Len(d.path)] \in prog.calls
    <2>1. Len(d.path) \in (d.base + 1) .. Len(d.path)
        BY <1>1
    <2> QED
        BY <2>1 DEF Shape
<1>4. Len(d.path) = Len(e.path) + 1 /\ Len(e.path) \in Nat
    BY <1>2 DEF Longer
<1> QED
    BY <1>1, <1>2, <1>3, <1>4

LEMMA NextInFunction ==
    ASSUME TreeTypes, WellFormed, NEW i, NEW j \in Next1(i)
    PROVE  j \in Inst /\ i \in Inst /\ prog.fn[j] = prog.fn[i] /\ <<i, j>> \in prog.next
<1>1. PICK x \in prog.next : x[1] = i /\ x[2] = j
    BY DEF Next1
<1>2. x = <<x[1], x[2]>> /\ x[1] \in Inst /\ x[2] \in Inst
    BY DEF TreeTypes, Program
<1> QED
    BY <1>1, <1>2 DEF WellFormed

LEMMA PathShape ==
    ASSUME NEW e \in LiveThread, Path(e.path, e.at), e.base <= Len(e.path),
           \A k \in (e.base + 1) .. Len(e.path) : e.path[k] \in prog.calls,
           e.base > 0 => e.path[e.base] \in prog.forks
    PROVE  Shape(e)
BY DEF Shape, Path, At, LiveThread

LEMMA MovesShape ==
    ASSUME TreeTypes, WellFormed, NEW d, Shape(d), NEW e, Moves(d, e)
    PROVE  Shape(e) /\ TidOf(e) = TidOf(d) /\ e.base = d.base
<1>1. /\ Path(d.path, d.at) /\ d.base \in Nat /\ d.base <= Len(d.path) /\ Len(d.path) \in Nat
      /\ d.base > 0 => d.path[d.base] \in prog.forks
      /\ e \in LiveThread
      /\ \A k \in (d.base + 1) .. Len(d.path) : d.path[k] \in prog.calls
    BY ShapePath DEF Moves, Shape
<1>2. CASE Stays(d, e)
    <2>1. prog.fn[e.at] = prog.fn[d.at] /\ e.at \in Inst /\ e.path = d.path /\ e.base = d.base
        BY <1>2, NextInFunction DEF Stays
    <2>2. Path(e.path, e.at)
        BY <1>1, <2>1 DEF Path
    <2>3. Shape(e)
        BY <1>1, <2>1, <2>2, PathShape
    <2> QED
        BY <2>1, <2>3 DEF TidOf
<1>3. CASE Calls(d, e)
    <2>1. PICK c \in prog.calls : /\ c[1] = d.at /\ e.at = prog.entry[c[2]]
                                  /\ e.path = Append(d.path, c) /\ e.base = d.base
        BY <1>3 DEF Calls
    <2>2. c \in Sites /\ c[2] \in Fun
        BY CallerOfCallee DEF Sites
    <2>3. /\ Longer(d.path, e.path) /\ e.path[Len(e.path)] = c
          /\ Len(e.path) = Len(d.path) + 1
        BY <2>1, <2>2, CallsLonger
    <2>4. e.at \in Inst /\ prog.fn[e.at] = c[2]
        BY <2>1, <2>2 DEF TreeTypes, Program, WellFormed
    <2>5. Path(e.path, e.at)
        BY <1>1, <2>1, <2>2, <2>3, <2>4, LongerShape
    <2>6. \A k \in 1 .. Len(d.path) : e.path[k] = d.path[k]
        BY <2>3 DEF Longer
    <2>7. \A k \in (e.base + 1) .. Len(e.path) : e.path[k] \in prog.calls
        BY <1>1, <2>1, <2>3, <2>6
    <2>8. e.base > 0 => e.path[e.base] \in prog.forks /\ e.path[e.base] = d.path[d.base]
        BY <1>1, <2>1, <2>6
    <2>9. Shape(e)
        <3>1. e.base <= Len(e.path)
            BY <1>1, <2>1, <2>3
        <3> QED
            BY <1>1, <2>5, <2>7, <2>8, <3>1, PathShape
    <2>10. CxtAt(e.path, d.base) = CxtAt(d.path, d.base)
        BY <1>1, <2>3, LongerPath
    <2> QED
        BY <1>1, <2>1, <2>8, <2>9, <2>10 DEF TidOf
<1>4. CASE Returns(d, e)
    <2>1. /\ Longer(e.path, d.path) /\ d.path[Len(d.path)] \in prog.calls
          /\ Len(d.path) = Len(e.path) + 1 /\ Len(e.path) \in Nat /\ d.base <= Len(e.path)
        BY <1>4, ReturnsShorter
    <2>2. e.at \in Inst /\ prog.fn[e.at] = prog.fn[d.path[Len(d.path)][1]] /\ e.base = d.base
        BY <1>4, NextInFunction DEF Returns
    <2>3. Path(e.path, e.at)
        BY <1>1, <2>1, <2>2, ShorterShape
    <2>4. \A k \in 1 .. Len(e.path) : e.path[k] = d.path[k]
        BY <2>1 DEF Longer
    <2>5. \A k \in (e.base + 1) .. Len(e.path) : e.path[k] \in prog.calls
        BY <1>1, <2>1, <2>2, <2>4
    <2>6. e.base > 0 => e.path[e.base] \in prog.forks /\ e.path[e.base] = d.path[d.base]
        BY <1>1, <2>1, <2>2, <2>4
    <2>7. Shape(e)
        BY <1>1, <2>1, <2>2, <2>3, <2>5, <2>6, PathShape
    <2>8. CxtAt(d.path, d.base) = CxtAt(e.path, d.base)
        BY <1>1, <2>1, LongerPath
    <2> QED
        BY <1>1, <2>2, <2>6, <2>7, <2>8 DEF TidOf
<1> QED
    BY <1>2, <1>3, <1>4 DEF Moves

LEMMA ForksShape ==
    ASSUME TreeTypes, WellFormed, NEW d, Shape(d), NEW e, Forks(d, e)
    PROVE  /\ Shape(e) /\ e.base = Len(d.path) + 1 /\ Longer(d.path, e.path)
           /\ Len(e.path) = e.base
           /\ \E c \in prog.forks :
                 /\ c[1] = d.at /\ e.path[e.base] = c /\ e.at = prog.entry[c[2]]
                 /\ TidOf(e) = Spawned(CxtAt(d.path, Len(d.path)), c)
                 /\ CxtAt(e.path, e.base) = PushCxt(CxtAt(d.path, Len(d.path)), c[1], c[2])
                 /\ FunAt(e.path, e.base) = c[2]
<1>1. Path(d.path, d.at) /\ Len(d.path) \in Nat /\ e \in LiveThread
    BY ShapePath DEF Forks
<1>2. PICK c \in prog.forks : /\ c[1] = d.at /\ e.at = prog.entry[c[2]]
                              /\ e.path = Append(d.path, c) /\ e.base = Len(e.path)
    BY DEF Forks
<1>3. c \in Sites /\ c[2] \in Fun
    BY CallerOfCallee DEF Sites
<1>4. /\ Longer(d.path, e.path) /\ e.path[Len(e.path)] = c
      /\ Len(e.path) = Len(d.path) + 1
    BY <1>2, <1>3, CallsLonger
<1>5. e.at \in Inst /\ prog.fn[e.at] = c[2]
    BY <1>2, <1>3 DEF TreeTypes, Program, WellFormed
<1>6. Path(e.path, e.at)
    BY <1>1, <1>2, <1>3, <1>4, <1>5, LongerShape
<1>7. Shape(e)
    <2>1. /\ e.base <= Len(e.path) /\ e.path[e.base] = c
          /\ \A k \in (e.base + 1) .. Len(e.path) : e.path[k] \in prog.calls
        BY <1>1, <1>2, <1>4
    <2> QED
        BY <1>1, <1>6, <2>1, PathShape
<1>8. /\ CxtAt(e.path, e.base) = PushCxt(CxtAt(d.path, Len(d.path)), c[1], c[2])
      /\ FunAt(e.path, e.base) = c[2]
    <2>1. /\ CxtAt(e.path, Len(e.path)) =
                PushCxt(CxtAt(d.path, Len(d.path)), e.path[Len(e.path)][1], e.path[Len(e.path)][2])
          /\ FunAt(e.path, Len(e.path)) = e.path[Len(e.path)][2]
        BY <1>4, LongerPath
    <2> QED
        BY <1>2, <1>4, <2>1
<1>9. TidOf(e) = Spawned(CxtAt(d.path, Len(d.path)), c)
    BY <1>1, <1>2, <1>4, <1>8 DEF TidOf, Spawned
<1> QED
    BY <1>2, <1>4, <1>7, <1>8, <1>9

(* Whoever calls a function that may come to a fork may come to it. *)
LEMMA CallerForking ==
    ASSUME TreeTypes, NEW c \in Sites, Forking(c[2])
    PROVE  Forking(prog.fn[c[1]])
<1>1. c[2] \in Fun /\ prog.fn[c[1]] \in Fun
    BY CallerOfCallee
<1>2. prog.fn[c[1]] \in callersOf[prog.fn[c[1]]]
    BY <1>1 DEF TreeTypes, Callers
<1>3. prog.fn[c[1]] \in callersOf[c[2]]
    BY <1>2, CallerOfCallee
<1> QED
    BY <1>1, <1>3, ForkingCaller

LEMMA MovesInTree ==
    ASSUME Settled, NEW d, Shape(d), InTree(d), NEW e, Moves(d, e)
    PROVE  InTree(e)
<1> DEFINE q == TidOf(d)
           n == Len(d.path)
<1>1. TreeTypes /\ WellFormed /\ candidates = RelevantFuns /\ VisitedClosed
    BY DEF Settled, Tame, TreeInv
<1>2. /\ d.base \in Nat /\ d.base <= n /\ n \in Nat /\ prog.fn[d.at] = FunAt(d.path, n)
    BY <1>1, ShapePath
<1>3. TidOf(e) = q /\ e.base = d.base
    BY <1>1, MovesShape
<1>4. \A k \in d.base .. n : Forking(FunAt(d.path, k)) =>
          <<q, CxtAt(d.path, k), FunAt(d.path, k)>> \in visited
    BY DEF InTree
<1> HIDE DEF q, n
<1>5. SUFFICES ASSUME NEW k \in d.base .. Len(e.path), Forking(FunAt(e.path, k))
               PROVE  <<q, CxtAt(e.path, k), FunAt(e.path, k)>> \in visited
    BY <1>3 DEF InTree
<1>6. CASE Stays(d, e)
    BY <1>4, <1>5, <1>6 DEF Stays, n
<1>7. CASE Calls(d, e)
    <2>1. PICK c \in prog.calls : c[1] = d.at /\ e.path = Append(d.path, c)
        BY <1>7 DEF Calls
    <2>2. c \in Sites
        BY DEF Sites
    <2>3. Longer(d.path, e.path) /\ e.path[Len(e.path)] = c /\ Len(e.path) = n + 1
        BY <1>1, <2>1, <2>2, CallsLonger DEF n
    <2>4. /\ \A j \in 0 .. n : CxtAt(e.path, j) = CxtAt(d.path, j) /\ FunAt(e.path, j) = FunAt(d.path, j)
          /\ CxtAt(e.path, n + 1) = PushCxt(CxtAt(d.path, n), c[1], c[2])
          /\ FunAt(e.path, n + 1) = c[2]
        BY <2>3, LongerPath DEF n
    <2>5. CASE k # n + 1
        <3>1. k \in 0 .. n /\ k \in d.base .. n
            BY <1>2, <2>3, <2>5
        <3> QED
            BY <1>4, <1>5, <2>4, <3>1
    <2>6. CASE k = n + 1
        <3>1. Forking(prog.fn[c[1]])
            BY <1>1, <1>5, <2>2, <2>4, <2>6, CallerForking
        <3>2. Forking(FunAt(d.path, n)) /\ n \in d.base .. n /\ prog.fn[c[1]] = FunAt(d.path, n)
            BY <1>2, <2>1, <3>1
        <3>3. <<q, CxtAt(d.path, n), FunAt(d.path, n)>> \in visited
            BY <1>4, <3>2
        <3>4. FunAt(d.path, n) \in candidates
            BY <1>1, <3>2, ForkingRelevant
        <3>5. <<q, PushCxt(CxtAt(d.path, n), c[1], c[2]), c[2]>> \in visited
            BY <1>1, <3>2, <3>3, <3>4 DEF VisitedClosed, Expanded
        <3> QED
            BY <2>4, <2>6, <3>5
    <2> QED
        BY <2>5, <2>6
<1>8. CASE Returns(d, e)
    <2>1. Longer(e.path, d.path) /\ n = Len(e.path) + 1 /\ Len(e.path) \in Nat
        BY <1>1, <1>8, ReturnsShorter DEF n
    <2>2. k \in 0 .. Len(e.path) /\ k \in d.base .. n
        BY <1>2, <2>1
    <2>3. CxtAt(d.path, k) = CxtAt(e.path, k) /\ FunAt(d.path, k) = FunAt(e.path, k)
        BY <2>1, <2>2, LongerPath
    <2> QED
        BY <1>4, <1>5, <2>2, <2>3
<1> QED
    BY <1>6, <1>7, <1>8 DEF Moves

(* A thread that forks is in the tree as the parent of its child. *)
LEMMA ForksInTree ==
    ASSUME Settled, NEW d, Shape(d), InTree(d), NEW e, Forks(d, e)
    PROVE  /\ InTree(e)
           /\ <<TidOf(d), TidOf(e)>> \in tctEdges
           /\ \A k \in 0 .. Len(d.path) : FunAt(d.path, k) \in candidates
           /\ \A a \in threads : a[1] = TidOf(e) =>
                 /\ a[2] = CxtAt(d.path, Len(d.path))
                 /\ StartOf(a) = <<TidOf(e), CxtAt(e.path, e.base), e.at>>
           /\ TidOf(e)[2] = d.at
<1> DEFINE q == TidOf(d)
           n == Len(d.path)
           x == CxtAt(d.path, n)
<1>1. /\ TreeTypes /\ WellFormed /\ NoRecursiveFork /\ candidates = RelevantFuns /\ VisitedClosed
    BY DEF Settled, Tame, TreeInv
<1>2. /\ d.base \in Nat /\ d.base <= n /\ n \in Nat /\ prog.fn[d.at] = FunAt(d.path, n)
    BY <1>1, ShapePath
<1>3. PICK c \in prog.forks :
          /\ c[1] = d.at /\ e.at = prog.entry[c[2]] /\ Len(e.path) = e.base
          /\ TidOf(e) = Spawned(x, c)
          /\ CxtAt(e.path, e.base) = PushCxt(x, c[1], c[2])
          /\ FunAt(e.path, e.base) = c[2]
    BY <1>1, ForksShape
<1>4. PushCxt(x, c[1], c[2]) = Append(x, c) /\ Spawned(x, c) = <<Append(x, c), c[1]>>
      /\ Forking(prog.fn[c[1]])
    BY <1>1, ForkPushed
<1>5. \A k \in 0 .. n : FunAt(d.path, k) \in candidates
    <2> SUFFICES ASSUME NEW k \in 0 .. n
                 PROVE  FunAt(d.path, k) \in candidates
        OBVIOUS
    <2>1. FunAt(d.path, k) \in callersOf[FunAt(d.path, n)] /\ FunAt(d.path, n) \in Fun
        BY <1>1, <1>2, ShapePath DEF Path
    <2>2. Forking(FunAt(d.path, k))
        BY <1>1, <1>2, <1>3, <1>4, <2>1, ForkingCaller
    <2> QED
        BY <1>1, <2>2, ForkingRelevant
<1>6. <<q, x, prog.fn[c[1]]>> \in visited
    <2>1. n \in d.base .. n
        BY <1>2
    <2>2. Forking(FunAt(d.path, n))
        BY <1>2, <1>3, <1>4
    <2> QED
        BY <1>2, <1>3, <2>1, <2>2 DEF InTree
<1> HIDE DEF q, n, x
<1>7. ForkedBy(<<q, x, prog.fn[c[1]]>>, c) \in visited /\ <<q, Spawned(x, c)>> \in tctEdges
    BY <1>6, ThreadForked
<1>8. InTree(e)
    <2>1. <<Spawned(x, c), PushCxt(x, c[1], c[2]), c[2]>> \in visited
        BY <1>7 DEF ForkedBy
    <2>2. \A k \in e.base .. Len(e.path) : k = e.base
        <3>1. e.base \in Nat
            BY <1>1, ForksShape, <1>2 DEF n
        <3> QED
            BY <1>3, <3>1
    <2> QED
        BY <1>3, <2>1, <2>2 DEF InTree
<1>9. ASSUME NEW a \in threads, a[1] = TidOf(e)
      PROVE  /\ a[2] = x
             /\ StartOf(a) = <<TidOf(e), CxtAt(e.path, e.base), e.at>>
    <2>1. a # MainThread
        <3>1. a[1] \in TIds \ {MainTid}
            BY <1>3, <1>6, <1>9, ThreadForked
        <3> QED
            BY <3>1 DEF MainThread
    <2>2. PICK p \in visited, f \in prog.forks :
              prog.fn[f[1]] = p[3] /\ a = <<Spawned(p[2], f), p[2], f[2]>>
        BY <2>1 DEF Settled, ThreadsForked
    <2>3. Spawned(p[2], f) = <<Append(p[2], f), f[1]>>
        BY <1>1, ForkPushed
    <2>4. Append(p[2], f) = Append(x, c)
        BY <1>3, <1>4, <1>9, <2>2, <2>3
    <2>5. p[2] \in Seq(CallSite) /\ x \in Seq(CallSite) /\ f \in CallSite /\ c \in CallSite
        BY <1>1, <1>6 DEF TreeTypes, Program, CallSite, Cxt
    <2>6. p[2] = x /\ f = c
        BY <2>4, <2>5, SameAppended
    <2>7. a[2] = x /\ a[3] = c[2] /\ a[1][1] = Append(x, c)
        BY <2>2, <2>3, <2>4, <2>6
    <2> QED
        BY <1>3, <1>4, <1>9, <2>7 DEF StartOf
<1>10. TidOf(e)[2] = d.at
    BY <1>3, <1>4
<1> QED
    BY <1>3, <1>5, <1>7, <1>8, <1>9, <1>10 DEF q, n, x

-----------------------------------------------------------------------------
(* What a thread runs in parallel with, it still does after a move.        *)

LEMMA FlowsTo ==
    ASSUME Settled, NEW s, NEW t, <<s, t>> \in inter, NEW u \in Targets(s)
    PROVE  <<u, t>> \in inter
BY DEF Settled, FlowClosed

(* Which handler a statement goes to. *)
LEMMA TargetsIs ==
    ASSUME NEW s, NEW i, i = s[3], NEW f, f = prog.fn[i]
    PROVE  /\ f \notin candidates => Targets(s) = NonCandidateTargets(s)
           /\ f \in candidates /\ i \in ForkSites /\ i \notin CallSites \cup prog.joins \cup prog.rets
                 => Targets(s) = ForkTargets(s)
           /\ f \in candidates /\ i \in CallSites /\ i \notin ForkSites \cup prog.joins \cup prog.rets
                 => Targets(s) = CallTargets(s)
           /\ f \in candidates /\ i \in prog.rets /\ i \notin CallSites \cup ForkSites \cup prog.joins
                 => Targets(s) = RetTargets(s)
<1> DEFINE none == Callees(i) = {}
<1>1. none <=> i \notin CallSites
    BY DEF Callees, CallSites
<1>2. f \notin candidates => Targets(s) = NonCandidateTargets(s)
    BY Zenon DEF Targets
<1>3. f \in candidates /\ i \in ForkSites /\ i \notin prog.joins /\ none /\ i \notin prog.rets
        => Targets(s) = ForkTargets(s)
    BY Zenon DEF Targets
<1>4. f \in candidates /\ i \notin ForkSites /\ i \notin prog.joins /\ ~ none /\ i \notin prog.rets
        => Targets(s) = CallTargets(s)
    BY Zenon DEF Targets
<1>5. f \in candidates /\ i \notin ForkSites /\ i \notin prog.joins /\ none /\ i \in prog.rets
        => Targets(s) = RetTargets(s)
    BY Zenon DEF Targets
<1> QED
    BY <1>1, <1>2, <1>3, <1>4, <1>5

LEMMA IntraTarget ==
    ASSUME NEW q, NEW x, NEW i, i \notin CallSites \cup prog.rets, prog.fn[i] \in candidates,
           NEW j \in Next1(i)
    PROVE  <<q, x, j>> \in Targets(<<q, x, i>>)
<1> DEFINE s == <<q, x, i>>
<1>1. s[1] = q /\ s[2] = x /\ s[3] = i
    OBVIOUS
<1>2. Callees(i) = {}
    BY DEF Callees, CallSites
<1> HIDE DEF s
<1>3. <<q, x, j>> \in Intra(s)
    BY <1>1 DEF Intra
<1>4. Intra(s) \subseteq Targets(s)
    BY <1>1, <1>2 DEF Targets, ForkTargets, JoinTargets
<1> QED
    BY <1>3, <1>4 DEF s

LEMMA InsideFunction ==
    ASSUME Settled, NEW q, NEW x, NEW t, NEW f, f \notin candidates,
           <<<<q, x, prog.entry[f]>>, t>> \in inter, NEW i \in Inst, prog.fn[i] = f
    PROVE  <<<<q, x, i>>, t>> \in inter
BY DEF Settled, InsideClosed

LEMMA StaysCovers ==
    ASSUME Settled, NEW d, Shape(d), NEW e, Stays(d, e), NEW t,
           CoversAt(TidOf(d), d.path, d.at, d.base, t)
    PROVE  CoversAt(TidOf(d), e.path, e.at, e.base, t)
<1> DEFINE q == TidOf(d)
           n == Len(d.path)
           x == CxtAt(d.path, n)
<1>1. TreeTypes /\ WellFormed
    BY DEF Settled, Tame, TreeInv
<1>2. d.base \in Nat /\ d.base <= n /\ n \in Nat /\ prog.fn[d.at] = FunAt(d.path, n)
    BY <1>1, ShapePath
<1>3. e.at \in Inst /\ prog.fn[e.at] = prog.fn[d.at] /\ e.path = d.path /\ e.base = d.base
    BY <1>1, NextInFunction DEF Stays
<1> HIDE DEF q, x
<1>4. <<<<q, x, d.at>>, t>> \in inter
    BY DEF CoversAt, q, x
<1>5. <<<<q, x, e.at>>, t>> \in inter
    <2>1. CASE prog.fn[d.at] \in candidates
        <3>1. <<q, x, e.at>> \in Targets(<<q, x, d.at>>)
            BY <2>1, IntraTarget DEF Stays
        <3> QED
            BY <1>4, <3>1, FlowsTo
    <2>2. CASE prog.fn[d.at] \notin candidates
        <3>1. n \in d.base .. n
            BY <1>2
        <3>2. <<<<q, x, prog.entry[FunAt(d.path, n)]>>, t>> \in inter
            BY <1>2, <2>2, <3>1 DEF CoversAt, q, x
        <3> QED
            BY <1>2, <1>3, <2>2, <3>2, InsideFunction
    <2> QED
        BY <2>1, <2>2
<1> QED
    BY <1>3, <1>5 DEF CoversAt, q, x, n

LEMMA CallsCovers ==
    ASSUME Settled, NEW d, Shape(d), NEW e, Calls(d, e), NEW t,
           CoversAt(TidOf(d), d.path, d.at, d.base, t)
    PROVE  CoversAt(TidOf(d), e.path, e.at, e.base, t)
<1> DEFINE q == TidOf(d)
           n == Len(d.path)
           x == CxtAt(d.path, n)
<1>1. TreeTypes /\ WellFormed
    BY DEF Settled, Tame, TreeInv
<1>2. d.base \in Nat /\ d.base <= n /\ n \in Nat /\ prog.fn[d.at] = FunAt(d.path, n)
    BY <1>1, ShapePath
<1>3. PICK c \in prog.calls : /\ c[1] = d.at /\ e.at = prog.entry[c[2]]
                              /\ e.path = Append(d.path, c) /\ e.base = d.base
    BY DEF Calls
<1>4. c \in Sites /\ c = <<c[1], c[2]>> /\ c[1] \in Inst
    BY <1>1, CallerOfCallee DEF Sites
<1>5. /\ Longer(d.path, e.path) /\ e.path[n + 1] = c /\ Len(e.path) = n + 1
      /\ \A k \in 1 .. n : e.path[k] = d.path[k]
    <2>1. /\ Longer(d.path, e.path) /\ e.path[Len(e.path)] = c /\ Len(e.path) = n + 1
        BY <1>1, <1>3, <1>4, CallsLonger
    <2> QED
        BY <2>1 DEF Longer
<1>6. /\ \A j \in 0 .. n : CxtAt(e.path, j) = CxtAt(d.path, j) /\ FunAt(e.path, j) = FunAt(d.path, j)
      /\ CxtAt(e.path, n + 1) = PushCxt(x, c[1], c[2])
      /\ FunAt(e.path, n + 1) = c[2]
    BY <1>5, LongerPath
<1> HIDE DEF q, x
<1>7. <<<<q, x, c[1]>>, t>> \in inter
    BY <1>3 DEF CoversAt, q, x
<1>8. <<<<q, PushCxt(x, c[1], c[2]), prog.entry[c[2]]>>, t>> \in inter
    <2> DEFINE s == <<q, x, c[1]>>
    <2>1. s[1] = q /\ s[2] = x /\ s[3] = c[1]
        OBVIOUS
    <2>2. c[1] \in CallSites /\ c[2] \in Callees(c[1])
        BY DEF CallSites, Callees
    <2>3. c[1] \notin ForkSites \cup prog.joins \cup prog.rets
        BY <1>1, <2>2 DEF WellFormed
    <2> HIDE DEF s
    <2>4. <<q, PushCxt(x, c[1], c[2]), prog.entry[c[2]]>> \in Targets(s)
        <3>1. CASE prog.fn[c[1]] \in candidates
            <4>1. <<q, PushCxt(x, c[1], c[2]), prog.entry[c[2]]>> \in CallTargets(s)
                BY <2>1, <2>2 DEF CallTargets
            <4>2. Targets(s) = CallTargets(s)
                BY <2>1, <2>2, <2>3, <3>1, TargetsIs
            <4> QED
                BY <4>1, <4>2
        <3>2. CASE prog.fn[c[1]] \notin candidates
            <4>1. PushCxt(x, c[1], c[2]) = x
                BY <3>2 DEF PushCxt
            <4>2. <<prog.fn[c[1]], c[2]>> \in CallGraph
                BY <1>4 DEF CallGraph
            <4>3. <<q, x, prog.entry[c[2]]>> \in NonCandidateTargets(s)
                BY <2>1, <4>2 DEF NonCandidateTargets
            <4>4. Targets(s) = NonCandidateTargets(s)
                BY <2>1, <3>2, TargetsIs
            <4> QED
                BY <4>1, <4>3, <4>4
        <3> QED
            BY <3>1, <3>2
    <2> QED
        BY <1>7, <2>4, FlowsTo DEF s
<1>9. \A k \in d.base .. (n + 1) : FunAt(e.path, k) \notin candidates =>
          <<<<q, CxtAt(e.path, k), prog.entry[FunAt(e.path, k)]>>, t>> \in inter
    <2> SUFFICES ASSUME NEW k \in d.base .. (n + 1), FunAt(e.path, k) \notin candidates
                 PROVE  <<<<q, CxtAt(e.path, k), prog.entry[FunAt(e.path, k)]>>, t>> \in inter
        OBVIOUS
    <2>1. CASE k = n + 1
        BY <1>6, <1>8, <2>1
    <2>2. CASE k # n + 1
        <3>1. k \in 0 .. n /\ k \in d.base .. n
            BY <1>2, <2>2
        <3> QED
            BY <1>6, <3>1 DEF CoversAt, q, n
    <2> QED
        BY <2>1, <2>2
<1>10. \A k \in d.base .. n : FunAt(e.path, k + 1) \notin candidates =>
          <<<<q, CxtAt(e.path, k), e.path[k + 1][1]>>, t>> \in inter
    <2> SUFFICES ASSUME NEW k \in d.base .. n, FunAt(e.path, k + 1) \notin candidates
                 PROVE  <<<<q, CxtAt(e.path, k), e.path[k + 1][1]>>, t>> \in inter
        OBVIOUS
    <2>1. CASE k = n
        <3>1. CxtAt(e.path, n) = x
            BY <1>2, <1>6 DEF x
        <3> QED
            BY <1>5, <1>7, <2>1, <3>1
    <2>2. CASE k # n
        <3>1. k \in 0 .. n /\ k \in d.base .. (n - 1) /\ k + 1 \in 0 .. n /\ k + 1 \in 1 .. n
            BY <1>2, <2>2
        <3> QED
            BY <1>5, <1>6, <3>1 DEF CoversAt, q, n
    <2> QED
        BY <2>1, <2>2
<1>11. (n + 1) - 1 = n
    BY <1>2
<1> QED
    BY <1>3, <1>5, <1>6, <1>8, <1>9, <1>10, <1>11 DEF CoversAt, q

LEMMA ReturnsCovers ==
    ASSUME Settled, NEW d, Shape(d), NEW e, Returns(d, e), NEW t,
           CoversAt(TidOf(d), d.path, d.at, d.base, t)
    PROVE  CoversAt(TidOf(d), e.path, e.at, e.base, t)
<1> DEFINE q == TidOf(d)
           n == Len(e.path)
           c == d.path[n + 1]
           x == CxtAt(e.path, n)
           f == prog.fn[c[1]]
<1>1. TreeTypes /\ WellFormed /\ NoMixedCall
    BY DEF Settled, Tame, TreeInv
<1>2. /\ d.base \in Nat /\ d.base <= n /\ n \in Nat /\ Len(d.path) = n + 1
      /\ Longer(e.path, d.path) /\ c \in prog.calls /\ e.base = d.base
      /\ \A k \in 1 .. n : d.path[k] = e.path[k]
    <2>1. /\ Longer(e.path, d.path) /\ d.path[Len(d.path)] \in prog.calls
          /\ Len(d.path) = n + 1 /\ n \in Nat /\ d.base <= n
        BY <1>1, ReturnsShorter
    <2>2. d.base \in Nat /\ e.base = d.base
        BY DEF Returns, Shape, LiveThread
    <2>3. \A k \in 1 .. n : d.path[k] = e.path[k]
        BY <2>1 DEF Longer
    <2> QED
        BY <2>1, <2>2, <2>3
<1>3. c \in Sites /\ c = <<c[1], c[2]>> /\ c[1] \in Inst
    BY <1>1, <1>2, CallerOfCallee DEF Sites
<1>4. /\ \A j \in 0 .. n : CxtAt(d.path, j) = CxtAt(e.path, j) /\ FunAt(d.path, j) = FunAt(e.path, j)
      /\ CxtAt(d.path, n + 1) = PushCxt(x, c[1], c[2])
      /\ FunAt(d.path, n + 1) = c[2]
    BY <1>2, LongerPath
<1>5. e.at \in Next1(c[1]) /\ e.at \in Inst /\ prog.fn[e.at] = f /\ d.at \in prog.rets
    BY <1>1, <1>2, NextInFunction DEF Returns
<1>6. prog.fn[d.at] = c[2]
    BY <1>1, <1>2, <1>4, ShapePath
<1>7. FunAt(e.path, n) = f
    <2>1. Path(d.path, d.at)
        BY <1>1, ShapePath
    <2> QED
        BY <1>2, <1>5, <2>1, ShorterShape
<1>8. n \in d.base .. (n + 1) /\ n \in d.base .. ((n + 1) - 1) /\ n \in 0 .. n
    BY <1>2
<1>9. x \in Cxt
    BY <1>2, <1>8, CxtAtIs DEF Longer
<1> HIDE DEF q, c, x, f
<1>10. <<<<q, PushCxt(x, c[1], c[2]), d.at>>, t>> \in inter
    BY <1>2, <1>4 DEF CoversAt, q
<1>11. f \notin candidates => <<<<q, x, prog.entry[f]>>, t>> \in inter
    BY <1>2, <1>4, <1>7, <1>8 DEF CoversAt, q, x
<1>12. c[2] \notin candidates => <<<<q, x, c[1]>>, t>> \in inter
    BY <1>2, <1>4, <1>8 DEF CoversAt, q, x, c
<1>13. c[1] \in CallSites /\ c[2] \in Callees(c[1]) /\ c[1] \notin ForkSites \cup prog.joins \cup prog.rets
    <2>1. c[1] \in CallSites /\ c[2] \in Callees(c[1])
        BY <1>2 DEF CallSites, Callees
    <2> QED
        BY <1>1, <2>1 DEF WellFormed
<1>14. <<<<q, x, e.at>>, t>> \in inter
    <2>1. CASE f \notin candidates
        BY <1>5, <1>11, <2>1, InsideFunction
    <2>2. CASE f \in candidates /\ c[2] \notin candidates
        <3> DEFINE s == <<q, x, c[1]>>
        <3>1. s[1] = q /\ s[2] = x /\ s[3] = c[1]
            OBVIOUS
        <3> HIDE DEF s
        <3>2. Callees(c[1]) \cap candidates = {}
            BY <1>1, <1>3, <1>13, <2>2 DEF NoMixedCall
        <3>3. <<q, x, e.at>> \in CallTargets(s)
            BY <1>5, <3>1, <3>2 DEF CallTargets, Intra
        <3>4. Targets(s) = CallTargets(s)
            BY <1>13, <2>2, <3>1, TargetsIs DEF f
        <3> QED
            BY <1>12, <2>2, <3>3, <3>4, FlowsTo DEF s
    <2>3. CASE f \in candidates /\ c[2] \in candidates
        <3> DEFINE y == PushCxt(x, c[1], c[2])
                   s == <<q, y, d.at>>
        <3>1. s[1] = q /\ s[2] = y /\ s[3] = d.at
            OBVIOUS
        <3> HIDE DEF s
        <3>2. x \in MatchCxt(y, c[1], c[2])
            <4>1. CASE SameSCC(f, c[2])
                BY <2>3, <4>1 DEF MatchCxt, PushCxt, f
            <4>2. CASE ~ SameSCC(f, c[2])
                <5>1. y = Append(x, c)
                    BY <1>3, <2>3, <4>2 DEF PushCxt, f
                <5>2. x \in Seq(CallSite) /\ c \in CallSite
                    BY <1>1, <1>3, <1>9, CallerOfCallee DEF Cxt
                <5>3. /\ y # <<>> /\ y[Len(y)] = c /\ SubSeq(y, 1, Len(y) - 1) = x
                    BY <5>1, <5>2, AppendLast
                <5> HIDE DEF y
                <5> QED
                    BY <1>3, <2>3, <4>2, <5>3 DEF MatchCxt, f
            <4> QED
                BY <4>1, <4>2
        <3> HIDE DEF y
        <3>3. <<q, x, e.at>> \in RetTargets(s)
            <4>1. c[1] \in {z[1] : z \in {w \in prog.calls : w[2] = prog.fn[s[3]]}}
                BY <1>2, <1>6, <3>1
            <4>2. <<q, x, e.at>> \in {<<s[1], cxt, i>> : cxt \in MatchCxt(s[2], c[1], prog.fn[s[3]]),
                                                         i \in Next1(c[1])}
                BY <1>5, <1>6, <3>1, <3>2
            <4> QED
                BY <4>1, <4>2 DEF RetTargets
        <3>4. Targets(s) = RetTargets(s)
            <4>1. d.at \notin CallSites \cup ForkSites \cup prog.joins
                BY <1>1, <1>5 DEF WellFormed
            <4> QED
                BY <1>5, <1>6, <2>3, <3>1, <4>1, TargetsIs
        <3> QED
            BY <1>10, <3>3, <3>4, FlowsTo DEF s, y
    <2> QED
        BY <2>1, <2>2, <2>3
<1>15. \A k \in d.base .. n : FunAt(e.path, k) \notin candidates =>
          <<<<q, CxtAt(e.path, k), prog.entry[FunAt(e.path, k)]>>, t>> \in inter
    <2> SUFFICES ASSUME NEW k \in d.base .. n, FunAt(e.path, k) \notin candidates
                 PROVE  <<<<q, CxtAt(e.path, k), prog.entry[FunAt(e.path, k)]>>, t>> \in inter
        OBVIOUS
    <2>1. k \in 0 .. n /\ k \in d.base .. (n + 1)
        BY <1>2
    <2> QED
        BY <1>2, <1>4, <2>1 DEF CoversAt, q
<1>16. \A k \in d.base .. (n - 1) : FunAt(e.path, k + 1) \notin candidates =>
          <<<<q, CxtAt(e.path, k), e.path[k + 1][1]>>, t>> \in inter
    <2> SUFFICES ASSUME NEW k \in d.base .. (n - 1), FunAt(e.path, k + 1) \notin candidates
                 PROVE  <<<<q, CxtAt(e.path, k), e.path[k + 1][1]>>, t>> \in inter
        OBVIOUS
    <2>1. k \in 0 .. n /\ k + 1 \in 0 .. n /\ k + 1 \in 1 .. n /\ k \in d.base .. ((n + 1) - 1)
        BY <1>2
    <2> QED
        BY <1>2, <1>4, <2>1 DEF CoversAt, q
<1> QED
    BY <1>2, <1>14, <1>15, <1>16 DEF CoversAt, q, x

LEMMA MovesCovers ==
    ASSUME Settled, NEW d, Shape(d), NEW e, Moves(d, e), NEW t, Covers(d, t)
    PROVE  Covers(e, t)
<1>1. TidOf(e) = TidOf(d)
    BY MovesShape DEF Settled, Tame, TreeInv
<1>2. CoversAt(TidOf(d), e.path, e.at, e.base, t)
    BY StaysCovers, CallsCovers, ReturnsCovers DEF Moves, Covers
<1> QED
    BY <1>1, <1>2 DEF Covers

(* The start of a thread is all there is to cover. *)
LEMMA StartCovers ==
    ASSUME Settled, NEW d, Shape(d), NEW e, Forks(d, e), NEW t,
           <<<<TidOf(e), CxtAt(e.path, e.base), e.at>>, t>> \in inter
    PROVE  Covers(e, t)
<1> DEFINE q == TidOf(e)
<1>1. e.base \in Nat /\ Len(e.path) = e.base /\ e.at = prog.entry[FunAt(e.path, e.base)]
    BY ForksShape, ShapePath DEF Settled, Tame, TreeInv
<1> HIDE DEF q
<1>2. \A k \in e.base .. Len(e.path) : k = e.base
    BY <1>1
<1>3. e.base .. (Len(e.path) - 1) = {}
    BY <1>1
<1> QED
    BY <1>1, <1>2, <1>3 DEF Covers, CoversAt, q

LEMMA ForksCovers ==
    ASSUME Settled, NEW d, Shape(d), InTree(d), NEW e, Forks(d, e), NEW t, Covers(d, t)
    PROVE  Covers(e, t)
<1> DEFINE q == TidOf(d)
           x == CxtAt(d.path, Len(d.path))
           s == <<q, x, d.at>>
<1>1. TreeTypes /\ WellFormed
    BY DEF Settled, Tame, TreeInv
<1>2. PICK c \in prog.forks :
          /\ c[1] = d.at /\ e.at = prog.entry[c[2]]
          /\ TidOf(e) = Spawned(x, c)
          /\ CxtAt(e.path, e.base) = PushCxt(x, c[1], c[2])
    BY <1>1, ForksShape
<1>3. s[1] = q /\ s[2] = x /\ s[3] = d.at
    OBVIOUS
<1>4. <<s, t>> \in inter
    BY DEF Covers, CoversAt
<1> HIDE DEF q, x, s
<1>5. prog.fn[d.at] \in candidates
    <2>1. Len(d.path) \in 0 .. Len(d.path) /\ prog.fn[d.at] = FunAt(d.path, Len(d.path))
        BY <1>1, ShapePath
    <2> QED
        BY <2>1, ForksInTree
<1>6. d.at \in ForkSites /\ d.at \notin CallSites \cup prog.joins \cup prog.rets
    <2>1. d.at \in ForkSites
        BY <1>2 DEF ForkSites
    <2> QED
        BY <1>1, <2>1 DEF WellFormed
<1>7. <<Spawned(x, c), PushCxt(x, c[1], c[2]), prog.entry[c[2]]>> \in ForkTargets(s)
    BY <1>2, <1>3 DEF ForkTargets
<1>8. Targets(s) = ForkTargets(s)
    BY <1>3, <1>5, <1>6, TargetsIs
<1>9. <<<<TidOf(e), CxtAt(e.path, e.base), e.at>>, t>> \in inter
    BY <1>2, <1>4, <1>7, <1>8, FlowsTo
<1> QED
    BY <1>9, StartCovers

(* All below a child are alive behind the fork of the parent. *)
LEMMA BehindForkCovers ==
    ASSUME Settled, NEW d, Shape(d), InTree(d), NEW e, Stays(d, e), NEW f, Forks(d, f),
           NEW x \in Below(TidOf(f))
    PROVE  CoversAt(TidOf(d), e.path, e.at, e.base, x)
<1> DEFINE q == TidOf(d)
           n == Len(d.path)
<1>1. TreeTypes
    BY DEF Settled, Tame, TreeInv
<1>2. d.base \in Nat /\ n \in Nat
    BY <1>1, ShapePath
<1>3. /\ <<q, TidOf(f)>> \in tctEdges /\ TidOf(f)[2] = d.at
      /\ \A k \in 0 .. n : FunAt(d.path, k) \in candidates
      /\ \A a \in threads : a[1] = TidOf(f) => a[2] = CxtAt(d.path, n)
    BY ForksInTree
<1>4. e.path = d.path /\ e.base = d.base /\ e.at \in Next1(d.at)
    BY DEF Stays
<1> HIDE DEF q, n
<1>5. TidOf(f) \in TIds
    BY <1>3, ChildAncestors
<1>6. PICK a \in threads : a[1] = TidOf(f)
    BY <1>5 DEF TIds
<1>7. <<<<q, CxtAt(d.path, n), e.at>>, x>> \in inter
    BY <1>3, <1>4, <1>6, BehindTheFork
<1>8. /\ \A k \in d.base .. n : FunAt(d.path, k) \in candidates
      /\ \A k \in d.base .. (n - 1) : FunAt(d.path, k + 1) \in candidates
    BY <1>2, <1>3
<1> QED
    BY <1>4, <1>7, <1>8 DEF CoversAt, q, n

-----------------------------------------------------------------------------
(* Paths that are taken once.                                              *)

LEMMA StepAhead ==
    ASSUME TreeTypes, NEW i, NEW j \in Next1(i), NEW k, j = k \/ <<j, k>> \in Closure(prog.next)
    PROVE  <<i, k>> \in Closure(prog.next)
<1>1. <<i, j>> \in prog.next
    <2>1. PICK x \in prog.next : x[1] = i /\ x[2] = j
        BY DEF Next1
    <2>2. x = <<x[1], x[2]>>
        BY DEF TreeTypes, Program
    <2> QED
        BY <2>1, <2>2
<1> QED
    BY <1>1, ClosureEdge, ClosureTransitive

LEMMA MovesMayTake ==
    ASSUME TreeTypes, NEW d, Shape(d), NEW e, Moves(d, e),
           NEW q \in Seq(CallSite), MayTake(e, q)
    PROVE  MayTake(d, q)
<1> DEFINE n == Len(d.path)
<1>1. d.base \in Nat /\ d.base <= n /\ n \in Nat /\ Len(q) \in Nat
    BY ShapePath
<1> HIDE DEF n
<1>2. CASE e.base = Len(q) /\ Shared(e, e.base, q)
    <2> SUFFICES d.base = e.base /\ Shared(d, d.base, q)
        BY <1>2 DEF MayTake
    <2>1. CASE Stays(d, e)
        BY <1>2, <2>1 DEF Stays, Shared
    <2>2. CASE Calls(d, e)
        <3>1. PICK c \in prog.calls : e.path = Append(d.path, c) /\ e.base = d.base
            BY <2>2 DEF Calls
        <3>2. c \in Sites
            BY DEF Sites
        <3>3. \A k \in 1 .. n : e.path[k] = d.path[k]
            BY <3>1, <3>2, CallsLonger DEF Longer, n
        <3>4. \A k \in 1 .. d.base : k \in 1 .. n
            BY <1>1
        <3> QED
            BY <1>1, <1>2, <3>1, <3>3, <3>4 DEF Shared, n
    <2>3. CASE Returns(d, e)
        <3>1. /\ \A k \in 1 .. Len(e.path) : d.path[k] = e.path[k]
              /\ Len(e.path) \in Nat /\ d.base <= Len(e.path) /\ e.base = d.base
            BY <2>3, ReturnsShorter DEF Longer, Returns
        <3>2. \A k \in 1 .. d.base : k \in 1 .. Len(e.path)
            BY <1>1, <3>1
        <3> QED
            BY <1>1, <1>2, <3>1, <3>2 DEF Shared, n
    <2> QED
        BY <2>1, <2>2, <2>3 DEF Moves
<1>3. ASSUME NEW m \in e.base .. Len(e.path), m < Len(q), Shared(e, m, q), Ahead(e, m, q[m + 1][1])
      PROVE  MayTake(d, q)
    <2> DEFINE i == q[m + 1][1]
    <2> SUFFICES \E l \in d.base .. n : l < Len(q) /\ Shared(d, l, q) /\ Ahead(d, l, q[l + 1][1])
        BY DEF MayTake, n
    <2> HIDE DEF i
    <2>1. CASE Stays(d, e)
        <3>1. e.path = d.path /\ e.base = d.base /\ e.at \in Next1(d.at)
            BY <2>1 DEF Stays
        <3>2. m \in d.base .. n /\ Shared(d, m, q)
            BY <1>3, <3>1 DEF Shared, n
        <3>3. Ahead(d, m, i)
            <4>1. CASE m = n
                <5>1. e.at = i \/ <<e.at, i>> \in Closure(prog.next)
                    BY <1>3, <3>1, <4>1 DEF Ahead, n, i
                <5>2. <<d.at, i>> \in Closure(prog.next)
                    BY <3>1, <5>1, StepAhead
                <5> QED
                    BY <4>1, <5>2 DEF Ahead, n
            <4>2. CASE m # n
                BY <1>3, <3>1, <4>2 DEF Ahead, n, i
            <4> QED
                BY <4>1, <4>2
        <3> QED
            BY <1>3, <3>2, <3>3 DEF i
    <2>2. CASE Calls(d, e)
        <3>1. PICK c \in prog.calls : c[1] = d.at /\ e.path = Append(d.path, c) /\ e.base = d.base
            BY <2>2 DEF Calls
        <3>2. c \in Sites
            BY DEF Sites
        <3>3. /\ \A k \in 1 .. n : e.path[k] = d.path[k]
              /\ Len(e.path) = n + 1 /\ e.path[n + 1] = c
            <4>1. Longer(d.path, e.path) /\ e.path[Len(e.path)] = c /\ Len(e.path) = n + 1
                BY <3>1, <3>2, CallsLonger DEF n
            <4> QED
                BY <4>1 DEF Longer, n
        <3>4. CASE m # n + 1
            <4>1. m \in d.base .. n
                BY <1>1, <3>1, <3>3, <3>4
            <4>2. Shared(d, m, q)
                <5>1. \A k \in 1 .. m : k \in 1 .. n
                    BY <1>1, <4>1
                <5>2. \A k \in 1 .. m : d.path[k] = q[k]
                    BY <1>3, <3>3, <5>1 DEF Shared
                <5> QED
                    BY <1>1, <1>3, <4>1, <5>2 DEF Shared, n
            <4>3. Ahead(d, m, i)
                <5>1. <<e.path[m + 1][1], i>> \in Closure(prog.next)
                    BY <1>3, <3>3, <3>4 DEF Ahead, i
                <5>2. CASE m = n
                    BY <3>1, <3>3, <5>1, <5>2 DEF Ahead, n
                <5>3. CASE m # n
                    <6>1. m + 1 \in 1 .. n
                        BY <1>1, <4>1, <5>3
                    <6> QED
                        BY <3>3, <5>1, <5>3, <6>1 DEF Ahead, n
                <5> QED
                    BY <5>2, <5>3
            <4> QED
                BY <1>3, <4>1, <4>2, <4>3 DEF i
        <3>5. CASE m = n + 1
            <4>1. n \in d.base .. n /\ n < Len(q)
                BY <1>1, <1>3, <3>5
            <4>2. \A k \in 1 .. (n + 1) : e.path[k] = q[k]
                BY <1>3, <3>5 DEF Shared
            <4>3. Shared(d, n, q)
                <5>1. \A k \in 1 .. n : d.path[k] = q[k]
                    BY <1>1, <3>3, <4>2
                <5> QED
                    BY <1>1, <4>1, <5>1 DEF Shared, n
            <4>4. q[n + 1] = c
                BY <1>1, <3>3, <4>2
            <4>5. Ahead(d, n, q[n + 1][1])
                BY <3>1, <4>4 DEF Ahead, n
            <4> QED
                BY <4>1, <4>3, <4>5
        <3> QED
            BY <3>4, <3>5
    <2>3. CASE Returns(d, e)
        <3> DEFINE p == Len(e.path)
        <3>1. /\ \A k \in 1 .. p : d.path[k] = e.path[k]
              /\ p \in Nat /\ n = p + 1 /\ e.base = d.base
              /\ e.at \in Next1(d.path[n][1])
            BY <2>3, ReturnsShorter DEF Longer, Returns, n
        <3>2. m \in d.base .. n /\ m \in 0 .. p /\ m # n
            BY <1>1, <1>3, <3>1
        <3> HIDE DEF p
        <3>3. Shared(d, m, q)
            <4>1. \A k \in 1 .. m : k \in 1 .. p
                BY <3>1, <3>2
            <4>2. \A k \in 1 .. m : d.path[k] = q[k]
                BY <1>3, <3>1, <4>1 DEF Shared
            <4> QED
                BY <1>1, <1>3, <3>2, <4>2 DEF Shared, n
        <3>4. Ahead(d, m, i)
            <4>1. CASE m = p
                <5>1. e.at = i \/ <<e.at, i>> \in Closure(prog.next)
                    BY <1>3, <4>1 DEF Ahead, i, p
                <5>2. <<d.path[n][1], i>> \in Closure(prog.next)
                    BY <3>1, <5>1, StepAhead
                <5> QED
                    BY <3>1, <3>2, <4>1, <5>2 DEF Ahead, n
            <4>2. CASE m # p
                <5>1. m + 1 \in 1 .. p
                    BY <3>1, <3>2, <4>2
                <5>2. <<e.path[m + 1][1], i>> \in Closure(prog.next)
                    BY <1>3, <4>2 DEF Ahead, i, p
                <5> QED
                    BY <3>1, <3>2, <5>1, <5>2 DEF Ahead, n
            <4> QED
                BY <4>1, <4>2
        <3> QED
            BY <1>3, <3>2, <3>3, <3>4 DEF i
    <2> QED
        BY <2>1, <2>2, <2>3 DEF Moves
<1> QED
    BY <1>2, <1>3 DEF MayTake

(* What a child may take leads through its fork. *)
LEMMA ForksMayTake ==
    ASSUME TreeTypes, WellFormed, NEW d, Shape(d), NEW e, Forks(d, e),
           NEW q \in Seq(CallSite), MayTake(e, q)
    PROVE  /\ MayTake(d, q)
           /\ Len(d.path) < Len(q)
           /\ \A k \in 1 .. Len(d.path) : d.path[k] = q[k]
           /\ q[Len(d.path) + 1][1] = d.at
<1> DEFINE n == Len(d.path)
<1>1. d.base \in Nat /\ d.base <= n /\ n \in Nat /\ Len(q) \in Nat
    BY ShapePath
<1>2. /\ e.base = n + 1 /\ Len(e.path) = n + 1
      /\ \A k \in 1 .. n : e.path[k] = d.path[k]
      /\ e.path[n + 1][1] = d.at
    <2>1. e.base = n + 1 /\ Longer(d.path, e.path) /\ Len(e.path) = e.base /\ e.path[e.base][1] = d.at
        BY ForksShape
    <2> QED
        BY <2>1 DEF Longer
<1> HIDE DEF n
<1>3. Shared(e, n + 1, q)
    <2>1. CASE e.base = Len(q) /\ Shared(e, e.base, q)
        BY <1>2, <2>1
    <2>2. ASSUME NEW m \in e.base .. Len(e.path), Shared(e, m, q)
          PROVE  Shared(e, n + 1, q)
        <3>1. m = n + 1
            BY <1>1, <1>2
        <3> QED
            BY <2>2, <3>1
    <2> QED
        BY <2>1, <2>2 DEF MayTake
<1>4. n + 1 <= Len(q) /\ \A k \in 1 .. (n + 1) : e.path[k] = q[k]
    BY <1>3 DEF Shared
<1>5. n \in d.base .. n /\ n < Len(q) /\ n \in 0 .. n /\ n <= Len(q) /\ n + 1 \in 1 .. (n + 1)
    BY <1>1, <1>4
<1>6. q[n + 1][1] = d.at
    BY <1>2, <1>4, <1>5
<1>7. \A k \in 1 .. n : d.path[k] = q[k]
    <2>1. \A k \in 1 .. n : k \in 1 .. (n + 1)
        BY <1>1
    <2> QED
        BY <1>2, <1>4, <2>1
<1>8. Shared(d, n, q) /\ Ahead(d, n, q[n + 1][1])
    BY <1>5, <1>6, <1>7 DEF Shared, Ahead, n
<1>9. MayTake(d, q)
    BY <1>5, <1>8 DEF MayTake, n
<1> QED
    BY <1>5, <1>6, <1>7, <1>9 DEF n

(* The parent has passed the fork. *)
LEMMA ForksApart ==
    ASSUME TreeTypes, WellFormed, NEW d, Shape(d), NEW e, Stays(d, e), NEW f, Forks(d, f),
           NEW q \in Seq(CallSite), Once(q), MayTake(f, q)
    PROVE  ~ MayTake(e, q)
<1> DEFINE n == Len(d.path)
<1>1. d.base \in Nat /\ d.base <= n /\ n \in Nat /\ Len(q) \in Nat
    BY ShapePath
<1>2. n < Len(q) /\ (\A k \in 1 .. n : d.path[k] = q[k]) /\ q[n + 1][1] = d.at
    BY ForksMayTake
<1>3. e.path = d.path /\ e.base = d.base /\ e.at \in Next1(d.at)
    BY DEF Stays
<1> HIDE DEF n
<1>4. e.base # Len(q)
    BY <1>1, <1>2, <1>3
<1>5. ASSUME NEW m \in d.base .. n, Ahead(e, m, q[m + 1][1])
      PROVE  FALSE
    <2>1. CASE m = n
        <3>1. e.at = d.at \/ <<e.at, d.at>> \in Closure(prog.next)
            BY <1>2, <1>3, <1>5, <2>1 DEF Ahead, n
        <3>2. <<d.at, d.at>> \in Closure(prog.next)
            BY <1>3, <3>1, StepAhead
        <3>3. n + 1 \in 1 .. Len(q)
            BY <1>1, <1>2
        <3> QED
            BY <1>2, <3>2, <3>3 DEF Once
    <2>2. CASE m # n
        <3>1. m + 1 \in 1 .. n /\ m + 1 \in 1 .. Len(q)
            BY <1>1, <1>2, <2>2
        <3>2. <<d.path[m + 1][1], q[m + 1][1]>> \in Closure(prog.next)
            BY <1>3, <1>5, <2>2 DEF Ahead, n
        <3> QED
            BY <1>2, <3>1, <3>2 DEF Once
    <2> QED
        BY <2>1, <2>2
<1> QED
    BY <1>3, <1>4, <1>5 DEF MayTake, n

-----------------------------------------------------------------------------
(* A move of one thread keeps the invariant of the run.                    *)

(* f covers what d does, for the same thread of the tree. *)
Follows(d, f) == TidOf(f) = TidOf(d) /\ \A t : Covers(d, t) => Covers(f, t)

LEMMA FollowsOwn ==
    ASSUME NEW d, NEW f, Follows(d, f), CoversOwn(d)
    PROVE  CoversOwn(f)
BY DEF Follows, CoversOwn

LEMMA FollowsOther ==
    ASSUME NEW d, NEW f, Follows(d, f), NEW e, NEW g, Follows(e, g), CoversOther(d, e)
    PROVE  CoversOther(f, g)
<1>1. \A t : (CoversAll(d, t) => CoversAll(f, t)) /\ (CoversAll(e, t) => CoversAll(g, t))
    BY DEF Follows, CoversAll
<1>2. TidOf(f) = TidOf(d) /\ TidOf(g) = TidOf(e) /\ (\A t : Covers(d, t) => Covers(f, t))
    BY DEF Follows
<1> QED
    BY <1>1, <1>2 DEF CoversOther

LEMMA MovesFollow ==
    ASSUME Settled, NEW d, Shape(d), NEW e, Moves(d, e)
    PROVE  Follows(d, e)
<1>1. TidOf(e) = TidOf(d)
    BY MovesShape DEF Settled, Tame, TreeInv
<1> QED
    BY <1>1, MovesCovers DEF Follows

LEMMA FollowsItself == \A d : Follows(d, d)
BY DEF Follows

LEMMA MovesKeepRunInv ==
    ASSUME Settled, NEW L, RunInv(L), NEW d \in L, NEW e, Moves(d, e), e.id = d.id
    PROVE  RunInv((L \ {d}) \cup {e})
<1> DEFINE M == (L \ {d}) \cup {e}
           From(x) == IF x = e /\ x \notin L \ {d} THEN d ELSE x
<1>1. TreeTypes /\ WellFormed
    BY DEF Settled, Tame, TreeInv
<1>2. Shape(d) /\ InTree(d)
    BY DEF RunInv
<1>3. Shape(e) /\ InTree(e)
    BY <1>1, <1>2, MovesShape, MovesInTree
<1>4. \A x \in M : From(x) \in L /\ From(x).id = x.id
    OBVIOUS
<1>5. \A x, y \in M : From(x) = From(y) => x = y
    OBVIOUS
<1>6. \A x \in M : Follows(From(x), x)
    BY <1>2, MovesFollow, FollowsItself
<1>7. \A x \in M : \A q \in Seq(CallSite) : MayTake(x, q) => MayTake(From(x), q)
    BY <1>1, <1>2, MovesMayTake
<1>8. \A x \in M : Shape(x) /\ InTree(x)
    BY <1>3 DEF RunInv
<1> HIDE DEF M, From
<1>9. \A x, y \in M : x.id = y.id => x = y
    BY <1>4, <1>5 DEF RunInv
<1>10. Alone(M)
    <2> SUFFICES ASSUME NEW q \in Seq(CallSite), Once(q), NEW x \in M, NEW y \in M,
                        MayTake(x, q), MayTake(y, q)
                 PROVE  x = y
        BY DEF Alone
    <2>1. From(x) \in L /\ From(y) \in L /\ MayTake(From(x), q) /\ MayTake(From(y), q)
        BY <1>4, <1>7
    <2>2. From(x) = From(y)
        BY <2>1 DEF RunInv, Alone
    <2> QED
        BY <1>5, <2>2
<1>11. ASSUME prog.main \notin candidates, NEW x \in M, NEW y \in M
       PROVE  x = y
    BY <1>4, <1>5, <1>11 DEF RunInv
<1>12. ASSUME prog.main \in candidates, NEW x \in M
       PROVE  CoversOwn(x)
    BY <1>4, <1>6, <1>12, FollowsOwn DEF RunInv
<1>13. ASSUME prog.main \in candidates, NEW x \in M, NEW y \in M, x # y
       PROVE  CoversOther(x, y)
    <2>1. CoversOther(From(x), From(y))
        BY <1>4, <1>5, <1>13 DEF RunInv
    <2> QED
        BY <1>6, <2>1, FollowsOther
<1>14. RunInv(M)
    BY <1>8, <1>9, <1>10, <1>11, <1>12, <1>13 DEF RunInv
<1> QED
    BY <1>14 DEF M

LEMMA ExitsKeepRunInv ==
    ASSUME NEW L, RunInv(L), NEW M, M \subseteq L
    PROVE  RunInv(M)
<1>1. Alone(M)
    BY DEF RunInv, Alone
<1> QED
    BY <1>1 DEF RunInv

-----------------------------------------------------------------------------
(* A fork keeps it.                                                        *)

(* Where the child starts, all is known that it covers. *)
LEMMA ChildOwn ==
    ASSUME Settled, NEW d, Shape(d), InTree(d), CoversOwn(d), NEW f, Forks(d, f)
    PROVE  CoversOwn(f)
<1> DEFINE p == TidOf(d)
           t == TidOf(f)
<1>1. /\ <<p, t>> \in tctEdges
      /\ \A a \in threads : a[1] = t => StartOf(a) = <<t, CxtAt(f.path, f.base), f.at>>
    BY ForksInTree
<1> HIDE DEF p, t
<1>2. t \in TIds /\ Ancestors(t) = {p} \cup Ancestors(p)
    BY <1>1, ChildAncestors
<1>3. PICK a \in threads : a[1] = t
    BY <1>2 DEF TIds
<1>4. Covers(f, t)
    <2>1. <<StartOf(a), t>> \in Seeds(a)
        BY <1>3 DEF Seeds
    <2>2. <<StartOf(a), t>> \in inter
        BY <2>1 DEF Settled, Seeded
    <2> QED
        BY <1>1, <1>3, <2>2, StartCovers DEF t
<1>5. ASSUME NEW b \in threads, NEW x, b[1] \in {t} \cup Ancestors(t), <<StartOf(b), x>> \in inter
      PROVE  Covers(f, x)
    <2>1. CASE b[1] = t
        BY <1>1, <1>5, <2>1, StartCovers DEF t
    <2>2. CASE b[1] # t
        <3>1. b[1] \in {p} \cup Ancestors(p)
            BY <1>2, <1>5, <2>2
        <3>2. Covers(d, x)
            BY <1>5, <3>1 DEF CoversOwn, p
        <3> QED
            BY <3>2, ForksCovers
    <2> QED
        BY <2>1, <2>2
<1> QED
    BY <1>2, <1>4, <1>5 DEF CoversOwn, t

(* Every other thread is known to run in parallel with all below the child. *)
LEMMA OthersCoverChild ==
    ASSUME Settled, NEW d, Shape(d), InTree(d), NEW f, Forks(d, f),
           NEW o, CoversOwn(o), CoversOther(o, d)
    PROVE  CoversAll(o, TidOf(f))
<1> DEFINE p == TidOf(d)
           t == TidOf(f)
           r == TidOf(o)
<1>1. /\ <<p, t>> \in tctEdges
      /\ \A a \in threads : a[1] = t => StartOf(a) = <<t, CxtAt(f.path, f.base), f.at>>
    BY ForksInTree
<1>2. /\ r \in TIds
      /\ \A a \in threads : \A x : a[1] \in {r} \cup Ancestors(r) /\ <<StartOf(a), x>> \in inter => Covers(o, x)
    BY DEF CoversOwn
<1>3. IF p \in Ancestors(r)
      THEN \A u : <<p, u>> \in tctEdges /\ u \in {r} \cup Ancestors(r) => CoversAll(o, u) \/ CoversAll(d, u)
      ELSE CoversAll(o, p)
    BY DEF CoversOther
<1> HIDE DEF p, t, r
<1>4. t \in TIds /\ Below(t) \subseteq Below(p)
    BY <1>1, ChildAncestors
<1>5. SUFFICES ASSUME NEW x \in Below(t)
               PROVE  Covers(o, x)
    BY DEF CoversAll, t
<1>6. CASE p \notin Ancestors(r)
    BY <1>3, <1>4, <1>6 DEF CoversAll
<1>7. CASE p \in Ancestors(r)
    <2>1. PICK u \in {r} \cup Ancestors(r) : <<p, u>> \in tctEdges
        BY <1>2, <1>7, ChildTowards
    <2>2. CASE u = t
        <3>1. CoversAll(o, t) \/ CoversAll(d, t)
            BY <1>3, <1>7, <2>1, <2>2
        <3>2. ASSUME CoversAll(d, t)
              PROVE  Covers(o, x)
            <4>1. Covers(f, x)
                BY <3>2, ForksCovers DEF CoversAll
            <4>2. PICK a \in threads : a[1] = t
                BY <1>4 DEF TIds
            <4>3. <<<<t, CxtAt(f.path, f.base), f.at>>, x>> \in inter
                <5>1. Len(f.path) = f.base
                    BY ForksShape DEF Settled, Tame, TreeInv
                <5> QED
                    BY <4>1, <5>1 DEF Covers, CoversAt, t
            <4> QED
                BY <1>1, <1>2, <2>1, <2>2, <4>2, <4>3
        <3> QED
            BY <3>1, <3>2 DEF CoversAll
    <2>3. CASE u # t
        <3>1. u \in TIds
            BY <2>1, ChildAncestors
        <3>2. PICK a \in threads : a[1] = u
            BY <3>1 DEF TIds
        <3>3. <<StartOf(a), x>> \in inter
            BY <1>1, <2>1, <2>3, <3>2, SiblingStarts
        <3> QED
            BY <1>2, <2>1, <3>2, <3>3
    <2> QED
        BY <2>2, <2>3
<1> QED
    BY <1>6, <1>7

LEMMA OthersAndChild ==
    ASSUME Settled, NEW d, Shape(d), InTree(d), NEW f, Forks(d, f),
           NEW o, CoversOwn(o), CoversOther(o, d), CoversOther(d, o)
    PROVE  CoversOther(o, f) /\ CoversOther(f, o)
<1> DEFINE p == TidOf(d)
           t == TidOf(f)
           r == TidOf(o)
<1>1. <<p, t>> \in tctEdges
    BY ForksInTree
<1>2. CoversAll(o, t)
    BY OthersCoverChild
<1>3. IF r \in Ancestors(p)
      THEN /\ Covers(d, r)
           /\ \A u : <<r, u>> \in tctEdges /\ u \in {p} \cup Ancestors(p) => CoversAll(d, u) \/ CoversAll(o, u)
      ELSE CoversAll(d, r)
    BY DEF CoversOther
<1>4. /\ \A x : Covers(d, x) => Covers(f, x)
      /\ \A x : CoversAll(d, x) => CoversAll(f, x)
    BY ForksCovers DEF CoversAll
<1> HIDE DEF p, t, r
<1>5. t \in TIds /\ p \in TIds /\ Ancestors(t) = {p} \cup Ancestors(p)
    BY <1>1, ChildAncestors
<1>6. CoversOther(o, f)
    <2>1. Covers(o, t)
        BY <1>2, <1>5 DEF CoversAll, Below
    <2>2. \A u : <<t, u>> \in tctEdges => CoversAll(o, u)
        BY <1>2, ChildAncestors DEF CoversAll
    <2> QED
        BY <1>2, <2>1, <2>2 DEF CoversOther, t
<1>7. CoversOther(f, o)
    <2>1. CASE r \notin Ancestors(t)
        <3>1. CoversAll(f, r)
            BY <1>3, <1>4, <1>5, <2>1
        <3> QED
            BY <2>1, <3>1 DEF CoversOther, t, r
    <2>2. CASE r \in Ancestors(t)
        <3>1. Covers(f, r)
            <4>1. CASE r \in Ancestors(p)
                BY <1>3, <1>4, <4>1
            <4>2. CASE r \notin Ancestors(p)
                <5>1. r = p /\ CoversAll(d, r)
                    BY <1>3, <1>5, <2>2, <4>2
                <5> QED
                    BY <1>4, <1>5, <5>1 DEF CoversAll, Below
            <4> QED
                BY <4>1, <4>2
        <3>2. ASSUME NEW u, <<r, u>> \in tctEdges, u \in {t} \cup Ancestors(t)
              PROVE  CoversAll(f, u) \/ CoversAll(o, u)
            <4>1. CASE u = t
                BY <1>2, <4>1
            <4>2. CASE u # t /\ r \in Ancestors(p)
                BY <1>3, <1>4, <1>5, <3>2, <4>2
            <4>3. CASE r \notin Ancestors(p)
                <5>1. CoversAll(d, r)
                    BY <1>3, <4>3
                <5>2. CoversAll(d, u)
                    BY <3>2, <5>1, ChildAncestors DEF CoversAll
                <5> QED
                    BY <1>4, <5>2
            <4> QED
                BY <4>1, <4>2, <4>3
        <3> QED
            BY <2>2, <3>1, <3>2 DEF CoversOther, t, r
    <2> QED
        BY <2>1, <2>2
<1> QED
    BY <1>6, <1>7

(* The parent behind the fork and the child. *)
LEMMA ParentAndChild ==
    ASSUME Settled, NEW d, Shape(d), InTree(d), CoversOwn(d), NEW e, Stays(d, e), TidOf(e) = TidOf(d),
           NEW f, Forks(d, f)
    PROVE  CoversOther(e, f) /\ CoversOther(f, e)
<1> DEFINE p == TidOf(d)
           t == TidOf(f)
<1>1. <<p, t>> \in tctEdges
    BY ForksInTree
<1>2. CoversAll(e, t)
    BY BehindForkCovers DEF CoversAll, Covers
<1>3. Covers(f, p)
    BY ForksCovers DEF CoversOwn
<1> HIDE DEF p, t
<1>4. Ancestors(t) = {p} \cup Ancestors(p) /\ t \notin {p} \cup Ancestors(p)
    BY <1>1, ChildAncestors
<1>5. CoversOther(e, f)
    BY <1>2, <1>4 DEF CoversOther, p, t
<1>6. \A u : <<p, u>> \in tctEdges /\ u \in {t} \cup Ancestors(t) => u = t
    <2>1. \A u : <<p, u>> \in tctEdges => u \notin {p} \cup Ancestors(p)
        BY ChildAncestors
    <2> QED
        BY <1>4, <2>1
<1>7. CoversOther(f, e)
    <2>1. \A u : <<p, u>> \in tctEdges /\ u \in {t} \cup Ancestors(t) => CoversAll(e, u)
        BY <1>2, <1>6
    <2> QED
        BY <1>3, <1>4, <2>1 DEF CoversOther, p, t
<1> QED
    BY <1>5, <1>7

LEMMA ForksKeepRunInv ==
    ASSUME Settled, NEW L, RunInv(L), NEW d \in L,
           NEW e, Stays(d, e), Moves(d, e), e.id = d.id,
           NEW f, Forks(d, f), \A x \in L : x.id # f.id
    PROVE  RunInv(((L \ {d}) \cup {e}) \cup {f})
<1> DEFINE M == (L \ {d}) \cup {e}
<1>1. TreeTypes /\ WellFormed
    BY DEF Settled, Tame, TreeInv
<1>2. Shape(d) /\ InTree(d)
    BY DEF RunInv
<1>3. prog.main \in candidates
    <2>1. FunAt(d.path, 0) = prog.main /\ 0 \in 0 .. Len(d.path)
        BY <1>1, <1>2, ShapePath DEF FunAt
    <2> QED
        BY <1>2, <2>1, ForksInTree
<1>4. /\ \A x \in L : CoversOwn(x)
      /\ \A x, y \in L : x # y => CoversOther(x, y)
    BY <1>3 DEF RunInv
<1>5. RunInv(M)
    BY MovesKeepRunInv
<1>6. Shape(f) /\ InTree(f) /\ CoversOwn(f)
    BY <1>1, <1>2, <1>4, ForksShape, ForksInTree, ChildOwn
<1>7. TidOf(e) = TidOf(d)
    BY <1>1, <1>2, MovesShape
<1>8. \A x \in M : CoversOther(x, f) /\ CoversOther(f, x)
    <2>1. \A x \in L \ {d} : CoversOther(x, f) /\ CoversOther(f, x)
        BY <1>2, <1>4, OthersAndChild
    <2>2. CoversOther(e, f) /\ CoversOther(f, e)
        BY <1>2, <1>4, <1>7, ParentAndChild
    <2> QED
        BY <2>1, <2>2
<1>9. \A x \in M : x.id # f.id
    OBVIOUS
<1>10. \A x \in M : \A q \in Seq(CallSite) : Once(q) => ~ (MayTake(x, q) /\ MayTake(f, q))
    <2>1. ASSUME NEW q \in Seq(CallSite), Once(q), NEW x \in L \ {d}, MayTake(x, q), MayTake(f, q)
          PROVE  FALSE
        <3>1. MayTake(d, q)
            BY <1>1, <1>2, <2>1, ForksMayTake
        <3> QED
            BY <2>1, <3>1 DEF RunInv, Alone
    <2>2. ASSUME NEW q \in Seq(CallSite), Once(q), MayTake(f, q)
          PROVE  ~ MayTake(e, q)
        BY <1>1, <1>2, <2>2, ForksApart
    <2> QED
        BY <2>1, <2>2
<1> HIDE DEF M
<1>11. Alone(M \cup {f})
    BY <1>5, <1>10 DEF RunInv, Alone
<1>12. RunInv(M \cup {f})
    BY <1>3, <1>5, <1>6, <1>8, <1>9, <1>11 DEF RunInv
<1> QED
    BY <1>12 DEF M

-----------------------------------------------------------------------------
(* Threads that run as the same thread of the tree.                        *)

(* What leads to a fork and is pushed.                                     *)
Pushed(p, b) == \A k \in 1 .. b : \A x : PushCxt(x, p[k][1], p[k][2]) = Append(x, p[k])

(* Neither a loop nor a recursion leads to the fork of a thread that is    *)
(* not forked often: its context is the path to it.                        *)
LEMMA PathOfThread ==
    ASSUME Settled, NEW d, Shape(d), TidOf(d) \in TIds \ multiforked, d.base > 0
    PROVE  /\ \A k \in 1 .. d.base : d.path[k][1] \notin prog.loops
           /\ Pushed(d.path, d.base)
<1> DEFINE p == d.path
           b == d.base
           c == p[b]
           f == prog.fn[c[1]]
<1>1. TreeTypes /\ NoRecursiveFork /\ candidates = RelevantFuns /\ multiforked = Often
    BY DEF Settled, Tame, TreeInv
<1>2. /\ Path(p, d.at) /\ b \in Nat /\ b <= Len(p) /\ Len(p) \in Nat /\ c \in prog.forks
    BY <1>1, ShapePath
<1>3. c \in Sites /\ c[1] \in Inst
    BY <1>1, <1>2, CallerOfCallee DEF Sites
<1>4. ~ InLoop(c[1]) /\ ~ InRecursion(c[1])
    <2>1. TidOf(d) = <<CxtAt(p, b), c[1]>>
        BY DEF TidOf
    <2>2. ~ ForkedOften(TidOf(d))
        BY <1>1 DEF Often
    <2>3. c[1] # NoFork
        BY <1>3, TCTAssumption
    <2>4. TidOf(d)[2] = c[1]
        BY <2>1
    <2> QED
        BY <2>2, <2>3, <2>4 DEF ForkedOften
<1>5. Forking(f)
    BY <1>1, <1>2, ForkPushed
<1> HIDE DEF b, c, p, f
<1>6. b > 0
    BY DEF b
<1>7. FunAt(p, b - 1) = f
    <2>1. b - 1 \in 0 .. Len(p) /\ b - 1 # Len(p) /\ (b - 1) + 1 = b
        BY <1>2, <1>6
    <2> QED
        BY <1>2, <2>1 DEF Path, c, f
<1>8. \A j \in 0 .. (b - 1) : FunAt(p, j) \in callersOf[f]
    <2>1. b - 1 \in 0 .. Len(p)
        BY <1>2, <1>6
    <2> QED
        BY <1>2, <1>7, <2>1 DEF Path
<1>9. ASSUME NEW k \in 1 .. b
      PROVE  /\ p[k][1] \notin prog.loops
             /\ \A x : PushCxt(x, p[k][1], p[k][2]) = Append(x, p[k])
    <2>1. CASE k = b
        <3>1. p[k][1] \notin prog.loops
            BY <1>4, <2>1 DEF InLoop, c
        <3>2. \A x : PushCxt(x, p[k][1], p[k][2]) = Append(x, p[k])
            BY <1>1, <1>2, <2>1, ForkPushed DEF c
        <3> QED
            BY <3>1, <3>2
    <2>2. CASE k # b
        <3>1. k \in 1 .. Len(p) /\ k \in 0 .. (b - 1) /\ k - 1 \in 0 .. (b - 1) /\ k # 0
              /\ k - 1 \in 0 .. Len(p) /\ k - 1 # Len(p) /\ (k - 1) + 1 = k
            BY <1>2, <2>2
        <3>2. p[k] \in Sites /\ FunAt(p, k) = p[k][2] /\ prog.fn[p[k][1]] = FunAt(p, k - 1)
            BY <1>2, <3>1 DEF Path, FunAt
        <3>3. p[k][2] \in callersOf[f] /\ prog.fn[p[k][1]] \in callersOf[f]
            BY <1>8, <3>1, <3>2
        <3>4. p[k][1] \notin prog.loops
            BY <1>4, <3>2, <3>3 DEF InLoop, f
        <3>5. p[k] = <<p[k][1], p[k][2]>>
            BY <1>1, <3>2, CallerOfCallee
        <3>6. prog.fn[p[k][1]] \in candidates
            <4>1. f \in Fun
                BY <1>1, <1>3, CallerOfCallee DEF f
            <4> QED
                BY <1>1, <1>5, <3>3, <4>1, ForkingCaller, ForkingRelevant
        <3>7. ~ SameSCC(prog.fn[p[k][1]], p[k][2])
            <4>1. <<prog.fn[p[k][1]], p[k][2]>> \in CallGraph
                BY <3>2 DEF CallGraph
            <4>2. ~ InCycle(p[k][2])
                BY <1>4, <3>3 DEF InRecursion, f
            <4> QED
                BY <4>1, <4>2 DEF InCycle
        <3> QED
            BY <3>4, <3>5, <3>6, <3>7 DEF PushCxt
    <2> QED
        BY <2>1, <2>2
<1> QED
    BY <1>9 DEF p, b, Pushed

LEMMA AppendAgrees ==
    ASSUME NEW s \in Seq(CallSite), NEW e \in CallSite, NEW n \in Nat, Len(s) = n,
           NEW p, \A j \in 1 .. n : s[j] = p[j], p[n + 1] = e
    PROVE  /\ Append(s, e) \in Seq(CallSite) /\ Len(Append(s, e)) = n + 1
           /\ \A j \in 1 .. (n + 1) : Append(s, e)[j] = p[j]
OBVIOUS

LEMMA PushedCxt ==
    ASSUME NEW p \in Seq(CallSite), NEW b \in Nat, b <= Len(p), Pushed(p, b)
    PROVE  /\ CxtAt(p, b) \in Seq(CallSite) /\ Len(CxtAt(p, b)) = b
           /\ \A j \in 1 .. b : CxtAt(p, b)[j] = p[j]
<1> DEFINE Is(n) == /\ CxtAt(p, n) \in Seq(CallSite) /\ Len(CxtAt(p, n)) = n
                    /\ \A j \in 1 .. n : CxtAt(p, n)[j] = p[j]
           S == {n \in Nat : n <= b => Is(n)}
<1>1. 0 \in S
    <2>1. CxtAt(p, 0) = <<>>
        BY CxtAtIs
    <2>2. <<>> \in Seq(CallSite) /\ Len(<<>>) = 0 /\ 1 .. 0 = {}
        OBVIOUS
    <2>3. Is(0)
        BY <2>1, <2>2
    <2> QED
        BY <2>3
<1>2. ASSUME NEW n \in Nat, n \in S
      PROVE  n + 1 \in S
    <2> SUFFICES ASSUME n + 1 <= b
                 PROVE  Is(n + 1)
        OBVIOUS
    <2>1. Is(n)
        BY <1>2
    <2>2. n + 1 \in 1 .. b /\ n + 1 \in 1 .. Len(p) /\ (n + 1) - 1 = n /\ p[n + 1] \in CallSite
        BY DEF CallSite
    <2>3. CxtAt(p, n + 1) = Append(CxtAt(p, n), p[n + 1])
        <3>1. CxtAt(p, n + 1) = PushCxt(CxtAt(p, n), p[n + 1][1], p[n + 1][2])
            BY <2>2, CxtAtIs
        <3> QED
            BY <2>2, <3>1 DEF Pushed
    <2>4. CxtAt(p, n) \in Seq(CallSite) /\ Len(CxtAt(p, n)) = n
          /\ \A j \in 1 .. n : CxtAt(p, n)[j] = p[j]
        BY <2>1
    <2> DEFINE s == CxtAt(p, n)
    <2>5. s \in Seq(CallSite) /\ Len(s) = n /\ \A j \in 1 .. n : s[j] = p[j]
        BY <2>4
    <2>6. CxtAt(p, n + 1) = Append(s, p[n + 1])
        BY <2>3
    <2> HIDE DEF s
    <2>7. /\ Append(s, p[n + 1]) \in Seq(CallSite) /\ Len(Append(s, p[n + 1])) = n + 1
          /\ \A j \in 1 .. (n + 1) : Append(s, p[n + 1])[j] = p[j]
        BY <2>2, <2>5, AppendAgrees
    <2> QED
        BY <2>6, <2>7
<1> HIDE DEF S
<1>3. b \in S
    BY <1>1, <1>2, Induction
<1> QED
    BY <1>3 DEF S

LEMMA TakenOnce ==
    ASSUME Settled, NEW d, Shape(d), TidOf(d) \in TIds \ multiforked
    PROVE  /\ TidOf(d)[1] \in Seq(CallSite) /\ Once(TidOf(d)[1]) /\ MayTake(d, TidOf(d)[1])
<1> DEFINE q == TidOf(d)[1]
<1>1. TreeTypes /\ LoopsFound
    BY DEF Settled, Tame, TreeInv
<1>2. d.base \in Nat /\ d.base <= Len(d.path) /\ Len(d.path) \in Nat /\ d.path \in Seq(CallSite)
    BY <1>1, ShapePath DEF Path
<1>3. CASE d.base = 0
    <2>1. q = <<>>
        BY <1>3 DEF TidOf, MainTid
    <2>2. Shared(d, 0, q) /\ Once(q)
        BY <1>2, <2>1 DEF Shared, Once
    <2> QED
        BY <1>3, <2>1, <2>2 DEF MayTake
<1>4. CASE d.base > 0
    <2>1. /\ \A k \in 1 .. d.base : d.path[k][1] \notin prog.loops
          /\ Pushed(d.path, d.base)
        BY <1>4, PathOfThread
    <2>2. q = CxtAt(d.path, d.base)
        BY <1>4 DEF TidOf
    <2> HIDE DEF q
    <2>3. q \in Seq(CallSite) /\ Len(q) = d.base /\ \A j \in 1 .. d.base : q[j] = d.path[j]
        BY <1>2, <2>1, <2>2, PushedCxt
    <2>4. Shared(d, d.base, q)
        BY <1>2, <2>3 DEF Shared
    <2>5. Once(q)
        <3> SUFFICES ASSUME NEW k \in 1 .. Len(q)
                     PROVE  <<q[k][1], q[k][1]>> \notin Closure(prog.next)
            BY DEF Once
        <3>1. q[k] = d.path[k] /\ d.path[k][1] \notin prog.loops
            BY <2>1, <2>3
        <3>2. q[k][1] \in Inst
            <4>1. q[k] \in CallSite
                BY <2>3
            <4> QED
                BY <4>1 DEF CallSite
        <3> QED
            BY <1>1, <3>1, <3>2 DEF LoopsFound
    <2> QED
        BY <2>3, <2>4, <2>5 DEF MayTake, q
<1> QED
    BY <1>2, <1>3, <1>4

(* The invariant of the run implies that the answers are sound. *)
LEMMA RunInvSound ==
    ASSUME Settled, RunInv(live)
    PROVE  Sound
<1> SUFFICES ASSUME NEW d \in live, NEW e \in live, d.id # e.id
             PROVE  MayHappenInParallel(d.at, e.at)
    BY DEF Sound
<1> DEFINE t == TidOf(d)
           u == TidOf(e)
           s == <<t, CxtAt(d.path, Len(d.path)), d.at>>
           v == <<u, CxtAt(e.path, Len(e.path)), e.at>>
<1>1. Shape(d) /\ Shape(e) /\ d # e
    BY DEF RunInv
<1>2. CoversOwn(d) /\ CoversOwn(e) /\ CoversOther(d, e) /\ CoversOther(e, d)
    BY <1>1 DEF RunInv
<1>3. t \in TIds /\ u \in TIds /\ Covers(d, t) /\ Covers(e, u)
    BY <1>2 DEF CoversOwn
<1>4. Covers(d, u) /\ Covers(e, t)
    BY <1>2, <1>3 DEF CoversOther, CoversAll, Below
<1>5. t = u => t \in multiforked
    <2> SUFFICES ASSUME t = u, t \notin multiforked
                 PROVE  FALSE
        OBVIOUS
    <2>1. /\ t[1] \in Seq(CallSite) /\ Once(t[1]) /\ MayTake(d, t[1]) /\ MayTake(e, t[1])
        BY <1>1, <1>3, TakenOnce
    <2> QED
        BY <1>1, <2>1 DEF RunInv, Alone
<1>6. /\ <<s, t>> \in inter /\ <<s, u>> \in inter
      /\ <<v, t>> \in inter /\ <<v, u>> \in inter
    BY <1>3, <1>4 DEF Covers, CoversAt
<1>7. s[1] = t /\ s[3] = d.at /\ v[1] = u /\ v[3] = e.at
    OBVIOUS
<1> HIDE DEF s, v, t, u
<1>8. <<s, t>> \in {z \in inter : z[1][3] = d.at} /\ <<v, u>> \in {z \in inter : z[1][3] = e.at}
    BY <1>6, <1>7
<1>9. IF <<s, t>>[1][1] = <<v, u>>[1][1] THEN <<s, t>>[1][1] \in multiforked
      ELSE <<<<s, t>>[1], <<v, u>>[1][1]>> \in inter /\ <<<<v, u>>[1], <<s, t>>[1][1]>> \in inter
    BY <1>5, <1>6, <1>7
<1> QED
    BY <1>8, <1>9 DEF MayHappenInParallel

-----------------------------------------------------------------------------
(* Every step of the run keeps its invariant.                              *)

(* A new thread has a new id. *)
IdsUsed == born \in Nat /\ \A d \in live : d.id <= born

LEMMA StaysIs ==
    ASSUME Settled, NEW d, Shape(d), d.at \notin CallSites \cup prog.rets, NEW i \in Next1(d.at),
           NEW h \in SUBSET Mem
    PROVE  /\ Stays(d, [d EXCEPT !.at = i, !.holds = h]) /\ Moves(d, [d EXCEPT !.at = i, !.holds = h])
           /\ [d EXCEPT !.at = i, !.holds = h].id = d.id
<1> DEFINE e == [d EXCEPT !.at = i, !.holds = h]
<1>1. d \in LiveThread /\ i \in Inst
    BY NextInFunction DEF Shape, Settled, Tame, TreeInv
<1>2. e \in LiveThread /\ e.at = i /\ e.path = d.path /\ e.base = d.base /\ e.id = d.id
    BY <1>1 DEF LiveThread
<1> HIDE DEF e
<1>3. Stays(d, e) /\ Moves(d, e)
    BY <1>2 DEF Stays, Moves
<1> QED
    BY <1>2, <1>3 DEF e

LEMMA IdsKept ==
    ASSUME IdsUsed, born' = born, NEW d \in live, NEW e, e.id = d.id, live' = (live \ {d}) \cup {e}
    PROVE  IdsUsed'
BY DEF IdsUsed

LEMMA RunStep ==
    ASSUME Settled, RunInv(live), IdsUsed, RunNext
    PROVE  RunInv(live') /\ IdsUsed'
<1>1. TreeTypes /\ WellFormed
    BY DEF Settled, Tame, TreeInv
<1>2. PICK d \in live :
          Execute(d) \/ Acquire(d) \/ Release(d) \/ Call(d) \/ Return(d) \/ Exit(d) \/ Fork(d)
    BY DEF RunNext
<1>3. Shape(d) /\ d \in LiveThread
    BY DEF RunInv, Shape
<1>4. ASSUME NEW i \in Next1(d.at), NEW h \in SUBSET Mem, d.at \notin CallSites \cup prog.rets,
             Move(d, [d EXCEPT !.at = i, !.holds = h])
      PROVE  RunInv(live') /\ IdsUsed'
    <2> DEFINE e == [d EXCEPT !.at = i, !.holds = h]
    <2>1. Moves(d, e) /\ e.id = d.id
        BY <1>3, <1>4, StaysIs
    <2>2. live' = (live \ {d}) \cup {e} /\ born' = born
        BY <1>4 DEF Move
    <2> HIDE DEF e
    <2> QED
        BY <2>1, <2>2, MovesKeepRunInv, IdsKept
<1>5. ASSUME Execute(d)
      PROVE  RunInv(live') /\ IdsUsed'
    <2>1. PICK i \in Next1(d.at) : /\ Callees(d.at) = {} /\ d.at \notin Special
                                   /\ Move(d, [d EXCEPT !.at = i])
        BY <1>5 DEF Execute
    <2>2. d.at \notin CallSites \cup prog.rets
        BY <2>1 DEF Callees, CallSites, Special
    <2>3. [d EXCEPT !.at = i] = [d EXCEPT !.at = i, !.holds = d.holds] /\ d.holds \in SUBSET Mem
        BY <1>3 DEF LiveThread
    <2> QED
        BY <1>4, <2>1, <2>2, <2>3
<1>6. ASSUME Acquire(d)
      PROVE  RunInv(live') /\ IdsUsed'
    <2>1. PICK i \in Next1(d.at), c \in prog.locks :
              c[1] = d.at /\ Move(d, [d EXCEPT !.at = i, !.holds = @ \cup {c[2]}])
        BY <1>6 DEF Acquire
    <2>2. d.at \in LockSites
        BY <2>1 DEF LockSites
    <2>3. d.at \notin CallSites \cup prog.rets
        BY <1>1, <2>2 DEF WellFormed
    <2>4. d.holds \cup {c[2]} \in SUBSET Mem
        BY <1>1, <1>3 DEF LiveThread, TreeTypes, Program
    <2>5. Move(d, [d EXCEPT !.at = i, !.holds = d.holds \cup {c[2]}])
        BY <2>1
    <2> QED
        BY <1>4, <2>3, <2>4, <2>5
<1>7. ASSUME Release(d)
      PROVE  RunInv(live') /\ IdsUsed'
    <2>1. PICK i \in Next1(d.at), c \in prog.unlocks :
              c[1] = d.at /\ Move(d, [d EXCEPT !.at = i, !.holds = @ \ {c[2]}])
        BY <1>7 DEF Release
    <2>2. d.at \in UnlockSites
        BY <2>1 DEF UnlockSites
    <2>3. d.at \notin CallSites \cup prog.rets
        BY <1>1, <2>2 DEF WellFormed
    <2>4. d.holds \ {c[2]} \in SUBSET Mem
        BY <1>3 DEF LiveThread
    <2>5. Move(d, [d EXCEPT !.at = i, !.holds = d.holds \ {c[2]}])
        BY <2>1
    <2> QED
        BY <1>4, <2>3, <2>4, <2>5
<1>8. ASSUME Call(d)
      PROVE  RunInv(live') /\ IdsUsed'
    <2>1. PICK g \in Callees(d.at) :
              Move(d, [d EXCEPT !.at = prog.entry[g], !.path = Append(@, <<d.at, g>>)])
        BY <1>8 DEF Call
    <2> DEFINE e == [d EXCEPT !.at = prog.entry[g], !.path = Append(@, <<d.at, g>>)]
    <2>2. PICK c \in prog.calls : c[1] = d.at /\ c[2] = g
        BY DEF Callees
    <2>3. c = <<d.at, g>> /\ c \in CallSite /\ g \in Fun /\ prog.entry[g] \in Inst
        <3>1. c \in Sites
            BY DEF Sites
        <3>2. c = <<c[1], c[2]>> /\ c \in CallSite /\ c[2] \in Fun
            BY <1>1, <3>1, CallerOfCallee
        <3> QED
            BY <1>1, <2>2, <3>2 DEF TreeTypes, Program
    <2>4. d.path \in Seq(CallSite) /\ Append(d.path, c) \in Seq(CallSite)
        BY <1>3, <2>3, AppendLast DEF LiveThread
    <2>5. /\ e \in LiveThread /\ e.at = prog.entry[g] /\ e.path = Append(d.path, c)
          /\ e.base = d.base /\ e.id = d.id
        BY <1>3, <2>3, <2>4 DEF LiveThread
    <2>6. live' = (live \ {d}) \cup {e} /\ born' = born
        BY <2>1 DEF Move
    <2> HIDE DEF e
    <2>7. Moves(d, e)
        BY <2>2, <2>5 DEF Calls, Moves
    <2> QED
        BY <2>5, <2>6, <2>7, MovesKeepRunInv, IdsKept
<1>9. ASSUME Return(d)
      PROVE  RunInv(live') /\ IdsUsed'
    <2>1. /\ d.at \in prog.rets /\ Len(d.path) > d.base
          /\ \E i \in Next1(d.path[Len(d.path)][1]) :
                 Move(d, [d EXCEPT !.at = i, !.path = SubSeq(@, 1, Len(@) - 1)])
        BY <1>9 DEF Return
    <2>2. PICK i \in Next1(d.path[Len(d.path)][1]) :
              Move(d, [d EXCEPT !.at = i, !.path = SubSeq(@, 1, Len(@) - 1)])
        BY <2>1
    <2> DEFINE e == [d EXCEPT !.at = i, !.path = SubSeq(@, 1, Len(@) - 1)]
    <2>3. i \in Inst
        BY <1>1, NextInFunction
    <2>4. SubSeq(d.path, 1, Len(d.path) - 1) \in Seq(CallSite)
        <3>1. d.path \in Seq(CallSite) /\ Len(d.path) > 0
            BY <1>1, <1>3, <2>1, ShapePath DEF LiveThread
        <3> QED
            BY <3>1, ButLastLonger DEF Longer
    <2>5. /\ e \in LiveThread /\ e.at = i /\ e.path = SubSeq(d.path, 1, Len(d.path) - 1)
          /\ e.base = d.base /\ e.id = d.id
        BY <1>3, <2>3, <2>4 DEF LiveThread
    <2>6. live' = (live \ {d}) \cup {e} /\ born' = born
        BY <2>2 DEF Move
    <2>7. d.base < Len(d.path)
        BY <1>1, <1>3, <2>1, ShapePath
    <2> HIDE DEF e
    <2>8. Moves(d, e)
        BY <2>1, <2>5, <2>7 DEF Returns, Moves
    <2> QED
        BY <2>5, <2>6, <2>8, MovesKeepRunInv, IdsKept
<1>10. ASSUME Exit(d)
       PROVE  RunInv(live') /\ IdsUsed'
    <2>1. live' \subseteq live /\ born' = born
        BY <1>10 DEF Exit
    <2>2. IdsUsed'
        BY <2>1 DEF IdsUsed
    <2> QED
        BY <2>1, <2>2, ExitsKeepRunInv
<1>11. ASSUME Fork(d)
       PROVE  RunInv(live') /\ IdsUsed'
    <2>1. PICK c \in prog.forks, i \in Next1(d.at) :
              /\ c[1] = d.at /\ born' = born + 1
              /\ live' = (live \ {d}) \cup
                    {[d EXCEPT !.at = i], Thread(born', prog.entry[c[2]], Append(d.path, c))}
        BY <1>11 DEF Fork
    <2> DEFINE e == [d EXCEPT !.at = i]
               f == Thread(born', prog.entry[c[2]], Append(d.path, c))
    <2>2. d.at \in ForkSites
        BY <2>1 DEF ForkSites
    <2>3. d.at \notin CallSites \cup prog.rets
        BY <1>1, <2>2 DEF WellFormed
    <2>4. e = [d EXCEPT !.at = i, !.holds = d.holds] /\ d.holds \in SUBSET Mem
        BY <1>3 DEF LiveThread
    <2>5. Stays(d, e) /\ Moves(d, e) /\ e.id = d.id
        <3> DEFINE g == [d EXCEPT !.at = i, !.holds = d.holds]
        <3>1. Stays(d, g) /\ Moves(d, g) /\ g.id = d.id
            BY <1>3, <2>3, <2>4, StaysIs
        <3>2. e = g
            BY <2>4
        <3> HIDE DEF e, g
        <3> QED
            BY <3>1, <3>2
    <2>6. c \in CallSite /\ c[2] \in Fun /\ prog.entry[c[2]] \in Inst
        <3>1. c \in Sites
            BY DEF Sites
        <3> QED
            BY <1>1, <3>1, CallerOfCallee DEF TreeTypes, Program
    <2>7. Append(d.path, c) \in Seq(CallSite) /\ Len(Append(d.path, c)) \in Nat
        <3>1. d.path \in Seq(CallSite)
            BY <1>3 DEF LiveThread
        <3>2. Append(d.path, c) \in Seq(CallSite)
            BY <2>6, <3>1, AppendLast
        <3> QED
            BY <3>2
    <2>8. born' \in Nat
        BY <2>1 DEF IdsUsed
    <2>9. /\ f \in LiveThread /\ f.at = prog.entry[c[2]] /\ f.path = Append(d.path, c)
          /\ f.base = Len(f.path) /\ f.id = born'
        BY <2>6, <2>7, <2>8 DEF Thread, LiveThread
    <2>10. \A x \in live : x.id # f.id
        <3>1. \A x \in live : x.id \in Nat
            BY DEF RunInv, Shape, LiveThread
        <3> QED
            BY <2>1, <2>9, <3>1 DEF IdsUsed
    <2>11. live' = ((live \ {d}) \cup {e}) \cup {f}
        BY <2>1
    <2> HIDE DEF e, f
    <2>12. Forks(d, f)
        BY <2>1, <2>9 DEF Forks
    <2>13. RunInv(live')
        BY <2>5, <2>10, <2>11, <2>12, ForksKeepRunInv
    <2>14. IdsUsed'
        <3>1. \A x \in live : x.id \in Nat
            BY DEF RunInv, Shape, LiveThread
        <3> QED
            BY <2>1, <2>5, <2>8, <2>9, <2>11, <3>1 DEF IdsUsed
    <2> QED
        BY <2>13, <2>14
<1> QED
    BY <1>2, <1>5, <1>6, <1>7, <1>8, <1>9, <1>10, <1>11

-----------------------------------------------------------------------------
(* What the operators depend on.                                           *)

LEMMA SitesStable ==
    ASSUME UNCHANGED prog
    PROVE  /\ Sites' = Sites /\ CallGraph' = CallGraph /\ CallSites' = CallSites
           /\ ForkSites' = ForkSites /\ LockSites' = LockSites /\ UnlockSites' = UnlockSites
           /\ EntryFuns' = EntryFuns
           /\ \A i : Next1(i)' = Next1(i) /\ Callees(i)' = Callees(i)
           /\ MainThread' = MainThread
<1>1. Sites' = Sites
    BY DEF Sites
<1>2. CallGraph' = CallGraph
    BY <1>1 DEF CallGraph
<1>3. EntryFuns' = EntryFuns
    BY <1>2 DEF EntryFuns
<1>4. CallSites' = CallSites /\ ForkSites' = ForkSites /\ LockSites' = LockSites /\ UnlockSites' = UnlockSites
    BY DEF CallSites, ForkSites, LockSites, UnlockSites
<1>5. \A i : Next1(i)' = Next1(i) /\ Callees(i)' = Callees(i)
    BY DEF Next1, Callees
<1>6. MainThread' = MainThread
    BY DEF MainThread, MainTid
<1> QED
    BY <1>1, <1>2, <1>3, <1>4, <1>5, <1>6

LEMMA TameStable ==
    ASSUME UNCHANGED <<prog, callersOf, candidates>>
    PROVE  Tame' <=> Tame
<1>1. WellFormed' <=> WellFormed
    BY SitesStable DEF WellFormed
<1>2. OneEntry' <=> OneEntry
    BY SitesStable DEF OneEntry
<1>3. NoRecursiveFork' <=> NoRecursiveFork
    BY ContextsStable DEF NoRecursiveFork
<1>4. NoMixedCall' <=> NoMixedCall
    BY SitesStable DEF NoMixedCall
<1>5. LoopsFound' <=> LoopsFound
    BY DEF LoopsFound, Closure
<1> QED
    BY <1>1, <1>2, <1>3, <1>4, <1>5 DEF Tame

LEMMA FlowStable ==
    ASSUME UNCHANGED <<prog, callersOf, candidates>>
    PROVE  /\ RelevantFuns' = RelevantFuns
           /\ \A s : Targets(s)' = Targets(s)
           /\ \A x, t : ThreadOf(x, t)' <=> ThreadOf(x, t)
           /\ \A t : ForkedOften(t)' <=> ForkedOften(t)
           /\ \A a : StartOf(a)' = StartOf(a)
<1>1. RelevantFuns' = RelevantFuns
    BY ContextsStable DEF RelevantFuns
<1>2. ASSUME NEW s
      PROVE  Targets(s)' = Targets(s)
    <2>1. Intra(s)' = Intra(s)
        BY SitesStable DEF Intra
    <2>2. NonCandidateTargets(s)' = NonCandidateTargets(s)
        BY SitesStable DEF NonCandidateTargets
    <2>3. ForkTargets(s)' = ForkTargets(s)
        BY <2>1, ContextsStable DEF ForkTargets
    <2>4. JoinTargets(s)' = JoinTargets(s)
        BY <2>1 DEF JoinTargets
    <2>5. CallTargets(s)' = CallTargets(s)
        BY <2>1, SitesStable, ContextsStable DEF CallTargets
    <2>6. RetTargets(s)' = RetTargets(s)
        <3>1. \A x, i, g : MatchCxt(x, i, g)' = MatchCxt(x, i, g)
            BY ContextsStable DEF MatchCxt
        <3> QED
            BY <3>1, SitesStable DEF RetTargets
    <2> QED
        BY <2>1, <2>2, <2>3, <2>4, <2>5, <2>6, SitesStable, Zenon DEF Targets
<1>3. \A x, t : ThreadOf(x, t)' <=> ThreadOf(x, t)
    BY DEF ThreadOf, MainTid
<1>4. \A t : ForkedOften(t)' <=> ForkedOften(t)
    <2>1. \A f : InCycle(f)' <=> InCycle(f)
        BY SitesStable, ContextsStable DEF InCycle
    <2>2. \A i : InRecursion(i)' <=> InRecursion(i)
        BY <2>1 DEF InRecursion
    <2>3. \A i : InLoop(i)' <=> InLoop(i)
        BY SitesStable DEF InLoop
    <2> QED
        BY <2>2, <2>3 DEF ForkedOften
<1>5. \A a : StartOf(a)' = StartOf(a)
    BY DEF StartOf
<1> QED
    BY <1>1, <1>2, <1>3, <1>4, <1>5

LEMMA ThreadsStable ==
    ASSUME UNCHANGED <<prog, callersOf, candidates, threads, tctEdges>>
    PROVE  /\ TIds' = TIds
           /\ \A t : Ancestors(t)' = Ancestors(t) /\ Below(t)' = Below(t) /\ Seeds(t)' = Seeds(t)
           /\ Often' = Often
<1>1. TIds' = TIds
    BY DEF TIds
<1>2. \A t : Parents(t)' = Parents(t)
    BY DEF Parents
<1>3. \A t : Siblings(t)' = Siblings(t)
    BY <1>2 DEF Siblings
<1>4. Closure(tctEdges)' = Closure(tctEdges)
    BY DEF Closure
<1>5. \A t : Ancestors(t)' = Ancestors(t)
    BY <1>1, <1>4 DEF Ancestors
<1>6. \A t : Below(t)' = Below(t)
    BY <1>1, <1>5 DEF Below
<1>7. \A t : Seeds(t)' = Seeds(t)
    <2>1. \A t : BehindForks(t)' = BehindForks(t)
        BY <1>2, <1>5, SitesStable DEF BehindForks
    <2>2. \A t : WithSiblings(t)' = WithSiblings(t)
        BY <1>3, <1>5, FlowStable DEF WithSiblings
    <2> QED
        BY <2>1, <2>2, FlowStable DEF Seeds
<1>8. Often' = Often
    BY <1>1, <1>5, FlowStable DEF Often
<1> QED
    BY <1>1, <1>5, <1>6, <1>7, <1>8

LEMMA RunInvStable ==
    ASSUME UNCHANGED <<prog, callersOf, candidates, visited, threads, tctEdges, inter>>,
           RunInv(live')
    PROVE  RunInv(live)'
<1>1. \A p, k : CxtAt(p, k)' = CxtAt(p, k)
    <2>1. \A p, cx : AreCxts(p, cx)' <=> AreCxts(p, cx)
        BY ContextsStable DEF AreCxts
    <2> QED
        BY <2>1 DEF CxtAt
<1>2. \A p, k : FunAt(p, k)' = FunAt(p, k)
    BY DEF FunAt
<1>3. \A d : TidOf(d)' = TidOf(d)
    BY <1>1 DEF TidOf, MainTid
<1>4. \A d, k : At(d, k)' = At(d, k)
    BY DEF At
<1>5. \A d : Shape(d)' <=> Shape(d)
    BY <1>2, <1>4, SitesStable DEF Shape, LiveThread
<1>6. \A d : InTree(d)' <=> InTree(d)
    <2>1. \A f : Forking(f)' <=> Forking(f)
        BY DEF Forking
    <2> QED
        BY <1>1, <1>2, <1>3, <2>1 DEF InTree
<1>7. \A q : Once(q)' <=> Once(q)
    BY DEF Once, Closure
<1>8. \A d, q : MayTake(d, q)' <=> MayTake(d, q)
    <2>1. \A d, m, q : Shared(d, m, q)' <=> Shared(d, m, q)
        BY DEF Shared
    <2>2. \A d, m, i : Ahead(d, m, i)' <=> Ahead(d, m, i)
        BY DEF Ahead, Closure
    <2> QED
        BY <2>1, <2>2 DEF MayTake
<1>9. \A d, t : Covers(d, t)' <=> Covers(d, t)
    <2>1. \A q, p, at, b, t : CoversAt(q, p, at, b, t)' <=> CoversAt(q, p, at, b, t)
        BY <1>1, <1>2 DEF CoversAt
    <2> QED
        BY <1>3, <2>1 DEF Covers
<1>10. \A d, t : CoversAll(d, t)' <=> CoversAll(d, t)
    BY <1>9, ThreadsStable DEF CoversAll
<1>11. \A d : CoversOwn(d)' <=> CoversOwn(d)
    BY <1>3, <1>9, ThreadsStable, FlowStable DEF CoversOwn
<1>12. \A d, e : CoversOther(d, e)' <=> CoversOther(d, e)
    BY <1>3, <1>9, <1>10, ThreadsStable DEF CoversOther
<1>13. Alone(live)'
    BY <1>7, <1>8 DEF RunInv, Alone
<1>14. /\ \A d \in live' : Shape(d)' /\ InTree(d)'
       /\ \A d, e \in live' : d.id = e.id => d = e
       /\ prog.main \notin candidates => \A d, e \in live' : d = e
       /\ prog.main \in candidates =>
             /\ \A d \in live' : CoversOwn(d)'
             /\ \A d, e \in live' : d # e => CoversOther(d, e)'
    BY <1>5, <1>6, <1>11, <1>12 DEF RunInv
<1> QED
    BY <1>13, <1>14 DEF RunInv

-----------------------------------------------------------------------------
(* The run starts with the main thread.                                    *)

LEMMA ThreadsUnique ==
    ASSUME TreeTypes, candidates = RelevantFuns, NoRecursiveFork, ThreadsForked,
           NEW t \in threads, NEW u \in threads, t[1] = u[1]
    PROVE  t = u
<1>1. ASSUME NEW p \in visited, NEW c \in prog.forks
      PROVE  /\ p[2] \in Seq(CallSite) /\ c \in CallSite /\ Spawned(p[2], c) = <<Append(p[2], c), c[1]>>
             /\ Spawned(p[2], c) # MainTid
    <2>1. p[2] \in Seq(CallSite) /\ c \in CallSite
        BY DEF TreeTypes, Program, CallSite, Cxt
    <2>2. Spawned(p[2], c) = <<Append(p[2], c), c[1]>>
        BY ForkPushed
    <2>3. c[1] # NoFork
        BY <2>1, TCTAssumption DEF CallSite
    <2> QED
        BY <2>1, <2>2, <2>3 DEF MainTid
<1>2. t = MainThread \/ \E p \in visited, c \in prog.forks : t = <<Spawned(p[2], c), p[2], c[2]>>
    BY DEF ThreadsForked
<1>3. u = MainThread \/ \E p \in visited, c \in prog.forks : u = <<Spawned(p[2], c), p[2], c[2]>>
    BY DEF ThreadsForked
<1>4. MainThread[1] = MainTid
    BY DEF MainThread
<1>5. CASE t = MainThread \/ u = MainThread
    BY <1>1, <1>2, <1>3, <1>4, <1>5
<1>6. CASE t # MainThread /\ u # MainThread
    <2>1. PICK p \in visited, c \in prog.forks : t = <<Spawned(p[2], c), p[2], c[2]>>
        BY <1>2, <1>6
    <2>2. PICK o \in visited, d \in prog.forks : u = <<Spawned(o[2], d), o[2], d[2]>>
        BY <1>3, <1>6
    <2>3. Spawned(p[2], c) = Spawned(o[2], d)
        BY <2>1, <2>2
    <2>4. Append(p[2], c) = Append(o[2], d)
        BY <1>1, <2>3
    <2>5. p[2] \in Seq(CallSite) /\ o[2] \in Seq(CallSite) /\ c \in CallSite /\ d \in CallSite
        BY <1>1
    <2>6. p[2] = o[2] /\ c = d
        BY <2>4, <2>5, SameAppended
    <2> QED
        BY <2>1, <2>2, <2>6
<1> QED
    BY <1>5, <1>6

LEMMA MainHasNoAncestor ==
    ASSUME Settled
    PROVE  Ancestors(MainTid) = {}
<1> SUFFICES ASSUME NEW a \in Ancestors(MainTid)
             PROVE  FALSE
    OBVIOUS
<1>1. \A e \in tctEdges : e = <<e[1], e[2]>>
    BY DEF Settled, TreeInv, TreeTypes
<1>2. \E e \in tctEdges : e[2] = MainTid /\ (e[1] = a \/ <<a, e[1]>> \in Closure(tctEdges))
    BY <1>1, ClosureLast DEF Ancestors
<1>3. PICK e \in tctEdges : e[2] = MainTid
    BY <1>2
<1>4. PICK p \in visited, c \in prog.forks :
          prog.fn[c[1]] = p[3] /\ e = <<p[1], Spawned(p[2], c)>>
    BY EdgeForks
<1>5. Spawned(p[2], c) # MainTid
    BY <1>4, ThreadForked
<1> QED
    BY <1>3, <1>4, <1>5

LEMMA StartedInv ==
    Settled /\ live = {Thread(1, prog.entry[prog.main], <<>>)} /\ born = 1 => RunInv(live) /\ IdsUsed
<1> SUFFICES ASSUME Settled, live = {Thread(1, prog.entry[prog.main], <<>>)}, born = 1
             PROVE  RunInv(live) /\ IdsUsed
    OBVIOUS
<1> DEFINE d == Thread(1, prog.entry[prog.main], <<>>)
<1>1. /\ TreeTypes /\ WellFormed /\ candidates = RelevantFuns /\ NoRecursiveFork
      /\ ThreadsForked /\ MainVisited
    BY DEF Settled, Tame, TreeInv
<1>2. prog.main \in Fun /\ prog.entry[prog.main] \in Inst /\ prog.fn[prog.entry[prog.main]] = prog.main
    BY <1>1 DEF TreeTypes, Program, WellFormed
<1>3. /\ d.id = 1 /\ d.at = prog.entry[prog.main] /\ d.path = <<>> /\ d.base = 0 /\ d \in LiveThread
      /\ <<>> \in Seq(CallSite) /\ Len(<<>>) = 0
    BY <1>2 DEF Thread, LiveThread
<1> HIDE DEF d
<1>4. CxtAt(d.path, 0) = <<>> /\ FunAt(d.path, 0) = prog.main /\ TidOf(d) = MainTid
    BY <1>3, CxtAtIs DEF FunAt, TidOf
<1>5. Shape(d)
    <2>1. prog.main \in callersOf[prog.main]
        BY <1>1, <1>2 DEF TreeTypes, Callers
    <2>2. Path(d.path, d.at)
        BY <1>2, <1>3, <1>4, <2>1 DEF Path
    <2> QED
        BY <1>3, <2>2, PathShape
<1>6. InTree(d)
    <2> SUFFICES ASSUME NEW k \in d.base .. Len(d.path), Forking(FunAt(d.path, k))
                 PROVE  <<TidOf(d), CxtAt(d.path, k), FunAt(d.path, k)>> \in visited
        BY DEF InTree
    <2>1. k = 0
        BY <1>3
    <2>2. prog.main \in candidates
        BY <1>1, <1>4, <2>1, ForkingRelevant
    <2> QED
        BY <1>1, <1>4, <2>1, <2>2 DEF MainVisited, MainThread
<1>7. ASSUME prog.main \in candidates
      PROVE  CoversOwn(d)
    <2>1. MainThread \in threads /\ MainTid \in TIds
        BY <1>1, <1>7 DEF MainVisited, MainThread, TIds
    <2>2. StartOf(MainThread) = <<MainTid, <<>>, d.at>>
        BY <1>3 DEF StartOf, MainThread, MainTid
    <2>3. ASSUME NEW t, <<StartOf(MainThread), t>> \in inter
          PROVE  Covers(d, t)
        <3>1. <<<<MainTid, <<>>, d.at>>, t>> \in inter
            BY <2>2, <2>3
        <3>2. \A k \in 0 .. 0 : FunAt(d.path, k) \in candidates
            BY <1>4, <1>7
        <3> QED
            BY <1>3, <1>4, <3>1, <3>2 DEF Covers, CoversAt
    <2>4. <<StartOf(MainThread), MainTid>> \in inter
        <3>1. <<StartOf(MainThread), MainTid>> \in Seeds(MainThread)
            BY DEF Seeds, MainThread
        <3> QED
            BY <2>1, <3>1 DEF Settled, Seeded
    <2>5. \A a \in threads : a[1] \in {MainTid} \cup Ancestors(MainTid) => a = MainThread
        <3>1. MainThread[1] = MainTid
            BY DEF MainThread
        <3> QED
            BY <1>1, <2>1, <3>1, MainHasNoAncestor, ThreadsUnique
    <2> QED
        BY <1>4, <2>1, <2>3, <2>4, <2>5 DEF CoversOwn
<1>8. RunInv({d})
    <2>1. Alone({d})
        BY DEF Alone
    <2> QED
        BY <1>5, <1>6, <1>7, <2>1 DEF RunInv
<1>9. live = {d}
    BY DEF d
<1>10. IdsUsed
    <2>1. d.id = 1
        BY <1>3
    <2>2. \A x \in live : x.id = 1
        BY <1>9, <2>1
    <2> QED
        BY <2>2 DEF IdsUsed
<1> QED
    BY <1>8, <1>9, <1>10

-----------------------------------------------------------------------------
(* The analysis comes to what the run rests on.                            *)

(* What has been taken from a worklist has been passed on.                 *)
FlowPending == \A x \in inter : x[1] \in stmts \/ \A s \in Targets(x[1]) : <<s, x[2]>> \in inter
SeedsPending == \A t \in threads : t[1] \in roots \/ Seeds(t) \subseteq inter
VisitedPending == \A p \in visited \ ctpList : p[3] \in candidates => Expanded(p)

Phases ==
    /\ pc = "tct" => inter = {} /\ stmts = {} /\ roots = {}
    /\ pc # "tct" => multiforked = Often /\ FlowPending /\ SeedsPending
    /\ pc = "done" => /\ stmts = {} /\ roots = {} /\ InsideClosed
                      /\ RunInv(live) /\ IdsUsed

TreeKnown == VisitedThreads /\ ThreadsForked /\ MainVisited /\ VisitedPending

Phased ==
    /\ pc \in {"tct", "mhp", "done"}
    /\ pc # "tct" => ctpList = {}
    /\ pc # "done" => live = {}

SystemInv ==
    /\ TreeInv /\ candidates = RelevantFuns /\ Phased
    /\ Tame => TreeKnown /\ Phases

LEMMA SystemInvSettled ==
    ASSUME SystemInv, Tame, pc # "tct", stmts = {}, roots = {}, InsideClosed
    PROVE  Settled
<1>1. VisitedClosed
    BY DEF SystemInv, Phased, TreeKnown, VisitedPending, VisitedClosed
<1>2. FlowClosed /\ Seeded
    BY DEF SystemInv, Phases, FlowPending, SeedsPending, FlowClosed, Seeded
<1> QED
    BY <1>1, <1>2 DEF SystemInv, TreeKnown, Phases, Settled

LEMMA SystemInvInit == SystemInit => SystemInv
<1> SUFFICES ASSUME SystemInit
             PROVE  SystemInv
    OBVIOUS
<1>1. TCTInit /\ inter = {} /\ stmts = {} /\ roots = {} /\ live = {}
    BY DEF SystemInit, MHPInit, Idle
<1>2. /\ candidates = RelevantFuns /\ pc = "tct" /\ visited = ctpList
      /\ visited = {<<MainTid, <<>>, f>> : f \in EntryFuns \cap candidates}
      /\ IF ctpList = {} THEN threads = {} ELSE \E p \in ctpList : threads = {<<MainTid, <<>>, p[3]>>}
    BY <1>1 DEF TCTInit
<1>3. TreeInv
    BY <1>1, TreeInvInit
<1>4. ASSUME Tame
      PROVE  TreeKnown
    <2>1. EntryFuns = {prog.main}
        BY <1>4 DEF Tame, OneEntry
    <2>2. \A p \in visited : p = MainThread
        BY <1>2, <2>1 DEF MainThread
    <2>3. prog.main \in candidates => MainThread \in visited
        BY <1>2, <2>1 DEF MainThread
    <2>4. \A t \in threads : t = MainThread
        <3> SUFFICES ASSUME NEW t \in threads
                     PROVE  t = MainThread
            OBVIOUS
        <3>1. PICK p \in visited : t = <<MainTid, <<>>, p[3]>>
            BY <1>2
        <3> QED
            BY <2>2, <3>1 DEF MainThread
    <2>5. visited # {} => threads # {}
        BY <1>2
    <2>6. VisitedThreads
        <3>1. ThreadOf(<<>>, MainTid)
            BY DEF ThreadOf
        <3> QED
            BY <2>2, <3>1 DEF VisitedThreads, MainThread
    <2>7. MainVisited
        BY <2>3, <2>4, <2>5 DEF MainVisited
    <2>8. VisitedPending
        BY <1>2 DEF VisitedPending
    <2> QED
        BY <2>4, <2>6, <2>7, <2>8 DEF TreeKnown, ThreadsForked
<1> QED
    BY <1>1, <1>2, <1>3, <1>4 DEF SystemInv, Phased, Phases

LEMMA BuildKeepsTree ==
    ASSUME SystemInv, Tame, NEW p \in ctpList, ProcessCtp(p)
    PROVE  TreeKnown'
<1> DEFINE calls == {c \in prog.calls : prog.fn[c[1]] = p[3]}
           forks == {c \in prog.forks : prog.fn[c[1]] = p[3]}
           called == {<<p[1], PushCxt(p[2], c[1], c[2]), c[2]>> : c \in calls}
           spawned == {ForkedBy(p, c) : c \in forks}
           created == {q[1] : q \in spawned} \ TIds
<1>1. UNCHANGED <<prog, callersOf, candidates>>
    BY DEF ProcessCtp, progVars
<1>2. /\ TreeTypes /\ candidates = RelevantFuns /\ NoRecursiveFork /\ WellFormed
      /\ VisitedThreads /\ ThreadsForked /\ MainVisited /\ VisitedPending
      /\ p \in visited /\ p \in Tid \X Cxt \X Fun
    BY DEF SystemInv, TreeInv, Tame, TreeKnown, TreeTypes
<1>3. /\ \A x, t : ThreadOf(x, t)' <=> ThreadOf(x, t)
      /\ MainThread' = MainThread
    BY <1>1, FlowStable, SitesStable
<1>4. CASE p[3] \notin candidates
    <2>1. ctpList' = ctpList \ {p} /\ UNCHANGED <<visited, tctEdges, threads>>
        BY <1>4 DEF ProcessCtp
    <2>2. VisitedThreads' /\ MainVisited'
        BY <1>1, <1>2, <1>3, <2>1 DEF VisitedThreads, MainVisited
    <2>3. ThreadsForked'
        BY <1>1, <1>2, <1>3, <2>1, ContextsStable DEF ThreadsForked
    <2>4. \A q : Expanded(q)' <=> Expanded(q)
        BY <1>1, <2>1, ContextsStable DEF Expanded
    <2>5. VisitedPending'
        BY <1>1, <1>2, <1>4, <2>1, <2>4 DEF VisitedPending
    <2> QED
        BY <2>2, <2>3, <2>5 DEF TreeKnown
<1>5. CASE p[3] \in candidates
    <2>1. /\ ctpList' = (ctpList \ {p}) \cup ((called \cup spawned) \ visited)
          /\ visited' = visited \cup called \cup spawned
          /\ \E r \in {s \in [created -> Fun] : \A t \in created : \E q \in spawned : q[1] = t /\ q[3] = s[t]} :
                threads' = threads \cup {<<t, p[2], r[t]>> : t \in created}
        BY <1>5 DEF ProcessCtp, ForkedBy
    <2>2. p[2] \in Seq(CallSite) /\ calls \subseteq CallSite /\ forks \subseteq CallSite
        BY <1>2 DEF Cxt, TreeTypes, Program, CallSite
    <2>3. VisitedThreads'
        <3>1. ASSUME NEW c \in calls
              PROVE  ThreadOf(PushCxt(p[2], c[1], c[2]), p[1])
            <4>1. ThreadOf(p[2], p[1])
                BY <1>2 DEF VisitedThreads
            <4>2. c \notin prog.forks /\ c = <<c[1], c[2]>> /\ c \in CallSite
                BY <1>2, <2>2 DEF WellFormed, CallSites, ForkSites, CallSite
            <4>3. CASE PushCxt(p[2], c[1], c[2]) = p[2]
                BY <4>1, <4>3
            <4>4. CASE PushCxt(p[2], c[1], c[2]) = Append(p[2], c)
                <5>1. ThreadOf(Append(p[2], c), p[1])
                    BY <2>2, <4>1, <4>2, ThreadOfCall
                <5> QED
                    BY <4>4, <5>1
            <4> QED
                BY <4>2, <4>3, <4>4 DEF PushCxt
        <3>2. ASSUME NEW c \in forks
              PROVE  ThreadOf(PushCxt(p[2], c[1], c[2]), Spawned(p[2], c))
            <4>1. /\ PushCxt(p[2], c[1], c[2]) = Append(p[2], c)
                  /\ Spawned(p[2], c) = <<Append(p[2], c), c[1]>>
                BY <1>2, ForkPushed
            <4> QED
                BY <2>2, <4>1, ThreadOfFork
        <3>3. \A q \in called \cup spawned : ThreadOf(q[2], q[1])
            BY <3>1, <3>2 DEF ForkedBy
        <3> HIDE DEF called, spawned
        <3>4. \A q \in visited' : ThreadOf(q[2], q[1])
            BY <1>2, <2>1, <3>3 DEF VisitedThreads
        <3> QED
            BY <1>3, <3>4 DEF VisitedThreads
    <2>4. ThreadsForked'
        <3>1. PICK r : /\ threads' = threads \cup {<<t, p[2], r[t]>> : t \in created}
                       /\ \A t \in created : \E q \in spawned : q[1] = t /\ q[3] = r[t]
            BY <2>1
        <3>2. \A t \in created : \E c \in forks : <<t, p[2], r[t]>> = <<Spawned(p[2], c), p[2], c[2]>>
            BY <3>1 DEF ForkedBy
        <3> HIDE DEF created
        <3>3. \A t \in threads' : t \in threads \/ \E c \in forks : t = <<Spawned(p[2], c), p[2], c[2]>>
            BY <3>1, <3>2
        <3>4. \A t \in threads' : t = MainThread \/ \E q \in visited', c \in prog.forks :
                  prog.fn[c[1]] = q[3] /\ t = <<Spawned(q[2], c), q[2], c[2]>>
            BY <1>2, <2>1, <3>3 DEF ThreadsForked
        <3> QED
            BY <1>1, <1>3, <3>4, ContextsStable DEF ThreadsForked
    <2>5. MainVisited'
        <3>1. visited \subseteq visited' /\ threads \subseteq threads'
            BY <2>1
        <3> QED
            BY <1>1, <1>2, <1>3, <3>1 DEF MainVisited
    <2>6. VisitedPending'
        <3>1. \A q \in visited' \ ctpList' : q = p \/ q \in visited \ ctpList
            BY <2>1
        <3>2. visited \subseteq visited' /\ called \subseteq visited' /\ spawned \subseteq visited'
            BY <2>1
        <3>3. /\ \A c \in prog.calls : prog.fn[c[1]] = p[3] =>
                    <<p[1], PushCxt(p[2], c[1], c[2]), c[2]>> \in visited'
              /\ \A c \in prog.forks : prog.fn[c[1]] = p[3] => ForkedBy(p, c) \in visited'
            BY <3>2
        <3>4. Expanded(p)'
            BY <1>1, <3>3, ContextsStable DEF Expanded
        <3>5. \A q : Expanded(q) => Expanded(q)'
            BY <1>1, <3>2, ContextsStable DEF Expanded
        <3> QED
            BY <1>1, <1>2, <3>1, <3>4, <3>5 DEF VisitedPending
    <2> QED
        BY <2>3, <2>4, <2>5, <2>6 DEF TreeKnown
<1> QED
    BY <1>4, <1>5

LEMMA TreeKnownStable ==
    ASSUME UNCHANGED treeVars, TreeKnown
    PROVE  TreeKnown'
<1>1. UNCHANGED <<prog, callersOf, candidates, ctpList, visited, threads, tctEdges>>
    BY DEF treeVars
<1>2. VisitedThreads' /\ MainVisited'
    BY <1>1, FlowStable, SitesStable DEF TreeKnown, VisitedThreads, MainVisited
<1>3. ThreadsForked'
    BY <1>1, SitesStable, ContextsStable DEF TreeKnown, ThreadsForked
<1>4. VisitedPending'
    <2>1. \A q : Expanded(q)' <=> Expanded(q)
        BY <1>1, ContextsStable DEF Expanded
    <2> QED
        BY <1>1, <2>1 DEF TreeKnown, VisitedPending
<1> QED
    BY <1>2, <1>3, <1>4 DEF TreeKnown

LEMMA BuildKeepsPhases ==
    ASSUME Phases, Phased, BuildTCT, UNCHANGED live
    PROVE  Phases' /\ Phased'
<1>1. pc = "tct" /\ pc' = "tct" /\ UNCHANGED <<inter, stmts, roots>>
    BY DEF BuildTCT, ProcessCtp
<1> QED
    BY <1>1 DEF Phases, Phased

LEMMA BeginKeepsPhases ==
    ASSUME Phases, Phased, BeginMHP, UNCHANGED live
    PROVE  Phases' /\ Phased'
<1>1. /\ pc = "tct" /\ pc' = "mhp" /\ ctpList = {} /\ roots' = TIds /\ multiforked' = Often
      /\ UNCHANGED <<prog, callersOf, candidates, ctpList, visited, threads, tctEdges, inter, stmts>>
    BY DEF BeginMHP, CollectMultiForkedThreads, Often, progVars
<1>2. inter' = {} /\ stmts' = {}
    BY <1>1 DEF Phases
<1>3. Often' = Often
    BY <1>1, ThreadsStable
<1>4. FlowPending'
    BY <1>2 DEF FlowPending
<1>5. SeedsPending'
    BY <1>1 DEF SeedsPending, TIds
<1> QED
    BY <1>1, <1>3, <1>4, <1>5 DEF Phases, Phased

(* What a step adds to the sets is passed on, or yet to be.                *)
LEMMA StartKeepsPhases ==
    ASSUME SystemInv, Tame, NEW t \in threads, StartRoot(t), UNCHANGED live
    PROVE  Phases' /\ Phased'
<1>1. /\ pc = "mhp" /\ pc' = "mhp" /\ stmts = {} /\ roots' = roots \ {t[1]}
      /\ inter' = inter \cup Seeds(t) /\ stmts' = Changed(Seeds(t))
      /\ UNCHANGED <<prog, callersOf, candidates, ctpList, visited, threads, tctEdges, multiforked>>
    BY DEF StartRoot, Seeds, tctVars, progVars
<1>2. /\ TreeTypes /\ candidates = RelevantFuns /\ NoRecursiveFork /\ ThreadsForked
      /\ multiforked = Often /\ FlowPending /\ SeedsPending /\ ctpList = {} /\ live = {}
    BY <1>1 DEF SystemInv, TreeInv, Tame, TreeKnown, Phases, Phased
<1>3. multiforked' = Often'
    BY <1>1, <1>2, ThreadsStable
<1>4. FlowPending'
    <2>1. \A x \in inter' : x \in inter \/ x[1] \in stmts'
        BY <1>1 DEF Changed
    <2>2. \A x \in inter' : x[1] \in stmts' \/ \A s \in Targets(x[1]) : <<s, x[2]>> \in inter'
        BY <1>1, <1>2, <2>1 DEF FlowPending
    <2> QED
        BY <1>1, <2>2, FlowStable DEF FlowPending
<1>5. SeedsPending'
    <2>1. \A u \in threads : u[1] \in roots \ {t[1]} \/ Seeds(u) \subseteq inter'
        BY <1>1, <1>2, ThreadsUnique DEF SeedsPending
    <2> QED
        BY <1>1, <2>1, ThreadsStable DEF SeedsPending
<1> QED
    BY <1>1, <1>2, <1>3, <1>4, <1>5 DEF Phases, Phased

LEMMA ProcessKeepsPhases ==
    ASSUME SystemInv, Tame, NEW s \in stmts, ProcessStmt(s), UNCHANGED live
    PROVE  Phases' /\ Phased'
<1> DEFINE new == Targets(s) \X Inter(s)
<1>1. /\ pc = "mhp" /\ pc' = "mhp" /\ inter' = inter \cup new /\ stmts' = (stmts \ {s}) \cup Changed(new)
      /\ UNCHANGED <<prog, callersOf, candidates, ctpList, visited, threads, tctEdges, multiforked, roots>>
    BY DEF ProcessStmt, tctVars, progVars
<1>2. /\ multiforked = Often /\ FlowPending /\ SeedsPending /\ ctpList = {} /\ live = {}
    BY <1>1 DEF SystemInv, Phases, Phased
<1>3. multiforked' = Often'
    BY <1>1, <1>2, ThreadsStable
<1>4. FlowPending'
    <2>1. \A x \in inter' : x \in inter \/ x[1] \in stmts'
        BY <1>1 DEF Changed
    <2>2. \A x \in inter : x[1] = s => \A u \in Targets(s) : <<u, x[2]>> \in inter'
        BY <1>1 DEF Inter
    <2>3. \A x \in inter : x[1] # s /\ x[1] \in stmts => x[1] \in stmts'
        BY <1>1
    <2> HIDE DEF new
    <2>4. \A x \in inter' : x[1] \in stmts' \/ \A u \in Targets(x[1]) : <<u, x[2]>> \in inter'
        BY <1>1, <1>2, <2>1, <2>2, <2>3 DEF FlowPending
    <2> QED
        BY <1>1, <2>4, FlowStable DEF FlowPending
<1>5. SeedsPending'
    <2>1. \A u \in threads : u[1] \in roots \/ Seeds(u) \subseteq inter'
        BY <1>1, <1>2 DEF SeedsPending
    <2> QED
        BY <1>1, <2>1, ThreadsStable DEF SeedsPending
<1> QED
    BY <1>1, <1>2, <1>3, <1>4, <1>5 DEF Phases, Phased

LEMMA FinishKeepsPhases ==
    ASSUME SystemInv, Tame, FinishMHP, Started
    PROVE  FlowPending' /\ SeedsPending' /\ InsideClosed'
<1>1. /\ pc = "mhp" /\ stmts = {} /\ roots = {} /\ inter' = inter \cup InsideNonCandidates
      /\ UNCHANGED <<prog, callersOf, candidates, ctpList, visited, threads, tctEdges, multiforked,
                     stmts, roots>>
    BY DEF FinishMHP, progVars
<1>2. TreeTypes /\ WellFormed /\ FlowPending /\ SeedsPending
    BY <1>1 DEF SystemInv, TreeInv, Tame, Phases
<1>3. ASSUME NEW x \in InsideNonCandidates
      PROVE  \E z \in inter : \E i \in Inst :
                /\ prog.fn[i] \notin candidates /\ z[1][3] = prog.entry[prog.fn[i]]
                /\ x = <<<<z[1][1], z[1][2], i>>, z[2]>>
    BY DEF InsideNonCandidates
<1>4. \A i \in Inst : prog.fn[i] \in Fun /\ prog.entry[prog.fn[i]] \in Inst
                      /\ prog.fn[prog.entry[prog.fn[i]]] = prog.fn[i]
    BY <1>2 DEF TreeTypes, Program, WellFormed
<1>5. FlowPending'
    <2>1. ASSUME NEW x \in InsideNonCandidates, NEW u \in Targets(x[1])
          PROVE  <<u, x[2]>> \in inter
        <3>1. PICK z \in inter, i \in Inst :
                  /\ prog.fn[i] \notin candidates /\ z[1][3] = prog.entry[prog.fn[i]]
                  /\ x = <<<<z[1][1], z[1][2], i>>, z[2]>>
            BY <1>3
        <3>2. Targets(x[1]) = NonCandidateTargets(x[1])
            BY <3>1, TargetsIs
        <3>3. Targets(z[1]) = NonCandidateTargets(z[1])
            BY <1>4, <3>1, TargetsIs
        <3>4. NonCandidateTargets(x[1]) = NonCandidateTargets(z[1])
            BY <1>4, <3>1 DEF NonCandidateTargets
        <3>5. u \in Targets(z[1]) /\ x[2] = z[2]
            BY <3>1, <3>2, <3>3, <3>4
        <3> QED
            BY <1>1, <1>2, <3>5 DEF FlowPending
    <2>2. \A x \in inter' : \A u \in Targets(x[1]) : <<u, x[2]>> \in inter'
        BY <1>1, <1>2, <2>1 DEF FlowPending
    <2> QED
        BY <1>1, <2>2, FlowStable DEF FlowPending
<1>6. SeedsPending'
    BY <1>1, <1>2, ThreadsStable DEF SeedsPending
<1>7. InsideClosed'
    <2> SUFFICES ASSUME NEW a, NEW x, NEW t, NEW i \in Inst, prog.fn[i] \notin candidates,
                        <<<<a, x, prog.entry[prog.fn[i]]>>, t>> \in inter'
                 PROVE  <<<<a, x, i>>, t>> \in inter'
        BY <1>1 DEF InsideClosed
    <2> DEFINE w == <<<<a, x, prog.entry[prog.fn[i]]>>, t>>
    <2>1. \E z \in inter : z[1][3] = prog.entry[prog.fn[i]] /\ z[1][1] = a /\ z[1][2] = x /\ z[2] = t
        <3>1. CASE w \in inter
            BY <3>1
        <3>2. CASE w \in InsideNonCandidates
            <4>1. PICK z \in inter, j \in Inst :
                      z[1][3] = prog.entry[prog.fn[j]] /\ w = <<<<z[1][1], z[1][2], j>>, z[2]>>
                BY <1>3, <3>2
            <4>2. j = prog.entry[prog.fn[i]] /\ z[1][1] = a /\ z[1][2] = x /\ z[2] = t
                BY <4>1
            <4> QED
                BY <1>4, <4>1, <4>2
        <3> QED
            BY <1>1, <3>1, <3>2
    <2>2. <<<<a, x, i>>, t>> \in InsideNonCandidates
        BY <2>1 DEF InsideNonCandidates
    <2> QED
        BY <1>1, <2>2
<1> QED
    BY <1>5, <1>6, <1>7

LEMMA PhasesStable ==
    ASSUME SystemInv, Tame, UNCHANGED mhpVars,
           pc = "done" => RunInv(live') /\ IdsUsed', pc # "done" => live' = {}
    PROVE  Phases' /\ Phased'
<1>1. UNCHANGED <<prog, callersOf, candidates, pc, ctpList, visited, threads, tctEdges, multiforked,
                  inter, stmts, roots>>
    BY DEF mhpVars, tctVars, progVars
<1>2. Phases /\ Phased
    BY DEF SystemInv
<1>3. Often' = Often
    BY <1>1, ThreadsStable
<1>4. FlowPending => FlowPending'
    BY <1>1, FlowStable DEF FlowPending
<1>5. SeedsPending => SeedsPending'
    BY <1>1, ThreadsStable DEF SeedsPending
<1>6. InsideClosed => InsideClosed'
    BY <1>1 DEF InsideClosed
<1>7. pc = "done" => RunInv(live)'
    BY <1>1, RunInvStable
<1> QED
    BY <1>1, <1>2, <1>3, <1>4, <1>5, <1>6, <1>7 DEF Phases, Phased

LEMMA StartedInvNext ==
    (Settled /\ live = {Thread(1, prog.entry[prog.main], <<>>)} /\ born = 1 => RunInv(live) /\ IdsUsed)'
BY StartedInv, PTL

LEMMA SystemInvStep == SystemInv /\ [SystemNext]_vars => SystemInv'
<1> SUFFICES ASSUME SystemInv, [SystemNext]_vars
             PROVE  SystemInv'
    OBVIOUS
<1>1. UNCHANGED <<prog, callersOf, candidates>>
    BY DEF SystemNext, Analyse, Run, MHPNext, BuildTCT, ProcessCtp, BeginMHP, CollectMultiForkedThreads,
           StartRoot, ProcessStmt, FinishMHP, vars, mhpVars, tctVars, progVars
<1>2. TreeInv' /\ candidates' = RelevantFuns'
    BY <1>1, TreeInvStep, FlowStable DEF SystemInv
<1>3. Phased'
    BY DEF SystemInv, Phased, SystemNext, Analyse, Run, MHPNext, BuildTCT, ProcessCtp, BeginMHP,
           CollectMultiForkedThreads, StartRoot, ProcessStmt, FinishMHP, RunNext,
           vars, mhpVars, tctVars, progVars, runVars
<1>4. ASSUME Tame'
      PROVE  TreeKnown' /\ Phases'
    <2>1. Tame /\ TreeKnown /\ Phases /\ Phased
        BY <1>1, <1>4, TameStable DEF SystemInv
    <2>2. CASE Analyse /\ BuildTCT
        <3>1. pc = "tct" /\ pc' = "tct"
            BY <2>2 DEF BuildTCT, ProcessCtp
        <3>2. UNCHANGED live
            BY <2>2, <3>1 DEF Analyse, runVars
        <3> QED
            BY <2>1, <2>2, <3>2, BuildKeepsTree, BuildKeepsPhases DEF BuildTCT
    <2>3. CASE Analyse /\ BeginMHP
        <3>1. pc' = "mhp" /\ UNCHANGED treeVars
            BY <2>3 DEF BeginMHP, CollectMultiForkedThreads, progVars, treeVars
        <3>2. UNCHANGED live
            BY <2>3, <3>1 DEF Analyse, runVars
        <3> QED
            BY <2>1, <2>3, <3>1, <3>2, TreeKnownStable, BeginKeepsPhases
    <2>4. ASSUME Analyse, NEW t \in threads, StartRoot(t)
          PROVE  TreeKnown' /\ Phases'
        <3>1. pc' = "mhp" /\ UNCHANGED treeVars
            BY <2>4 DEF StartRoot, tctVars, progVars, treeVars
        <3>2. UNCHANGED live
            BY <2>4, <3>1 DEF Analyse, runVars
        <3> QED
            BY <2>1, <2>4, <3>1, <3>2, TreeKnownStable, StartKeepsPhases
    <2>5. ASSUME Analyse, NEW s \in stmts, ProcessStmt(s)
          PROVE  TreeKnown' /\ Phases'
        <3>1. pc' = "mhp" /\ UNCHANGED treeVars
            BY <2>5 DEF ProcessStmt, tctVars, progVars, treeVars
        <3>2. UNCHANGED live
            BY <2>5, <3>1 DEF Analyse, runVars
        <3> QED
            BY <2>1, <2>5, <3>1, <3>2, TreeKnownStable, ProcessKeepsPhases
    <2>6. CASE Analyse /\ FinishMHP
        <3>1. /\ pc = "mhp" /\ pc' = "done" /\ stmts' = {} /\ roots' = {} /\ ctpList' = {}
              /\ UNCHANGED treeVars
              /\ UNCHANGED <<prog, callersOf, candidates, threads, tctEdges, multiforked>>
            BY <2>1, <2>6 DEF FinishMHP, progVars, treeVars, Phased
        <3>2. Started
            BY <2>6, <3>1 DEF Analyse
        <3>3. TreeKnown'
            BY <2>1, <3>1, TreeKnownStable
        <3>4. FlowPending' /\ SeedsPending' /\ InsideClosed'
            BY <2>1, <2>6, <3>2, FinishKeepsPhases
        <3>5. multiforked' = Often'
            BY <2>1, <3>1, ThreadsStable DEF Phases
        <3>6. Settled'
            <4>1. VisitedClosed'
                BY <3>1, <3>3 DEF TreeKnown, VisitedPending, VisitedClosed
            <4>2. FlowClosed' /\ Seeded'
                BY <3>1, <3>4 DEF FlowPending, SeedsPending, FlowClosed, Seeded
            <4> QED
                BY <1>2, <1>4, <3>3, <3>4, <3>5, <4>1, <4>2 DEF TreeKnown, Settled
        <3>7. live' = {Thread(1, prog.entry[prog.main], <<>>)}' /\ born' = 1
            BY <3>1, <3>2 DEF Started, Thread
        <3>8. RunInv(live)' /\ IdsUsed'
            BY <3>6, <3>7, StartedInvNext
        <3> QED
            BY <3>1, <3>3, <3>4, <3>5, <3>8 DEF Phases
    <2>7. CASE Run \/ UNCHANGED vars
        <3>1. UNCHANGED mhpVars /\ UNCHANGED treeVars
            BY <2>7 DEF Run, vars, mhpVars, tctVars, progVars, treeVars
        <3>2. pc # "done" => live' = {}
            BY <2>1, <2>7 DEF Run, vars, runVars, Phased
        <3>3. pc = "done" => RunInv(live') /\ IdsUsed'
            <4>1. CASE Run
                <5>1. Settled
                    BY <2>1, <4>1, SystemInvSettled DEF Run, Phases
                <5> QED
                    BY <2>1, <4>1, <5>1, RunStep DEF Run, Phases
            <4>2. CASE UNCHANGED vars
                <5>1. live' = live /\ born' = born
                    BY <4>2 DEF vars, runVars
                <5> QED
                    BY <2>1, <5>1 DEF Phases, IdsUsed
            <4> QED
                BY <2>7, <4>1, <4>2
        <3> QED
            BY <2>1, <3>1, <3>2, <3>3, TreeKnownStable, PhasesStable
    <2>8. \/ Analyse /\ (BuildTCT \/ BeginMHP \/ FinishMHP)
          \/ Run \/ UNCHANGED vars
          \/ \E t \in threads : Analyse /\ StartRoot(t)
          \/ \E s \in stmts : Analyse /\ ProcessStmt(s)
        BY DEF SystemNext, Analyse, MHPNext
    <2> QED
        BY <2>2, <2>3, <2>4, <2>5, <2>6, <2>7, <2>8
<1> QED
    BY <1>2, <1>3, <1>4 DEF SystemInv

LEMMA SystemInvSound == SystemInv => (Tame => Sound)
<1> SUFFICES ASSUME SystemInv, Tame
             PROVE  Sound
    OBVIOUS
<1>1. CASE pc # "done"
    BY <1>1 DEF SystemInv, Phased, Sound
<1>2. CASE pc = "done"
    <2>1. Settled /\ RunInv(live)
        BY <1>2, SystemInvSettled DEF SystemInv, Phases
    <2> QED
        BY <2>1, RunInvSound
<1> QED
    BY <1>1, <1>2

(* Whatever the bounds on threads and calls, and in whichever order the    *)
(* tree is built, the roots are taken and the worklist is emptied: in      *)
(* every run of a program that is Tame, MHP answers that the instructions  *)
(* two running threads are about to execute may happen in parallel         *)
(* (mayHappenInParallelInst, MHP.cpp).                                     *)
THEOREM MHPSound == SystemSpec => [](Tame => Sound)
<1>1. SystemSpec => []SystemInv
    BY SystemInvInit, SystemInvStep, PTL DEF SystemSpec
<1> QED
    BY <1>1, SystemInvSound, PTL
=============================================================================
