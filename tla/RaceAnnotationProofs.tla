------------------------ MODULE RaceAnnotationProofs ------------------------
(***************************************************************************)
(* LockAnalysis spans locks over statements of contexts its first phase    *)
(* has collected, for every program: the two phases follow calls, forks    *)
(* and returns in different ways and still agree.                          *)
(***************************************************************************)
EXTENDS RaceAnnotation, MHPSoundnessProofs

-----------------------------------------------------------------------------
(* The invariant.                                                          *)

(* True of the control-flow graphs the front end builds: edges and entries *)
(* stay within a function.                                                 *)
InFunctions ==
    /\ \A e \in prog.next : prog.fn[e[1]] = prog.fn[e[2]]
    /\ \A f \in Fun : prog.fn[prog.entry[f]] = f

ProgTypes == prog \in Program /\ callersOf = [f \in Fun |-> Callers(f)]

LockTypes ==
    /\ visitedCTPs \subseteq Cxt \X Fun
    /\ clpList \subseteq visitedCTPs
    /\ cxtStmts \in Seq(Cxt \X Inst)

Entries == {<<<<>>, f>> : f \in EntryFuns \cap LockCandidates}

LockPhases ==
    /\ lockPc \in {"intra", "collect", "span", "done"}
    /\ lockPc \in {"intra", "collect"} => cxtStmts = <<>>
    /\ lockPc \in {"span", "done"} => clpList = {}
    /\ lockPc # "intra" => Entries \subseteq visitedCTPs

LocksOf(p) == {p[1]} \X {l \in LockSites : prog.fn[l] = p[2]}

(* What has left clpList has been searched. *)
Collected ==
    \A p \in visitedCTPs \ clpList :
        p[2] \in LockCandidates => LockCallees(p) \subseteq visitedCTPs /\ LocksOf(p) \subseteq cxtLocks

(* The function the first n calls of a context lead to, or to whose cycle  *)
(* of calls they lead, on the way to function f.                           *)
Owner(x, f, n) == IF n = Len(x) THEN f ELSE prog.fn[x[n + 1][1]]

(* Where a context returns to has been collected as well as f, which may   *)
(* not be a candidate itself.                                              *)
InCollected(x, f) ==
    /\ Owner(x, f, 0) \in EntryFuns
    /\ \A n \in 0 .. Len(x) :
           Owner(x, f, n) \in LockCandidates => <<SubSeq(x, 1, n), Owner(x, f, n)>> \in visitedCTPs

StmtsCollected == \A s \in ToSet(cxtStmts) : InCollected(s[1], prog.fn[s[2]])

LockInv == ProgTypes /\ LockTypes /\ LockPhases /\ Collected /\ StmtsCollected

LEMMA LocksStable ==
    ASSUME UNCHANGED progVars
    PROVE  /\ LockCandidates' = LockCandidates /\ EntryFuns' = EntryFuns /\ Entries' = Entries
           /\ \A p : LockCallees(p)' = LockCallees(p) /\ LocksOf(p)' = LocksOf(p)
           /\ \A x, f, n : Owner(x, f, n)' = Owner(x, f, n)
           /\ InFunctions' = InFunctions
           /\ ProgTypes => ProgTypes'
<1>1. prog' = prog /\ callersOf' = callersOf
    BY DEF progVars
<1>2. Sites' = Sites /\ CallGraph' = CallGraph /\ LockSites' = LockSites /\ UnlockSites' = UnlockSites
    BY <1>1 DEF Sites, CallGraph, LockSites, UnlockSites
<1>3. LockCandidates' = LockCandidates
    BY <1>1, <1>2 DEF LockCandidates
<1>4. EntryFuns' = EntryFuns
    BY <1>1, <1>2 DEF EntryFuns
<1>5. \A x, c : PushLockCxt(x, c)' = PushLockCxt(x, c)
    BY <1>1 DEF PushLockCxt, SameSCC
<1>6. \A p : LockCallees(p)' = LockCallees(p) /\ LocksOf(p)' = LocksOf(p)
    BY <1>1, <1>2, <1>5 DEF LockCallees, LocksOf
<1>7. \A f : Callers(f)' = Callers(f)
    BY <1>2 DEF Callers, Closure
<1>8. Entries' = Entries
    BY <1>3, <1>4 DEF Entries
<1>9. \A x, f, n : Owner(x, f, n)' = Owner(x, f, n)
    BY <1>1 DEF Owner
<1> QED
    BY <1>1, <1>3, <1>4, <1>6, <1>7, <1>8, <1>9 DEF InFunctions, ProgTypes

(* Steps of the other parts of the system. *)
LEMMA LockInvStable ==
    ASSUME LockInv, UNCHANGED progVars, UNCHANGED lockVars
    PROVE  LockInv'
<1>1. /\ lockPc' = lockPc /\ clpList' = clpList /\ visitedCTPs' = visitedCTPs
      /\ cxtLocks' = cxtLocks /\ cxtStmts' = cxtStmts /\ prog' = prog
    BY DEF lockVars, progVars
<1>2. ProgTypes' /\ LockTypes' /\ LockPhases' /\ Collected'
    BY <1>1, LocksStable DEF LockInv, LockTypes, LockPhases, Collected
<1>3. \A x, f : InCollected(x, f)' = InCollected(x, f)
    BY <1>1, LocksStable DEF InCollected
<1>4. StmtsCollected'
    BY <1>1, <1>3 DEF LockInv, StmtsCollected, ToSet
<1> QED
    BY <1>2, <1>4 DEF LockInv

-----------------------------------------------------------------------------
(* Calls, candidates and cycles.                                           *)

LEMMA SiteTypes ==
    ASSUME prog \in Program
    PROVE  /\ Sites \subseteq CallSite
           /\ \A c \in Sites : c[1] \in Inst /\ c[2] \in Fun /\ prog.fn[c[1]] \in Fun
           /\ EntryFuns \subseteq Fun /\ LockSites \subseteq Inst /\ LockCandidates \subseteq Fun
<1>1. /\ prog.calls \subseteq CallSite /\ prog.forks \subseteq CallSite
      /\ prog.fn \in [Inst -> Fun] /\ prog.fun \subseteq Fun /\ prog.locks \subseteq Inst \X Mem
    BY DEF Program, CallSite
<1>2. Sites \subseteq CallSite
    BY <1>1 DEF Sites
<1>3. \A c \in Sites : c[1] \in Inst /\ c[2] \in Fun /\ prog.fn[c[1]] \in Fun
    BY <1>1, <1>2 DEF CallSite
<1> QED
    BY <1>1, <1>2, <1>3 DEF EntryFuns, LockSites, LockCandidates

LEMMA SiteEdge ==
    ASSUME NEW c \in Sites
    PROVE  <<prog.fn[c[1]], c[2]>> \in CallGraph
BY DEF CallGraph

LEMMA SiteCallers ==
    ASSUME ProgTypes, NEW c \in Sites
    PROVE  prog.fn[c[1]] \in Callers(c[2])
<1>1. prog.fn[c[1]] \in Fun
    BY SiteTypes DEF ProgTypes
<1>2. <<prog.fn[c[1]], c[2]>> \in Closure(CallGraph)
    BY SiteEdge, ClosureEdge
<1> QED
    BY <1>1, <1>2 DEF Callers

(* Who reaches a candidate is one. *)
LEMMA CallersAreCandidates ==
    ASSUME ProgTypes, NEW g \in LockCandidates, NEW f \in Fun, f \in Callers(g)
    PROVE  f \in LockCandidates
<1>1. PICK i \in LockSites \cup UnlockSites : g \in callersOf[prog.fn[i]]
    BY DEF LockCandidates
<1>2. prog.fn[i] \in Fun
    BY <1>1 DEF ProgTypes, Program, LockSites, UnlockSites
<1>3. f \in callersOf[prog.fn[i]]
    BY <1>1, <1>2, CallersTransitive DEF ProgTypes
<1> QED
    BY <1>3 DEF LockCandidates

LEMMA LockersAreCandidates ==
    ASSUME ProgTypes, NEW i \in LockSites
    PROVE  prog.fn[i] \in LockCandidates
<1>1. prog.fn[i] \in Fun
    BY DEF ProgTypes, Program, LockSites
<1>2. prog.fn[i] \in callersOf[prog.fn[i]]
    BY <1>1 DEF ProgTypes, Callers
<1> QED
    BY <1>1, <1>2 DEF LockCandidates

LEMMA SameAreCallers ==
    ASSUME ProgTypes, NEW f \in Fun, NEW g \in Fun, SameSCC(f, g)
    PROVE  f \in Callers(g) /\ g \in Callers(f)
BY DEF ProgTypes, SameSCC

LEMMA SameCandidate ==
    ASSUME ProgTypes, NEW f \in Fun, NEW g \in Fun, SameSCC(f, g)
    PROVE  f \in LockCandidates <=> g \in LockCandidates
BY SameAreCallers, CallersAreCandidates

(* No entry function is called, so it is on no cycle.                      *)
LEMMA EntryAlone ==
    ASSUME ProgTypes, NEW f \in EntryFuns
    PROVE  /\ \A c \in Sites : c[2] # f
           /\ \A c \in Sites : prog.fn[c[1]] = f => ~ SameSCC(f, c[2])
<1>1. \A c \in Sites : c[2] # f
    BY SiteEdge DEF EntryFuns
<1>2. ASSUME NEW c \in Sites, prog.fn[c[1]] = f, SameSCC(f, c[2])
      PROVE  FALSE
    <2>1. c[2] \in Fun /\ f \in Fun /\ c[2] # f
        BY <1>1, SiteTypes DEF ProgTypes
    <2>2. <<c[2], f>> \in Closure(CallGraph)
        BY <1>2, <2>1, SameAreCallers DEF Callers
    <2>3. \A e \in CallGraph : e = <<e[1], e[2]>>
        BY DEF CallGraph
    <2>4. \E e \in CallGraph : e[2] = f /\ (e[1] = c[2] \/ <<c[2], e[1]>> \in Closure(CallGraph))
        BY <2>2, <2>3, ClosureLast
    <2> QED
        BY <2>4 DEF EntryFuns
<1> QED
    BY <1>1, <1>2

LEMMA CalleeCollected ==
    ASSUME Collected, clpList = {}, NEW p \in visitedCTPs, p[2] \in LockCandidates,
           NEW c \in Sites, prog.fn[c[1]] = p[2]
    PROVE  <<PushLockCxt(p[1], c), c[2]>> \in visitedCTPs
<1>1. LockCallees(p) \subseteq visitedCTPs
    BY DEF Collected
<1> QED
    BY <1>1 DEF LockCallees

(* With one function of a cycle of calls all of it has been collected in   *)
(* the same context.                                                       *)
LEMMA CycleCollected ==
    ASSUME ProgTypes, Collected, clpList = {},
           NEW x, NEW f \in LockCandidates, NEW g \in Fun, SameSCC(f, g),
           <<x, f>> \in visitedCTPs
    PROVE  <<x, g>> \in visitedCTPs
<1> DEFINE S == {h \in Fun : /\ <<f, h>> \in Closure(CallGraph)
                             /\ SameSCC(f, h) => <<x, h>> \in visitedCTPs}
<1>1. f \in Fun
    BY SiteTypes DEF ProgTypes
<1>2. ASSUME NEW e \in CallGraph, e[1] \in {f} \cup S
      PROVE  e[2] \in S
    <2>1. PICK c \in Sites : e = <<prog.fn[c[1]], c[2]>>
        BY DEF CallGraph
    <2> DEFINE h == prog.fn[c[1]]
               k == c[2]
    <2>2. h \in Fun /\ k \in Fun /\ (h = f \/ h \in S)
        BY <1>2, <2>1, SiteTypes DEF ProgTypes
    <2>3. <<h, k>> \in Closure(CallGraph)
        BY SiteEdge, ClosureEdge
    <2>4. <<f, k>> \in Closure(CallGraph)
        BY <2>2, <2>3, ClosureTransitive
    <2>5. ASSUME SameSCC(f, k)
          PROVE  <<x, k>> \in visitedCTPs
        <3>1. h \in Callers(k) /\ k \in Callers(f) /\ f \in Callers(k)
            BY <1>1, <2>2, <2>5, SiteCallers, SameAreCallers
        <3>2. h \in Callers(f)
            BY <2>2, <3>1, CallersTransitive
        <3>3. f \in Callers(h)
            BY <1>1, <2>2 DEF Callers
        <3>4. SameSCC(f, h)
            BY <1>1, <2>2, <3>2, <3>3 DEF SameSCC, ProgTypes
        <3>5. <<x, h>> \in visitedCTPs
            BY <2>2, <3>4
        <3>6. SameSCC(h, k)
            BY <1>1, <2>2, <2>5, <3>4, SameSCCEquivalence DEF ProgTypes
        <3>7. h \in LockCandidates
            BY <1>1, <2>2, <3>4, SameCandidate
        <3>8. <<PushLockCxt(x, c), k>> \in visitedCTPs
            BY <3>5, <3>7, CalleeCollected
        <3> QED
            BY <3>6, <3>8 DEF PushLockCxt
    <2> QED
        BY <2>1, <2>2, <2>4, <2>5
<1>3. CASE f = g
    BY <1>3
<1>4. CASE f # g
    <2>1. <<f, g>> \in Closure(CallGraph)
        BY <1>1, <1>4, SameAreCallers DEF Callers
    <2> HIDE DEF S
    <2>2. g \in S
        BY <1>2, <2>1, ClosureInduction
    <2> QED
        BY <2>2 DEF S
<1> QED
    BY <1>3, <1>4

-----------------------------------------------------------------------------
(* Contexts of statements.                                                 *)

LEMMA OwnerOfWhole ==
    ASSUME NEW x \in Cxt, NEW f
    PROVE  /\ Len(x) \in Nat /\ Owner(x, f, Len(x)) = f
           /\ SubSeq(x, 1, Len(x)) = x
<1>1. x \in Seq(CallSite) /\ Len(x) \in Nat
    BY DEF Cxt
<1> QED
    BY <1>1 DEF Owner

(* Following the control flow of a function. *)
LEMMA InsideCollected ==
    ASSUME ProgTypes, InFunctions, NEW i \in Inst, NEW j \in Next1(i)
    PROVE  j \in Inst /\ prog.fn[j] = prog.fn[i]
<1>1. PICK e \in prog.next : e[1] = i /\ e[2] = j
    BY DEF Next1
<1>2. prog.next \subseteq Inst \X Inst
    BY DEF ProgTypes, Program
<1> QED
    BY <1>1, <1>2 DEF InFunctions

(* A call to the same cycle, or a return from one. *)
LEMMA SameCollected ==
    ASSUME ProgTypes, Collected, clpList = {},
           NEW x \in Cxt, x # <<>>, NEW f \in Fun, NEW g \in Fun, SameSCC(f, g),
           InCollected(x, f)
    PROVE  InCollected(x, g)
<1>1. Len(x) \in Nat /\ Len(x) # 0
    BY DEF Cxt
<1>2. \A n \in 0 .. Len(x) : n # Len(x) => Owner(x, g, n) = Owner(x, f, n)
    BY DEF Owner
<1>3. Owner(x, g, 0) \in EntryFuns
    BY <1>1, <1>2 DEF InCollected
<1>4. ASSUME g \in LockCandidates
      PROVE  <<x, g>> \in visitedCTPs
    <2>1. f \in LockCandidates
        BY <1>4, SameCandidate
    <2>2. <<x, f>> \in visitedCTPs
        BY <1>1, <2>1, OwnerOfWhole DEF InCollected
    <2> QED
        BY <2>1, <2>2, CycleCollected
<1> QED
    BY <1>1, <1>2, <1>3, <1>4, OwnerOfWhole DEF InCollected

(* A call out of a cycle. *)
LEMMA PushedCollected ==
    ASSUME ProgTypes, Collected, clpList = {},
           NEW x \in Cxt, NEW c \in Sites, ~ SameSCC(prog.fn[c[1]], c[2]),
           InCollected(x, prog.fn[c[1]])
    PROVE  Append(x, c) \in Cxt /\ InCollected(Append(x, c), c[2])
<1> DEFINE y == Append(x, c)
           f == prog.fn[c[1]]
           g == c[2]
<1>1. /\ x \in Seq(CallSite) /\ c \in CallSite /\ Len(x) \in Nat
      /\ f \in Fun /\ g \in Fun
    BY SiteTypes DEF Cxt, ProgTypes
<1>2. /\ y \in Seq(CallSite) /\ Len(y) = Len(x) + 1 /\ y[Len(y)] = c
      /\ \A n \in 1 .. Len(x) : y[n] = x[n]
    BY <1>1
<1>3. \A n \in 0 .. Len(x) : SubSeq(y, 1, n) = SubSeq(x, 1, n)
    BY <1>1
<1>4. \A n \in 0 .. Len(x) : Owner(y, g, n) = Owner(x, f, n)
    BY <1>1, <1>2 DEF Owner
<1>5. Owner(y, g, 0) \in EntryFuns
    BY <1>1, <1>4 DEF InCollected
<1>6. ASSUME g \in LockCandidates
      PROVE  <<y, g>> \in visitedCTPs
    <2>1. f \in LockCandidates
        BY <1>1, <1>6, SiteCallers, CallersAreCandidates
    <2>2. <<x, f>> \in visitedCTPs
        BY <1>1, <2>1, OwnerOfWhole DEF InCollected
    <2>3. <<PushLockCxt(x, c), g>> \in visitedCTPs
        BY <2>1, <2>2, CalleeCollected
    <2> QED
        BY <2>3 DEF PushLockCxt
<1>7. y \in Cxt
    BY <1>2 DEF Cxt
<1>8. Owner(y, g, Len(y)) = g /\ SubSeq(y, 1, Len(y)) = y
    BY <1>7, OwnerOfWhole
<1>9. ASSUME NEW n \in 0 .. Len(y), Owner(y, g, n) \in LockCandidates
      PROVE  <<SubSeq(y, 1, n), Owner(y, g, n)>> \in visitedCTPs
    <2>1. CASE n = Len(y)
        BY <1>6, <1>8, <1>9, <2>1
    <2>2. CASE n \in 0 .. Len(x)
        BY <1>3, <1>4, <1>9, <2>2 DEF InCollected
    <2> QED
        BY <1>1, <1>2, <2>1, <2>2
<1> QED
    BY <1>5, <1>7, <1>9 DEF InCollected

(* A return to the call the context ends with. *)
LEMMA PoppedCollected ==
    ASSUME NEW x \in Cxt, x # <<>>, NEW f, InCollected(x, f)
    PROVE  Front(x) \in Cxt /\ InCollected(Front(x), prog.fn[x[Len(x)][1]])
<1> DEFINE y == SubSeq(x, 1, Len(x) - 1)
           g == prog.fn[x[Len(x)][1]]
<1>1. x \in Seq(CallSite) /\ Len(x) \in Nat /\ Len(x) # 0
    BY DEF Cxt
<1>2. Front(x) = y
    BY DEF Front
<1>3. /\ y \in Seq(CallSite) /\ Len(y) = Len(x) - 1
      /\ \A n \in 1 .. Len(x) - 1 : y[n] = x[n]
    BY <1>1
<1>4. \A n \in 0 .. Len(y) : SubSeq(y, 1, n) = SubSeq(x, 1, n)
    BY <1>1
<1>5. \A n \in 0 .. Len(y) : Owner(y, g, n) = Owner(x, f, n)
    BY <1>1, <1>3 DEF Owner
<1>6. 0 \in 0 .. Len(y) /\ 0 .. Len(y) \subseteq 0 .. Len(x)
    BY <1>1, <1>3
<1> HIDE DEF y
<1> QED
    BY <1>2, <1>3, <1>4, <1>5, <1>6 DEF InCollected, Cxt

-----------------------------------------------------------------------------
(* The statements locks are passed to.                                     *)

LEMMA EnteringCollected ==
    ASSUME ProgTypes, InFunctions, Collected, clpList = {},
           NEW s \in Cxt \X Inst, InCollected(s[1], prog.fn[s[2]]),
           NEW c \in Sites, c[1] = s[2]
    PROVE  /\ PushLockCxt(s[1], c) \in Cxt /\ prog.entry[c[2]] \in Inst
           /\ InCollected(PushLockCxt(s[1], c), prog.fn[prog.entry[c[2]]])
<1> DEFINE x == s[1]
           f == prog.fn[c[1]]
<1>1. f \in Fun /\ c[2] \in Fun /\ prog.entry[c[2]] \in Inst /\ prog.fn[prog.entry[c[2]]] = c[2]
    BY SiteTypes DEF ProgTypes, Program, InFunctions
<1>2. x \in Cxt /\ InCollected(x, f)
    OBVIOUS
<1>3. CASE SameSCC(f, c[2])
    <2>1. x # <<>>
        <3>1. x = <<>> => f \in EntryFuns
            BY <1>2 DEF InCollected, Owner
        <3> QED
            BY <1>3, <3>1, EntryAlone
    <2>2. InCollected(x, c[2])
        BY <1>1, <1>2, <1>3, <2>1, SameCollected
    <2> QED
        BY <1>1, <1>2, <1>3, <2>2 DEF PushLockCxt
<1>4. CASE ~ SameSCC(f, c[2])
    <2>1. Append(x, c) \in Cxt /\ InCollected(Append(x, c), c[2])
        BY <1>2, <1>4, PushedCollected
    <2> QED
        BY <1>1, <1>4, <2>1 DEF PushLockCxt
<1> QED
    BY <1>3, <1>4

LEMMA ReturningCollected ==
    ASSUME ProgTypes, InFunctions, Collected, clpList = {},
           NEW s \in Cxt \X Inst, InCollected(s[1], prog.fn[s[2]]),
           NEW c \in prog.calls, c[2] = prog.fn[s[2]],
           NEW y \in MatchLockCxt(s[1], c), NEW j \in Next1(c[1])
    PROVE  /\ y \in Cxt /\ j \in Inst
           /\ InCollected(y, prog.fn[j])
           /\ y = s[1] \/ y = Front(s[1])
<1> DEFINE x == s[1]
           f == prog.fn[s[2]]
           g == prog.fn[c[1]]
<1>1. /\ c \in Sites /\ f \in Fun /\ g \in Fun /\ x \in Cxt
      /\ j \in Inst /\ prog.fn[j] = g
    <2>1. c \in Sites
        BY DEF Sites
    <2>2. c[1] \in Inst /\ f \in Fun /\ g \in Fun
        BY <2>1, SiteTypes DEF ProgTypes, Program
    <2> QED
        BY <2>1, <2>2, InsideCollected
<1>2. x # <<>>
    <2>1. x = <<>> => f \in EntryFuns
        BY DEF InCollected, Owner
    <2> QED
        BY <1>1, <2>1, EntryAlone
<1>3. CASE SameSCC(g, c[2])
    <2>1. y = x
        BY <1>3 DEF MatchLockCxt
    <2>2. SameSCC(f, g)
        BY <1>3 DEF SameSCC
    <2>3. InCollected(x, g)
        BY <1>1, <1>2, <2>2, SameCollected
    <2> QED
        BY <1>1, <2>1, <2>3
<1>4. CASE ~ SameSCC(g, c[2])
    <2>1. y = Front(x) /\ x[Len(x)] = c
        BY <1>2, <1>4 DEF MatchLockCxt
    <2>2. Front(x) \in Cxt /\ InCollected(Front(x), g)
        BY <1>1, <1>2, <2>1, PoppedCollected
    <2> QED
        BY <1>1, <2>1, <2>2
<1> QED
    BY <1>3, <1>4

(* The contexts a step from context x leads to. *)
Near(x) == {x, Front(x)} \cup {Append(x, c) : c \in CallSite}

LEMMA TargetsCollected ==
    ASSUME ProgTypes, InFunctions, Collected, clpList = {},
           NEW s \in Cxt \X Inst, InCollected(s[1], prog.fn[s[2]]),
           NEW held, NEW t \in LockTargets(s, held)
    PROVE  /\ t \in Cxt \X Inst
           /\ InCollected(t[1], prog.fn[t[2]])
           /\ t[1] \in Near(s[1])
<1>1. \/ t \in Following(s)
      \/ \E c \in Sites : c[1] = s[2] /\ t = <<PushLockCxt(s[1], c), prog.entry[c[2]]>>
      \/ t \in Returning(s)
    <2>1. \/ t \in Following(s) \/ t \in Returning(s)
          \/ t \in Entering(s, prog.forks) \/ t \in Entering(s, prog.calls)
        BY Zenon DEF LockTargets
    <2>2. \A c \in prog.forks \cup prog.calls : c \in Sites
        BY DEF Sites
    <2> QED
        BY <2>1, <2>2 DEF Entering
<1>2. CASE t \in Following(s)
    <2>1. t[1] = s[1] /\ t[2] \in Next1(s[2]) /\ t = <<t[1], t[2]>>
        BY <1>2 DEF Following
    <2>2. t[2] \in Inst /\ prog.fn[t[2]] = prog.fn[s[2]]
        BY <2>1, InsideCollected
    <2> QED
        BY <2>1, <2>2 DEF Near
<1>3. ASSUME NEW c \in Sites, c[1] = s[2], t = <<PushLockCxt(s[1], c), prog.entry[c[2]]>>
      PROVE  /\ t \in Cxt \X Inst
             /\ InCollected(t[1], prog.fn[t[2]])
             /\ t[1] \in Near(s[1])
    <2>1. c \in CallSite
        BY SiteTypes DEF ProgTypes
    <2>2. t[1] = s[1] \/ t[1] = Append(s[1], c)
        BY <1>3 DEF PushLockCxt
    <2>3. t[1] \in Near(s[1])
        BY <2>1, <2>2 DEF Near
    <2> QED
        BY <1>3, <2>3, EnteringCollected
<1>4. CASE t \in Returning(s)
    <2>1. PICK c \in prog.calls : c[2] = prog.fn[s[2]] /\ t \in MatchLockCxt(s[1], c) \X Next1(c[1])
        BY <1>4 DEF Returning
    <2>2. t[1] \in MatchLockCxt(s[1], c) /\ t[2] \in Next1(c[1]) /\ t = <<t[1], t[2]>>
        BY <2>1
    <2> QED
        BY <2>1, <2>2, ReturningCollected DEF Near
<1> QED
    BY <1>1, <1>2, <1>3, <1>4

-----------------------------------------------------------------------------
(* The worklist of statements.                                             *)

LEMMA ImageFinite ==
    ASSUME NEW S, IsFiniteSet(S), NEW g, DOMAIN g = S
    PROVE  IsFiniteSet({g[e] : e \in S})
<1> DEFINE T == {g[e] : e \in S}
           h == [e \in S |-> g[e]]
<1>1. h \in [S -> T] /\ \A t \in T : \E e \in S : h[e] = t
    OBVIOUS
<1>2. h \in Surjection(S, T)
    BY <1>1 DEF Surjection
<1> QED
    BY <1>2, FS_Surjection DEF ExistsSurjection

(* A sequence that SetToSeqs gives for a finite set holds that set.        *)
LEMMA SeqOfSet ==
    ASSUME NEW S, IsFiniteSet(S), NEW q \in SetToSeqs(S)
    PROVE  q \in Seq(S) /\ ToSet(q) \subseteq S
<1>1. Cardinality(S) \in Nat
    BY FS_CardinalityType
<1>2. q \in [1 .. Cardinality(S) -> S]
    BY DEF SetToSeqs
<1>3. q \in Seq(S)
    BY <1>1, <1>2
<1> QED
    BY <1>2, <1>3 DEF ToSet

LEMMA TailThen ==
    ASSUME NEW U, NEW q \in Seq(U), q # <<>>, NEW new \in Seq(U)
    PROVE  /\ Head(q) \in ToSet(q) /\ Head(q) \in U
           /\ Tail(q) \o new \in Seq(U)
           /\ ToSet(Tail(q) \o new) \subseteq ToSet(q) \cup ToSet(new)
<1>1. Len(q) \in Nat \ {0} /\ Len(new) \in Nat /\ Tail(q) \in Seq(U) /\ Len(Tail(q)) = Len(q) - 1
    OBVIOUS
<1>2. DOMAIN q = 1 .. Len(q) /\ DOMAIN new = 1 .. Len(new)
    OBVIOUS
<1>3. Head(q) = q[1] /\ q[1] \in U
    BY <1>1
<1>4. \A k \in 1 .. Len(q) - 1 : Tail(q)[k] = q[k + 1]
    BY <1>1
<1>5. Tail(q) \o new \in Seq(U) /\ Len(Tail(q) \o new) = Len(q) - 1 + Len(new)
    BY <1>1
<1>6. ASSUME NEW k \in 1 .. Len(q) - 1 + Len(new)
      PROVE  (Tail(q) \o new)[k] \in ToSet(q) \cup ToSet(new)
    <2>1. CASE k <= Len(q) - 1
        <3>1. (Tail(q) \o new)[k] = q[k + 1] /\ k + 1 \in 1 .. Len(q)
            BY <1>1, <1>4, <2>1
        <3> QED
            BY <1>2, <3>1 DEF ToSet
    <2>2. CASE k > Len(q) - 1
        <3>1. (Tail(q) \o new)[k] = new[k - (Len(q) - 1)] /\ k - (Len(q) - 1) \in 1 .. Len(new)
            BY <1>1, <2>2
        <3> QED
            BY <1>2, <3>1 DEF ToSet
    <2> QED
        BY <1>1, <2>1, <2>2
<1>7. DOMAIN (Tail(q) \o new) = 1 .. Len(q) - 1 + Len(new)
    BY <1>5
<1>8. ToSet(Tail(q) \o new) \subseteq ToSet(q) \cup ToSet(new)
    <2>1. \A t \in ToSet(Tail(q) \o new) : \E k \in 1 .. Len(q) - 1 + Len(new) : t = (Tail(q) \o new)[k]
        BY <1>7 DEF ToSet
    <2> QED
        BY <1>6, <2>1
<1>9. Head(q) \in ToSet(q)
    BY <1>1, <1>2, <1>3 DEF ToSet
<1> QED
    BY <1>3, <1>5, <1>8, <1>9

(* There are finitely many calls, so finitely many statements are next.    *)
LEMMA TargetsFinite ==
    ASSUME NEW x, NEW T, T \subseteq Near(x) \X Inst
    PROVE  IsFiniteSet(T)
<1> DEFINE appended == [c \in CallSite |-> Append(x, c)]
           A == {appended[c] : c \in CallSite}
<1>1. IsFiniteSet(CallSite)
    BY FiniteAssumption, FS_Product DEF CallSite
<1>2. IsFiniteSet(A)
    BY <1>1, ImageFinite
<1>3. IsFiniteSet({x}) /\ IsFiniteSet({Front(x)})
    BY FS_Singleton
<1>4. Near(x) = {x} \cup ({Front(x)} \cup A)
    BY DEF Near
<1> HIDE DEF A
<1>5. IsFiniteSet(Near(x))
    <2>1. IsFiniteSet({Front(x)} \cup A)
        BY <1>2, <1>3, FS_Union
    <2>2. IsFiniteSet({x} \cup ({Front(x)} \cup A))
        <3> DEFINE B == {Front(x)} \cup A
        <3>1. IsFiniteSet(B)
            BY <2>1
        <3> HIDE DEF B
        <3>2. IsFiniteSet({x} \cup B)
            BY <1>3, <3>1, FS_Union
        <3> QED
            BY <3>2 DEF B
    <2> QED
        BY <1>4, <2>2
<1>6. IsFiniteSet(Near(x) \X Inst)
    BY <1>5, FiniteAssumption, FS_Product
<1> QED
    BY <1>6, FS_Subset

LEMMA VisitKeepsLocks ==
    ASSUME LockInv, InFunctions, VisitStmt, UNCHANGED progVars
    PROVE  LockInv'
<1> DEFINE s == Head(cxtStmts)
           held == IF s \in DOMAIN lockset THEN lockset[s] ELSE {}
           sets == [t \in DOMAIN lockset \cup {s} |->
                       IF t = s THEN LocksBehind(s, held) ELSE lockset[t]]
           targets == LockTargets(s, held)
           T == Reduced(sets, s, targets) \ ToSet(Tail(cxtStmts))
<1>1. PICK new \in SetToSeqs(T) : cxtStmts' = Tail(cxtStmts) \o new
    BY DEF VisitStmt
<1>2. /\ lockPc = "span" /\ cxtStmts # <<>> /\ cxtStmts \in Seq(Cxt \X Inst) /\ clpList = {}
      /\ ProgTypes /\ Collected
    BY DEF VisitStmt, LockInv, LockTypes, LockPhases
<1>3. UNCHANGED <<lockPc, clpList, visitedCTPs, cxtLocks>> /\ prog' = prog
    BY DEF VisitStmt, progVars
<1>4. s \in Cxt \X Inst /\ s \in ToSet(cxtStmts)
    <2>1. <<>> \in Seq(Cxt \X Inst)
        OBVIOUS
    <2> QED
        BY <1>2, <2>1, TailThen
<1>5. InCollected(s[1], prog.fn[s[2]])
    BY <1>4 DEF LockInv, StmtsCollected
<1> HIDE DEF s, held, sets
<1>6. T \subseteq targets
    BY DEF Reduced
<1>7. \A t \in T : /\ t \in Cxt \X Inst
                   /\ InCollected(t[1], prog.fn[t[2]])
                   /\ t[1] \in Near(s[1])
    BY <1>2, <1>4, <1>5, <1>6, TargetsCollected
<1> HIDE DEF T, targets
<1>8. IsFiniteSet(T)
    <2>1. T \subseteq Near(s[1]) \X Inst
        BY <1>7
    <2> QED
        BY <2>1, TargetsFinite
<1>9. new \in Seq(T) /\ ToSet(new) \subseteq T
    BY <1>1, <1>8, SeqOfSet
<1>10. new \in Seq(Cxt \X Inst)
    BY <1>7, <1>9
<1>11. cxtStmts' \in Seq(Cxt \X Inst) /\ ToSet(cxtStmts') \subseteq ToSet(cxtStmts) \cup T
    <2>1. /\ Tail(cxtStmts) \o new \in Seq(Cxt \X Inst)
          /\ ToSet(Tail(cxtStmts) \o new) \subseteq ToSet(cxtStmts) \cup ToSet(new)
        BY <1>2, <1>10, TailThen
    <2> QED
        BY <1>1, <1>9, <2>1
<1>12. ProgTypes' /\ LockTypes' /\ LockPhases' /\ Collected'
    BY <1>2, <1>3, <1>11, LocksStable DEF LockInv, LockTypes, LockPhases, Collected
<1>13. \A x, f : InCollected(x, f)' = InCollected(x, f)
    BY <1>3, LocksStable DEF InCollected
<1>14. \A t \in ToSet(cxtStmts') : InCollected(t[1], prog.fn[t[2]])
    BY <1>7, <1>11 DEF LockInv, StmtsCollected
<1>15. StmtsCollected'
    <2>1. ToSet(cxtStmts)' = ToSet(cxtStmts')
        BY DEF ToSet
    <2> QED
        BY <1>3, <1>13, <1>14, <2>1 DEF StmtsCollected
<1> QED
    BY <1>12, <1>15 DEF LockInv

-----------------------------------------------------------------------------
(* The other steps of LockAnalysis.                                        *)

LEMMA IntraKeepsLocks ==
    ASSUME LockInv, UNCHANGED progVars, NEW l, AnalyzeIntraProcedualLock(l)
    PROVE  LockInv'
<1>1. /\ lockPc' = lockPc /\ clpList' = clpList /\ visitedCTPs' = visitedCTPs
      /\ cxtLocks' = cxtLocks /\ cxtStmts' = cxtStmts /\ prog' = prog
    BY DEF AnalyzeIntraProcedualLock, progVars
<1>2. ProgTypes' /\ LockTypes' /\ LockPhases' /\ Collected'
    BY <1>1, LocksStable DEF LockInv, LockTypes, LockPhases, Collected
<1>3. \A x, f : InCollected(x, f)' = InCollected(x, f)
    BY <1>1, LocksStable DEF InCollected
<1>4. StmtsCollected'
    BY <1>1, <1>3 DEF LockInv, StmtsCollected, ToSet
<1> QED
    BY <1>2, <1>4 DEF LockInv

LEMMA NoStmts ==
    ASSUME cxtStmts = <<>>
    PROVE  StmtsCollected
<1>1. ToSet(cxtStmts) = {}
    BY DEF ToSet
<1> QED
    BY <1>1 DEF StmtsCollected

LEMMA NoStmtsNext ==
    ASSUME cxtStmts' = <<>>
    PROVE  StmtsCollected'
<1>1. ToSet(cxtStmts)' = {}
    BY DEF ToSet
<1> QED
    BY <1>1 DEF StmtsCollected

LEMMA EntriesTypes ==
    ASSUME ProgTypes
    PROVE  Entries \subseteq Cxt \X Fun
<1>1. EntryFuns \subseteq Fun
    BY SiteTypes DEF ProgTypes
<1>2. <<>> \in Cxt
    BY DEF Cxt
<1> QED
    BY <1>1, <1>2 DEF Entries

LEMMA BeginCollectingKeepsLocks ==
    ASSUME LockInv, UNCHANGED progVars, BeginCollecting
    PROVE  LockInv'
<1>1. /\ lockPc = "intra" /\ lockPc' = "collect"
      /\ clpList' = Entries /\ visitedCTPs' = Entries
      /\ cxtStmts' = cxtStmts /\ cxtStmts = <<>>
    BY DEF BeginCollecting, Entries, LockInv, LockPhases
<1>2. ProgTypes' /\ Entries' = Entries
    BY LocksStable DEF LockInv
<1>3. LockTypes'
    BY <1>1, EntriesTypes DEF LockInv, LockTypes
<1>4. LockPhases' /\ Collected'
    BY <1>1, <1>2 DEF LockPhases, Collected
<1> QED
    BY <1>1, <1>2, <1>3, <1>4, NoStmtsNext DEF LockInv

LEMMA CalleesTypes ==
    ASSUME ProgTypes, NEW p \in Cxt \X Fun
    PROVE  LockCallees(p) \subseteq Cxt \X Fun
<1> SUFFICES ASSUME NEW c \in Sites
             PROVE  PushLockCxt(p[1], c) \in Cxt /\ c[2] \in Fun
    BY DEF LockCallees
<1>1. c \in CallSite /\ c[2] \in Fun
    BY SiteTypes DEF ProgTypes
<1>2. p[1] \in Seq(CallSite)
    BY DEF Cxt
<1>3. Append(p[1], c) \in Seq(CallSite)
    BY <1>1, <1>2
<1> QED
    BY <1>1, <1>2, <1>3 DEF PushLockCxt, Cxt

LEMMA CollectKeepsLocks ==
    ASSUME LockInv, UNCHANGED progVars, NEW p \in clpList, CollectCxtLock(p)
    PROVE  LockInv'
<1>1. /\ lockPc = "collect" /\ lockPc' = lockPc /\ cxtStmts' = cxtStmts /\ cxtStmts = <<>>
      /\ p \in visitedCTPs /\ visitedCTPs \subseteq Cxt \X Fun /\ clpList \subseteq visitedCTPs
    BY DEF CollectCxtLock, LockInv, LockTypes, LockPhases
<1>2. /\ Entries' = Entries /\ LockCandidates' = LockCandidates
      /\ \A q : LockCallees(q)' = LockCallees(q) /\ LocksOf(q)' = LocksOf(q)
      /\ ProgTypes'
    BY LocksStable DEF LockInv
<1>3. LockCallees(p) \subseteq Cxt \X Fun
    BY <1>1, CalleesTypes DEF LockInv
<1>4. CASE p[2] \in LockCandidates
    <2>1. /\ cxtLocks' = cxtLocks \cup LocksOf(p)
          /\ clpList' = (clpList \ {p}) \cup (LockCallees(p) \ visitedCTPs)
          /\ visitedCTPs' = visitedCTPs \cup LockCallees(p)
        BY <1>4 DEF CollectCxtLock, LocksOf
    <2>2. LockTypes' /\ LockPhases'
        BY <1>1, <1>2, <1>3, <2>1 DEF LockInv, LockTypes, LockPhases
    <2>3. \A q \in visitedCTPs' \ clpList' : q = p \/ q \in visitedCTPs \ clpList
        BY <2>1
    <2>4. Collected'
        BY <1>2, <2>1, <2>3 DEF LockInv, Collected
    <2> QED
        BY <1>1, <1>2, <2>2, <2>4, NoStmtsNext DEF LockInv
<1>5. CASE p[2] \notin LockCandidates
    <2>1. clpList' = clpList \ {p} /\ UNCHANGED <<cxtLocks, visitedCTPs>>
        BY <1>5 DEF CollectCxtLock
    <2>2. LockTypes' /\ LockPhases'
        BY <1>1, <1>2, <2>1 DEF LockInv, LockTypes, LockPhases
    <2>3. \A q \in visitedCTPs' \ clpList' : q = p \/ q \in visitedCTPs \ clpList
        BY <2>1
    <2>4. Collected'
        BY <1>2, <1>5, <2>1, <2>3 DEF LockInv, Collected
    <2> QED
        BY <1>1, <1>2, <2>2, <2>4, NoStmtsNext DEF LockInv
<1> QED
    BY <1>4, <1>5

LEMMA BeginSpansKeepsLocks ==
    ASSUME LockInv, InFunctions, UNCHANGED progVars, BeginSpans
    PROVE  LockInv'
<1> DEFINE T == {<<<<>>, prog.entry[f]>> : f \in EntryFuns \cap LockCandidates}
<1>1. /\ lockPc = "collect" /\ lockPc' = "span" /\ clpList = {} /\ cxtStmts' \in SetToSeqs(T)
      /\ UNCHANGED <<clpList, visitedCTPs, cxtLocks>> /\ prog' = prog
      /\ ProgTypes /\ Entries \subseteq visitedCTPs
    BY DEF BeginSpans, progVars, LockInv, LockPhases
<1>2. <<>> \in Cxt /\ EntryFuns \subseteq Fun /\ \A f \in Fun : prog.entry[f] \in Inst
    BY <1>1, SiteTypes DEF ProgTypes, Program, Cxt
<1>3. ASSUME NEW t \in T
      PROVE  t \in {<<>>} \X Inst /\ InCollected(t[1], prog.fn[t[2]])
    <2>1. PICK f \in EntryFuns \cap LockCandidates : t = <<<<>>, prog.entry[f]>>
        OBVIOUS
    <2>2. prog.fn[prog.entry[f]] = f /\ prog.entry[f] \in Inst
        BY <1>2 DEF InFunctions
    <2>3. Owner(<<>>, f, 0) = f /\ SubSeq(<<>>, 1, 0) = <<>>
        BY <1>2, OwnerOfWhole DEF Owner
    <2>4. <<<<>>, f>> \in visitedCTPs
        BY <1>1 DEF Entries
    <2>5. InCollected(<<>>, f)
        <3>1. 0 .. Len(<<>>) = {0}
            OBVIOUS
        <3> QED
            BY <2>3, <2>4, <3>1 DEF InCollected
    <2> QED
        BY <2>1, <2>2, <2>5
<1> HIDE DEF T
<1>4. IsFiniteSet(T)
    <2>1. IsFiniteSet({<<>>} \X Inst)
        BY FiniteAssumption, FS_Singleton, FS_Product
    <2>2. T \subseteq {<<>>} \X Inst
        BY <1>3
    <2> QED
        BY <2>1, <2>2, FS_Subset
<1>5. cxtStmts' \in Seq(T) /\ ToSet(cxtStmts') \subseteq T
    BY <1>1, <1>4, SeqOfSet
<1>6. cxtStmts' \in Seq(Cxt \X Inst)
    BY <1>2, <1>3, <1>5
<1>7. ProgTypes' /\ LockTypes' /\ LockPhases' /\ Collected'
    BY <1>1, <1>6, LocksStable DEF LockInv, LockTypes, LockPhases, Collected
<1>8. \A x, f : InCollected(x, f)' = InCollected(x, f)
    BY <1>1, LocksStable DEF InCollected
<1>9. StmtsCollected'
    <2>1. ToSet(cxtStmts)' = ToSet(cxtStmts')
        BY DEF ToSet
    <2> QED
        BY <1>1, <1>3, <1>5, <1>8, <2>1 DEF StmtsCollected
<1> QED
    BY <1>7, <1>9 DEF LockInv

LEMMA FinishKeepsLocks ==
    ASSUME LockInv, UNCHANGED progVars, FinishLocks
    PROVE  LockInv'
<1>1. /\ lockPc = "span" /\ lockPc' = "done" /\ cxtStmts' = <<>>
      /\ UNCHANGED <<clpList, visitedCTPs, cxtLocks, cxtStmts>>
    BY DEF FinishLocks
<1>2. ProgTypes' /\ LockTypes' /\ LockPhases' /\ Collected'
    BY <1>1, LocksStable DEF LockInv, LockTypes, LockPhases, Collected
<1> QED
    BY <1>1, <1>2, NoStmtsNext DEF LockInv

-----------------------------------------------------------------------------
(* The system.                                                             *)

RaceInv == InFunctions => LockInv

LEMMA RaceInvInit == Init => RaceInv
<1> SUFFICES ASSUME Init
             PROVE  LockInv
    BY DEF RaceInv
<1>1. /\ lockPc = "intra" /\ clpList = {} /\ visitedCTPs = {} /\ cxtStmts = <<>>
    BY DEF Init, LockInit
<1>2. ProgTypes
    BY ProgramAssumption DEF Init, MHPInit, TCTInit, ProgramInit, ProgTypes
<1>3. <<>> \in Seq(Cxt \X Inst)
    OBVIOUS
<1>4. LockTypes /\ LockPhases /\ Collected
    BY <1>1, <1>3 DEF LockTypes, LockPhases, Collected
<1> QED
    BY <1>1, <1>2, <1>4, NoStmts DEF LockInv

(* The program is the same all along. *)
LEMMA ProgramKept ==
    ASSUME [Next]_annotationVars
    PROVE  /\ UNCHANGED progVars
           /\ UNCHANGED lockVars \/ LockNext
<1>1. MHPNext => UNCHANGED progVars
    BY DEF MHPNext, BuildTCT, ProcessCtp, BeginMHP, CollectMultiForkedThreads, StartRoot,
           ProcessStmt, FinishMHP, tctVars, progVars
<1> QED
    BY <1>1 DEF Next, Annotate, RunAnnotated, computeMHP, computeLocksets, pruneAliasMHP,
           annotationVars, mhpVars, tctVars

LEMMA RaceInvStep == RaceInv /\ [Next]_annotationVars => RaceInv'
<1> SUFFICES ASSUME RaceInv, [Next]_annotationVars, InFunctions'
             PROVE  LockInv'
    BY DEF RaceInv
<1>1. UNCHANGED progVars
    BY ProgramKept
<1>2. InFunctions /\ LockInv
    BY <1>1, LocksStable DEF RaceInv
<1>3. CASE UNCHANGED lockVars
    BY <1>1, <1>2, <1>3, LockInvStable
<1>4. ASSUME NEW l \in lockTodo, AnalyzeIntraProcedualLock(l)
      PROVE  LockInv'
    BY <1>1, <1>2, <1>4, IntraKeepsLocks
<1>5. CASE BeginCollecting
    BY <1>1, <1>2, <1>5, BeginCollectingKeepsLocks
<1>6. ASSUME NEW p \in clpList, CollectCxtLock(p)
      PROVE  LockInv'
    BY <1>1, <1>2, <1>6, CollectKeepsLocks
<1>7. CASE BeginSpans
    BY <1>1, <1>2, <1>7, BeginSpansKeepsLocks
<1>8. CASE VisitStmt
    BY <1>1, <1>2, <1>8, VisitKeepsLocks
<1>9. CASE FinishLocks
    BY <1>1, <1>2, <1>9, FinishKeepsLocks
<1> QED
    BY <1>3, <1>4, <1>5, <1>6, <1>7, <1>8, <1>9, ProgramKept DEF LockNext

LEMMA LockInvCollected == LockInv => LocksCollected
<1> SUFFICES ASSUME LockInv, NEW s \in ToSet(cxtStmts), s[2] \in LockSites
             PROVE  s \in cxtLocks
    BY DEF LocksCollected
<1> DEFINE f == prog.fn[s[2]]
<1>1. cxtStmts \in Seq(Cxt \X Inst) /\ s \in Cxt \X Inst /\ cxtStmts # <<>>
    <2>1. cxtStmts \in Seq(Cxt \X Inst)
        BY DEF LockInv, LockTypes
    <2>2. PICK k \in DOMAIN cxtStmts : s = cxtStmts[k]
        BY DEF ToSet
    <2> QED
        BY <2>1, <2>2
<1>2. clpList = {} /\ Collected /\ ProgTypes
    BY <1>1 DEF LockInv, LockPhases
<1>3. f \in LockCandidates
    BY <1>2, LockersAreCandidates
<1>4. InCollected(s[1], f)
    BY DEF LockInv, StmtsCollected
<1>5. <<s[1], f>> \in visitedCTPs
    <2>1. Len(s[1]) \in 0 .. Len(s[1])
        BY <1>1, OwnerOfWhole
    <2> QED
        BY <1>1, <1>3, <1>4, <2>1, OwnerOfWhole DEF InCollected
<1>6. LocksOf(<<s[1], f>>) \subseteq cxtLocks
    BY <1>2, <1>3, <1>5 DEF Collected
<1> QED
    BY <1>1, <1>6 DEF LocksOf

(* In every program, whatever its calls, forks and cycles of calls, a lock *)
(* that analyzeLockSpanCxtStmt meets in some context is one that           *)
(* collectCxtLock found in that context, as an assertion wants it          *)
(* (LockAnalysis.cpp).                                                     *)
THEOREM LocksAreCollected == Spec => [](InFunctions => LocksCollected)
<1>1. Spec => []RaceInv
    BY RaceInvInit, RaceInvStep, PTL DEF Spec
<1>2. RaceInv => (InFunctions => LocksCollected)
    BY LockInvCollected DEF RaceInv
<1> QED
    BY <1>1, <1>2, PTL
=============================================================================
