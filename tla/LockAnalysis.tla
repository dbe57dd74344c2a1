---------------------------- MODULE LockAnalysis ----------------------------
(***************************************************************************)
(* Class LockAnalysis: the locks an instruction is protected by, first     *)
(* within functions, then in calling contexts, where sets of locks are     *)
(* pushed along calls, forks and returns and cut where paths meet.         *)
(***************************************************************************)
EXTENDS ThreadProgram, SequencesExt

VARIABLES
    lockPc,      \* the phase: "intra", "collect", "span", "done"
    lockTodo,    \* lock sites whose function has not been searched
    ciLocks,     \* instCILocksMap: pairs of an instruction and a lock site
    condLocks,   \* instTocondCILocksMap
    clpList,     \* clpList: contexts and functions to collect locks in
    visitedCTPs,
    cxtLocks,    \* cxtLockset: contexts and lock sites
    cxtStmts,    \* cxtStmtList: contexts and instructions, first in first out
    lockset      \* cxtStmtToCxtLockSet

lockVars == <<lockPc, lockTodo, ciLocks, condLocks, clpList, visitedCTPs, cxtLocks, cxtStmts, lockset>>

LockInit ==
    /\ lockPc = "intra" /\ lockTodo = LockSites
    /\ ciLocks = {} /\ condLocks = {}
    /\ clpList = {} /\ visitedCTPs = {} /\ cxtLocks = {}
    /\ cxtStmts = <<>> /\ lockset = <<>>

-----------------------------------------------------------------------------
Names(i) == {c[2] : c \in {x \in prog.locks \cup prog.unlocks : x[1] = i}}
isAliasedLocks(i, j) == Names(i) \cap Names(j) # {}

(* The instructions reached from i along the edges of flow. *)
From(i, flow) ==
    LET reached[R \in SUBSET Inst] ==
            IF \A e \in flow : e[1] \in R => e[2] \in R THEN R
            ELSE reached[R \cup {e[2] : e \in {x \in flow : x[1] \in R}}]
    IN  reached[{i}]

(* intraForwardTraverse: from a lock to the unlocks that match it. *)
Forward(l) == From(l, {e \in prog.next : ~ (e[1] \in UnlockSites /\ isAliasedLocks(l, e[1]))})

(* intraBackwardTraverse: what has been seen is not left again, even if it *)
(* stopped at a lock that matches another unlock only.                     *)
Backward(us) ==
    FoldLeft(LAMBDA seen, u :
                 seen \cup From(u, {<<e[2], e[1]>> : e \in {x \in prog.next :
                     /\ x[2] \notin seen
                     /\ ~ (x[2] \in LockSites /\ isAliasedLocks(u, x[2]))}}),
             {}, us)

(* A lock that every path releases is intra-procedural; it is conditional  *)
(* if going back from there the end of the entry block is found.           *)
AnalyzeIntraProcedualLock(l) ==
    /\ lockPc = "intra" /\ l \in lockTodo
    /\ lockTodo' = lockTodo \ {l}
    /\ \E us \in SetToSeqs({u \in UnlockSites : u \in Forward(l) /\ isAliasedLocks(l, u)}) :
          LET forward == Forward(l) \cap prog.rets = {}
              backward == prog.entryEnd[prog.fn[l]] \notin Backward(us)
          IN  /\ ciLocks' = ciLocks \cup (IF forward /\ backward THEN Forward(l) \X {l} ELSE {})
              /\ condLocks' = condLocks \cup (IF forward /\ ~ backward THEN Forward(l) \X {l} ELSE {})
    /\ UNCHANGED <<lockPc, clpList, visitedCTPs, cxtLocks, cxtStmts, lockset>>

-----------------------------------------------------------------------------
(* Contexts, which leave out calls within a cycle of calls. *)
PushLockCxt(cxt, c) == IF SameSCC(prog.fn[c[1]], c[2]) THEN cxt ELSE Append(cxt, c)

MatchLockCxt(cxt, c) ==
    IF cxt = <<>> \/ SameSCC(prog.fn[c[1]], c[2]) THEN {cxt}
    ELSE IF cxt[Len(cxt)] = c THEN {Front(cxt)} ELSE {}

(* buildCandidateFuncSetforLock *)
LockCandidates ==
    {f \in Fun : \E i \in LockSites \cup UnlockSites : f \in callersOf[prog.fn[i]]}

BeginCollecting ==
    /\ lockPc = "intra" /\ lockTodo = {}
    /\ lockPc' = "collect"
    /\ clpList' = {<<<<>>, f>> : f \in EntryFuns \cap LockCandidates}
    /\ visitedCTPs' = clpList'
    /\ UNCHANGED <<lockTodo, ciLocks, condLocks, cxtLocks, cxtStmts, lockset>>

(* Variant: forks keep the context of the function that forks. *)
LockCalleesForked(p) ==
    {<<PushLockCxt(p[1], c), c[2]>> : c \in {x \in prog.calls : prog.fn[x[1]] = p[2]}} \cup
    {<<p[1], c[2]>> : c \in {x \in prog.forks : prog.fn[x[1]] = p[2]}}

LockCallees(p) == {<<PushLockCxt(p[1], c), c[2]>> : c \in {x \in Sites : prog.fn[x[1]] = p[2]}}

(* collectCxtLock with handleCallRelation: the locks of a function in one  *)
(* context, and the functions it calls or forks.                           *)
CollectCxtLock(p) ==
    /\ lockPc = "collect" /\ p \in clpList
    /\ IF p[2] \in LockCandidates
       THEN /\ cxtLocks' = cxtLocks \cup ({p[1]} \X {l \in LockSites : prog.fn[l] = p[2]})
            /\ clpList' = (clpList \ {p}) \cup (LockCallees(p) \ visitedCTPs)
            /\ visitedCTPs' = visitedCTPs \cup LockCallees(p)
       ELSE clpList' = clpList \ {p} /\ UNCHANGED <<cxtLocks, visitedCTPs>>
    /\ UNCHANGED <<lockPc, lockTodo, ciLocks, condLocks, cxtStmts, lockset>>

BeginSpans ==
    /\ lockPc = "collect" /\ clpList = {}
    /\ lockPc' = "span"
    /\ cxtStmts' \in SetToSeqs({<<<<>>, prog.entry[f]>> : f \in EntryFuns \cap LockCandidates})
    /\ UNCHANGED <<lockTodo, ciLocks, condLocks, clpList, visitedCTPs, cxtLocks, lockset>>

-----------------------------------------------------------------------------
(* The statements the locks of a statement are passed to. *)
Following(s) == {s[1]} \X Next1(s[2])
Entering(s, sites) ==
    {<<PushLockCxt(s[1], c), prog.entry[c[2]]>> : c \in {x \in sites : x[1] = s[2]}}
Returning(s) ==
    UNION {MatchLockCxt(s[1], c) \X Next1(c[1]) : c \in {x \in prog.calls : x[2] = prog.fn[s[2]]}}

(* addCxtStmtToSpan and removeCxtStmtToSpan are given the statement itself *)
(* as the lock: a lock met again stops, and so does every unlock.  Calls   *)
(* without a callee are external ones in the programs and are passed; at   *)
(* one of a pointer that leads nowhere the code would stop.                *)
LockTargets(s, held) ==
    CASE s[2] \in ForkSites -> Entering(s, prog.forks) \cup Following(s)
      [] s[2] \in LockSites -> IF s \in held THEN {} ELSE Following(s)
      [] s[2] \in UnlockSites -> IF s \in held THEN Following(s) ELSE {}
      [] Callees(s[2]) # {} -> Entering(s, prog.calls)
      [] s[2] \in prog.rets -> Returning(s)
      [] OTHER -> Following(s)

LocksBehind(s, held) ==
    IF s[2] \in LockSites THEN held \cup {s}
    ELSE IF s[2] \in UnlockSites THEN held \ {s} ELSE held

(* Variant: where paths meet the locks of the first remain. *)
MarkFirst(sets, s, targets) ==
    [t \in DOMAIN sets \cup (IF sets[s] = {} THEN {} ELSE targets) |->
        IF t \in DOMAIN sets THEN sets[t] ELSE sets[s]]

(* markCxtStmtFlag: a target met for the first time takes the locks, which *)
(* enters it in the map only if there are any; another keeps what is       *)
(* common.                                                                 *)
Mark(sets, s, targets) ==
    [t \in DOMAIN sets \cup (IF sets[s] = {} THEN {} ELSE targets) |->
        IF t \notin DOMAIN sets THEN sets[s]
        ELSE IF t \in targets THEN sets[t] \cap sets[s] ELSE sets[t]]

(* Variant: every target is visited again. *)
ReducedAll(sets, s, targets) == targets

Reduced(sets, s, targets) == {t \in targets : t \in DOMAIN sets => ~ (sets[t] \subseteq sets[s])}

(* One statement of analyzeLockSpanCxtStmt; successors and callees come in *)
(* any order.                                                              *)
VisitStmt ==
    LET s == Head(cxtStmts)
        held == IF s \in DOMAIN lockset THEN lockset[s] ELSE {}
        sets == [t \in DOMAIN lockset \cup {s} |->
                    IF t = s THEN LocksBehind(s, held) ELSE lockset[t]]
        targets == LockTargets(s, held)
    IN  /\ lockPc = "span" /\ cxtStmts # <<>>
        /\ lockset' = Mark(sets, s, targets)
        /\ \E new \in SetToSeqs(Reduced(sets, s, targets) \ ToSet(Tail(cxtStmts))) :
              cxtStmts' = Tail(cxtStmts) \o new
        /\ UNCHANGED <<lockPc, lockTodo, ciLocks, condLocks, clpList, visitedCTPs, cxtLocks>>

FinishLocks ==
    /\ lockPc = "span" /\ cxtStmts = <<>>
    /\ lockPc' = "done"
    /\ UNCHANGED <<lockTodo, ciLocks, condLocks, clpList, visitedCTPs, cxtLocks, cxtStmts, lockset>>

LockNext ==
    \/ \E l \in lockTodo : AnalyzeIntraProcedualLock(l)
    \/ BeginCollecting
    \/ \E p \in clpList : CollectCxtLock(p)
    \/ BeginSpans
    \/ VisitStmt
    \/ FinishLocks

-----------------------------------------------------------------------------
(* The queries. *)
IntraLocks(i) == {x[2] : x \in {y \in ciLocks : y[1] = i}}
InsideCond(i) == \E l \in LockSites : <<i, l>> \in condLocks
InsideIntra(i) == IntraLocks(i) # {} \/ InsideCond(i)
CxtStmtsOf(i) == {s \in DOMAIN lockset : s[2] = i}

isProtectedByCommonCILock(i, j) ==
    /\ ~ InsideCond(i) /\ ~ InsideCond(j)
    /\ \E k \in IntraLocks(i), l \in IntraLocks(j) : isAliasedLocks(k, l)

(* Variant: contexts without locks are passed over. *)
isProtectedWhereLocked(i, j) ==
    /\ CxtStmtsOf(i) # {} /\ CxtStmtsOf(j) # {}
    /\ \A s \in CxtStmtsOf(i), t \in CxtStmtsOf(j) :
          s # t /\ lockset[s] # {} /\ lockset[t] # {}
          => \E k \in lockset[s], l \in lockset[t] : isAliasedLocks(k[2], l[2])

isProtectedByCommonCxtLock(i, j) ==
    /\ CxtStmtsOf(i) # {} /\ CxtStmtsOf(j) # {}
    /\ \A s \in CxtStmtsOf(i), t \in CxtStmtsOf(j) :
          s # t => \E k \in lockset[s], l \in lockset[t] : isAliasedLocks(k[2], l[2])

isProtectedByCommonLock(i, j) ==
    IF InsideIntra(i) /\ InsideIntra(j)
    THEN isProtectedByCommonCILock(i, j) ELSE isProtectedByCommonCxtLock(i, j)
=============================================================================
