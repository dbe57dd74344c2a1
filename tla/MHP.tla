-------------------------------- MODULE MHP --------------------------------
(***************************************************************************)
(* Class MHP: for every instruction a thread may come to in some context,  *)
(* the threads that may be alive at the same time.  The sets are pushed    *)
(* along the control flow of one thread after the other.  Joins do not     *)
(* shrink them: ForkJoinAnalysis matches a join with a fork site only if   *)
(* isSameSCEV holds, and it always returns false, so that no thread is     *)
(* found joined, or to happen before another.                              *)
(***************************************************************************)
EXTENDS ThreadCreateTree

VARIABLES
    inter,  \* threadStmtToTheadInterLeav, as pairs of statement and thread
    stmts,  \* cxtStmtList
    roots   \* the threads whose analysis has not begun

mhpVars == <<tctVars, inter, stmts, roots>>

(* CxtThreadStmt: thread, context and instruction. *)
Stmt == Tid \X Cxt \X Inst

Inter(s) == {x[2] : x \in {y \in inter : y[1] = s}}

MHPInit ==
    /\ TCTInit
    /\ inter = {} /\ stmts = {} /\ roots = {}

BuildTCT ==
    /\ \E p \in ctpList : ProcessCtp(p)
    /\ UNCHANGED <<inter, stmts, roots>>

BeginMHP ==
    /\ CollectMultiForkedThreads
    /\ roots' = TIds
    /\ UNCHANGED <<inter, stmts>>

-----------------------------------------------------------------------------
(* Variant: only statements without any thread are visited.                *)
ChangedFirst(new) == {x[1] : x \in {y \in new : Inter(y[1]) = {}}}

(* addInterleavingThread: a statement whose set grows is visited again. *)
Changed(new) == {x[1] : x \in new \ inter}

StartOf(t) == <<t[1], t[1][1], prog.entry[t[3]]>>

(* updateAncestorThreads: the thread is alive behind the fork sites of it  *)
(* and of its ancestors, in the threads that fork them.                    *)
BehindForks(t) ==
    UNION {UNION {{<<<<p, a[2], i>>, t>> : p \in Parents(a[1])} : i \in Next1(a[1][2])} :
        a \in {b \in threads : b[1] \in {t} \cup Ancestors(t)}}

(* Variant: the siblings of the thread alone. *)
WithSiblingsOwn(t) == {<<StartOf(a), t>> : a \in {b \in threads : b[1] \in Siblings(t)}}

(* updateSiblingThreads: and with the siblings of it and of its ancestors. *)
WithSiblings(t) ==
    {<<StartOf(a), t>> : a \in {b \in threads :
        \E s \in {t} \cup Ancestors(t) : b[1] \in Siblings(s)}}

StartRoot(t) ==
    LET new == {<<StartOf(t), t[1]>>} \cup BehindForks(t[1]) \cup WithSiblings(t[1])
    IN  /\ pc = "mhp" /\ stmts = {}
        /\ t \in threads /\ t[1] \in roots
        /\ inter' = inter \cup new
        /\ stmts' = Changed(new)
        /\ roots' = roots \ {t[1]}
        /\ UNCHANGED tctVars

-----------------------------------------------------------------------------
(* The statements a statement passes its set to.                           *)
(* handleIntra *)
Intra(s) == {<<s[1], s[2], i>> : i \in Next1(s[3])}

(* handleNonCandidateFun: the entries of all functions it calls. *)
NonCandidateTargets(s) ==
    {<<s[1], s[2], prog.entry[e[2]]>> : e \in {x \in CallGraph : x[1] = prog.fn[s[3]]}}

(* handleFork *)
ForkTargets(s) ==
    Intra(s) \cup
    {<<Spawned(s[2], c), PushCxt(s[2], c[1], c[2]), prog.entry[c[2]]>> :
        c \in {x \in prog.forks : x[1] = s[3]}}

(* handleJoin, when no thread is joined: also the exits of its loop. *)
JoinTargets(s) ==
    Intra(s) \cup {<<s[1], s[2], e[2]>> : e \in {x \in prog.exits : x[1] = s[3]}}

(* handleCall, and handleIntra past a callee that is no candidate. *)
CallTargets(s) ==
    {<<s[1], PushCxt(s[2], s[3], g), prog.entry[g]>> : g \in Callees(s[3])} \cup
    (IF Callees(s[3]) \cap candidates = {} THEN Intra(s) ELSE {})

(* handleRet: behind all call sites the context agrees with. *)
RetTargets(s) ==
    LET f == prog.fn[s[3]]
        sites == {c[1] : c \in {x \in prog.calls : x[2] = f}}
    IN  UNION {{<<s[1], cxt, i>> : cxt \in MatchCxt(s[2], c, f), i \in Next1(c)} : c \in sites}

Targets(s) ==
    CASE prog.fn[s[3]] \notin candidates -> NonCandidateTargets(s)
      [] prog.fn[s[3]] \in candidates /\ s[3] \in ForkSites -> ForkTargets(s)
      [] prog.fn[s[3]] \in candidates /\ s[3] \in prog.joins -> JoinTargets(s)
      [] prog.fn[s[3]] \in candidates /\ Callees(s[3]) # {} -> CallTargets(s)
      [] prog.fn[s[3]] \in candidates /\ s[3] \in prog.rets -> RetTargets(s)
      [] OTHER -> Intra(s)

(* One statement from the worklist, whichever. *)
ProcessStmt(s) ==
    LET new == Targets(s) \X Inter(s)
    IN  /\ pc = "mhp" /\ s \in stmts
        /\ inter' = inter \cup new
        /\ stmts' = (stmts \ {s}) \cup Changed(new)
        /\ UNCHANGED <<tctVars, roots>>

(* updateNonCandidateFunInterleaving: what holds at the entry of such a    *)
(* function holds throughout.                                              *)
InsideNonCandidates ==
    LET inside == {i \in Inst : prog.fn[i] \notin candidates}
    IN  UNION {{<<<<x[1][1], x[1][2], i>>, x[2]>> :
                   i \in {j \in inside : x[1][3] = prog.entry[prog.fn[j]]}} : x \in inter}

FinishMHP ==
    /\ pc = "mhp" /\ stmts = {} /\ roots = {}
    /\ inter' = inter \cup InsideNonCandidates
    /\ pc' = "done"
    /\ UNCHANGED <<progVars, candidates, ctpList, visited, threads, tctEdges, multiforked, stmts, roots>>

MHPNext ==
    \/ BuildTCT
    \/ BeginMHP
    \/ \E t \in threads : StartRoot(t)
    \/ \E s \in stmts : ProcessStmt(s)
    \/ FinishMHP

-----------------------------------------------------------------------------
(* mayHappenInParallelInst *)
MayHappenInParallel(i, j) ==
    \E x \in {z \in inter : z[1][3] = i} : \E y \in {z \in inter : z[1][3] = j} :
        IF x[1][1] = y[1][1] THEN x[1][1] \in multiforked
        ELSE <<x[1], y[1][1]>> \in inter /\ <<y[1], x[1][1]>> \in inter
=============================================================================
