-------------------------- MODULE ThreadCreateTree --------------------------
(***************************************************************************)
(* Class TCT: the tree of abstract threads of a program.  A thread is a    *)
(* fork site together with the calling context that leads to it.           *)
(***************************************************************************)
EXTENDS ThreadProgram

CONSTANT NoFork  \* the fork site of the main thread, which has none

ASSUME TCTAssumption == NoFork \notin Inst

Tid == Cxt \X (Inst \cup {NoFork})
MainTid == <<<<>>, NoFork>>

VARIABLES
    candidates, \* candidateFuncSet, constant after Init
    pc,         \* "tct" while the tree is built
    ctpList,    \* worklist of thread, context and function
    visited,    \* visitedCTPs
    threads,    \* thread, context of its fork site and start routine
    tctEdges,   \* parent and child
    multiforked \* threads that may run several times at once

tctVars == <<progVars, candidates, pc, ctpList, visited, threads, tctEdges, multiforked>>

-----------------------------------------------------------------------------
(* markRelProcs: functions that may come to a fork or join, and routines. *)
RelevantFuns ==
    {c[2] : c \in prog.forks} \cup
    UNION {Callers(prog.fn[i]) : i \in prog.joins \cup {c[1] : c \in prog.forks}}

(* Variant: only the loops of the function that forks. *)
InLoopOwn(i) == i \in prog.loops

InLoop(i) ==
    \/ i \in prog.loops
    \/ \E c \in Sites : c[1] \in prog.loops /\ c[2] \in callersOf[prog.fn[i]]

InRecursion(i) == \E f \in callersOf[prog.fn[i]] : InCycle(f)

(* Contexts are neither pushed nor matched within a cycle of calls. *)
PushCxt(cxt, i, g) ==
    IF prog.fn[i] \in candidates /\ ~ SameSCC(prog.fn[i], g) THEN Append(cxt, <<i, g>>) ELSE cxt

(* The contexts, at most one, a return from g to the site i goes to. *)
MatchCxt(cxt, i, g) ==
    IF prog.fn[i] \notin candidates \/ cxt = <<>> \/ SameSCC(prog.fn[i], g) THEN {cxt}
    ELSE IF cxt[Len(cxt)] = <<i, g>> THEN {SubSeq(cxt, 1, Len(cxt) - 1)} ELSE {}

Spawned(cxt, c) == <<PushCxt(cxt, c[1], c[2]), c[1]>>

-----------------------------------------------------------------------------
TIds == {t[1] : t \in threads}
Parents(t) == {e[1] : e \in {x \in tctEdges : x[2] = t}}

(* getAncestorThread *)
Ancestors(t) == {a \in TIds : <<a, t>> \in Closure(tctEdges)}

(* getSiblingThread *)
Siblings(t) == {e[2] : e \in {x \in tctEdges : x[1] \in Parents(t)}} \ {t}

TCTInit ==
    /\ ProgramInit
    /\ candidates = RelevantFuns
    /\ pc = "tct"
    /\ ctpList = {<<MainTid, <<>>, f>> : f \in EntryFuns \cap candidates}
    /\ visited = ctpList
    (* All entry functions share a node, which belongs to the first. *)
    /\ IF ctpList = {} THEN threads = {}
       ELSE \E p \in ctpList : threads = {<<MainTid, <<>>, p[3]>>}
    /\ tctEdges = {}
    /\ multiforked = {}

(* Variant: a thread found again gets another parent. *)
TreeEdgesAgain(p, spawned) == {<<p[1], q[1]>> : q \in spawned}

(* handleCallRelation for the forks: an edge for what was not visited. *)
TreeEdges(p, spawned) == {<<p[1], q[1]>> : q \in spawned \ visited}

(* The calls and forks of one function in one context of one thread. *)
ProcessCtp(p) ==
    LET calls == {c \in prog.calls : prog.fn[c[1]] = p[3]}
        forks == {c \in prog.forks : prog.fn[c[1]] = p[3]}
        called == {<<p[1], PushCxt(p[2], c[1], c[2]), c[2]>> : c \in calls}
        spawned == {<<Spawned(p[2], c), PushCxt(p[2], c[1], c[2]), c[2]>> : c \in forks}
        created == {q[1] : q \in spawned} \ TIds
    IN  /\ pc = "tct" /\ p \in ctpList
        /\ IF p[3] \in candidates
           THEN /\ ctpList' = (ctpList \ {p}) \cup ((called \cup spawned) \ visited)
                /\ visited' = visited \cup called \cup spawned
                /\ tctEdges' = tctEdges \cup TreeEdges(p, spawned)
                /\ \E routine \in {r \in [created -> Fun] : \A t \in created : \E q \in spawned :
                                      q[1] = t /\ q[3] = r[t]} :
                      threads' = threads \cup {<<t, p[2], routine[t]>> : t \in created}
           ELSE /\ ctpList' = ctpList \ {p}
                /\ UNCHANGED <<visited, tctEdges, threads>>
        /\ UNCHANGED <<progVars, candidates, pc, multiforked>>

(* collectMultiForkedThreads: in a loop, in recursion, or below one that is *)
(* (the nodes are visited from the root on).                                *)
ForkedOften(t) == t[2] # NoFork /\ (InLoop(t[2]) \/ InRecursion(t[2]))

CollectMultiForkedThreads ==
    /\ pc = "tct" /\ ctpList = {}
    /\ multiforked' = {t \in TIds : \E a \in {t} \cup Ancestors(t) : ForkedOften(a)}
    /\ pc' = "mhp"
    /\ UNCHANGED <<progVars, candidates, ctpList, visited, threads, tctEdges>>

-----------------------------------------------------------------------------
(* Every thread but the main one has one parent, the thread that forks it: *)
(* getParentThread asserts it and the ancestors and siblings rest on it.   *)
OneParent == pc # "tct" =>
    \A t \in TIds : t # MainTid => Cardinality(Parents(t)) = 1 /\ MainTid \in Ancestors(t)
=============================================================================
