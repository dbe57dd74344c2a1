---------------------------- MODULE MHPSoundness ----------------------------
(***************************************************************************)
(* The analysis of MHP followed by a run of the program it has analysed,   *)
(* so that what happens in parallel can be compared with the answers.      *)
(***************************************************************************)
EXTENDS MHP, ThreadRun

vars == <<mhpVars, runVars>>

SystemInit == MHPInit /\ Idle

Analyse ==
    /\ pc # "done"
    /\ MHPNext
    /\ IF pc' = "done" THEN Started ELSE UNCHANGED runVars

Run == pc = "done" /\ RunNext /\ UNCHANGED mhpVars

SystemNext == Analyse \/ Run

SystemSpec == SystemInit /\ [][SystemNext]_vars

-----------------------------------------------------------------------------
(* Two instructions that two running threads are about to execute may      *)
(* happen in parallel, whatever the program does: no call, fork, loop or   *)
(* recursion makes the analysis miss a thread.                             *)
Sound == \A d, e \in live : d.id # e.id => MayHappenInParallel(d.at, e.at)

(* The sets any order of the roots and of the worklist comes to.           *)
Fixpoint ==
    LET seeds == UNION {{<<StartOf(t), t[1]>>} \cup BehindForks(t[1]) \cup WithSiblings(t[1]) :
                           t \in threads}
        grow[k \in Nat] ==
            IF k = 0 THEN seeds
            ELSE LET P == grow[k - 1]
                 IN  P \cup UNION {Targets(x[1]) \X {x[2]} : x \in P}
    IN  grow[Cardinality({x[1] : x \in inter})]

(* Draining the worklist thread by thread loses nothing: the analysis ends *)
(* with the fixpoint, in whatever order hash tables and worklist give.     *)
OrderIrrelevant == pc = "mhp" /\ stmts = {} /\ roots = {} => inter = Fixpoint

(* After a join that is not in a loop or recursion the thread it joins, if *)
(* forked once, is no longer alive.                                        *)
JoinEnds ==
    pc = "done" => \A x \in inter : \A e \in prog.joined :
        /\ e[1] \notin prog.loops /\ ~ InRecursion(e[1])
        /\ x[1][1] = MainTid /\ x[1][3] \in Next1(e[1])
        /\ x[2] \notin multiforked
        => x[2][2] # e[2]
=============================================================================
