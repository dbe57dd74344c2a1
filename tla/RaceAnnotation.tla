--------------------------- MODULE RaceAnnotation ---------------------------
(***************************************************************************)
(* MTA and MTAAnnotator: MHP and LockAnalysis are run one after the other  *)
(* and then the loads and stores chosen that may race.  After that the     *)
(* program runs, so that the choice can be compared with what happens.     *)
(***************************************************************************)
EXTENDS MHP, LockAnalysis, ThreadRun

VARIABLE annotated  \* the loads and stores to be checked for races

annotationVars == <<mhpVars, lockVars, runVars, annotated>>

Init == MHPInit /\ LockInit /\ Idle /\ annotated = {}

computeMHP ==
    /\ pc # "done"
    /\ MHPNext
    /\ UNCHANGED <<lockVars, runVars, annotated>>

computeLocksets ==
    /\ pc = "done"
    /\ LockNext
    /\ UNCHANGED <<mhpVars, runVars, annotated>>

-----------------------------------------------------------------------------
Stored(i) == {c[2] : c \in {x \in prog.stores : x[1] = i}}
Loaded(i) == {c[2] : c \in {x \in prog.loads : x[1] = i}}
Stores == {c[1] : c \in prog.stores}
Loads == {c[1] : c \in prog.loads}

MayRace(i, j) == MayHappenInParallel(i, j) /\ ~ isProtectedByCommonLock(i, j)

(* pruneAliasMHP, for pairs of stores and pairs of a store and a load. *)
Pairs ==
    {x \in Stores \X Stores : Stored(x[1]) \cap Stored(x[2]) # {}} \cup
    {x \in Stores \X Loads : Stored(x[1]) \cap Loaded(x[2]) # {}}

pruneAliasMHP ==
    /\ lockPc = "done" /\ live = {} /\ born = 0
    /\ annotated' = UNION {{x[1], x[2]} : x \in {y \in Pairs : MayRace(y[1], y[2])}}
    /\ Started
    /\ UNCHANGED <<mhpVars, lockVars>>

RunAnnotated ==
    /\ RunNext
    /\ UNCHANGED <<mhpVars, lockVars, annotated>>

Annotate == computeMHP \/ computeLocksets \/ pruneAliasMHP

Next == Annotate \/ RunAnnotated

Spec == Init /\ [][Next]_annotationVars /\ WF_annotationVars(Annotate)

-----------------------------------------------------------------------------
(* A store that is about to be executed while another thread is about to   *)
(* access the same object is annotated, and so is the other access: MHP    *)
(* and locks together prune no pair that races.                            *)
RacesAnnotated ==
    \A d, e \in live :
        d.id # e.id /\ Stored(d.at) \cap (Stored(e.at) \cup Loaded(e.at)) # {}
        => {d.at, e.at} \subseteq annotated

LockCxtOf(path) == FoldLeft(LAMBDA cxt, c : PushLockCxt(cxt, c), <<>>, path)

(* Whoever comes to an instruction inside a span, or to a statement in a   *)
(* context, holds every lock the analysis gives for it.                    *)
LocksHeld ==
    lockPc = "done" => \A d \in live :
        /\ \A l \in IntraLocks(d.at) \ {d.at} : Names(l) \cap d.holds # {}
        /\ LET s == <<LockCxtOf(d.path), d.at>>
           IN  s \in DOMAIN lockset => \A l \in lockset[s] \ {s} : Names(l[2]) \cap d.holds # {}

(* analyzeLockSpanCxtStmt asserts that it meets no lock in a context that  *)
(* collectCxtLock has not been in.                                         *)
LocksCollected == \A s \in ToSet(cxtStmts) : s[2] \in LockSites => s \in cxtLocks

(* Both analyses end, and the program can be run.                          *)
AnnotationEnds == <>(born > 0)
=============================================================================
