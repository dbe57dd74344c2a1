-------------------------- MODULE CFLSolverProofs --------------------------
(***************************************************************************)
(* Proofs about CFLSolver for every graph, grammar and set of indirect     *)
(* calls: the solver draws only conclusions the grammar licenses and its   *)
(* answer misses none; POCRSolver is an implementation of it.              *)
(***************************************************************************)
EXTENDS POCRSolver, TLAPS

(* The inductive invariant: ProcessedClosed needs to know that nothing is  *)
(* being processed outside a solve, Complete what UpdateCallGraph saw.     *)
Phases ==
    /\ pc # "solve" => Idle /\ cur = {}
    /\ answered <=> pc = "final"
    /\ Complete

IInv == TypeOK /\ ProcessedClosed /\ Phases

LEMMA InputType ==
    ASSUME input \in Inputs
    PROVE  /\ input.graph \subseteq Edge
           /\ input.nodes \subseteq Node
           /\ input.eps \subseteq Symbol
           /\ input.single \subseteq Symbol \X Symbol
           /\ input.pair \subseteq Symbol \X Symbol \X Symbol
           /\ input.calls \subseteq Edge \X Edge
BY CFLAssumption DEF Input

(* The conclusions of one step are edges. *)
LEMMA ConclTypes ==
    ASSUME input \in Inputs, edges \subseteq Edge
    PROVE  /\ EpsEdges \subseteq Edge
           /\ CallEdges(edges) \subseteq Edge
<1>1. EpsEdges \subseteq Edge
  BY InputType DEF EpsEdges, Edge
<1>2. CallEdges(edges) \subseteq Edge
  BY InputType DEF CallEdges
<1> QED BY <1>1, <1>2

(* Each production of processCFLEdge concludes what CFLReachability does. *)
LEMMA SingleSound ==
    ASSUME input \in Inputs, edges \subseteq Edge, NEW e \in edges,
           NEW p \in input.single, p[2] = e[1]
    PROVE  SingleConcl(e, p) \subseteq SingleEdges(edges)
<1>1. e \in Edge /\ p \in Symbol \X Symbol
  BY InputType
<1>2. e = <<p[2], e[2], e[3]>>
  BY <1>1 DEF Edge
<1> QED BY <1>1, <1>2 DEF SingleConcl, SingleEdges, Edge

LEMMA FirstSound ==
    ASSUME input \in Inputs, edges \subseteq Edge, NEW e \in edges,
           NEW p \in input.pair, p[2] = e[1]
    PROVE  FirstConcl(e, p) \subseteq PairEdges(edges)
<1>1. e \in Edge /\ p \in Symbol \X Symbol \X Symbol
  BY InputType
<1>2. SUFFICES ASSUME NEW z \in Out(e[3], p[3])
               PROVE  <<p[1], e[2], z[3]>> \in PairEdges(edges)
  BY DEF FirstConcl
<1>3. z \in edges /\ z \in Edge /\ z[1] = p[3] /\ z[2] = e[3]
  BY <1>2 DEF Out
<1>4. e = <<p[2], e[2], e[3]>> /\ z = <<p[3], e[3], z[3]>>
  BY <1>1, <1>3 DEF Edge
<1>5. <<p[1], e[2], z[3]>> \in Edge /\ e[3] \in Node
  BY <1>1, <1>3 DEF Edge
<1> QED BY <1>1, <1>3, <1>4, <1>5 DEF PairEdges

LEMMA SecondSound ==
    ASSUME input \in Inputs, edges \subseteq Edge, NEW e \in edges,
           NEW p \in input.pair, p[3] = e[1]
    PROVE  SecondConcl(e, p) \subseteq PairEdges(edges)
<1>1. e \in Edge /\ p \in Symbol \X Symbol \X Symbol
  BY InputType
<1>2. SUFFICES ASSUME NEW z \in In(e[2], p[2])
               PROVE  <<p[1], z[2], e[3]>> \in PairEdges(edges)
  BY DEF SecondConcl
<1>3. z \in edges /\ z \in Edge /\ z[1] = p[2] /\ z[3] = e[2]
  BY <1>2 DEF In
<1>4. e = <<p[3], e[2], e[3]>> /\ z = <<p[2], z[2], e[2]>>
  BY <1>1, <1>3 DEF Edge
<1>5. <<p[1], z[2], e[3]>> \in Edge /\ e[2] \in Node
  BY <1>1, <1>3 DEF Edge
<1> QED BY <1>1, <1>3, <1>4, <1>5 DEF PairEdges

-----------------------------------------------------------------------------
(* Every step maps to a step of CFLReachability or to a stutter.           *)
LEMMA StepRefines ==
    ASSUME TypeOK, Phases, ProcessedClosed, [Next]_vars
    PROVE  [Derive \/ Answer]_<<input, edges, answered>>
<1> USE DEF TypeOK, Phases
<1>1. ASSUME Initialize PROVE Derive
  BY <1>1 DEF Initialize, Derive, Conclusions
<1>2. ASSUME NEW e \in worklist, PopFromWorklist(e)
      PROVE  UNCHANGED <<input, edges, answered>>
  BY <1>2 DEF PopFromWorklist
<1>3. ASSUME NEW p \in singles, ApplySingle(p) PROVE Derive
  <2>1. PICK e \in cur : Add(SingleConcl(e, p))
    BY <1>3 DEF ApplySingle
  <2>2. SingleConcl(e, p) \subseteq SingleEdges(edges)
    BY SingleSound
  <2>3. ~ answered
    BY <1>3 DEF Idle
  <2> QED BY <1>3, <2>1, <2>2, <2>3 DEF ApplySingle, Add, Derive, Conclusions
<1>4. ASSUME NEW p \in firsts, ApplyFirst(p) PROVE Derive
  <2>1. PICK e \in cur : Add(FirstConcl(e, p))
    BY <1>4 DEF ApplyFirst
  <2>2. FirstConcl(e, p) \subseteq PairEdges(edges)
    BY FirstSound
  <2>3. ~ answered
    BY <1>4 DEF Idle
  <2> QED BY <1>4, <2>1, <2>2, <2>3 DEF ApplyFirst, Add, Derive, Conclusions
<1>5. ASSUME NEW p \in seconds, ApplySecond(p) PROVE Derive
  <2>1. PICK e \in cur : Add(SecondConcl(e, p))
    BY <1>5 DEF ApplySecond
  <2>2. SecondConcl(e, p) \subseteq PairEdges(edges)
    BY SecondSound
  <2>3. ~ answered
    BY <1>5 DEF Idle
  <2> QED BY <1>5, <2>1, <2>2, <2>3 DEF ApplySecond, Add, Derive, Conclusions
<1>6. ASSUME UpdateCallGraph PROVE Derive \/ Answer
  <2>1. CASE CallEdges(edges) \subseteq edges
    <3>1. EpsEdges \subseteq edges /\ SingleEdges(edges) \subseteq edges
             /\ PairEdges(edges) \subseteq edges
      BY <1>6 DEF UpdateCallGraph, ProcessedClosed, DoneClosed, Done, Seen
    <3>2. UNCHANGED <<input, edges>> /\ answered' = TRUE
      BY <1>6, <2>1 DEF UpdateCallGraph, Add
    <3> QED BY <2>1, <3>1, <3>2 DEF Answer, Conclusions
  <2>2. CASE ~ CallEdges(edges) \subseteq edges
    BY <1>6, <2>2 DEF UpdateCallGraph, Add, Derive, Conclusions
  <2> QED BY <2>1, <2>2
<1>7. ASSUME UNCHANGED vars PROVE UNCHANGED <<input, edges, answered>>
  BY <1>7 DEF vars
<1> QED BY <1>1, <1>2, <1>3, <1>4, <1>5, <1>6, <1>7 DEF Next

-----------------------------------------------------------------------------
(* The steps of processCFLEdge have one shape: they add some new edges,    *)
(* schedule them and tick off one production.                              *)
Processing(new) ==
    /\ pc = "solve" /\ pc' = "solve"
    /\ ~ Idle
    /\ Add(new)
    /\ new \subseteq Edge
    /\ singles' \subseteq singles /\ firsts' \subseteq firsts /\ seconds' \subseteq seconds
    /\ UNCHANGED <<input, answered, cur>>

LEMMA ApplyIsProcessing ==
    ASSUME TypeOK, Phases
    PROVE  /\ \A p \in singles : ApplySingle(p) => \E new : Processing(new)
           /\ \A p \in firsts : ApplyFirst(p) => \E new : Processing(new)
           /\ \A p \in seconds : ApplySecond(p) => \E new : Processing(new)
<1> USE DEF TypeOK, Phases, Processing
<1>1. ASSUME NEW p \in singles, ApplySingle(p)
      PROVE  \E new : Processing(new)
  <2>1. PICK e \in cur : Add(SingleConcl(e, p))
    BY <1>1 DEF ApplySingle
  <2>2. SingleConcl(e, p) \subseteq Edge
    BY SingleSound DEF SingleEdges
  <2>3. Processing(SingleConcl(e, p))
    BY <1>1, <2>1, <2>2 DEF ApplySingle, Idle
  <2> QED BY <2>3
<1>2. ASSUME NEW p \in firsts, ApplyFirst(p)
      PROVE  \E new : Processing(new)
  <2>1. PICK e \in cur : Add(FirstConcl(e, p))
    BY <1>2 DEF ApplyFirst
  <2>2. FirstConcl(e, p) \subseteq Edge
    BY FirstSound DEF PairEdges
  <2>3. Processing(FirstConcl(e, p))
    BY <1>2, <2>1, <2>2 DEF ApplyFirst, Idle
  <2> QED BY <2>3
<1>3. ASSUME NEW p \in seconds, ApplySecond(p)
      PROVE  \E new : Processing(new)
  <2>1. PICK e \in cur : Add(SecondConcl(e, p))
    BY <1>3 DEF ApplySecond
  <2>2. SecondConcl(e, p) \subseteq Edge
    BY SecondSound DEF PairEdges
  <2>3. Processing(SecondConcl(e, p))
    BY <1>3, <2>1, <2>2 DEF ApplySecond, Idle
  <2> QED BY <2>3
<1> QED BY <1>1, <1>2, <1>3

LEMMA TypeStep ==
    ASSUME TypeOK, Phases, [Next]_vars
    PROVE  TypeOK'
<1> USE DEF TypeOK
<1>1. ASSUME Initialize PROVE TypeOK'
  BY <1>1, ConclTypes DEF Initialize, Phases, Idle
<1>2. ASSUME NEW e \in worklist, PopFromWorklist(e) PROVE TypeOK'
  BY <1>2 DEF PopFromWorklist, Idle
<1>3. ASSUME NEW new, Processing(new) PROVE TypeOK'
  BY <1>3 DEF Processing, Add, Idle
<1>4. ASSUME UpdateCallGraph PROVE TypeOK'
  BY <1>4, ConclTypes DEF UpdateCallGraph, Add, Idle
<1>5. ASSUME UNCHANGED vars PROVE TypeOK'
  BY <1>5 DEF vars, local, Idle
<1> QED BY <1>1, <1>2, <1>3, <1>4, <1>5, ApplyIsProcessing DEF Next

LEMMA PhasesStep ==
    ASSUME TypeOK, ProcessedClosed, Phases, [Next]_vars
    PROVE  Phases'
<1> USE DEF TypeOK, Phases
<1>1. ASSUME Initialize PROVE Phases'
  BY <1>1 DEF Initialize, Complete
<1>2. ASSUME NEW e \in worklist, PopFromWorklist(e) PROVE Phases'
  BY <1>2 DEF PopFromWorklist, Complete
<1>3. ASSUME NEW new, Processing(new) PROVE Phases'
  BY <1>3 DEF Processing, Complete
<1>4. ASSUME UpdateCallGraph PROVE Phases'
  <2>1. Idle' /\ cur' = {} /\ (answered' <=> pc' = "final")
    BY <1>4 DEF UpdateCallGraph, Idle
  <2>2. ASSUME answered' PROVE Conclusions(edges)' \subseteq edges'
    <3>1. EpsEdges \subseteq edges /\ SingleEdges(edges) \subseteq edges
             /\ PairEdges(edges) \subseteq edges
      BY <1>4 DEF UpdateCallGraph, ProcessedClosed, DoneClosed, Done, Seen
    <3>2. CallEdges(edges) \subseteq edges /\ UNCHANGED <<edges, input>>
      BY <1>4, <2>2 DEF UpdateCallGraph, Add
    <3> QED BY <3>1, <3>2 DEF Conclusions, EpsEdges, SingleEdges, PairEdges, CallEdges
  <2> QED BY <2>1, <2>2 DEF Complete
<1>5. ASSUME UNCHANGED vars PROVE Phases'
  BY <1>5 DEF vars, local, Idle, Complete, Conclusions, EpsEdges, SingleEdges, PairEdges,
              CallEdges
<1> QED BY <1>1, <1>2, <1>3, <1>4, <1>5, ApplyIsProcessing DEF Next

-----------------------------------------------------------------------------
(* When every production has been applied to the current edge, the         *)
(* processed edges are closed with it included.                            *)
CurApplied ==
    /\ input \in Inputs /\ edges \subseteq Edge
    /\ pc = "solve" /\ Idle /\ CurMet
    /\ SingleEdges(Seen \ cur) \subseteq edges /\ PairEdges(Seen \ cur) \subseteq edges
    /\ cur = {} \/ \E e \in edges : cur = {e}

SeenClosed == SingleEdges(Seen) \subseteq edges /\ PairEdges(Seen) \subseteq edges

LEMMA ClosedWithCur == CurApplied => SeenClosed
<1> SUFFICES ASSUME CurApplied PROVE SeenClosed
  OBVIOUS
<1> USE DEF CurApplied
<1>1. ASSUME NEW x \in SingleEdges(Seen) PROVE x \in edges
  <2>1. x \in Edge
    BY <1>1 DEF SingleEdges
  <2>2. PICK p \in input.single : p[1] = x[1] /\ <<p[2], x[2], x[3]>> \in Seen
    BY <1>1 DEF SingleEdges
  <2>3. CASE <<p[2], x[2], x[3]>> \in cur
    <3>1. <<p[1], x[2], x[3]>> \in edges
      BY <2>3 DEF CurMet, Idle
    <3> QED BY <2>1, <2>2, <3>1 DEF Edge
  <2>4. CASE <<p[2], x[2], x[3]>> \notin cur
    BY <2>1, <2>2, <2>4 DEF SingleEdges
  <2> QED BY <2>3, <2>4
<1>2. ASSUME NEW x \in PairEdges(Seen) PROVE x \in edges
  <2>1. x \in Edge
    BY <1>2 DEF PairEdges
  <2>2. PICK p \in input.pair, k \in Node :
            p[1] = x[1] /\ <<p[2], x[2], k>> \in Seen /\ <<p[3], k, x[3]>> \in Seen
    BY <1>2 DEF PairEdges
  <2> DEFINE y == <<p[2], x[2], k>>
             z == <<p[3], k, x[3]>>
  <2>3. CASE y \in cur
    <3>1. <<p[1], y[2], z[3]>> \in edges
      BY <2>2, <2>3 DEF CurMet, Idle
    <3> QED BY <2>1, <2>2, <3>1 DEF Edge
  <2>4. CASE z \in cur
    <3>1. <<p[1], y[2], z[3]>> \in edges
      BY <2>2, <2>4 DEF CurMet, Idle
    <3> QED BY <2>1, <2>2, <3>1 DEF Edge
  <2>5. CASE y \notin cur /\ z \notin cur
    BY <2>1, <2>2, <2>5 DEF PairEdges
  <2> QED BY <2>3, <2>4, <2>5
<1> QED BY <1>1, <1>2 DEF SeenClosed

LEMMA ClosedWithCurNext == CurApplied' => SeenClosed'
BY ClosedWithCur, PTL

LEMMA ClosedProcessing ==
    ASSUME TypeOK, TypeOK', ProcessedClosed, CurMet', NEW new, Processing(new)
    PROVE  ProcessedClosed'
<1> USE DEF TypeOK
<1>1. Seen' = Seen
  BY DEF Processing, Add, Seen
<1>2. edges \subseteq edges' /\ UNCHANGED <<input, cur>> /\ pc' = "solve"
  BY DEF Processing, Add
<1>3. SingleEdges(Seen \ cur) \subseteq edges' /\ PairEdges(Seen \ cur) \subseteq edges'
  BY <1>2 DEF Processing, ProcessedClosed, DoneClosed, Done
<1>4. (SingleEdges(Seen \ cur))' \subseteq edges' /\ (PairEdges(Seen \ cur))' \subseteq edges'
  BY <1>1, <1>2, <1>3 DEF SingleEdges, PairEdges
<1>5. DoneClosed'
  <2>1. CASE Idle'
    <3>1. SingleEdges(Seen)' \subseteq edges' /\ PairEdges(Seen)' \subseteq edges'
      BY <1>2, <1>4, <2>1, ClosedWithCurNext DEF CurApplied, SeenClosed
    <3> QED BY <2>1, <3>1 DEF DoneClosed, Done, SingleEdges, PairEdges
  <2>2. CASE ~ Idle'
    BY <1>4, <2>2 DEF DoneClosed, Done, SingleEdges, PairEdges
  <2> QED BY <2>1, <2>2
<1>6. EpsEdges' \subseteq edges'
  BY <1>2 DEF Processing, ProcessedClosed, EpsEdges
<1> QED BY <1>5, <1>6 DEF ProcessedClosed

LEMMA ClosedStep ==
    ASSUME TypeOK, TypeOK', ProcessedClosed, Phases, [Next]_vars
    PROVE  ProcessedClosed'
<1> USE DEF TypeOK, Phases
<1>1. ASSUME Initialize PROVE ProcessedClosed'
  <2>1. Seen' = {} /\ Done' = {} /\ cur' = {} /\ EpsEdges' = EpsEdges
    BY <1>1 DEF Initialize, Seen, Done, EpsEdges
  <2> QED BY <1>1, <2>1 DEF Initialize, ProcessedClosed, DoneClosed, CurMet, SingleEdges,
                            PairEdges
<1>2. ASSUME NEW e \in worklist, PopFromWorklist(e) PROVE ProcessedClosed'
  <2>1. Seen' = Seen \cup {e} /\ Done = Seen /\ UNCHANGED <<input, edges>> /\ cur' = {e}
    BY <1>2 DEF PopFromWorklist, Seen, Done
  <2>2. CurMet'
    BY <1>2, <2>1 DEF PopFromWorklist, CurMet
  <2>3. (SingleEdges(Seen \ cur))' \subseteq edges' /\ (PairEdges(Seen \ cur))' \subseteq edges'
    <3>1. (Seen \ cur)' \subseteq Done
      BY <2>1
    <3> QED BY <2>1, <3>1 DEF ProcessedClosed, DoneClosed, SingleEdges, PairEdges
  <2>4. DoneClosed'
    <3>1. CASE Idle'
      <4>1. SingleEdges(Seen)' \subseteq edges' /\ PairEdges(Seen)' \subseteq edges'
        BY <1>2, <2>2, <2>3, <3>1, ClosedWithCurNext
        DEF PopFromWorklist, CurApplied, SeenClosed
      <4> QED BY <3>1, <4>1 DEF DoneClosed, Done, SingleEdges, PairEdges
    <3>2. CASE ~ Idle'
      BY <2>3, <3>2 DEF DoneClosed, Done, SingleEdges, PairEdges
    <3> QED BY <3>1, <3>2
  <2>5. EpsEdges' \subseteq edges'
    BY <1>2 DEF PopFromWorklist, ProcessedClosed, EpsEdges
  <2> QED BY <2>2, <2>4, <2>5 DEF ProcessedClosed
<1>3. ASSUME NEW p \in singles, ApplySingle(p) PROVE CurMet'
  BY <1>3 DEF ApplySingle, Add, SingleConcl, ProcessedClosed, CurMet, Seen
<1>4. ASSUME NEW p \in firsts, ApplyFirst(p) PROVE CurMet'
  BY <1>4 DEF ApplyFirst, Add, FirstConcl, Out, ProcessedClosed, CurMet, Seen
<1>5. ASSUME NEW p \in seconds, ApplySecond(p) PROVE CurMet'
  BY <1>5 DEF ApplySecond, Add, SecondConcl, In, ProcessedClosed, CurMet, Seen
<1>6. ASSUME UpdateCallGraph PROVE ProcessedClosed'
  <2>1. Seen' = {} /\ Done' = {} /\ pc' # "solve"
    BY <1>6 DEF UpdateCallGraph, Seen, Done, Idle
  <2> QED BY <2>1 DEF ProcessedClosed, DoneClosed, CurMet, SingleEdges, PairEdges
<1>7. ASSUME UNCHANGED vars PROVE ProcessedClosed'
  <2>1. Seen' = Seen /\ Done' = Done /\ EpsEdges' = EpsEdges
    BY <1>7 DEF vars, local, Seen, Done, Idle, EpsEdges
  <2>2. DoneClosed'
    BY <1>7, <2>1 DEF vars, ProcessedClosed, DoneClosed, SingleEdges, PairEdges
  <2>3. CurMet'
    BY <1>7, <2>1 DEF vars, local, ProcessedClosed, CurMet
  <2> QED BY <1>7, <2>1, <2>2, <2>3 DEF vars, local, ProcessedClosed
<1>8. ASSUME NEW new, Processing(new), CurMet' PROVE ProcessedClosed'
  BY <1>8, ClosedProcessing
<1> QED BY <1>1, <1>2, <1>3, <1>4, <1>5, <1>6, <1>7, <1>8, ApplyIsProcessing DEF Next

-----------------------------------------------------------------------------
LEMMA Inductive == SolverSpec => []IInv
<1>1. SolverInit => IInv
  <2> SUFFICES ASSUME SolverInit PROVE IInv
    OBVIOUS
  <2>1. input.graph \subseteq Edge
    BY InputType DEF SolverInit, Init
  <2>2. TypeOK /\ Phases
    BY <2>1 DEF SolverInit, Init, TypeOK, Phases, Idle, Complete
  <2>3. ProcessedClosed
    BY DEF SolverInit, ProcessedClosed, DoneClosed, CurMet, Done, Seen, SingleEdges, PairEdges
  <2> QED BY <2>2, <2>3 DEF IInv
<1>2. IInv /\ [Next]_vars => IInv'
  BY TypeStep, PhasesStep, ClosedStep DEF IInv
<1> QED BY <1>1, <1>2, PTL DEF SolverSpec

(* Type correctness of the solver: the worklist only holds edges of the    *)
(* graph and the productions left to apply are productions of cur.         *)
THEOREM TypeCorrect == SolverSpec => []TypeOK
<1>1. IInv => TypeOK
  BY DEF IInv
<1> QED BY <1>1, Inductive, PTL

(* No conclusion from processed edges is ever missing, although            *)
(* processCFLEdge looks at an edge only once.                              *)
THEOREM WorklistSound == SolverSpec => []ProcessedClosed
<1>1. IInv => ProcessedClosed
  BY DEF IInv
<1> QED BY <1>1, Inductive, PTL

(* The answer is complete: no production and no indirect call adds to it.  *)
THEOREM AnswerComplete == SolverSpec => []Complete
<1>1. IInv => Complete
  BY DEF IInv, Phases
<1> QED BY <1>1, Inductive, PTL

(* CFLSolver implements CFLReachability: every edge it adds follows from   *)
(* the edges before it, and it answers only when nothing follows any more. *)
THEOREM SolverImplements == SolverSpec => ImplementsReachability
<1>1. SolverInit => Init
  BY DEF SolverInit
<1>2. IInv /\ [Next]_vars => [Derive \/ Answer]_<<input, edges, answered>>
  BY StepRefines DEF IInv
<1> QED BY <1>1, <1>2, Inductive, PTL DEF SolverSpec, ImplementsReachability, Spec

(* The loop of processCFLEdge over the edges that leave j is safe although *)
(* its body adds edges: what it adds to that very set was in it.           *)
THEOREM IterationSafe == SolverSpec => IterationStable
<1>1. ASSUME IInv, [Next]_vars, NEW e \in cur, NEW p \in firsts, p \notin firsts'
      PROVE  (Out(e[3], p[3]))' = Out(e[3], p[3])
  <2> USE <1>1 DEF IInv, TypeOK
  <2>1. ApplyFirst(p)
    BY DEF Next, Initialize, PopFromWorklist, ApplySingle, ApplyFirst, ApplySecond,
           UpdateCallGraph, Idle, vars, local
  <2>2. Add(FirstConcl(e, p))
    BY <2>1 DEF ApplyFirst
  <2>3. ASSUME NEW x \in FirstConcl(e, p), x[1] = p[3], x[2] = e[3] PROVE x \in edges
    <3>1. PICK z \in Out(e[3], p[3]) : x = <<p[1], e[2], z[3]>>
      BY <2>3 DEF FirstConcl
    <3>2. z \in edges /\ z \in Edge /\ z[1] = p[3] /\ z[2] = e[3]
      BY <3>1 DEF Out
    <3> QED BY <2>3, <3>1, <3>2 DEF Edge
  <2> QED BY <2>2, <2>3 DEF Add, Out
<1>2. IInv /\ [Next]_vars =>
        [\A e \in cur : \A p \in firsts :
            p \notin firsts' => Out(e[3], p[3])' = Out(e[3], p[3])]_vars
  BY <1>1
<1> QED BY <1>2, Inductive, PTL DEF SolverSpec, IterationStable

-----------------------------------------------------------------------------
(* POCRSolver: its maps mirror the graph, and on the inputs it is complete *)
(* for it is an implementation of CFLSolver.                               *)


(* What MapsMirrorGraph rests on: nothing but edges of the graph is ever   *)
(* pushed, so cur is known to the maps.                                    *)
Mirror ==
    /\ MapsMirrorGraph
    /\ worklist \subseteq edges /\ cur \subseteq edges
    /\ input.graph \subseteq edges

LEMMA RowsAreConclusions ==
    ASSUME succ = edges, pred = edges, NEW e, NEW p
    PROVE  FirstRow(e, p) = FirstConcl(e, p) /\ SecondRow(e, p) = SecondConcl(e, p)
BY DEF FirstRow, FirstConcl, Out, SecondRow, SecondConcl, In

LEMMA MirrorStep ==
    ASSUME Mirror, [POCRNext]_pvars
    PROVE  Mirror'
<1>1. ASSUME POCRInitialize PROVE Mirror'
  BY <1>1 DEF POCRInitialize, Mirror, MapsMirrorGraph
<1>2. ASSUME NEW e \in worklist, PopFromWorklist(e), UNCHANGED dataVars PROVE Mirror'
  BY <1>2 DEF PopFromWorklist, dataVars, Mirror, MapsMirrorGraph
<1>3. ASSUME NEW p \in singles, POCRApplySingle(p) PROVE Mirror'
  BY <1>3 DEF POCRApplySingle, AddEdge, Report, Mirror, MapsMirrorGraph
<1>4. ASSUME NEW p \in firsts, POCRApplyFirst(p) PROVE Mirror'
  BY <1>4 DEF POCRApplyFirst, AddSuccs, Report, dataVars, Mirror, MapsMirrorGraph
<1>5. ASSUME NEW p \in seconds, POCRApplySecond(p) PROVE Mirror'
  <2>1. PICK e \in cur : IF IsArc(p)
                          THEN UNCHANGED <<edges, worklist, dataVars>>
                          ELSE AddPreds(SecondRow(e, p))
    BY <1>5 DEF POCRApplySecond
  <2>2. UNCHANGED <<input, cur>>
    BY <1>5 DEF POCRApplySecond
  <2>3. CASE IsArc(p)
    BY <2>1, <2>2, <2>3 DEF dataVars, Mirror, MapsMirrorGraph
  <2>4. CASE ~ IsArc(p)
    BY <2>1, <2>2, <2>4 DEF AddPreds, Report, Mirror, MapsMirrorGraph
  <2> QED BY <2>3, <2>4
<1>6. ASSUME UpdateCallGraph, UNCHANGED dataVars PROVE Mirror'
  BY <1>6 DEF UpdateCallGraph, Add, CallEdges, dataVars, Mirror, MapsMirrorGraph
<1>7. ASSUME UNCHANGED pvars PROVE Mirror'
  BY <1>7 DEF pvars, vars, local, dataVars, Mirror, MapsMirrorGraph
<1> QED BY <1>1, <1>2, <1>3, <1>4, <1>5, <1>6, <1>7 DEF POCRNext

LEMMA MirrorInvariant == POCRSpec => []Mirror
<1>1. POCRInit => Mirror
  BY DEF POCRInit, SolverInit, Init, Mirror, MapsMirrorGraph
<1>2. Mirror /\ [POCRNext]_pvars => Mirror'
  BY MirrorStep
<1> QED BY <1>1, <1>2, PTL DEF POCRSpec

(* As long as no call is resolved, what the maps hold is the graph: an     *)
(* edge they report as new is new to the graph.                            *)
THEOREM MapsAgree == POCRSpec => []MapsMirrorGraph
<1>1. Mirror => MapsMirrorGraph
  BY DEF Mirror
<1> QED BY <1>1, MirrorInvariant, PTL

-----------------------------------------------------------------------------
(* The inputs POCRSolver is complete for. *)
Covered ==
    /\ Transitive = {}
    /\ \A g \in Inputs : g.calls = {} /\ g.nodes = {e[2] : e \in g.graph}

(* The entries of succMap are made before the one initialize there is:    *)
(* when no call is resolved no other follows.                              *)
KeysCovered ==
    /\ input \in Inputs
    /\ pc = "init" => keys = input.nodes
    /\ pc # "solve" => Idle

LEMMA KeysInit == Covered /\ POCRInit => KeysCovered
BY DEF Covered, POCRInit, SolverInit, Init, KeysCovered, Idle

LEMMA KeysStep ==
    ASSUME Covered, KeysCovered, [POCRNext]_pvars
    PROVE  KeysCovered'
<1>1. ASSUME POCRInitialize PROVE KeysCovered'
  BY <1>1 DEF POCRInitialize, KeysCovered, Idle
<1>2. ASSUME NEW e \in worklist, PopFromWorklist(e), UNCHANGED dataVars PROVE KeysCovered'
  BY <1>2 DEF PopFromWorklist, KeysCovered
<1>3. ASSUME NEW p \in singles, POCRApplySingle(p) PROVE KeysCovered'
  BY <1>3 DEF POCRApplySingle, KeysCovered, Idle
<1>4. ASSUME NEW p \in firsts, POCRApplyFirst(p) PROVE KeysCovered'
  BY <1>4 DEF POCRApplyFirst, KeysCovered, Idle
<1>5. ASSUME NEW p \in seconds, POCRApplySecond(p) PROVE KeysCovered'
  BY <1>5 DEF POCRApplySecond, KeysCovered, Idle
<1>6. ASSUME UpdateCallGraph PROVE KeysCovered'
  BY <1>6 DEF UpdateCallGraph, Add, CallEdges, Covered, KeysCovered, Idle
<1>7. ASSUME UNCHANGED pvars PROVE KeysCovered'
  BY <1>7 DEF pvars, vars, local, dataVars, KeysCovered, Idle
<1> QED BY <1>1, <1>2, <1>3, <1>4, <1>5, <1>6, <1>7 DEF POCRNext

LEMMA StepImplements ==
    ASSUME Covered, Mirror, KeysCovered, [POCRNext]_pvars
    PROVE  [Next]_vars
<1>0. succ = edges /\ pred = edges
  BY DEF Covered, Mirror, MapsMirrorGraph, KeysCovered
<1>1. ASSUME POCRInitialize PROVE Initialize
  BY <1>0, <1>1 DEF POCRInitialize, Initialize, EpsEdges, KeysCovered
<1>2. ASSUME NEW p \in singles, POCRApplySingle(p) PROVE ApplySingle(p)
  BY <1>0, <1>2 DEF POCRApplySingle, ApplySingle, AddEdge, Report, Add
<1>3. ASSUME NEW p \in firsts, POCRApplyFirst(p) PROVE ApplyFirst(p)
  BY <1>0, <1>3, RowsAreConclusions
     DEF POCRApplyFirst, ApplyFirst, AddSuccs, Report, Add, IsArc, Covered
<1>4. ASSUME NEW p \in seconds, POCRApplySecond(p) PROVE ApplySecond(p)
  BY <1>0, <1>4, RowsAreConclusions
     DEF POCRApplySecond, ApplySecond, AddPreds, Report, Add, IsArc, Covered
<1> QED BY <1>1, <1>2, <1>3, <1>4 DEF POCRNext, Next, pvars

(* Joining whole rows of the two maps is the algorithm of CFLSolver, which *)
(* joins edge by edge, for a grammar without arcs, a graph in which every  *)
(* node has an outgoing edge, and no call resolved on the way.             *)
THEOREM POCRImplementsSolver == ASSUME Covered PROVE POCRSpec => POCRImplements
<1>1. POCRInit => SolverInit
  BY DEF POCRInit
<1>2. POCRInit => KeysCovered
  BY KeysInit
<1>3. KeysCovered /\ [POCRNext]_pvars => KeysCovered'
  BY KeysStep
<1>4. Mirror /\ KeysCovered /\ [POCRNext]_pvars => [Next]_vars
  BY StepImplements
<1> QED BY <1>1, <1>2, <1>3, <1>4, MirrorInvariant, PTL DEF POCRSpec, POCRImplements, SolverSpec
=============================================================================
