# Verification of the SVF static analysis framework

SVF reads LLVM bitcode, builds an intermediate representation (SVFIR) and runs pointer,
value-flow, concurrency and numeric analyses on it; this repository adds a synthesizer that
edits the C source an analysis has been run on. This directory holds TLA+ models of the
parts the rest relies on, TLC runs of them on small instances, and TLAPS proofs for every
instance of the most important results.

All line numbers are those of the sources under `src/`. `PROJECT.json` maps every
definition of the models to the lines it stands for.

## 1. Inventory

Almost all of SVF is sequential: one thread runs one analysis to a fixpoint. What is
hard is that the order of the work comes from worklists, hash tables and graph layout, and
that work done for one element rewrites data another element has already been processed
with (merging, collapsing, difference sets, growing call graphs). The models make the
order nondeterministic and ask whether the answer depends on it.

| component | state | operations | interacts with | what makes it correct |
| --- | --- | --- | --- | --- |
| **Andersen's analysis** (`svf/lib/WPA/Andersen*.cpp`, `Graphs/ConsG.cpp`) | constraint graph, points-to and difference sets, representatives, worklist, objects to collapse, call graph | SCC merge, wave propagation, collapse of positive-weight cycles and variant geps, loads and stores, call-graph update, normalisation | memory objects, points-to data, worklist, SCC detection; every client reads its points-to sets | a sound fixpoint of the program as written, in every order; nothing skipped as "already propagated" is missing; it terminates |
| **Memory objects** (`SVFIR.cpp`, `SymbolTableInfo.cpp`) | objects, field nodes, field-(in)sensitivity | offset arithmetic, creation of field nodes | solver | an index never leaves its object |
| **Points-to data structures** (`MemoryModel/*`) | maps from pointers to sets, reverse sets, difference and propagated sets; a cache of numbered sets and of results | union, complement, intersection, difference | all solvers | the persistent form cannot be told from the mutable one |
| **Steensgaard, SCD, SFR, type-based analyses** | as Andersen's | variants of the same solver | as Andersen's | as Andersen's |
| **CFL reachability** (`svf/lib/CFL`) | edge-labelled graph, grammar, worklist; two maps of the POCR solvers | initialise, pop, apply productions; resolve indirect calls and solve again | grammar builder, normaliser, call graph | exactly the edges the grammar derives; maps and graph agree; the rounds end |
| **CFL grammars and graphs** | productions; graph nodes and edges | parse, normalise, build | solver input | the normal form derives the same language |
| **Thread creation tree** (`MTA/TCT.cpp`) | context-sensitive threads, fork edges, multi-forked threads | visit calls and forks, collapse recursion | call graph; MHP | one parent each; every thread of a run is in it |
| **May happen in parallel** (`MTA/MHP.cpp`) | per statement in context the threads alive there | propagate from each thread along control flow; query | thread creation tree, ForkJoinAnalysis | no two statements execute together without the analysis saying they may |
| **Locks and races** (`LockAnalysis.cpp`, `MTA.cpp`, `MTAAnnotator.cpp`) | locks of instructions, sets of locks of statements in context, loads and stores to annotate | collect, traverse, query; prune pairs | thread creation tree, MHP | what is said to be held is held; no access that races is pruned |
| **Flow-sensitive multithreaded analysis** (`FSMPTA.cpp`, `PCG.cpp`) | value-flow edges between threads | add edges | MHP, locks | not called by MTA |
| **Source modification** (`svf-llvm/lib/SYN/LightAnalysis.cpp`) | the lines of each file, offsets of inserted lines | insert, replace, delete, negate a condition, fill holes | synthesizer and readtransfer tools | edits named by lines of the parsed file hit these lines after any earlier edits |
| **Flow-sensitive analyses** (`FlowSensitive.cpp`, `VersionedFlowSensitive.cpp`) | points-to sets at program points, versions | propagate over the SVFG, strong updates | Andersen, memory SSA | a strong update is made only where the target is unique |
| **Demand-driven analyses** (`DDA/*`) | cached answers, visited sets, call stack, budget | backward queries, recomputation | SVFG, Andersen | a cached answer is complete or marked otherwise |
| **Memory SSA** (`MSSA/*`) | memory regions, mus, chis, phis, versions | partition, place, rename | value-flow graph | each use names the version that reaches it |
| **Value-flow and control-flow graphs** (`Graphs/*`) | nodes and edges | build, optimise | all analyses | optimisation keeps the flows |
| **Worklists and SCC detection** | queue and set; stack machine | push, pop; visit | all solvers | no element is lost or held twice; components are exact |
| **Saber** (`SABER/*`) | slices, path conditions | source-sink traversal, guards | SVFG, Z3 | a leak is reported when a path has no sink |
| **Abstract execution** (`AbstractExecution/*`) | interval and relational states | transfer functions, widening | ICFG, Z3 | intervals contain the concrete values, widening ends |
| **SVFIR, file formats, options**; **utilities**; **LLVM front end**; **command-line tools**; **vendored code** | data, files | construction, input and output | | outside the models (section 8) |

There is no persistence between runs, no network and no lock in the analyses themselves, so
crashes, lost messages and timeouts are not among the hazards; the budget of the
demand-driven analysis is the only thing like a timeout. Concurrency occurs in the
*analysed* program, and there the models of MHP and of locks compose analysis and program.
`PROJECT.json` lists the hazards at their lines, with the properties that cover them.

## 2. Plan

Ordered by what the rest depends on. The parts marked done are in this directory.

1. *(done)* Andersen: `MemObjects`, `ConstraintGraph`, `Andersen`, `AndersenWaveDiff`; the
   promise to clients `PointsToSpec` and its refinement (in `MCAndersen`); proofs.
2. *(done)* CFL: `CFLReachability` (abstract), `CFLSolver`, `POCRSolver`; proofs of both
   refinements.
3. *(done)* Threads: `ThreadProgram`, `ThreadCreateTree`, `MHP`, composed with runs of the
   analysed program (`ThreadRun`) in `MHPSoundness`; proofs of the tree and of soundness.
4. *(done)* Source edits: `SourceModification`; proofs of its properties.
5. *(done)* Points-to data: `PointsToCache`, `PersistentPTData`, abstract `DiffPTData`; proof of
   the refinement.
6. `WorkList` and the stack machine of `SCCDetection`, so that `ConstraintGraph` and
   `CFLSolver` rest on models of them instead of on their outcome (`List::push` of
   `WorkList.h` never fills the set that `find` looks in, which a model has to show).
7. *(done)* Flow-sensitive analysis: `ValueFlow`, `FlowSensitive`, `FlowSensitiveFIFO` with
   strong updates and the incremental data, refinement of `PointsToSpec`, proofs. Open: the
   versioned analysis.
8. *(done)* Locks: `LockAnalysis`, composed with `MHP` and runs in `RaceAnnotation`; proof that
   only collected locks are met. Open: ForkJoinAnalysis, the spans FSMPTA asks for.
9. *(done)* Demand-driven analysis: `DemandDriven`, with recomputation, calls found on the way and
   the budget; proof. Open: `ContextDDA`.
10. Other solvers on the constraint graph: the base Andersen loop, SCD, SFR, Steensgaard.
11. Pure algorithms: interval arithmetic with widening, WTO, node id allocation, the
    normalisation of grammars (`CFGNormalizer.cpp`), placement of phis in memory SSA.

Theorems worth adding: `LocksHeld` and `RacesAnnotated` for programs without the four kinds of
statements that section 7 lists, on top of `MHPSound` and `LocksAreCollected`; `HolesExact` for
holes none of which has digits another begins with.

## 3. Modules

### Andersen's analysis

- **MemObjects**: an object is a pair of a base and a field index, `WholeObj` for the node
  of the object itself. `GetModulusOffset` is `SymbolTableInfo::getModulusOffset`: a negative
  offset is made positive (`Positive`), one past the end is wrapped with C++'s remainder (`Rem`) or
  clamped, and the comparison that decides is one of 32 bits. `GetGepObjVar` chooses the node a gep
  leads to. Offsets are integers (`Offset`), as many as keep the sum of an index and an offset
  within 32 bits.
- **ConstraintGraph**: nodes, edges, representatives, positive-weight cycles. `MoveEdges`
  is `moveInEdgesToRepNode` and `moveOutEdgesToRepNode` for all members of a component at
  once; which member becomes the representative is any choice (`SCCReps`), which covers
  every order in which the code visits the graph.
- **Andersen**: what a step does with sets: `ComputeDiffPts` (`Diff`), processing of copies
  and geps, `CollapseField` with the rewriting of all points-to sets, the edges of loads,
  stores and parameters, call resolution.
- **AndersenWaveDiff**: the loop. `pc` names the phase of `solveWorklist`; one action per
  handler: `SCCDetect`, `PopNode` (and `collapsePWCNode`), `CollapseNodePts`, `ProcessNode`,
  `CollapseFields`, `PostProcessNode`, `HandleLoadStore`, `UpdateCallGraph`,
  `ConnectParam`, `NextIteration`, `Normalize`. Waves take any topological order; `order`
  keeps the edges as they were when the stack was built, as the code does not look again.
- **PointsToSpec**: what a client may rely on; the mapping is in `MCAndersen`.
  The upper bound is the field-insensitive solution, computed by a recursive operator.
- **AndersenWaveDiffProofs**: theorems.

### CFL reachability

- **CFLReachability**: any sound derivation, an answer at the fixpoint only.
- **CFLSolver**: the worklist, `processCFLEdge` production by production, and the loop of
  `CFLAlias` that adds the edges of resolved calls. The worklist is a set: the code's queue
  is one of the orders. A call is an edge that is added when its trigger edge is derived;
  the limit on indirect calls is not reached.
- **POCRSolver**: extends it with the two maps and their row-wise insertion. With
  `Transitive = {"F"}` it is `POCRHybridSolver`, whose `addArc` always returns at its
  first test and therefore has no further state.
- **CFLSolverProofs**: theorems about both solvers.

### Threads

- **ThreadProgram**: the analysed program (instructions, calls, forks, locks, loads, stores),
  the call graph with its cycles, and the functions nobody calls.
- **ThreadCreateTree**: contexts as sequences of call sites, with the collapsing of
  recursion, threads as pairs of context and fork site, multi-forked threads.
- **MHP**: the interleaving sets as a relation between statements in context and threads,
  one action per start of a thread and per statement taken from the worklist.
  `ForkJoinAnalysis` is present by its outcome: `isSameSCEV` returns false, so nothing is
  ever found joined.
- **ThreadRun**: the program itself (external): threads that step, lock, unlock, call, return,
  fork and exit in every order.
- **MHPSoundness**: after the analysis the program runs. `Analyse` and `Run` are composed in
  one specification so that `Sound` compares real states with answers.
- **MHPSoundnessProofs**: theorems about the tree and about the answers.
- **LockAnalysis**: `analyzeIntraProcedualLock` lock by lock, `collectCxtLock` context by
  context, `analyzeLockSpanCxtStmt` statement by statement with its queue; then the queries.
  `Mark` keeps the code's rule that a statement first reached without locks gets no entry.
- **RaceAnnotation**: `computeMHP`, then `computeLocksets`, then `pruneAliasMHP`, then the run.
  `RacesAnnotated` compares two threads about to access one object with what was pruned,
  `LocksHeld` the locks threads hold with those the analysis gives.
- **RaceAnnotationProofs**: theorem.

### Flow-sensitive analysis

- **ValueFlow**: the graph as constants (nodes for statements, memory phis and parameters,
  edges for variables and for contents), what a node makes of what reaches it, and the
  equations an answer solves (`Apply`, `Solves`), strong updates among them.
- **FlowSensitive**: `ProcessNode` by the kind of the node, each with its propagation
  (`Finish`) and the marks of `PersistentIncDFPTData` (`inUpd`, `outUpd`);
  `UpdateCallGraph` between rounds. The worklist is a set here.
- **FlowSensitiveFIFO**: the queue of `WorkList.h` as it is, filled in one of several orders.
- **FlowSensitiveProofs**: theorems, for every order.

### Demand-driven analysis

- **DemandDriven**: `FlowDDA` on the graph of `ValueFlow`. The recursion of `findPT` is an
  explicit stack of frames, one for each call in progress, with what it has still to ask for;
  a frame also stands for `reCompute`, which calls `findPT` again for the items behind a set that
  has grown. `FindPT` is the test of visited marks and budget, `HandleStatement`,
  `HandleTargets` and `HandleTarget` are `handleSingleStatement`, `Update` and `NextEdge` are
  `updateCachedPointsTo` and `reComputeForEdges`, `Downgrade` is `handleOutOfBudgetDpm`. Caches
  and visited marks last from query to query, as in the code.
- **DemandDrivenProofs**: theorem.

### Source modification

- **SourceModification**: a file is a sequence of lines, a line a sequence of cells that know
  the position they came from, so that every property can ask what became of a cell. The
  positions clang reports are inputs. A snippet or replacement is a single cell.
  `std::out_of_range`, which ends the program, sets `aborted`. At its end are the conditions on
  files and calls that the theorems assume.
- **SourceModificationProofs**: theorems.

### Points-to data

- **PointsToCache**: constant-level operators from a cache to the cache an operation
  leaves: `EmplacePts`, `Operate` (`unionPts`, `complementPts`, `intersectPts` with
  their property cases, lookup, and the entries made in advance for *other* operations).
  `limit` is the number of values of `PointsToID`; the assertion of `newPointsToId` sets
  `exhausted`, after which nothing happens.
- **PersistentPTData**: `PersistentDiffPTData`: pointers have numbers of sets, and changes
  are found by comparing numbers.
- **DiffPTData**: the abstract specification, which is `MutableDiffPTData`.
- **PersistentPTDataProofs**: theorems.

`clearAllPts` is never called and `clear` is not an action of either module. (If it were used,
`MutableDiffPTData::clear` would leave the difference and propagated sets behind, while
`PersistentDiffPTData::clear` empties them.)

## 4. Runs

Every `.cfg` names its constants; the modules `MC*` define the instances. A run that
passes is a check; a run marked *violation* shows a place where the code does not do what a
comment of the repository says (section 7).

| run | question | result |
| --- | --- | --- |
| `andersen` | Does the wave solver reach a sound, complete and final fixpoint of eleven small programs for every choice of representatives, wave order and order of the worklist? `GraphConsistent` concerns the rewriting of the graph, `PropagatedArrived` what is skipped, `CollapsesComplete` that no set keeps a field of a collapsed object, `DirectSolved`, `AccessesSolved` (loads and stores) and `CallsSolved` the answer, measured by the statements of the program and not by what is left of the graph; `TypeOK` that no offset leaves its object, be it negative or past the end; `MergesKept`, `ImplementsPointsTo` and `Terminates` its behaviour over time. | holds |
| `andersen_load` | The same program with a load through the merged node: is the load solved? | violation |
| `cfl` | Does the worklist solver give exactly what context-free reachability derives, on four graphs, with calls resolved while it runs, in every order? `IterationStable` is about the edge set the code walks while it inserts. | holds |
| `pocr` | Do the rows of the two maps give the same edges, and do the maps stay the graph? | holds |
| `mhp` | Seven threaded programs are analysed in every order and then run in every interleaving: does the analysis report every pair that comes to execute together (`Sound`)? Is its result independent of the order (`OrderIrrelevant`)? Does every thread have one parent? | holds |
| `races` | Seven programs with locks are analysed and run: is every access that races annotated (`RacesAnnotated`), is every lock held that the analysis gives (`LocksHeld`), does the traversal meet only locks that were collected (`LocksCollected`, an assertion of the code), do both analyses end (`AnnotationEnds`)? | holds |
| `source` | Every sequence of up to five edits (insert, replace, delete a range or branch, fill a hole) of one file: do lines stay aligned, snippets in place, does what was asked go (`AllDeleted`), and beyond that at most the one character behind each range (`OneBehindAtMost`)? | holds |
| `points_to` | Can points-to data kept as numbers of shared sets be told from points-to data kept as sets, in every sequence of operations, with numbers enough and with too few? | holds |
| `flow_sensitive` | A program with an indirect call that turns a strong update into a weak one: do the marks announce everything that has not been passed on (`MarksCover`), is every state within the least solution (`WithinSolution`) and within Andersen's answer (`RefinesAndersen`), and does the analysis end? | holds |
| `flow_sensitive_opt` | The same on the graph SVFGOPT makes of it: is every node that does not hold on the worklist (`WorklistCovers`), and is every equation solved at the end (`SolvedAtEnd`)? | holds |
| `demand` | Four queries in every sequence, with budgets that stop early, late and never: is every answer complete (`AnswersComplete`), is nothing cached that the least solution does not have, unless a query was downgraded to more (`WithinSolution`), does every query end (`QueriesEnd`)? | holds |
| `demand_cycle` | A cycle through the parameter of a function, asked at two places: is the second answer complete? | violation |

Further configurations show the remaining disagreements of section 7 in the same way:
`MCAndersenZeroOffset`, `MCPOCROthers`, `MCMHPOthers`, `MCRaceOthers`,
`MCSourceEnd`, `MCSourceOthers` (run with `tlc -continue -config X.cfg` on the module MCAndersen,
MCPOCR, MCMHP, MCRaceAnnotation or MCSourceModification; most show several at once).

Every property of a passing run has a mutant in `PROJECT.json`: a definition of the model
changed as a plausible mistake would change the code, with which TLC finds the property
violated.

### Bounds, and why they are enough

- **Andersen**: eleven programs of at most nine statements. Each was chosen to bring out an
  interaction: a copy cycle with a store and a load (merge), a cycle through memory that
  exists only after a wave, the same with an older cycle inside, a positive-weight cycle, a
  variant gep that collapses an object whose fields are in memory the wave has passed,
  nested geps out of range, two geps in one cycle, an indirect call found through a load,
  two callees one of which allocates, and geps with negative offsets. Objects have two or three
  fields and `MaxFieldLimit = 2`, so that an index can be in range, past the end and clamped, past
  the end and wrapped, and negative; with the default `-field-limit=512` an object would need 513
  fields to be wrapped. The other options have their defaults (`-ff-eq-base=false`, no cyclic
  indices). `U32Half` is 2^31 in the code; the runs have 2^15, because TLC's integers have 32 bits
  and the modulus `2 * U32Half` would not fit. The limit of indirect calls (100) is not reached.
- **CFL**: two or three nodes; a cycle, calls that return to their own and to another
  site, chains that need an edge derived late, one call resolved by an edge that another
  resolved call helps to derive. Two nodes suffice for every pair of productions to be tried
  in both orders, three for both halves of a pair to come from different rounds.
- **MHP**: at most 4 threads in a run and 2 nested calls. The analysis itself is not
  bounded (contexts are finite because recursion is collapsed). The programs contain
  siblings with children, forks in loops, in functions called twice or in a loop,
  recursion of one and of two functions, and a site that forks either of two routines. Runs
  may pass a join at any time, which only adds behaviours.
- **Locks**: the same bounds, three threads. The programs have a mutex taken in callers of one
  function, taken and released in callees, taken on one of two paths, two mutexes nested in a
  loop, recursion inside a span, and a caller without the mutex. Successors, callees and
  unlocks come in every order, as in the code's sets.
- **Flow-sensitive**: one program, 22 nodes (19 when optimised), three orders of the nodes: as
  written, reversed, and one that reaches stores before their pointers. It has each kind of
  node, a cycle, a field-insensitive object, a store that is strong in the first round and a
  call that comes in the second. Successors are pushed in every order.
- **Demand-driven**: one program, 19 nodes, with a loop through memory in which a strong update turns
  into a weak one, and an indirect call behind it whose callee writes the function pointer. Edges are
  taken in six orders of the nodes, three and their reverses; the targets of a pointer and items of one
  node in every order. Queries may be repeated. The budgets stop the walk at its start (3), inside the
  loop or the callee (9), while these are done again (21), or not at all (1000).
- **Source**: nine lines, up to five edits. Three edits are enough for an insertion, another
  whose offset depends on the first, and an edit that depends on both. Behind the end of each range and
  branch the line goes on, so that one sees what is deleted there.
- **Points-to data**: two pointers, two objects, a set given by value, and 3 or 4 numbers:
  with four all sets fit, with three they run out. Pointers and objects are symmetric. The
  view leaves out the difference sets and the last returned value, which no operation reads;
  TLC still compares both at every step with the mutable data.

`CHECK_DEADLOCK FALSE` is said of `mhp` and `races`, where the run of the program ends, of
`SourceModification`, where callers stop after `MaxEdits` edits, and of `points_to`, where a
failed assertion ends the program.

### Fairness

The solvers are one thread that never waits, so that until it has finished it keeps taking
steps: weak fairness of `Next` (for `AndersenWaveDiff` written as "final, or infinitely many
steps", which is the same because a step is always possible: deadlock is checked). The same holds of
`FlowSensitiveFIFO`. In `DemandDriven` the steps of a query are fair and queries are not:
clients ask when they like. In `RaceAnnotation` only `Annotate` is fair; nothing is assumed of the program that runs
afterwards. Edits and the operations of points-to data happen when callers ask for them, so
neither has fairness or liveness.

## 5. Proofs

| module | theorem | assumes |
| --- | --- | --- |
| AndersenWaveDiffProofs | `TypeCorrect`, `DifferencePropagationSound` (`PropagatedArrived`), `CollapsingComplete` (`CollapsesComplete`), `GraphStaysConsistent` (`GraphConsistent`), `MergesAreFinal` (`MergesKept`) | `MemObjectsAssumption` (objects have at most 2^31 fields), `AndersenAssumption`: shape of the programs, with offsets from -2^31 to 2^31, that they have finitely many functions and call sites; the third and fourth also `ProgramsAssumption`: what SVFIRBuilder makes of LLVM's single-assignment form, and that only address statements mention objects |
| | `DirectEdgesSolved` (`DirectSolved`) | the same; `GepsAcross`: no gep leads into its own base; `ZeroOffsetsFlagged` |
| | `CallsAreSolved` (`CallsSolved`) | the same; `GepsAcross` |
| | `AccessesAreSolved` (`AccessesSolved`) | the same; `GepsAcross`; `PointersUnmerged` throughout the run |
| CFLSolverProofs | `TypeCorrect`, `WorklistSound` (`ProcessedClosed`), `AnswerComplete` (`Complete`), `SolverImplements` (`ImplementsReachability`), `IterationSafe` (`IterationStable`) | `CFLAssumption`: edges lie between nodes of the graph |
| | `MapsAgree` (`MapsMirrorGraph`), `POCRImplementsSolver` (`POCRImplements`) | `CFLAssumption`; the second also `Covered` |
| PersistentPTDataProofs | `TypeCorrect`, `CachesRight` (`CacheExact`), `ReverseExact` (`RevPtsExact`), `PersistentImplementsMutable` (`ImplementsMutable`) | `PointsToCacheAssumption`, `PersistentPTDataAssumption` |
| FlowSensitiveProofs | `TypeCorrect`, `MarksForgetNothing` (`MarksCover`), `WorklistForgetsNothing` (`WorklistCovers`), `Solved` (`SolvedAtEnd`), `NeverTooMuch` (`WithinSolution`) | `TypeAssumption`; `DefUseAssumption` (definitions lead to all uses); `EdgeAssumption` (parameters lead to parameters, contents flow from stores and memory SSA); `SolutionAssumption` for the last |
| DemandDrivenProofs | `NeverTooMuch` (`WithinSolution`) | the same, and `DemandAssumption`, `SourceAssumption` (a direct edge comes from the definition of an operand, or from a parameter) |
| MHPSoundnessProofs | `TreeInvariant`, `TreeHasOneParent` (`OneParent`) | `ProgramAssumption`, `TCTAssumption`: types, and that the main thread has no fork site |
| | `MHPSound` (`Sound`) | the same; the program is `Tame` |
| RaceAnnotationProofs | `LocksAreCollected` (`LocksCollected`) | `ProgramAssumption`, `FiniteAssumption` (a program has finitely many instructions and functions); `InFunctions`: control flow stays within a function |
| SourceModificationProofs | `OffsetsLead` (`Aligned`) | `ModificationAssumption` (types), `Careful` |
| | `SnippetsStay` (`SnippetsInPlace`) | also that no line is added below the last one, and every `Branch` is `Proper` |
| | `NothingElseGoes` (`OneBehindAtMost`) | `ModificationAssumption`, `Careful`; every range is `Single`, every branch `Formatted` |
| | `OnlyNamedGo` (`OnlyAsked`) | the same, and `EndsLines`: nothing stands behind what is deleted |
| | `NamedPartsGo` (`AllDeleted`) | as `NothingElseGoes`, and `NoGaps` |

`TypeCorrect` names a property of a run in the first module only; in the others TLC does not check the type
invariant by itself.

**Difference propagation.** `handleCopyGep` looks only at what a node has not propagated yet.
That the rest has arrived at all copy successors is not inductive alone. A merge must not
leave an edge at a node that no longer counts (`RepsStable`); what a node has propagated it
must still hold, except for field nodes that a collapse has replaced (`PropaKept`), or a
successor that gains its set by a merge would miss them; and a new edge must come with a cut of
the propagated set (`AddCopyEdge`). The invariant is
`IInv == TypeOK /\ RepsStable /\ PropaKept /\ PropagatedArrived`; there is a step for each
action, and lemmas about `MergeNodes`, `CollapseField`, `AddCopyEdge` and the offset
arithmetic (`ModulusOffsetType`: what `GetModulusOffset` gives is a field, whatever the sign and size of the
offset).

**Merges.** `MergesKept` is an action property: it follows from the definition of the merged
representative and of `Normalize`, which changes the representatives of redundant field nodes
only.

**Collapses.** A variant gep makes an object field-insensitive while its field nodes are still
in points-to sets, also of nodes the wave has passed. `CollapseInvariant` says that every field
node in a set is one that `memToFieldsMap` knows, so that `collapseField` finds it, and that
if its object is field-insensitive the object is in `nodesToBeCollapsed`. Hence
none is left when that list is empty. A node collapsed away does not return to the graph
because merging moves nodes only onto nodes that represent themselves (`MergeDrops`), and
`handleCopyGep` adds only such nodes. It needs `AddressesWhole`: no statement takes the
address of a field.

**The solution.** That the final sets solve the program, and not only the graph that is left of it, takes
two steps. `ProgramKept` says that each statement is still an edge between the representatives
of its ends, or lies inside a component (`Inside`) as a copy, as a gep of a flagged component or
as a gep of offset zero. And `DirectInvariant` says that the graph is solved when the waves end:

- `FlowsArrived` extends `PropagatedArrived` to geps, with the objects collapsed so far
  (`Collapsed`) field-insensitive: a collapse changes what a gep leads to.
- `FieldsIsolated`: a field node that no set holds is in no edge and no component,
  until its object is collapsed. So a collapse that finds no pointer to a field (`Hit`)
  changes no set (`QuietCollapse`), and one that does sets `reanalyze`.
- `WaveInvariant`: as long as nothing asks for another iteration, `order` is topological for the
  direct edges (`InOrder`), and the edges out of the nodes behind the wave have nothing left to
  pass on (`EdgesSolved`). Processing a node changes only nodes that are still to come. When
  the solver ends without another iteration, all nodes are behind the wave.
- `NoLoops`: no direct edge leads from a node to itself, or popping a node would change
  the set of a node already popped. It needs `GepsAcross`. LLVM has an instruction that uses its own
  result only in code that is never reached.

For indirect calls, the copies asked for are `Joined` (an edge, or one representative) or still at hand,
`ParamsJoined`, and an iteration that found a callee does not end the solver. For loads and stores
`AccessesJoined` says the same of every pointer that is off the worklist. The premises of two of the theorems are
there because without them the properties are false, as section 7 shows:

- `ZeroOffsetsFlagged` of a state: each gep of offset zero between merged nodes lies in a component that was flagged
  for another reason. It holds in all states of `andersen`, not in those of `MCAndersenZeroOffset.cfg`.
- `PointersUnmerged` of all states of a run: no pointer that is dereferenced is merged with another
  node. It is always true of nine of the eleven programs of `andersen`; the others, `CopyCycle` and
  `PositiveWeightCycle`, may merge such a pointer, and there only the run shows that nothing is missed.

**The graph.** `GraphInvariant` has four parts. `RepsInGraph`: ends of edges are in the graph,
what is in the graph represents itself, and what does not was merged into a node of the graph.
`ObjectsInGraph` and `CallsInGraph`: the same of all that can become the end of an edge later,
that is, objects in points-to sets, values of functions in them, copies still to be added, and the
heap nodes of allocator calls, which are new when they are needed (`HeapNodesNew`).
`GepsDefineOnce` is why no two geps meet: a gep that is still an edge ends at the pointer
its instruction defines, and nothing is merged into that pointer. A component that
contains it contains the source of the gep too, since that is the only way into it
(`OneDefinition`, with `LastStep` about paths), and then the gep is removed. This rests on
`SingleAssignment`: the result of a gep instruction has no other definition. Two geps into
one pointer would be enough for `hasEdge` to drop one of them.

**CFL.** `IInv == TypeOK /\ ProcessedClosed /\ Phases`. `ProcessedClosed` says of all edges
taken from the worklist that their conclusions are in the graph, apart from those of the
productions still at hand for the last of them; `Phases` relates `pc`, worklist and
`answered`. Completeness is `ProcessedClosed` with an empty worklist. For the refinement every
step is shown to add only conclusions. `IterationStable` needs no invariant but types: the
walked edges all start at `j` with symbol `Z`, and an inserted edge that did too would be in
the walked set already.

**POCR.** `Mirror` (both maps are the graph, or a call is resolved somewhere) is inductive. The
step that `AddSuccs` reports nothing when all successors are known is the point: it is right
because the maps agree. The refinement then equates rows with conclusions. It needs
`Covered`: no production goes to `addArc`, no call is resolved, every node has an outgoing
edge. Where these fail, so does completeness (section 7).

**Points-to data.** The invariant is that of a cache in order (`CacheOK`: one number for each
set, 0 for the empty one, and only right results remembered) with numbers in use and exact
reverse sets. `OperateOK` is the main lemma: whether an operation is answered by a property,
from memory or by performing it, the cache only grows, stays in order and the number returned
is that of the right set; `PreemptiveRight` gives the entries made for other operations by
the algebra of sets. Then each operation is a step of the mutable data or, when the numbers
run out, a stutter; `changed` agrees because a set has one number.

**Flow-sensitive.** The invariant is
`IInv == TypeOK /\ MarksCover /\ WorklistCovers`, with an empty worklist once done. `MarksCover` says of every
indirect edge that what is at its source and not at its destination is marked;
`WorklistCovers` that a node whose equation does not hold, or whose marks are not empty, is
on the worklist. They need each other: a node that leaves the worklist has passed on what its
marks announce (`FinishMarks`), and a set that grows puts its readers back
(`FinishWorklist`). A strong update is the delicate case, since it leaves the mark of the
object it kills. With an empty worklist every equation holds (`Solved`). `NeverTooMuch` needs that what a
node makes grows with what reaches it (`DefinedGrows`, `BehindGrows`); a store that let
contents pass before its pointer has a target would break it. Together: the analysis ends with
the least solution, whatever the order.

**Demand-driven.** A query stops and resumes at any place of the recursion, so the invariant is about the
stack: what a frame has collected is in the solution for its item, and each frame is working for
the one below, that is, its item is one the other's equation reads (`Chain`). Then an answer
that is returned is right for whoever waits for it. The decisive case is the store: a frame decides
whether to ask behind it with the targets known so far. If these are a part of the targets in
the solution, a store that kills with the whole set kills with every part that holds the object,
so nothing is let pass that the solution does not let pass. The set cached by a downgrade is right only if
Andersen's answer for that variable is; hence `NothingAdded`.

**One parent.** Two edges to a thread start at one parent because an edge is added only for
what has not been visited, and because a thread names the context of its fork: two items that
fork the same thread have the same context unless a fork within a cycle of calls pushes
nothing. `TopOfContext` is what decides that case: the last call of a context leads into the
cycle of calls of the function visited in it, so that a function outside the cycle is in a
different one. `EdgesFromVisited` ties edges to visited items, `FromMain` says that threads
descend from the main thread. The invariant, `TreeInv`, needs nothing of the program but its
types and that `callersOf` is reachability, whose transitivity is a lemma about `Closure`.

**MHP.** `Sound` speaks of a run that starts when the analysis has ended, so there are two
invariants, composed in `SystemInv`. While the analysis works, what has been taken from a
worklist has been passed on (`VisitedPending`, `FlowPending`, `SeedsPending`), and what the
tree holds names the forks it stands for (`VisitedThreads`, `ThreadsForked`); hence at the end
the sets are closed under the handlers (`Settled`). While the program runs (`RunInv`):

- `Shape`: the frames of a thread are connected calls and forks; `CxtAt` and `TidOf` are the
  context and the thread they are analysed as.
- `InTree`: of these frames those that can still come to a fork are in the tree.
- `Covers(d, t)`: thread `t` is in the set of the statement `d` has come to, and in the sets from
  which `d` goes on when functions that are no candidates return.
- `CoversOwn`: `d` is covered by itself and by all that is known where it or an ancestor starts.
- `CoversOther`: for two running threads, `d` is covered by `e` and by what may descend from `e`.
  When `e` has forked `d`, or a thread `d` descends from, that is only so of `e` itself, and the
  descendants are known on one side or the other; which side depends on whether the fork is behind
  or ahead.
- `Alone`: two running threads analysed as the same one must be multi-forked. A path of calls and
  forks none of which is in a cycle of control flow is taken once, so that of all running threads
  only one may still take it.

Each kind of step (staying in a function, calling, returning, exiting, forking) has lemmas for
each part: `MovesCovers`, `MovesInTree`, `MovesMayTake`; for a fork `ForksCovers`,
`OthersCoverChild`, `OthersAndChild`, `ParentAndChild`, `ForksMayTake`, `ForksApart`. The
bounds `MaxThreads` and `MaxDepth` are arbitrary. `Tame` is what the theorem assumes of the program:

- `WellFormed`: what the front end builds. Edges of control flow stay in a function, entries
  belong to it, and an instruction is not a call, a fork, a join, a return and a lock at once.
- `OneEntry`: no other function than main is without callers. Otherwise main's thread may get
  another routine.
- `NoRecursiveFork`: no fork leads back to the function that forks. Otherwise threads share a node
  and a start routine.
- `NoMixedCall`: a call leads to candidate functions (those that may fork or join) or to others.
  Otherwise the return of the others is missing.
- `LoopsFound`: an instruction in a cycle of control flow is in a loop. Otherwise a fork in it
  counts as one thread.

The second, third and fourth are needed: `MCMHPOthers` has a program without each of them for
which `Sound` fails (section 7). `LoopsFound` depends on LLVM's loop information, which knows
reducible loops only. The programs of `mhp` are not all `Tame` (`Recursive`, `Mutual`): for these `Sound` is
checked and not proved.

**Locks collected.** `collectCxtLock` and `analyzeLockSpanCxtStmt` walk the program in
different ways: the first from function to function, pushing each call site, the second from
statement to statement, with sets of locks. When the second meets a lock it asserts that the
first has found it in the same context. The theorem relates a context to the functions its calls
are in: `Owner(x, f, n)` is the function that makes call `n + 1` of context `x`, and `f` itself
behind the last. `InCollected(x, f)` says that the outermost is an entry function and that each
of these functions which is a candidate has been visited in the context of the calls in front of
it. The invariant `LockInv` has `Collected`, what has left `clpList` has its callees visited and
its locks in the result, and `StmtsCollected`, the contexts of all statements in `cxtStmts` are
`InCollected`. Each kind of step has a lemma: within a function (`InsideCollected`), a call or return
within a cycle of calls, where no context is pushed or popped (`SameCollected`), a call that is
pushed (`PushedCollected`), a return that pops one (`PoppedCollected`). Within a cycle, one
visited function brings all others along in the same context (`CycleCollected`, along the paths of
`Closure`); an entry function is on no cycle (`EntryAlone`). Nothing is assumed of calls, forks,
locks or entry functions. `InFunctions` is needed because the callers of a statement are asked
for by its function.

**Source edits.** All five theorems rest on `LinesInv`: line `l` of the file is in the text at
`Adjusted(l)` and nowhere else (`Placed`), and no key behind the line that was last added to has
an offset (`OffsetsEnd`). The difficulty is that `Shifted` moves keys, which are lines of the
file, as if they were lines of the text. From the top to the bottom (`Careful`) all keys that are
moved are still 0, so that moving them does no harm. The sums of `SumFunctionOnSet` are taken apart by lemmas proved from
its definition, by induction over sets of numbers (`Induction`: a subset of `Nat` with 0 and
successors).

- `SnippetsStay`: a text is in the gap behind the line it was added to, that is between
  `Adjusted(l)` and `Adjusted(l + 1)`, and its line is that text alone (`CellsInGap`,
  `WantedThere`). `WantedKept`: a range that takes a line empties or cuts all of it, and what it
  takes is what `Untouched` leaves out. A negation needs an argument of its own: the code may
  look for the condition on an added line, but this has a single cell, where inserting throws
  (`CanNegate`).
- `NothingElseGoes`, `NamedPartsGo`: what is left of each line is described by the columns named
  of it and those behind ranges deleted (`LineKept`, `LineGone`). A line without either is whole, so that columns still are
  those of the file; because of `Careful` the first and the last line of a range are such lines.
  `Remaining` then cuts off exactly what is named (`LineCut`, `LineDeleted`), for the negated
  condition three columns later (`CutNegated`, `ThenKept`), and the column behind it, since callers
  pass the column behind the range where `deleteCodeRange` wants the last one; lines between are
  emptied.
- `OnlyNamedGo`: if nothing stands behind a range on its last line (`EndsLines`), the positions
  in `behind` are no characters (`BehindLines`), and then nothing goes but what was named. `MCSourceEnd.cfg`,
  the file of `source` with its else branch deleted, shows that this is needed.
- What they assume is what the code needs; each condition is one that `MCSourceOthers.cfg` drops,
  with the result that the property fails (section 7). `Single`: a range on one line takes its
  rest. `Formatted`: brace and keyword are where columns are counted from. `NoGaps`: a range that
  begins on a line behind which one was added starts below it. That the instance of the run
  `source` satisfies all of them is an assumption TLC checks (`CallsAssumption`).

### What is checked by TLC only

- Termination of all solvers and queries: liveness is beyond the prover.
- `AnswersComplete`: it holds of the program of the run and not of every one (section 7).
- `ImplementsPointsTo`: its upper bound is a recursively defined solution.
- `AccessesSolved` of runs that merge a pointer which is dereferenced, and `DirectSolved` of states in which
  a gep of offset zero lies in a component that is not flagged: they hold of the eleven
  programs and not of every one (section 7).
- `RefinesAndersen`: Andersen's answer is a recursively defined solution.
- `OrderIrrelevant`: what it compares with is a recursively defined fixpoint.
- `Sound` of programs with forks in recursion that run one routine.
- `LocksHeld`, `RacesAnnotated`: they hold of the programs of `races` and not of every one
  (section 7).
- `AnnotationEnds`, as the termination of the other analyses.
- `HolesExact` and `HolesNamed`, which only `MCSourceOthers.cfg` checks, to show where they fail.

## 6. What the abstractions leave out of the modelled parts

- Andersen: reading and writing of results, statistics, time limits, the parameters of thread
  creation. Dummy heap nodes of allocators called indirectly are present as objects from the
  start and join the graph when the call is resolved.
  Negative offsets come from SVFIR files only (`PAGBuilderFromFile::addEdge`). A sum of index and
  offset that needs more than 32 bits is left out: `getModulusOffset` compares its low 32 bits and
  may return it as it is.
- CFL: the queue's order (any order is checked), parsing, the building of graphs. An edge of a
  resolved call enters graph and worklist if it is new. `CFLAlias::addCopyEdge` asks instead for an edge
  of kind 1 and would push a null pointer for a copy edge that is there already (`CFLAlias.h:118`);
  functions that allocate and are called indirectly (`heapAllocatorViaIndCall`) are left out.
- Threads: `hare_parallel_for`, loop and join sites collected for ForkJoinAnalysis, the
  queries `mayHappenInParallelCache` and `executedByTheSameThread`.
- Locks: `cxtLocktoSpan`, which is written and never read, `isInSameSpan`, `pruneThreadLocal`,
  the metadata `performAnnotate` writes. A lock site names its objects; aliases are equality
  of these. The passing programs have no thread that stores without a lock beside copies of
  itself, no call repeated behind the unlock of the first, no fork with a mutex held and no
  lock that a branch jumps over in one step (section 7). All calls that lead nowhere are external: at
  one of a pointer without targets the traversal would end (`LockAnalysis.cpp:368`, 423).
- Flow-sensitive: objects that a variant gep makes field-insensitive on the way (Andersen's analysis,
  which runs first on the same objects, has done so), the time limit,
  clustering, reading and writing of results. The graph is an input: memory SSA and SVFGOPT
  are present by what they give.
- Demand-driven: `ContextDDA`; which queries the clients choose and what they print; objects that
  become field-insensitive, and recursion of the call graph that appears, during a query; loads and
  stores of values that are no pointers; the limit of indirect calls. The budget counts steps as the code does.
  The graph is that of the option `-opt-svfg=false`, its default; `demand` has no cycle through a
  parameter (section 7).
- Source: a single loaded file; what clang visitors print; reading and writing of files.
- Points-to data: `reset`, `remapAllPts`, statistics; `ptsToId` is the inverse of `idToPts`
  and not kept a second time; the options that switch reverse sets off.

## 7. Where code and comments disagree

| run or configuration | property | what happens |
| --- | --- | --- |
| andersen_load | LoadSolved | A node with loads is merged into a component whose set does not change afterwards; the representative is not put on the worklist (`Andersen.cpp:806`) and its loads never see the objects of the others. |
| MCAndersenZeroOffset.cfg | DirectSolved | A gep inside a component is removed without flagging a positive-weight cycle if its offset is 0 (`ConsG.cpp:500`); when the first field is not the base that offset still leads to another object. |
| MCPOCROthers.cfg | Complete | `addArc` returns at once for an edge already in the maps (`CFLSolver.cpp:316`). |
| MCPOCROthers.cfg | Complete | No epsilon edges for nodes without outgoing edges (`CFLSolver.cpp:203`). |
| MCPOCROthers.cfg | Complete | Edges of a resolved call are missing from the maps (`CFLAlias.h:127`). |
| MCMHPOthers.cfg | Sound | The main thread starts in whichever entry function a hash set gives first (`TCT.cpp:399`). |
| MCMHPOthers.cfg | Sound | A call that may lead to a candidate function is not stepped over (`MHP.cpp:116`), though another callee, which forks nothing and is therefore not returned from either (`MHP.cpp:180`), comes back. |
| MCMHPOthers.cfg | Sound | A fork site in a cycle of calls that may run either of two routines has one node, with the start routine found first (`TCT.h:486`); where the other starts, siblings are not pushed. |
| MCMHPOthers.cfg | JoinEnds | `isSameSCEV` returns false (`MHP.cpp:1028`): no join is matched. Less precise, but sound. |
| MCRaceOthers.cfg | RacesAnnotated | A pair of equal statements in context is passed over (`LockAnalysis.cpp:618`), so a store is protected from itself in other threads. |
| MCRaceOthers.cfg | RacesAnnotated | `removeCxtStmtToSpan` is given the statement of the unlock where the lock is meant, so the traversal stops at every unlock (`LockAnalysis.cpp:368`); a function called again behind it is known in the context of the first call only. |
| MCRaceOthers.cfg | RacesAnnotated | The set of locks is passed to the forked thread (`LockAnalysis.cpp:403`), which does not hold them. |
| MCRaceOthers.cfg | RacesAnnotated | A path without locks that comes first leaves no entry to intersect with (`LockAnalysis.h:361`). |
| demand_cycle | AnswersComplete | The set of an actual parameter is cached as that of the variable passed (`FlowDDA.h:163`, `VFG.cpp:1043`), so that it never grows when it is done again and what depends on it is not: a later query answers with too little. |
| MCSourceEnd.cfg | OnlyAsked | The end of a range is the column behind it, and `deleteCodeRange` deletes that column too (`LightAnalysis.cpp:1342`; also 1355, 1385, 1412, 1438): the character behind the closing brace goes. |
| MCSourceOthers.cfg | Aligned | Keys of `lineOffsetMap` are source lines when read and text lines when shifted (`LightAnalysis.cpp:872`). |
| MCSourceOthers.cfg | AllDeleted | Start and end of a range are adjusted differently (`LightAnalysis.cpp:1192`). |
| MCSourceOthers.cfg | SnippetsInPlace | Nothing is added below the last line (854). |
| MCSourceOthers.cfg | OneBehindAtMost | A range within a line takes the rest of the line (1218). |
| MCSourceOthers.cfg | AllDeleted | A blank between `else` and its brace leaves a letter behind (1342). |
| MCSourceOthers.cfg | AllDeleted | A brace on a line of its own stays (1332). |
| MCSourceOthers.cfg | HolesExact | Hole 1 is found in hole 10 (1463). |
| MCSourceOthers.cfg | HolesNamed | The name of the defined variable is never found (1491). |

`source` passes because callers are `Careful`: lines are added from the top down and nothing
is deleted that begins or ends on a line with something deleted before; and its file and
edits have nothing of the other kinds. The character behind a range is lost in `source` as well, and
`OneBehindAtMost` allows for it. `andersen` passes because none of its programs
dereferences a node merged through memory, or has a cycle whose only gep has offset 0.
`races` passes because of what section 6 says of its programs. `demand` passes because no cycle
of its program goes through a parameter. The other configurations drop these conditions.

## 8. Not modelled

Parts that are planned are in section 2. The following are not: the LLVM front end translates
LLVM's data structures and has little behaviour without them; SVFIR classes, file formats and
options are plain data and input or output; statistics, printing and the wrappers of Z3 keep
no state the analyses depend on; the path conditions of Saber and the relational states of
abstract execution are Z3 formulas; the tools call the components one after the other;
`cJSON` and `fastcluster` are third-party code. Bit vectors are data structures whose
operations tests can reach.

## 9. How to run

    tlc -workers 2 -config MCAndersen.cfg MCAndersen
    tlapm AndersenWaveDiffProofs.tla

and likewise for the other `MC*.cfg` and `*Proofs.tla`. The longest run (`points_to`) takes
about a minute and a half on two cores.
