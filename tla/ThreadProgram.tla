---------------------------- MODULE ThreadProgram ----------------------------
(***************************************************************************)
(* What the analyses of multithreaded programs know of a program: control  *)
(* flow, the graph of calls and forks that the pointer analysis resolved,  *)
(* the calls of the thread library and the memory they and the accesses    *)
(* may name.                                                               *)
(***************************************************************************)
EXTENDS Naturals, FiniteSets, Sequences

CONSTANTS
    Inst,    \* instructions
    Fun,     \* functions
    Mem,     \* objects, mutexes among them
    Programs \* the programs that are analysed

(* Calls and forks lead from a site to a function they may run; exits      *)
(* leads from a join in a loop to the exit blocks of the loop; joined      *)
(* holds the joins and the fork sites whose thread they name.  entryEnd    *)
(* ends the first block of a function.  locks and unlocks name mutexes,    *)
(* loads and stores objects, each of which may be any of several.          *)
Program == [
    main : Fun, fun : SUBSET Fun, entry : [Fun -> Inst], entryEnd : [Fun -> Inst],
    fn : [Inst -> Fun], next : SUBSET (Inst \X Inst), exits : SUBSET (Inst \X Inst),
    calls : SUBSET (Inst \X Fun), forks : SUBSET (Inst \X Fun),
    joins : SUBSET Inst, joined : SUBSET (Inst \X Inst), rets : SUBSET Inst, loops : SUBSET Inst,
    locks : SUBSET (Inst \X Mem), unlocks : SUBSET (Inst \X Mem),
    loads : SUBSET (Inst \X Mem), stores : SUBSET (Inst \X Mem)]

ASSUME ProgramAssumption == Programs \subseteq Program
ASSUME FiniteAssumption == IsFiniteSet(Inst) /\ IsFiniteSet(Fun)

CallSite == Inst \X Fun
Cxt == Seq(CallSite)

VARIABLES
    prog,      \* the program
    callersOf  \* tcgSCC: the functions that reach a function by calls

progVars == <<prog, callersOf>>

-----------------------------------------------------------------------------
(* The call graph, which has edges for forks too.                          *)
Sites == prog.calls \cup prog.forks
CallGraph == {<<prog.fn[c[1]], c[2]>> : c \in Sites}

(* Pairs connected by one or more edges: the second is in every set that   *)
(* has what follows the first, and whatever follows its elements.          *)
Closure(R) ==
    LET ends == UNION {{e[1], e[2]} : e \in R}
    IN  {x \in ends \X ends : \A S \in SUBSET ends :
            (\A e \in R : e[1] \in {x[1]} \cup S => e[2] \in S) => x[2] \in S}

(* The functions from which f is reached, with f. *)
Callers(f) == {f} \cup {g \in Fun : <<g, f>> \in Closure(CallGraph)}

SameSCC(f, g) == f \in callersOf[g] /\ g \in callersOf[f]
InCycle(f) == \E e \in CallGraph : e[2] = f /\ SameSCC(e[1], f)

EntryFuns == {f \in prog.fun : \A e \in CallGraph : e[2] # f}

Next1(i) == {e[2] : e \in {x \in prog.next : x[1] = i}}
Callees(i) == {c[2] : c \in {x \in prog.calls : x[1] = i}}
ForkSites == {c[1] : c \in prog.forks}
LockSites == {c[1] : c \in prog.locks}
UnlockSites == {c[1] : c \in prog.unlocks}

ProgramInit ==
    /\ prog \in Programs
    /\ callersOf = [f \in Fun |-> Callers(f)]
=============================================================================
