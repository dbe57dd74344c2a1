---------------------------- MODULE PointsToSpec ----------------------------
(***************************************************************************)
(* What an inclusion-based points-to analysis promises to a client that    *)
(* only asks which objects a variable may point to: the answer grows while *)
(* the analysis runs, stays within the field-insensitive solution of the   *)
(* program, and is final once the analysis says so.                        *)
(***************************************************************************)
CONSTANTS Var, Object

VARIABLES
    bound,  \* the field-insensitive solution
    sol,    \* the objects each variable points to
    solved  \* the analysis has finished

vars == <<bound, sol, solved>>

Within(S) == \A v \in Var : S[v] \subseteq bound[v]

Init ==
    /\ bound \in [Var -> SUBSET Object]
    /\ sol \in [Var -> SUBSET Object]
    /\ Within(sol)
    /\ solved = FALSE

(* Variables gain objects. *)
Grow ==
    /\ ~ solved
    /\ sol' \in [Var -> SUBSET Object]
    /\ \A v \in Var : sol[v] \subseteq sol'[v]
    /\ Within(sol')
    /\ UNCHANGED <<bound, solved>>

Finish ==
    /\ ~ solved
    /\ solved' = TRUE
    /\ UNCHANGED <<bound, sol>>

Next == Grow \/ Finish

Spec == Init /\ [][Next]_vars
=============================================================================
