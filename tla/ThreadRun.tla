------------------------------ MODULE ThreadRun ------------------------------
(***************************************************************************)
(* Runs of a multithreaded program: its threads step, call, return, fork,  *)
(* take and release mutexes and end, in every order.  A join may pass at   *)
(* any time, which only adds behaviours.                                   *)
(***************************************************************************)
EXTENDS ThreadProgram

CONSTANTS
    MaxThreads, \* bound on the threads a run creates
    MaxDepth    \* bound on its depth of calls

VARIABLES
    live, \* the threads that run
    born  \* the number of threads created

runVars == <<live, born>>

(* path holds the forks and calls, with their targets, that lead to the    *)
(* instruction; those after the first base ones are yet to return.         *)
Thread(id, at, path) == [id |-> id, at |-> at, path |-> path, base |-> Len(path), holds |-> {}]

Idle == live = {} /\ born = 0
Started == live' = {Thread(1, prog.entry[prog.main], <<>>)} /\ born' = 1

Move(d, e) == live' = (live \ {d}) \cup {e} /\ UNCHANGED born

Special == ForkSites \cup LockSites \cup UnlockSites \cup prog.rets

Execute(d) == \E i \in Next1(d.at) :
    /\ Callees(d.at) = {} /\ d.at \notin Special
    /\ Move(d, [d EXCEPT !.at = i])

Acquire(d) == \E i \in Next1(d.at) : \E c \in prog.locks :
    /\ c[1] = d.at /\ \A e \in live : c[2] \notin e.holds
    /\ Move(d, [d EXCEPT !.at = i, !.holds = @ \cup {c[2]}])

Release(d) == \E i \in Next1(d.at) : \E c \in prog.unlocks :
    /\ c[1] = d.at
    /\ Move(d, [d EXCEPT !.at = i, !.holds = @ \ {c[2]}])

Call(d) == \E g \in Callees(d.at) :
    /\ Len(d.path) - d.base < MaxDepth
    /\ Move(d, [d EXCEPT !.at = prog.entry[g], !.path = Append(@, <<d.at, g>>)])

Return(d) ==
    /\ d.at \in prog.rets /\ Len(d.path) > d.base
    /\ \E i \in Next1(d.path[Len(d.path)][1]) :
           Move(d, [d EXCEPT !.at = i, !.path = SubSeq(@, 1, Len(@) - 1)])

Exit(d) ==
    /\ d.at \in prog.rets /\ Len(d.path) = d.base
    /\ live' = live \ {d}
    /\ UNCHANGED born

Fork(d) == \E c \in prog.forks : \E i \in Next1(d.at) :
    /\ c[1] = d.at /\ born < MaxThreads
    /\ born' = born + 1
    /\ live' = (live \ {d}) \cup
          {[d EXCEPT !.at = i], Thread(born', prog.entry[c[2]], Append(d.path, c))}

RunNext == \E d \in live :
    Execute(d) \/ Acquire(d) \/ Release(d) \/ Call(d) \/ Return(d) \/ Exit(d) \/ Fork(d)
=============================================================================
