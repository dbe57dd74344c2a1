------------------------ MODULE MCSourceModification ------------------------
(* A file of nine lines with an if statement, and edits of it. *)
EXTENDS SourceModification, TLC

(*  1  ...                                                                 *)
(*  2  if (c) {        the columns count                                   *)
(*  3  ..;.            a statement, with its semicolon behind              *)
(*  4  } else{                                                             *)
(*  5  ..                                                                  *)
(*  6  }..             something behind the brace                          *)
(*  7  .. $1           a hole at the last column                           *)
(*  8  if(c){                                                              *)
(*  9  }.                                                                  *)
MCWidth == <<3, 8, 4, 7, 2, 3, 3, 6, 2>>
MCHoles == (<<5, 2>> :> <<2>>) @@ (<<7, 3>> :> <<1>>)

If == [start |-> <<2, 1>>, end |-> <<6, 2>>, cond |-> <<2, 5>>, condEnd |-> <<2, 6>>,
       then |-> <<2, 8>>, else |-> <<4, 7>>, keyword |-> <<4, 3>>]
Only == [start |-> <<8, 1>>, end |-> <<9, 2>>, cond |-> <<8, 4>>, condEnd |-> <<8, 5>>,
         then |-> <<8, 6>>, else |-> NoElse, keyword |-> NoElse]

MCAfter == {1, 5, 7}
MCBefore == {1, 2, 7, 8}
MCReplace == {1, 5, 8}
MCRanges == {<<<<8, 2>>, <<9, 2>>>>, <<<<3, 1>>, <<3, 3>>>>}
MCBranches == {<<If, TRUE>>, <<If, FALSE>>, <<Only, TRUE>>, <<Only, FALSE>>}
MCFillings == {<<<<1>>, "x">>, <<<<2>>, "y">>}

NoLines == {}
NoHoles == <<>>
OtherAfter == {2, 4, 9}
FromSecondAndOneLine == {<<<<2, 1>>, <<3, 3>>>>, <<<<8, 2>>, <<8, 3>>>>}

(* Only the else branch is to go. *)
NoRanges == {}
ElseBranch == {<<If, FALSE>>}

(* The keyword else and its brace with a blank between, the first brace on *)
(* a line of its own:  2  if (c)   3  {   4  } else {                      *)
IfOtherwise == [If EXCEPT !.else = <<4, 8>>, !.then = <<3, 1>>]
WidthOtherwise == [MCWidth EXCEPT ![2] = 6, ![3] = 1, ![4] = 8]
DeleteEither == {<<IfOtherwise, TRUE>>, <<IfOtherwise, FALSE>>}

(* Holes 1 and 10. *)
TwoHoles == (<<5, 2>> :> <<1, 0>>) @@ (<<7, 3>> :> <<1>>)
FillFirst == {<<<<1>>, "x">>}

(* The instance that passes is one the theorems speak of. *)
ASSUME CallsAssumption ==
    Careful =>
        /\ Len(Width) \notin AfterLines
        /\ \A r \in Ranges : Single(r[1], r[2])
        /\ \A b \in Branches : Proper(b[1]) /\ Formatted(b[1])
        /\ NoGaps
=============================================================================
