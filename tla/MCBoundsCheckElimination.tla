-------------------- MODULE MCBoundsCheckElimination --------------------
EXTENDS BoundsCheckElimination

(* ints of 4 bits: -8..7 *)
MCW == 4
MCLens == {0, 2, 6}
MCInitConsts == {-8, 0, 5}
(* loop bounds up to INT_MAX - 1 and down to INT_MIN + 1 *)
MCCondConsts == {-7, 0, 3, 6}
(* the edge loop: i <= INT_MAX / i >= INT_MIN *)
MCCondConstsEdge == {-8, 7}
MCXVals == -8..7
MCIncsUp == {1, 2}
MCIncs == {1, 2, -1}
MCAddConsts == {1, -1}
====
