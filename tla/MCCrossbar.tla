----------------------------- MODULE MCCrossbar -----------------------------
(* A board with two supplies and a signal, for TLC.                        *)
EXTENDS Crossbar

K == 10

At(chip, x, y) == [chip |-> chip, x |-> x, y |-> y]

(* Row 1 of chip 0 through row 6 of chip K to the top rail, or to ground;  *)
(* a path of which one hop was left without a row and one was not come to; *)
(* and one within a chip, which was left without a column.                 *)
ToRail == <<At(0, 1, 0), At(K, 4, 6)>>
ToGround == <<At(0, 1, 0), At(K, 15, 6)>>
NoRow == <<At(0, 2, 1), At(K, 15, -2), At(0, -1, -1)>>
NoColumn == <<At(0, -2, 1), At(0, -2, 2)>>

MCBoards == {{ToRail, NoColumn}, {ToGround}, {NoRow}}

MCRaw == {At(K, 4, 6), At(K, 15, 6), At(0, 2, 1)}

MCSources == {4, 15}
=============================================================================
