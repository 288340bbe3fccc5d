-------------------------------- MODULE ZOrder --------------------------------
(***************************************************************************)
(* The walk ZSchedular takes over the tiles of a scene: the scene is       *)
(* covered by squares of z-width tiles, row by row, and each square is cut *)
(* into quadrants until one tile is left (order TILE_ACBD).                *)
(***************************************************************************)
EXTENDS Naturals, SequencesExt

Pow2[i \in Nat] == IF i = 0 THEN 1 ELSE 2 * Pow2[i - 1]

(* The smallest power of two that covers a width.                          *)
RoundUp(n) == IF n = 0 THEN 0
              ELSE CHOOSE p \in {Pow2[i] : i \in 0 .. n} : n <= p /\ p < 2 * n

(* Mutant of Quadrants: the rows of a square first.                        *)
QuadrantsByRow(h) == << <<0, 0>>, <<h, 0>>, <<0, h>>, <<h, h>> >>

(* Top left, bottom left, top right, bottom right.                         *)
Quadrants(h) == << <<0, 0>>, <<0, h>>, <<h, 0>>, <<h, h>> >>

(* schedule_tiles: the tiles of a square of side n, from its corner, in    *)
(* the order in which it gets to them.  A side is halved as an integer, so *)
(* it gets to all of them only if n is a power of two.                     *)
Shifted(by, tiles) == [i \in DOMAIN tiles |-> <<by[1] + tiles[i][1], by[2] + tiles[i][2]>>]

Tour[n \in Nat] ==
  IF n <= 1 THEN << <<0, 0>> >>
  ELSE LET q == Quadrants(n \div 2)
           Part(k) == Shifted(q[k], Tour[n \div 2])
       IN Part(1) \o Part(2) \o Part(3) \o Part(4)

(* The side of the square that covers the scene.                           *)
Side(width, height) == RoundUp(IF width >= height THEN width ELSE height)

(* The loops over the squares of start_new_scene.                          *)
Walk(width, height, zWidth) ==
  LET side == Side(width, height)
      step == IF zWidth > 0 THEN zWidth ELSE side
      rows == IF side = 0 THEN 0 ELSE (side + step - 1) \div step
      Square(k) == Shifted(<<(k % rows) * step, (k \div rows) * step>>, Tour[step])
  IN FlattenSeq([k \in 1 .. rows * rows |-> Square(k - 1)])
=============================================================================
