--------------------------- MODULE MCCellOpening ----------------------------
(* Small instance of CellOpening: two positions of three cells (a tree of  *)
(* six leaves, four and two), floats of three bits over quarter steps,     *)
(* fixed-point values -16 .. 15.  The last cell takes every float up to    *)
(* beyond the range, both infinities and NaN; the others are all alike.    *)
EXTENDS CellOpening

MCRawAt(pos, layer) ==
  IF pos = NPositions - 1 /\ layer = NLayers
  THEN {<<Num(n)>> : n \in {n \in -80 .. 80 : IsFloat(n)} \cup {Infinity, -Infinity}}
       \cup {<<NaN>>}
  ELSE {<<Num(4)>>}

MCLogitRows == <<1, 3>>
=============================================================================
