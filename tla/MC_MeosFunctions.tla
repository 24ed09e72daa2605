--------------------------- MODULE MC_MeosFunctions ---------------------------
(* Model values and small integer inputs for checking MeosFunctions.        *)
EXTENDS MeosFunctions

CONSTANTS w1, w2

MCWorkers == {w1, w2}

\* Closed rings as parsed from POLYGON((...)) WKT: a square, a triangle with
\* lattice points on its hypotenuse, a concave chevron whose notch vertex
\* lies on the ray of the points at height 2, and a ring of two points.
MCPolygons ==
  { << <<0, 0>>, <<3, 0>>, <<3, 3>>, <<0, 3>>, <<0, 0>> >>,
    << <<0, 0>>, <<4, 0>>, <<0, 4>>, <<0, 0>> >>,
    << <<0, 0>>, <<4, 0>>, <<4, 4>>, <<2, 2>>, <<0, 4>>, <<0, 0>> >>,
    << <<1, 1>>, <<3, 3>> >> }

\* STBOX corners in normal order, reversed, crossed, and a degenerate box.
MCBoxes ==
  { << <<1, 1>>, <<3, 3>> >>, << <<3, 3>>, <<1, 1>> >>,
    << <<3, 1>>, <<1, 3>> >>, << <<2, 2>>, <<2, 2>> >> }

MCPoints == (0..4) \X (0..4)
=============================================================================
