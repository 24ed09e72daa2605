------------------------- MODULE MC_StatisticPrinter -------------------------
(* Model values for checking StatisticPrinter.                              *)
EXTENDS StatisticPrinter

CONSTANTS q1, q2

MCQueries == {q1, q2}

\* A sink schema with one trajectory field.
MCSchema == <<[name |-> "trajectory", type |-> "VARSIZED"]>>

\* Payloads of every length from 0 to 5 bytes, so that the encoder's tail
\* is 0, 1 and 2 bytes both with and without whole blocks before it, and
\* bytes whose bits give the characters 'A', '+' and '/'.
MCPayloads ==
  {<<>>, <<77>>, <<255, 0>>, <<77, 97, 110>>, <<251, 255, 191, 1>>,
   <<0, 16, 131, 16, 81>>}
=============================================================================
