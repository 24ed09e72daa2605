--------------------------- MODULE MC_CsvServer ---------------------------
EXTENDS CsvServer

CONSTANTS c1, c2, k1, k2

\* A row with timestamp t and key k, a row whose timestamp does not parse,
\* and an empty row.
Row(t, k) == [kind |-> "ts", ts |-> t, key |-> k]
Unparsed == [kind |-> "nots", ts |-> 0, key |-> k1]
Blank == [kind |-> "blank", ts |-> 0, key |-> k1]

\* A sorted file with a header that int() and float() reject.
Sorted == <<Unparsed, Row(1, k1), Row(2, k2)>>
\* Out of order globally, in order per key, with a blank line.
Interleaved == <<Row(2, k1), Blank, Row(1, k2), Row(2, k2)>>

MCFiles == {Sorted, Interleaved}
=============================================================================
