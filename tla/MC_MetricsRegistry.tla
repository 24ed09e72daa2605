--------------------------- MODULE MC_MetricsRegistry ---------------------------
EXTENDS MetricsRegistry

CONSTANTS s1, s2

MCSinkThreads == {s1, s2}
=============================================================================
