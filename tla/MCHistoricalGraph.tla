------------------------- MODULE MCHistoricalGraph -------------------------
EXTENDS HistoricalGraph
=============================================================================
