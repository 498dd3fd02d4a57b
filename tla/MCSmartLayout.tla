--------------------------- MODULE MCSmartLayout ---------------------------
EXTENDS SmartLayout
=============================================================================
