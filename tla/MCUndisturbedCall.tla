------------------------- MODULE MCUndisturbedCall -------------------------
\* UndisturbedCall on the values of MCCardSession.
EXTENDS MCCardSession, UndisturbedCall
=============================================================================
