---------------------------- MODULE MCBlueGreen ----------------------------
EXTENDS BlueGreen

CONSTANTS t1, t2, t3
Releases == {t1, t2, t3}
=============================================================================
