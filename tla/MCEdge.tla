-------------------------------- MODULE MCEdge ---------------------------------
EXTENDS OutageWindows, TLC

MCSymmetry == Permutations(Tasks) \union Permutations(Conns)
===============================================================================
