---------------------------- MODULE MCHttpSession ---------------------------
EXTENDS HttpSession, TLC

Symmetry == Permutations(Ip)
=============================================================================
