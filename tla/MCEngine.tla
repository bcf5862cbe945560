------------------------------ MODULE MCEngine ------------------------------
EXTENDS Engine

CONSTANTS j1, w1, w2, s1, s2

=============================================================================
