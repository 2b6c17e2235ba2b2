---------------------------- MODULE MC_Revocation ----------------------------
EXTENDS Revocation

CONSTANTS n1, n2, k1, s1, s2

MCNames == {n1, n2}
MCKeys == {k1}
MCSerials == {s1, s2}
==============================================================================
