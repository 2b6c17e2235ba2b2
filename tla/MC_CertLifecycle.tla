--------------------------- MODULE MC_CertLifecycle ---------------------------
EXTENDS CertLifecycle

CONSTANTS k1, k2, s1, s2, d1, d2, dBad

MCKeys == {k1, k2}
MCSerials == {s1, s2}
\* notAfter values that all parse, and ones of which one raises
MCDates == {d1, d2}
MCDatesBad == {d1, dBad}
==============================================================================
