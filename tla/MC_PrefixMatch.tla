--------------------------- MODULE MC_PrefixMatch ---------------------------
EXTENDS PrefixMatch

\* two byte values suffice to tell a match from a mismatch at every index
MCBytes == 0..1
=============================================================================
