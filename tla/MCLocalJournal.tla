--------------------------- MODULE MCLocalJournal ---------------------------
\* Instances of LocalJournal for TLC: command ids are small numbers.
EXTENDS LocalJournal

CONSTANTS t1, t2

Tab == Permutations(Tabs)
=============================================================================
