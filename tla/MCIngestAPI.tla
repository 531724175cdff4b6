---------------------------- MODULE MCIngestAPI ----------------------------
EXTENDS IngestAPI, TLC

\* Threads of one kind are only told apart by what they have done.
Symmetry == Permutations(Posters)
=============================================================================
