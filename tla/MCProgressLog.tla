---------------------------- MODULE MCProgressLog ----------------------------
\* ProgressLog for TLC. Threads and candidates are interchangeable.
EXTENDS ProgressLog, TLC

Interchangeable == Permutations(Threads) \union Permutations(Candidates)
=============================================================================
