------------------------------ MODULE MCUpdate ------------------------------
\* One installation and its releases under the constants of Update.cfg: two
\* processes, both of which update, and releases that do and do not come up.
EXTENDS Update, TLC

Symmetry == Permutations(Procs)
=============================================================================
