----------------------------- MODULE MCSchedules -----------------------------
EXTENDS Schedules, TLC

\* The requests only differ by name.
MCSymmetry == Permutations(Client)
=============================================================================
