----------------------------- MODULE MCOutcomes -----------------------------
EXTENDS Outcomes, TLC

CONSTANTS c1, c2

\* The requests only differ by name.
MCSymmetry == Permutations(Call)
=============================================================================
