---------------------------- MODULE MCGoalsEngine ----------------------------
EXTENDS GoalsEngine

CONSTANTS ann, g1, g2, r1, r2
==============================================================================
