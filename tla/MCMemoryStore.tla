---------------------------- MODULE MCMemoryStore ----------------------------
EXTENDS MemoryStore

CONSTANTS ann, bob, m1, none, hi, tale

MCAuthor == [m \in {m1} |-> ann]
==============================================================================
