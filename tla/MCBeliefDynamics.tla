--------------------------- MODULE MCBeliefDynamics ---------------------------
EXTENDS BeliefDynamics, TLC

CONSTANTS ann, likes, lives, rumour, m1, m2

\* Two messages of one person, two facts about her and one about somebody unknown.
MCSubjectOf == (likes :> ann) @@ (lives :> ann) @@ (rumour :> Other)
MCAuthorOf == (m1 :> ann) @@ (m2 :> ann)
\* A confidence of 1.0 is stored as it is; 0.75 comes to lie between the thresholds.
MCConfidences == {750, 1000}
\* The two messages are alike, and so are the two facts about their author.
MCSymmetry == {p @@ q : p \in Permutations({m1, m2}), q \in Permutations({likes, lives})}
==============================================================================
