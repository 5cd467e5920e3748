----------------------- MODULE MCBackgroundProcessor -----------------------
(* Instances of BackgroundProcessor: four messages of two channels, one    *)
(* round of maintenance, and the initialiser's call of start() with two    *)
(* later ones of the panel, which can overlap.                             *)
EXTENDS BackgroundProcessor, TLC

CONSTANTS m1, m2, m3, m4, general, music, s1, s2, s3

MCMsg == {m1, m2, m3, m4}
MCChannel == (m1 :> general) @@ (m2 :> music) @@ (m3 :> general) @@ (m4 :> general)
MCStamp == (m1 :> 0) @@ (m2 :> 1) @@ (m3 :> 2) @@ (m4 :> 9)
MCStarts == {s1, s2, s3}
=============================================================================
