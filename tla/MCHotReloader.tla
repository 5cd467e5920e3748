--------------------------- MODULE MCHotReloader ---------------------------
(* An instance of HotReloader with one kind of Python files, which are      *)
(* listed first, and the sources of the voice receiver.                     *)
EXTENDS HotReloader, TLC

CONSTANTS py, receiver

MCRank == (py :> 1) @@ (receiver :> 2)
=============================================================================
