----------------------- MODULE MCDatabaseProtection -----------------------
(* An instance of DatabaseProtection for TLC; its constants are numbers     *)
(* and stand in the configuration.                                          *)
EXTENDS DatabaseProtection, TLC
=============================================================================
