------------------------- MODULE MCMessagePipeline --------------------------
(***************************************************************************)
(* Instances of MessagePipeline for TLC: two messages in one channel, one  *)
(* that the bot must answer and an image without text that it may ignore   *)
(* or react to.                                                            *)
(***************************************************************************)
EXTENDS MessagePipeline

CONSTANTS hello, image, general

MCMsg == {hello, image}
MCChan == [m \in MCMsg |-> general]
=============================================================================
