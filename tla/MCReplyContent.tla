----------------------------- MODULE MCReplyContent --------------------------
(***************************************************************************)
(* An instance of ReplyContent for TLC: a message the bot must answer and  *)
(* one without text that it may ignore, in one channel.                    *)
(***************************************************************************)
EXTENDS ReplyContent

CONSTANTS hello, file, general

MCMsg == {hello, file}
MCChan == [m \in MCMsg |-> general]
=============================================================================
