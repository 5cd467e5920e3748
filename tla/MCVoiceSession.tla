--------------------------- MODULE MCVoiceSession ---------------------------
EXTENDS VoiceSession

CONSTANTS user, bot, loop, chat, panel, noOne

\* A channel is numbered by its guild and its place there.
MCGuildOf == [ch \in Channels |-> ch \div 10]
==============================================================================
