---------------------------- MODULE MCBotLifecycle ----------------------------
EXTENDS BotLifecycle

CONSTANTS m1, m2, general, ann, x1, x2

MCChannelOf == [x \in Messages |-> general]
MCAuthorOf == [x \in Messages |-> ann]
==============================================================================
