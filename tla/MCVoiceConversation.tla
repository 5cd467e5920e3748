------------------------ MODULE MCVoiceConversation ------------------------
EXTENDS VoiceConversation

CONSTANTS u1, u2
==============================================================================
