SPECIFICATION FairSessionSpec
CONSTANTS
  user = user
  bot = bot
  loop = loop
  chat = chat
  panel = panel
  noOne = noOne
  Guilds = {1, 2}
  Channels = {11, 21}
  GuildOf <- MCGuildOf
  People = {user}
  Bot = bot
  Loop = loop
  Chat = chat
  Panel = panel
  NoOne = noOne
  MaxLinks = 2
  MaxChats = 1
  MaxPanel = 1
  MaxMoves = 1
  MaxUnsent = 1
INVARIANTS
  SessionTypeOK
  AgreesWithDiscord
  StrandedOnlyByOverlap
PROPERTIES
  SessionsEnd
CHECK_DEADLOCK FALSE
