CONSTANTS
    hello = hello
    file = file
    general = general
    NoMsg = NoMsg
    Msg <- MCMsg
    Channel = {general}
    chan <- MCChan
    Addressed = {hello}
    Wordless = {file}
    Textless = {file}
    HistoryLimit = 3
    PromptLimit = 2
    CallLimit = 1
    StoredTastes = 0
    ThinkingModel = TRUE
    Zones = {"utc", "behind"}
    EndpointChanges = 1
    StorageFails = FALSE
SPECIFICATION ContentSpec
INVARIANTS
    ContentInv
    ReactionOrReply
    DeliveredIsRemembered
    ModelReadsEndedTurns
    ThoughtsStayInside
