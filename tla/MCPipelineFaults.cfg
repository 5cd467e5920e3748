CONSTANTS
    hello = hello
    image = image
    general = general
    NoMsg = NoMsg
    Msg <- MCMsg
    Channel = {general}
    chan <- MCChan
    Addressed = {hello}
    Wordless = {image}
    HistoryLimit = 1
    StorageFails = TRUE
SPECIFICATION FairSpec
PROPERTIES
    ImplementsTurn
    EveryMessageIsWritten
