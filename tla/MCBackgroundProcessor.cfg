CONSTANTS
    m1 = m1
    m2 = m2
    m3 = m3
    m4 = m4
    s1 = s1
    s2 = s2
    s3 = s3
    general = general
    music = music
    NoTask = NoTask
    Msg <- MCMsg
    Start <- MCStarts
    Round = {r1}
    Channel = {general, music}
    channel <- MCChannel
    stamp <- MCStamp
    TalkGap = 5
    MaxQueue = 3
    Enough = 2
    BatchLimit = 3
SPECIFICATION FairSpec
INVARIANTS
    Accounted
PROPERTIES
    SummaryIsOneTalk
    BacklogShrinks
    TimedMessageIsTaken
CHECK_DEADLOCK FALSE
