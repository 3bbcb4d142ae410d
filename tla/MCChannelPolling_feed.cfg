SPECIFICATION FairSpec
CONSTANTS
    None = None
    NoCursor = NoCursor
    User = {"ann"}
    Channel = {"a", "b"}
    Starting = {"a"}
    Handler = {live}
    ChannelLimit = 1
    PageSize = 1
    Window = 1
    Margin = 1
    Slack = 0
    Delay = 1
    MaxTime = 1
    MaxPosts = 2
    MaxFeed = 2
    MaxFaults = 1
INVARIANT CursorSkipsNothing
PROPERTIES EveryPostIsSeen
