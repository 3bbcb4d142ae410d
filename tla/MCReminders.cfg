SPECIFICATION FairSpec
CONSTANTS
    None = None
    Handler = {live, reclaim}
    Canceller = {user}
    Reminder <- MCReminder
    MaxInstant = 1
    MaxFaults = 1
INVARIANTS OutboxMatchesState QuietTicksPublishOnce
PROPERTIES ImplementsNotice EveryReminderSettles
