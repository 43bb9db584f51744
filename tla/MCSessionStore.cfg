SPECIFICATION FairSpec
CONSTANTS
    Keys <- MCKeys
    Subagents = {"sub"}
    Prompts = {"push"}
    Sentences = {"needs you"}
    Tools = {"Bash"}
    WatchdogTimeout = 0
INVARIANTS TypeOK RedHasAnAsker SettledStaysSettled QuotesAWaitingSession
PROPERTIES RedUntilAnswered CrashedIsReleased
