SPECIFICATION Spec
CONSTANTS
    Keys <- MCKeys
    Subagents = {"sub"}
    Prompts = {"push"}
    Sentences = {"needs you"}
    Tools = {"Bash"}
    WatchdogTimeout = 0
INVARIANT MainQuestionStaysOpen
