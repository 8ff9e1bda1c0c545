SPECIFICATION FairSpec
CONSTANTS
    Groups <- MCGroups
    Blocks <- MCBlocks
    MaxBlocks = 2
    MaxQuestions = 3
    MAX_TOOL_ITERATIONS = 2
    MAX_HISTORY_TURNS = 2
CHECK_DEADLOCK FALSE
INVARIANTS
    PromptIsWellFormed
    ReportIsTrue
PROPERTIES
    QuestionIsAnswered
