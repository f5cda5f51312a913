CONSTANTS
    totalGames = 2
    redditMinAgeDays = 14
    decisionAfterDays = 42
    CreatedOn = TRUE
    WorkflowOf <- MCWorkflowOf
    Agents = {1, 2}
    Answers = {{1}, {1, 2}}
    Workflows = {"f"}
    Blindness = {{}}
    Doable = {}
    Claims = {}
    Watched = {"publish-sudoku"}
    MaxLost = 1
    MaxStale = 1
SPECIFICATION FleetSpec
INVARIANT LadderClimbedOnce
PROPERTY StaysDownIsRaised
