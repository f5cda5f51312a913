CONSTANTS
    totalGames = 2
    redditMinAgeDays = 14
    decisionAfterDays = 42
    CreatedOn = TRUE
    WorkflowOf <- MCWorkflowOf
    Agents = {}
    Answers = {{}}
    Workflows = {}
    Blindness <- MCBlindness
    Doable = {"reddit-account", "itch-account", "publish-sudoku", "phone-test", "publish-rest", "reddit-warmup", "reddit-post", "reddit-replies", "affiliate-apply", "week6-decision"}
    Claims = {"reddit-post"}
    Watched = {"reddit-post"}
    MaxLost = 1
    MaxStale = 1
SPECIFICATION FleetSpec
INVARIANT CelebratedOnce
PROPERTY PlanFinishes
