SPECIFICATION FairSpec
CONSTANTS
    Repos <- MCRepos
    ModelPlans <- MCModelPlans
    Replies <- MCReplies
INVARIANTS
    RulePlansCanRun
    AnswersGoHome
    NothingIsLeftUnasked
    NeverAskedForOurOwn
    PortsAgree
PROPERTY
    PipelineEnds
CHECK_DEADLOCK FALSE
