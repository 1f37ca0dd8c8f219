SPECIFICATION FairSpec
CONSTANTS
    Repos <- MCRepos
    ModelPlans <- MCModelPlans
    Replies <- MCReplies
INVARIANT
    AnsweredRunStartsAgain
CHECK_DEADLOCK FALSE
