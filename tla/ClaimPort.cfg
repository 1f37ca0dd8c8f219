SPECIFICATION FairSpec
CONSTANTS
    Repos <- MCRepos
    ModelPlans <- MCModelPlans
    Replies <- MCReplies
INVARIANT
    PortStaysTheApis
CHECK_DEADLOCK FALSE
