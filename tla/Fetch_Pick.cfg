\* One fetch whose decider answers.
SPECIFICATION Spec
CONSTANTS
    f1 = f1
    news = news
    Fetches = {f1}
    Domains = {news}
    Lookups <- MCLookups
    DefaultOrder <- MCOrder
    Settings <- TwoSettings
    ForgetAllowed = FALSE
INVARIANT RestFollowsThePick
CHECK_DEADLOCK FALSE
