SPECIFICATION Spec
CONSTANTS
    f1 = f1
    f2 = f2
    news = news
    Fetches = {f1, f2}
    Domains = {news}
    Lookups <- MCLookups
    DefaultOrder <- MCOrder
    Settings <- MCSettings
    ForgetAllowed = TRUE
INVARIANTS
    LedgerIsSound
    GivesUpAtTheEnd
CHECK_DEADLOCK FALSE
