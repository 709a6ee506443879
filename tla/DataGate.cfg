SPECIFICATION FairSpec
CONSTANTS
    Requests = {r1, r2}
    Files <- MCFiles
    note = note
    padded = padded
    links = links
    strict = strict
    lax = lax
    Texts <- MCTexts
    Forms <- MCForms
    Form <- MCForm
    Configs <- MCConfigs
    Short <- MCShort
    Symbols <- MCSymbols
    LinkLists <- MCLinkLists
    None = None
    MaxDrops = 2
INVARIANTS
    RunsAsAsked
    ListedIsFiled
    AcceptedOnce
PROPERTIES
    RunsEnd
CHECK_DEADLOCK FALSE
