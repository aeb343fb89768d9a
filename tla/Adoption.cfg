SPECIFICATION Spec
CONSTANTS
    Word <- MCWord
    Digit <- MCDigit
    Escape <- MCEscape
    BadEscape = "%FF"
    Limits <- MCLimits
    NoMatch = NoMatch
    MaxRules = 3
    MaxHosts = 2
    MaxContinues = 1
    MaxExamples = 2
    Implemented = {"hosts"}
    None = None
    Id <- MCId
    Host <- MCHost
    Pattern <- MCPattern
    Path <- MCPath
    Prefix <- MCPrefix
    Body <- MCBody
    Continuation <- MCContinuation
    Score <- MCScore
    Probe <- MCProbe
    NoEntry = NoEntry
    NoKey = NoKey
    Own <- MCOwn
    Offered <- MCOffered
    Shippable <- MCShippable
    First <- MCFirst
    Server = {s1}
    Surface = {p1}
    Tab = {t1}
INVARIANTS PinsNameWhatWasAgreed DescribedHostsAreKept
PROPERTY UpdatesOnlyReplace
