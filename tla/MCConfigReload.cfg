CONSTANTS
    m1 = m1  m2 = m2  m3 = m3  pl = pl  gr = gr  a = a  l = l
    Files <- MCFiles
    Names <- MCNames
    NotJson = NotJson
    BadSchema = BadSchema
    Missing = Missing
    Clients = {c1}
    Watcher = Watcher
    Fragile = {m3, l}
    NoOne = NoOne
    NoName = NoName
    MaxEdits = 2
    MaxBreaks = 1
    MaxRequests = 1
    MaxReads = 3
SPECIFICATION ConfigSpec
INVARIANTS
    NamesAreExclusive
    LoadApplied
PROPERTIES
    UnchangedNotInterrupted
    RestAnswersTruth
    Converges
CHECK_DEADLOCK FALSE
