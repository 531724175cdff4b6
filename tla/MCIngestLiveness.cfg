CONSTANTS
    Handlers = {h1, h2}
    EventIDs = {e1, e2}
    Sources = {src}
    Bodies = {good, bad}
    Malformed = {bad}
    MaxDay = 1
    Absent = Absent
    Torn = Torn
    Subscribers = {s1}
    ChanCap = 1
    Requests <- MCRequests
    MaxStarts = 1
SPECIFICATION FairSpec
PROPERTIES
    EveryRequestAnswered
    UnsubscribeCompletes
