CONSTANTS
    RawFields = {"src", "dst", "act", "meta"}
    FieldOrder <- MCFieldOrder
    CanonFields = {"event.action", "event.outcome", "src.ip", "dst.ip", "tag"}
    Critical = {"event.action", "event.outcome", "src.ip", "dst.ip"}
    Values <- MCValues
    Lower <- MCLower
    Blocking = {"deny"}
    Denied = {}
    Specs <- MCSpecs
    Windows <- MCWindows
    Absent = Absent
    Sources = {fw}
    Incidents = {i1, i2, i3}
SYMMETRY Symmetry
SPECIFICATION Spec
INVARIANT PromotionKeepsReplaced
