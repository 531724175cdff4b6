CONSTANTS
    RawNames <- MCNames
    Lexical <- MCLexical
    Family = {}
    Values <- MCValues
    MaxLines = 3
    Shapes = {"report"}
    Replies <- MCReplies
    Overrides <- MCOverrides
    Multiline = {"two lines"}
    Quoted = {"in quotes"}
    PathWords <- MCPathWords
    FieldTypes <- MCTypes
    Paths <- MCPaths
SPECIFICATION Spec
INVARIANT ApprovedMeansAccepted
