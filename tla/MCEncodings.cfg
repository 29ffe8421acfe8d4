SPECIFICATION Spec
CONSTANTS
    LenBits <- LenWidths
    EncBits <- IntWidths
    LzfOver = 7
    ItemsPerCmd = 2
    Payloads <- Foreign
    MaxLong = 9
    Infinity = 1000
    MaxStringLen = 2
    BigLen = 8
    PrevSizeLarge = 5
    HeaderSize = 10
    Widths <- ThreeWidths
    MaxEntries <- Entries
    MaxValue <- Values
    MaxLevel = 2
    Calls <- AllCalls
    Texts <- AllTexts
    Bounds <- ScoreBounds
    MaxElements <- Elements4
    MaxScore = 2
INVARIANTS WellFormed EncodingsAgree ReadsAgree
CHECK_DEADLOCK FALSE
