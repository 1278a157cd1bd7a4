CONSTANTS
    BodyLengths <- MCBodyLengths
    MaxBytes = 11
    Payloads <- MCPayloads
    Crcs <- MCCrcs
    Noise <- MCNoise
    AckCounts = {0, 1}
    Apids <- MCApids
    Types <- MCTypes
    Subtypes = {0, 255}
    Counts <- MCCounts
    TextLengths <- MCTexts
    ReportLengths <- MCReports
SPECIFICATION BridgeSpec
INVARIANTS TypeOK NoSplice ReaderFate ShortFrameRaises DecodedInPlace NeverAPacket HeaderDecoded SpillVisible LengthOneShort AnswerReadable
PROPERTIES StepKept ImplementsFraming FrameRead
CHECK_DEADLOCK FALSE
