\* Every message type; three fields at a time; three parts of foreign bytes.
CONSTANTS
    Message <- MCMessage
    SizeTable <- MCSize
    MarshalTable <- MCMarshal
    UnmarshalTable <- MCUnmarshal
    FieldTable <- MCFields
    ArgumentTable <- MCArguments
    PositionalTable <- MCPositional
    CoinFields <- MCCoins
    Sample <- MCSample
    MaxSet = 3
    MaxForeign = 3

SPECIFICATION Spec
INVARIANTS CodecTypeOK BufferFilled RoundTrip CasesAgree TablesAgree ReadersAgree CommandIsUnderstood
