SPECIFICATION FairSpec
CONSTANTS
    I2S_TX_BUFFERS_COUNT = 2
    BlockBytes = 2
    Buffers <- MCBuffers
    Tracks <- MCTracks
    Formats <- MCFormats
    Configurable <- MCConfigurable
    Fmt <- MCFmt
    DataSize <- MCDataSize
    NoBuf = NoBuf
    NullPtr = NullPtr
    NoCall = NoCall
    NoFormat = NoFormat
    Silence = Silence
    NoData = NoData
    sound1 = sound1
    sound2 = sound2
    empty = empty
    odd = odd
    mono16k = mono16k
    stereo48k = stereo48k
    mono12k = mono12k
    HwOutruns = TRUE
INVARIANTS
    TypeOK
    InBounds
    NoOrphanTransfer
    NoStaleDriverState
    NoReset
PROPERTIES
    QuietInTheEnd
