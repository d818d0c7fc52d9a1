CONSTANTS
    Registrations <- MCRegistrations
    Deadlines = {0, 1, 2}
    MaxArms = 6
    Keys = {k1, k2, k3, k4}
    Empty = Empty
    TicksPerSecond = 2
    Answers <- MCAnswers
    total_capacity = 5
    shard_count = 2
    MaxTime = 3
    Names <- MCNames
    Hashes <- MCHashes
    Delta <- MCDelta
    RuleLists <- MCRuleLists
    FPS_PER_BUCKET = 1
    MAX_KICKS = 3
    MaxBuckets = 31
    max_size = 8
    kMaxDomainWireSize = 7
    maximum_compression_pointers = 2
    maximum_questions = 1
    maximum_records_per_section = 2
    maximum_total_records = 3
    kUpstreamReceiveBufferSize = 512
    Refused = Refused
    PacketOctets = {0, 1, 2, 12, 13, 64, 192}
    MaxPacket = 5
    TextTokens <- MCTextTokens
    MaxText = 4
    Exchanges <- MCExchanges
SPECIFICATION Spec
INVARIANTS TimersAreInOrder CacheIsSound BlocklistIsExact NamesStayInPlace WrittenIsReadBack
PROPERTY InsertIsAllOrNothing
CHECK_DEADLOCK FALSE
