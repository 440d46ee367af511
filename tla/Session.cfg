SPECIFICATION FairSpec
CONSTANTS
    kBlockSize = 2
    chunk_size = 4
    Torn <- MCTorn
    kTrackers <- MCTrackers
    Bits = 2
    protocol_id = 27033
    info_hash <- MCHash
    peer_id <- MCId
    port = 6
    Torrents <- MCTorrents
    Http <- MCHttp
    Replies <- MCReplies
    Swarms <- MCSwarms
    ConnectionIds <- MCConnectionIds
    TransactionIds <- MCTransactionIds
    MaxNumber = 20
INVARIANTS
    LoadedAsWritten
    BlocksTile
    SavedInPlace
    RecordedAsMeant
    StartsWithEveryPeerOnce
    SuccessIsComplete
PROPERTIES
    ReachesDownload
