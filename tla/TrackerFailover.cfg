\* Two ports, so that a socket may or may not have the port of an earlier one.
CONSTANTS
    Trackers = {"u0", "u1", "u2", "h"}
    Http = {"h"}
    Urls = {"u0", "u1", "h"}
    Ports = {"a", "b"}
    PeersOf <- MCPeersOf
    kBackupUdpTrackers <- MCBackups
SPECIFICATION FairSpec
INVARIANTS
    AnnounceToConnected
    PeersAreGenuine
    ThrowsOnlyAfterAll
PROPERTIES
    UpdatePeersEnds
