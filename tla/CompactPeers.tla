---------------------------- MODULE CompactPeers ----------------------------
(***************************************************************************)
(* A compact list of peers, six bytes each: what the protocols mean by it, *)
(* and what TorrentTracker takes from that of an HTTP tracker.             *)
(***************************************************************************)
EXTENDS Bytes

ParseCompactBinaryPeers(bytes) ==
    [k \in 1 .. Len(bytes) \div 6 |->
        LET at(j) == bytes[6 * (k - 1) + j]
        IN  [ip |-> [j \in 1 .. 4 |-> at(j)], port |-> at(5) * Base + at(6)]]

\* The peers, as the protocols have it: an address of four bytes and a port of two.
Swarm(bytes) ==
    LET at(k, j, n) == SubSeq(bytes, 6 * k + j, 6 * k + j + n - 1) IN
    {[ip |-> at(k, 1, 4), port |-> Unsigned(at(k, 5, 2))] : k \in 0 .. Len(bytes) \div 6 - 1}
=============================================================================
