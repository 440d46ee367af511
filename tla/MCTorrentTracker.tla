-------------------------- MODULE MCTorrentTracker --------------------------
(* TorrentTracker with two UDP trackers that fall back on each other, one that *)
(* has no peers, and an HTTP tracker.                                          *)
EXTENDS TorrentTracker

MCBackups == <<"u1", "u2">>
MCPeersOf == [t \in Trackers |-> IF t = "u0" THEN {} ELSE {t}]
=============================================================================
