---------------------------- MODULE TrackerReply ----------------------------
(***************************************************************************)
(* ParseTrackerResponse and ParseCompactPeers of class TorrentTracker: the *)
(* answer of an HTTP tracker, of which it takes the list of all strings    *)
(* and integers, as LoadTorrentFile does.  A letter stands for a byte.     *)
(***************************************************************************)
EXTENDS Bencode, CompactPeers

BytesOf(string) ==
    [k \in 1 .. Len(string) |->
        CHOOSE b \in Byte : SubSeq("abcdefghijklmnop", b + 1, b + 1) = SubSeq(string, k, k)]

\* What the loop leaves in peers_data and failure_reason: the last match counts.
Follows(parsed, name) ==
    LET at == {k \in 1 .. Len(parsed) - 1 : parsed[k] = name}
    IN  IF at = {} THEN "" ELSE parsed[1 + CHOOSE k \in at : \A j \in at : j <= k]

IsCompact(peers_data) == Len(peers_data) % 6 = 0 /\ peers_data # ""

\* A failure goes before peers; the format of dictionaries leads to an exception, too.
\* The peers, or none for an exception (UpdatePeers takes both for a failed tracker).
ParseTrackerResponse(text) ==
    LET parsed     == Parsed(text).parsed
        peers_data == Follows(parsed, "peers")
    IN  IF Follows(parsed, "failure reason") # "" \/ ~IsCompact(peers_data) THEN <<>>
        ELSE ParseCompactBinaryPeers(BytesOf(peers_data))
-----------------------------------------------------------------------------
(***************************************************************************)
(* The answers of which this can be said: a dictionary in which nothing    *)
(* but the keys is called "peers" or "failure reason", and where the next  *)
(* string does not look like peers if the value of "peers" is no string.   *)
(***************************************************************************)
OnlyKey(reply, name) ==
    \A j \in DOMAIN reply.text : reply.text[j].of = name =>
        /\ \A k \in DOMAIN reply.text : reply.text[k].of = name => k = j
        /\ \E k \in DOMAIN reply.entries : reply.entries[k].key = name

\* The places where parsed goes on after a place of a text.
NextLeaf(text, j) ==
    {k \in j + 1 .. Len(text) : text[k].kind \in {"str", "int"}
        /\ \A m \in j + 1 .. k - 1 : text[m].kind \notin {"str", "int"}}

IsReply(reply) ==
    /\ IsDict(reply) /\ OnlyKey(reply, "peers") /\ OnlyKey(reply, "failure reason")
    /\ ValueAt(reply, "failure reason").kind = "str"
    /\ LET peers == ValueAt(reply, "peers") IN
       IF peers.kind = "str" THEN Len(peers.of) \in Nat /\ BytesOf(peers.of) \in Seq(Byte)
       ELSE \A j \in DOMAIN reply.text : reply.text[j].of = "peers" =>
                \A k \in NextLeaf(reply.text, j) : ~IsCompact(reply.text[k].of)
=============================================================================
