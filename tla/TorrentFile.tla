---------------------------- MODULE TorrentFile -----------------------------
(***************************************************************************)
(* LoadTorrentFile: the fields of a TorrentFile are picked from the list   *)
(* of all strings and integers of the file, whatever they are in it.       *)
(***************************************************************************)
EXTENDS Bencode

\* A name the loop looks for, and the field it fills.
Fields == [announce |-> "announce", comment |-> "comment", piece_length |-> "piece length",
           length |-> "length", name |-> "name"]

FieldOf(name) ==
    LET f == {x \in DOMAIN Fields : Fields[x] = name}
    IN  IF f = {} THEN "none" ELSE CHOOSE x \in f : TRUE

NoTorrentFile == [f \in DOMAIN Fields \cup {"info_hash", "piece_hashes"} |-> ""]

\* One string of the list: that after a name goes into its field and is not looked at.
TakeString(s, string) ==
    IF s.field = "none" THEN [s EXCEPT !.field = FieldOf(string)]
    ELSE [field |-> "none", result |-> [s.result EXCEPT ![s.field] = string]]

Scanned(parsed) ==
    LET scan[k \in 0 .. Len(parsed)] ==
            IF k = 0 THEN [field |-> "none", result |-> NoTorrentFile]
            ELSE TakeString(scan[k - 1], parsed[k])
    IN  scan[Len(parsed)]

\* The numbers are still texts; stol is with their user.
Loaded(text) ==
    LET parser == Parsed(text)
    IN  [Scanned(parser.parsed).result EXCEPT !.info_hash = parser.info_hash,
             !.piece_hashes = GetPieceHashes(parser.parsed)]

-----------------------------------------------------------------------------
(***************************************************************************)
(* The torrent files that can be read this way: of one file, with the      *)
(* fields at their places, where no other string but the value of a field  *)
(* has the name of one, and no string but the key is called "pieces".      *)
(***************************************************************************)
Names == {Fields[f] : f \in DOMAIN Fields} \cup {"pieces"}

\* A field with one of these names, an entry that cannot be taken for a field.
IsField(entry, names) ==
    entry.key \in names /\ entry.value.kind \in {"str", "int"} /\ entry.value.of # "pieces"

IsPlain(entry) ==
    entry.key \notin Names \cup {"info"}
    /\ \A k \in DOMAIN entry.value.text : entry.value.text[k].of \notin Names

IsPieces(entry) ==
    /\ entry.key = "pieces"
    /\ entry.value.kind = "str" /\ entry.value.of \notin Names /\ Len(entry.value.of) \in Nat

IsInfo(info) ==
    /\ IsDict(info)
    /\ \A k \in DOMAIN info.entries : LET entry == info.entries[k] IN
          IsPlain(entry) \/ IsPieces(entry) \/ IsField(entry, {"piece length", "length", "name"})
    /\ \E k \in DOMAIN info.entries : info.entries[k].key = "pieces"

IsTorrent(torrent) ==
    /\ IsDict(torrent)
    /\ \A k \in DOMAIN torrent.entries : LET entry == torrent.entries[k] IN
          IsPlain(entry) \/ IsField(entry, {"announce", "comment"})
          \/ (entry.key = "info" /\ IsInfo(entry.value))
    /\ \E k \in DOMAIN torrent.entries : torrent.entries[k].key = "info"
    /\ ValueAt(torrent, "announce").of \in STRING

-----------------------------------------------------------------------------
\* The fields are those that the file has at their places, also when a comment or a
\* file has the name of a key (TorrentFile.cpp:16-46); the hash that names the torrent is
\* that of the outermost "info", whatever other dictionaries, keys and strings are called
\* (BencodeParser.cpp:60, 69, 79); there is a hash for each 20 bytes of "pieces"
\* (BencodeParser.cpp:121-136).
ReadRight(torrent, torrent_file) ==
    LET info == ValueAt(torrent, "info") IN
    /\ \A f \in {"announce", "comment"} : torrent_file[f] = ValueAt(torrent, f).of
    /\ \A f \in {"piece_length", "length", "name"} :
          torrent_file[f] = ValueAt(info, Fields[f]).of
    /\ torrent_file.info_hash = info.text
    /\ Len(torrent_file.piece_hashes) = Len(ValueAt(info, "pieces").of) \div 20
=============================================================================
