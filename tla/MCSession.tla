----------------------------- MODULE MCSession ------------------------------
(* Session on small files, legal by the format: keys in order, an optional       *)
(* comment, an announce-list, a dictionary with keys of its own before and after *)
(* "info", names that are also keys, up to four pieces of up to three blocks;    *)
(* bytes of 2 bits, and three peers, two of them behind one address.             *)
EXTENDS Session

Optional(key, values) == {<<>>} \cup {<<Entry(key, v)>> : v \in values}

Extra == {Dict(<<>>), Dict(<<Entry("info", Number("1"))>>), List(<<Str("info"), List(<<>>)>>)}

Hashes(n) ==
    CASE n = 0 -> "" [] n = 1 -> "aaaaaaaaaaaaaaaaaaaa"
      [] n = 2 -> "aaaaaaaaaaaaaaaaaaaabbbbbbbbbbbbbbbbbbbb"
      [] n = 3 -> "aaaaaaaaaaaaaaaaaaaabbbbbbbbbbbbbbbbbbbbcccccccccccccccccccc"
      [] n = 4 -> "aaaaaaaaaaaaaaaaaaaabbbbbbbbbbbbbbbbbbbbccccccccccccccccccccdddddddddddddddddddd"

\* A file of length l in pieces of length p.
File(l, p, name, private) ==
    Dict(<<Entry("length", Number(ToString(l))), Entry("name", Str(name)),
           Entry("piece length", Number(ToString(p))),
           Entry("pieces", Str(Hashes((l + p - 1) \div p)))>> \o private)

FileNames == {"file", "name", "length", "info"}

Odd ==
    {Dict(<<Entry("announce", Str(t))>> \o a \o c \o <<Entry("info", f)>> \o z) :
        t \in {"http", "udp"},
        a \in Optional("announce-list", {List(<<List(<<Str("udp")>>)>>)}),
        c \in Optional("comment", {Str(n) : n \in FileNames} \cup {Str("")})
              \cup Optional("creator", Extra),
        f \in {File(5, 4, n, p) : n \in FileNames, p \in Optional("private", {Number("1")})},
        z \in Optional("zone", Extra)}

Plain ==
    {Dict(<<Entry("announce", Str(t)), Entry("info", File(l, p, "file", <<>>))>>) :
        t \in {"http"}, l \in 0 .. 12, p \in 3 .. 5}

MCTorrents == Odd \cup Plain

\* Three peers, and a cut one.
MCSwarms == {"", "bcdabd", "bcdabdbcdacd", "daadddbcdabd", "bcdabdbcdabd"}

Peer == Dict(<<Entry("ip", Str("10.0.0.1")), Entry("peer id", Str("12345678901234567890")),
               Entry("port", Number("6881"))>>)

ReplyWith(lists, more) ==
    {Dict(f \o n \o w \o p \o m) :
        f \in Optional("failure reason", {Str("not registered"), Str("")}),
        n \in Optional("interval", {Number("1800")}),
        w \in Optional("min interval", {Number("900")}),
        p \in Optional("peers", lists),
        m \in more}

MCReplies ==
    ReplyWith({Str(s) : s \in MCSwarms \cup {"bcdabda"}} \cup {List(<<Peer>>), List(<<Peer, Peer>>)},
              Optional("peers6", {Str("abcdabcdabcdabcdab")}))
    \cup ReplyWith({List(<<>>)}, Optional("tracker id", {Str("x")}))

MCTorn     == {0, 2}
MCTrackers == {"udp", "udp2"}
MCHttp     == {"http"}
MCHash     == [k \in 1 .. 20 |-> k % 4]
MCId       == [k \in 1 .. 20 |-> (k \div 4) % 4]
MCConnectionIds  == {40000}
MCTransactionIds == {0, 127}
=============================================================================
