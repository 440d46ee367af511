# Simple-Torrent-Client in TLA+

TLA+ models of Simple-Torrent-Client, checked with TLC,
and proofs about its threads, its storage, its trackers, its parser, its file and its
bytes,
checked with TLAPS.
Paths below are relative to the repository's root.

## 1. The system

One process downloads one torrent. The main thread reads the metadata
(`TorrentFile`, `BencodeParser`), asks trackers for peers (`TorrentTracker`,
`UdpTracker`, `UdpClient`), starts one thread per peer (`PeerConnect` on a
`TcpConnect`) and watches a shared `PieceStorage` until every piece is saved.
Then it terminates the peers, joins their threads, closes the file and reports.

| component | state it keeps | operations | talks to |
|---|---|---|---|
| `Piece` (core/Piece.cpp) | blocks: status and bytes | Reset, GetFirstMissingBlock, SaveBlock, HashMatches | whoever holds its pointer; it has no lock |
| `PieceStorage` (core/PieceStorage.cpp) | queue of pieces (`queue_mutex`), list of saved indices and output file (`file_mutex`) | GetNextPieceToDownload, Enqueue, PieceProcessed, SavePieceToDisk, ForceRequeueMissingPieces, CloseOutputFile | all threads |
| `PeerConnect` (net/PeerConnect.cpp) | piece in progress, choked, block pending, bitfield, failures, is_terminated | Run, EstablishConnection, MainLoop, ProcessMessage, HandleConnectionError, Terminate | its socket, `PieceStorage`; the main thread calls Terminate |
| `TcpConnect` (net/TcpConnect.cpp) | socket, `force_close_` | EstablishConnection, SendData, ReceiveData, CloseConnection | remote peer |
| `TorrentClient` (core/TorrentClient.cpp) | threads, `is_terminated` | DownloadTorrent, DownloadFromTracker, RunDownloadMultithread | everything |
| `TorrentTracker` (core/TorrentTracker.cpp) | URL, peers | UpdatePeers over the announced and the fallback trackers, ParseTrackerResponse | `UdpTracker`, HTTP trackers |
| `UdpTracker`, `UdpClient` (core/, net/) | socket, address, transaction | Announce (Connect, AnnounceWithConnection), SendReceive | one UDP tracker |
| `BencodeParser`, `TorrentFile` | position, flat list of strings, info hash | ParseFromFile, GetPieceHashes, LoadTorrentFile | the file; answers of HTTP trackers |
| `Message`, `byte_tools` | none | messages and integers to bytes and back | |
| `main` | exit code | DownloadTorrent and the last word on it | |

What is hard in it:

* `Enqueue` is not atomic (saved? under one mutex, push under the other), and
  the main thread may replace the whole queue in between. Several `Piece`
  objects of one index can be alive after that, and more than one of them can
  be completed.
* `Piece` objects have no lock: correctness rests on nobody sharing one.
* Completion is judged by the length of a list.
* A write to the file may fail without anybody looking.
* The main thread calls `Terminate` on objects whose threads are running.
* A peer thread has two records of the block it waits for (`block_is_pending`
  and the status of the block) and many ways to lose step between them.
* A remote peer may do anything, or nothing, for as long as it likes.
* `ForceRequeueMissingPieces` takes the second mutex while it holds the first.
* TCP has no messages: `ReceiveData` must find their ends in segments of any
  size.
* Datagrams get lost, repeated and late, `recvfrom` overwrites the address the
  next request goes to, and any tracker may fail at any point.
* A torrent file and a tracker's answer are read into a flat list of strings in
  which keys and values look alike.
* Lengths, offsets, ports and indices go through signed integers and remainders.

`PROJECT.json` lists these hazards at their lines, with the properties that
would notice them; where there is none, or not for the whole of it, a note says why.

What makes each component correct: a `Piece` is in one hand at a time, and
blank when it is handed out; `PieceStorage` loses no piece, saves each once,
writes only verified bytes and says complete only when all are there;
`PeerConnect` gives its piece back on every way out, keeps its bookkeeping of
requests, and gives up for no other reason than repeated failure; `TorrentClient`
ends the download with every piece saved, and ends at all. `TcpConnect` returns
whole messages; `TorrentTracker` returns the peers of a tracker that answered,
and fails only when all did; the parsers take from a file or a packet what its
structure says; and blocks, pieces and the file tile each other.

## 2. The modules

    Download                          what a download promises (abstract)
       ^ implemented by
    PieceStorage <- StorageWorkers    storage + threads, grain of critical sections
       ^              ^         ^
       |  implemented |         | implemented by
       |      by      |         |
       |         StorageLocks   TorrentClient -> PeerConnect, Piece
       |              |         the threads as the code writes them
       +--------------+

    FileLayout  <- TrackerCycle       bytes of the file; main and the cycle of trackers
                       ^ with the bytes of its trackers
                  PeerCollection -> UdpPackets, CompactPeers -> Bytes
                       ^ with the torrent file and HTTP answers
                    Session -> TorrentFile, TrackerReply -> Bencode
    TorrentTracker -> UdpTracker      one call of UpdatePeers in that cycle, on a network
    PeerWire -> Message -> Bytes      one connection, byte for byte

`A -> B` says that A extends B, or uses it; `TrackerCycle` extends `FileLayout`
and implements it.

### Download and storage

* **Piece**: block lists as functions; pure operators.
* **PieceStorage**: the variables of the class and one operation per critical
  section. `queue` is `remaining_pieces_queue`, `saved` is
  `indices_of_pieces_saved_to_disk`, `disk`, `file_open` and `file_bad` are the
  `ofstream`: what the file holds per piece, whether it is open, its sticky
  error bit. An object is a pair (index, generation); the generation is a name
  that is free again when nobody points to the object.
* **Download**: stored pieces, file, health of the disk, open. `Store(i)`,
  `Close`, nothing else.
* **StorageWorkers**: a worker pops an object, fills its blocks with right or
  wrong bytes, and saves it, requeues it (`BeginEnqueue`/`FinishEnqueue`, the
  two halves of `Enqueue`) or drops it. The main thread forces a requeue at any
  moment and closes the file after completion.
* **StorageLocks**: the same threads, one step per statement between `lock` and
  `unlock`: `front` and `pop` are two steps, so are the write and the
  `push_back` of a save, and `ForceRequeueMissingPieces` pops and pushes one
  object at a time with `GetMissingPieces`, under the second mutex, in between.
  It is shown to implement `StorageWorkers`: nobody can see a state inside a
  critical section.
* **PeerConnect**: the peer thread with a program counter, step by step from
  lock to lock or wait to wait; the place names are explained at the head of the
  module. Each `case` of `ProcessMessage` is an action, each `catch` a branch.
* **TorrentClient**: the main thread from the start of the peer threads to the
  report, composed with `PeerConnect` for a set of peers.
* **FileLayout**: the loops that cut pieces into blocks, write the zeros of
  `InitializeOutputFile` chunk by chunk, and write a piece at its offset. `file`
  says of each byte which piece it comes from. Every write may fail (`WriteBytes`):
  then `Torn` bytes of it, or none, are in the file, `file_bad` is set for good, later
  writes do nothing, and the piece is recorded as saved all the same.

### The main thread and its trackers

* **TrackerCycle**: `main`, `DownloadTorrent` and `DownloadFromTracker`: the
  constructor of `PieceStorage` (the steps of `FileLayout`), the counter over the
  trackers, the list of peers, its sorting and merging, the retry count, the
  report. `UpdatePeers` and `RunDownloadMultithread` are opaque here: the first
  returns peers or throws, of the second only the saves are seen.
* **PeerCollection**: `TrackerCycle` with the packets: `AskUdp` sends both requests
  to a tracker, lets it answer both, and reads the answers, byte for byte; `AskHttp`
  takes a list of peers. `named` and `recorded` remember what the trackers meant and
  what they read. `CollectSpec` is the specification the theorems are about, for any
  length, session, transaction ids and list of peers; there an HTTP tracker sends
  whole peers in compact form, and their list is found in the answer. That it is, is
  proved of `Session`.
* **Session**: `PeerCollection` with the text of the torrent file and of the answers,
  from the file on the disk to the exit code. `Load` parses the file,
  `ConstructStorage` takes sizes and hashes from it, `Answers` has what
  `ParseTrackerResponse` makes of a reply, right or wrong, and what the reply means.
* **Bencode**: the parser, with `info_hash` as the text that is hashed. The code is
  recursive; here `calls` is the stack of the calls of `ProcessDict` and `ProcessList` in
  progress, each with its locals, and `Process` takes one token: a string or a number is
  a call that returns at once, an opening bracket begins one, a closing one ends it. A
  value carries its own text, so that nothing has to be computed by recursion on it.
* **TorrentFile**: `LoadTorrentFile`; operators. `IsTorrent` says which files can be
  read at all from a flat list.
* **TrackerReply**: `ParseTrackerResponse` and `ParseCompactPeers`; operators. `IsReply`
  is the same for answers.
* **CompactPeers**: a list of peers with six bytes each, as the protocols have it
  (`Swarm`) and as `ParseCompactBinaryPeers` reads it; operators.
* **UdpPackets**: the requests and answers of the UDP protocol as the code writes
  and reads them, and as a tracker that keeps to the protocol does; operators.
* **UdpTracker**: `Connect` and `AnnounceWithConnection` on a `UdpClient`. `net`
  is the set of all datagrams ever sent, each of which may be received never,
  once or often, in any order. A new socket may get the port of an earlier one.
* **TorrentTracker**: `UpdatePeers`, its loop and its `catch`, with `UdpTracker`
  for `udp://` and one step for HTTP.

### Bytes and messages

* **Bytes**, **Message**: `byte_tools`, `Message` and `PeerPiecesAvailability` as
  operators on sequences of bytes.
* **PeerWire**: connections to one peer that keeps to the protocol: handshake,
  bitfield, HAVE, requests and blocks, all as bytes in two streams. `ReadPrefix`
  and `ReadBody` are the two `recv` of `ReceiveData`; each returns any number of
  the bytes that have come. A choke or a `BlockTimeout` clears `pending`, after which
  the client asks again although older requests (`asked`) or their answers are still on
  their way. `flight` has what the peer meant, and which block it answers, to compare
  with what the client reads; `split` remembers that a `recv` came back with less than
  `ReceiveData` was waiting for.

`MC...` modules are instances for TLC; `...Proofs` modules hold theorems about the
module they are named after. `ParserProofs` is about `Bencode` and its two users,
`TorrentFile` and `TrackerReply`; `SessionProofs` also about the modules `Session` is
made of: `FileLayout`, `TrackerCycle` and `PeerCollection`.

Recursion is written as recursive functions (the powers of two, the value of a string of
bytes, `std::unique`, the parser after each token of a text). `Sorted` gives the elements by their ranks: `std::sort` may
do it in any way, and elements that are equal are the same.

Definitions named `Slip...` are plausible mistakes, each written before the
operation it would replace. No specification uses them; putting one in place of
its operation makes a property fail, which shows that the property depends on
that line of the code.

### Abstractions

* Bytes of pieces are right ("good") or wrong ("bad"); SHA-1 has no collisions.
  A piece with a block of wrong length counts as wrong bytes.
* Timers: the block timeout and the inactivity timeout may pass at any moment
  (never for an honest peer). Sleeps are the gaps between two steps.
* In `PeerConnect`, `TcpConnect` is the flag `connected` (socket open,
  `force_close_` false); a call may fail at any moment, unless the peer is
  honest. `Connect` is one step, which clears the flag set by a
  `CloseConnection` before it, as TcpConnect.cpp:41 does. Messages arrive whole
  there: for the honest peers of `client_completes` this presumes a network that
  never cuts a message (limit 2 below, `InStepUnlessSplit`).
* In `GetNextAvailablePiece` the two questions after an empty queue (queue,
  completion) are one step; the loop without a pause in between is not a state.
* `Terminate` by the main thread is two steps, the test of
  `piece_is_in_progress` and its use. The use may find the pointer null or meet
  the owner's own use of it: then the outcome is undefined, modelled as
  `crashed`, after which nothing happens.
* `pieces_availability` is the set of announced pieces in `PeerConnect`; a
  BITFIELD has the announced size everywhere.
* `NewObject` takes a free name; `MaxGen` bounds the names of an index. A forced
  requeue waits until one is free. With as many names as threads that can hold
  one, plus one, there always is one. In `StorageLocks` the names are chosen
  with the list of missing pieces, the step from which the requeue counts.
* `rand()` never gives one process the same transaction id twice (it may, once
  in 2^31); trackers do not forge answers of others.
* In `UdpTracker`, a tracker's connection id names the tracker; that it is eight bytes
  is in `UdpPackets`.
* An HTTP announce is one step: the library sends, waits and times out.
* The width of a byte is the constant `Bits` where bytes are counted: an `int`
  is four bytes, wraps around and has a sign at every width. The number of bytes
  of each field is the code's.
* A bencoded text is a sequence of tokens: a string with its length, an integer
  with its delimiters, and a bracket are one each. Files are well-formed: one hash
  per piece, and no piece without bytes. Of addresses and lists of peers, a
  letter stands for a byte.
* A block that comes for the piece in progress without being pending makes the client
  connect anew (`ReceiveBlock` in `PeerConnect`). In `PeerWire` it may, or may go on.
* After a `recv` that leaves the client out of step with the stream (`Lost` in
  `PeerWire`), the connection is not followed on.
* The list of fallback trackers contains the announced URL where the code leaves
  it out, and the loop passes over it.

## 3. The runs

| run | instance | states | what it shows |
|---|---|---|---|
| `storage_safety` | 2 pieces, 2 workers, 3 names per index, writes may fail | 42,012 | ownership, blankness, nothing lost, saved once, completion by counting, verified bytes only, bounded duplicates, `NeverUnsaved`, implements `Download` |
| `written_is_valid` | same | violation | "All pieces complete and valid: YES" after a failed write |
| `storage_locks` | 2 pieces, 2 workers, 3 names | 482,301 | no circle of waits; the critical sections implement `StorageWorkers` |
| `client_two_peers` | 2 peers, 2 pieces of 1 block, 1 failure allowed, endgame at 1 missing | 564,730 | termination races, final state, implements `StorageWorkers` |
| `client_one_peer` | 1 peer announcing 1 of 3 pieces, 2 blocks, 2 failures, writes may fail | 181,600 | bookkeeping of requests, paths outside endgame, repeated blocks, failure count, failed writes |
| `client_completes` | an honest and a faulty peer, 2 pieces | 397,987 | liveness: completion |
| `client_ends` | 2 faulty peers, 1 piece | 187,659 | liveness: the program ends after completion, if every network wait ends |
| `client_handshake` | same | violation | the handshake's `recv` has no timeout |
| `client_retries` | same | violation | when all peers were given up the monitor loop never ends |
| `tracker_failover` | 3 UDP trackers (one without peers), 1 HTTP tracker, 2 ports | 169,068 | the peers are the asked tracker's, announces go where they should, no tracker left out, the call ends |
| `session` | files of 0 to 12 bytes in pieces of 3 to 5, blocks of 2, chunks of 4; any write may fail after 0 or 2 bytes; optional, nested and repeated names; 2 trackers and an announced one, 3 peers on 2 addresses | 42,773 | fields, hashes and sizes are the file's, blocks and saves tile it, trackers read what was meant, every peer once, success is complete unless a write failed, a download is reached |
| `peer_wire` | bytes of 3 bits, 4 pieces in 2 bytes, 2 blocks, 2 requests on their way, one piece got later, 2 connections, at most 14 bytes on their way | 1,904,567 | in step unless a `recv` splits a message, never short of one, the block that comes is the one its request asked for, the bitfield agrees with the peer |

The bounds. Two workers are enough for every race between two owners and, with
the main thread, for a save or a requeue between the halves of an `Enqueue`; two
pieces for a queue with order and for one piece saved while another is missing.
`EndgameThreshold` is 1 for 10 in the code, so that both sides of it are
reached with 2 or 3 pieces; `MaxFailures` is 1 or 2 for 20. `NumBlocks = 2` makes
blocks arrive twice, unasked, or for an object that was reset. Two ports let a
socket have, or not have, the port of an earlier one; the URLs of
`tracker_failover` begin the list with a tracker that is also a fallback, one
that is not, and an HTTP tracker. In `session` a last piece may be whole or
shorter, a last block too, and a chunk ends inside a piece; a failing write leaves
nothing or a part of a piece, of a chunk or of a block; the answers of
trackers repeat peers in one list and across lists, in both protocols, so that
sorting and merging have something to do. In `peer_wire`, 14 bytes hold a block
message, or two short ones and a part of a third: enough to cut one, to lose bytes
of the next and to misread the third. Two requests on their way are what one choke or
one timeout leaves: an answer that is late and one that is waited for. Bytes of 3 bits are the narrowest that hold
the message ids, and put 4 pieces in two bytes; one offset is the largest `int` of
that width. Bytes of 2 bits make transaction ids of 8 bits and ports of 4. The
theorems below hold without these bounds.

Symmetry is used only in runs that check safety and step properties. Deadlock is
checked in every run but `peer_wire`, which stops when the bounded number of
connections is used up.

### Fairness

* Every thread keeps running (`WF` of the main thread's steps and of each peer
  thread's local steps): the operating system schedules them.
* Polling (`SF`): the monitor loop looks at the queue again and again, and so
  does a thread without a piece. If the queue is empty again and again, some
  look finds it empty; if an honest peer's thread asks again and again while
  there is something to take, some time it gets it. Neither mutex is held for
  long, and the pollers are not in step.
* Honest peers answer (`WF` of their threads' steps). Faulty ones owe nothing.
* `TimedSpec` assumes instead that every wait for a remote peer ends;
  `HandshakeSpec` assumes it of all waits but the handshake's, the one wait
  without a timeout in the code.
* `TorrentTracker`: `WF` of the calling thread, whose waits all have a timeout
  (`SO_RCVTIMEO`, `cpr::Timeout`). The network and the trackers owe nothing.
* `Session`: `WF` of the main thread, and `SF` of a tracker's answer: a tracker
  that is asked in every cycle some time has peers. Without it the cycle may
  rightly go on for ever. Both are said of the steps of `TrackerCycle`, which
  `Session` gives their values: whether such a step can be taken does not depend
  on the values.

`Completes` needs fewer held pieces than the endgame threshold, that is, at
most 10 peers that keep a piece and send keep-alives for ever: beyond that,
endgame never starts and their pieces are never requeued.

## 4. What is proved

**StorageWorkersProofs**, for every number of pieces, workers and names:

* `Invariance`: the inductive invariant `IInv`, the conjunction of `TypeOK`,
  `ExclusiveOwnership`, `QueuedAreBlank`, `StageTellsContent`, `SavedOnce`,
  `ClosedMeansAll`, `NothingLost` and `DiskVerified`. Each of them is an
  invariant TLC checks. `NothingLost` alone is not inductive: a save must not
  remove the last object of a missing piece (needs ownership), a drop must drop
  only saved ones. `DiskVerified` needs `StageTellsContent`: the bytes that are
  written are those that were verified, because nobody else has the object.
* `TypeCorrect`, `Ownership`, `HandedOutBlank`, `VerdictsLast`,
  `SavedListIsExact`, `ClosedInTime`, `NoPieceIsLost` and `FileIsVerified` follow,
  one for each part.
* `CompletionIsReal`: a list without repetitions, as long as there are pieces,
  has them all (pigeonhole, from the library's theorems on cardinality).
* `SavedForEver`: the step property `NeverUnsaved`.
* `DuplicatesBounded`: queue and workers together have at most one object per
  piece and one more per worker, by a counting invariant of its own.
* `Refinement`: `StorageWorkers` implements `Download`, with `stored` the set
  of saved indices, `healthy` the negation of `file_bad`.

**StorageLocksProofs**, for every number of threads and pieces: `LockInvariance`
says of each mutex at which places its owner can be. `file_mutex` is never held
at a place that waits, so whoever waits for it does not wait in a circle, and
who waits for `queue_mutex` waits for a thread that waits for `file_mutex` at
most; `DeadlockFree` follows.

In the same module, for any number of threads, pieces and names:
`SectionsAreAtomic`, that `StorageLocks` implements `StorageWorkers`, and with it
every theorem above. The mapping puts a save at its write and a forced requeue at
the reading of the list: `WholeQueue` is the queue with the objects dropped so far
or still to be pushed, `WholeList` the list with the piece whose `push_back` is
still to come. Of the invariant (`SectionInvariance`), `Exclusion` is the converse of
`LockInv`: who is in a section has the mutex, so no two are; `WorkerInv` says that
`front()` and `pop()` are of one object, and that an object between write and
`push_back` is nobody else's and not queued, although it no longer counts as held;
`MainInv` says what a requeue has done so far, and that after the answer "complete"
no write follows; `BlankUnlessHeld` is why new names stand for blank objects. That
nobody shares an object at work comes from `StorageWorkers`' own invariant, which is
part of this one under the mapping.

**TorrentClientProofs**, for any number of peers, pieces, blocks and names, any
`MaxFailures` and any endgame threshold: `ClientRefinement`, that the client
implements `StorageWorkers`. It cannot be proved before the client's invariant, nor
the invariant before it: a thread saves verified bytes only if nobody else has its
object, which is known of `StorageWorkers`, and its step is one of `StorageWorkers`
only if the thread is where it should be with its piece. So the invariant
(`ClientInvariance`) has both, `IInv` of `StorageWorkers` under the mapping and the
client's own `TypeOK`, `PeerInv` and `MainInv`. `PeerInv` says of each place of a peer
thread whether it may have a piece, must have one unless the main thread takes it
away, and has an incomplete one; who can have terminated it; and why it leaves.
`MainInv` says that the main thread leaves the monitor loop on completion only.
`ClientTypeCorrect`, `CrashIsHarmless`, `NothingLeftBehind`, `PeersArePersistent` and
`FinishIsTrue` follow; the last one needs that saved pieces have verified bytes,
which is `DiskVerified` of `StorageWorkers`.

In the same module, for the same: `PendingIsTracked`. The flag
`block_is_pending` and the status of the block are kept in different objects. `Tracks`
relates them, but not everywhere: `FlagIsStale` names the places where the flag is
wrong and nobody looks at it before it is cleared.

**TorrentTrackerProofs**, for any trackers, ports, fallback list and any loss,
delay, repetition and reordering: `Invariance` is about transaction ids. All
requests with one id went to one tracker (`OneTracker`), every answer has the id
of a request its sender got (`NetInv`), and while the client waits, the requests
with its current id went to the tracker it asks (`Asked`); without these a late
answer to an earlier socket with the same port could be taken. `LoopInv` keeps
account of the trackers left behind. `TypeCorrect`, `Genuineness`,
`AnnounceGoesRight` and `FailoverIsComplete` follow.

**SessionProofs**, of `FileLayout`, for all lengths and writes that fail anywhere:
`LayoutInvariance` has two parts. Whatever failed, every byte of the file is a zero or comes
from the saved piece whose place it is in (`BytesInv`). While nothing failed, the file
is there up to `min(offset, length)` and saved pieces are there whole (`AllWritten`); the
first failure ends this for good (`BadStays`). The arithmetic
is in `PieceEnds` (piece `m` ends at `(m + 1) * piece_length` or at the end of the
file) and `OnePiece`, `SomePiece` (every byte is in exactly one piece). The
theorems are `BlocksCoverPieces` and `SavesStayApart`.

**BytesProofs**, for bytes of any width: `BytesToIntReads`, that `BytesToInt` gives
back what `IntToBytes` wrote, for every `int` of either sign and whatever follows it;
and `BigEndianOfUnsigned`, the other way round, for any number of bytes. The lemmas
behind them are used by both modules below: quotients and remainders, the powers of
two, the loop of `BytesToInt` as a function on the first bytes of a string, a byte as
the set of its bits. Induction over data goes through `SetInduction`: a set of numbers
that has 0 and with each number the next has all, because `<` is well-founded. A
recursive function is a `CHOOSE`, so that there is one is proved before it is used
(`PowersExist`, `HornerExists`, `KeptExists`, `ParserRuns`).

**PeerWireProofs**, for bytes of any width, any number of pieces, any blocks, and bytes
that come in portions of any size: `Invariance`, of an invariant in five parts.
`TypeInv` is the types. `StreamInv` says that what is read of the first message,
followed by what is on its way, is the messages of `flight` one behind the other
(`InStream`: there are places where the stream can be cut into them), and that
`ReceiveData` waits for exactly the rest of the first. A `recv` that ends inside a
message breaks this, and the client is in `Lost` from there on; `LastInv` says what the
last call returned compared with what was sent, and that without such a `recv` the
connection is neither lost nor closed. `BlockInv` says that the bytes on their way to the
peer are the requests for the blocks in `asked`, in order and seventeen bytes each
(`Requested`), so the peer reads the oldest of them; that every block in flight is the
answer to its own request is part of what a message of the peer is (`Good`). Nothing
is said of what the client waits for: choke and timeout may clear it at any moment. `KnowInv` says that the
pieces the client knows, together with those of the HAVEs in flight, are what the peer
has, bit for bit. `ReceivesInStep`, `NeverReturnsTooLittle`, `AnswersFit` and
`KnowsThePieces` follow. They assume `WireAssumption` and `FitsAssumption`: sizes
that an `int` holds, and no message of the peer longer than the client accepts.

**SessionProofs**, of `PeerCollection`, for bytes of any width, any session, length, transaction ids,
port and lists of peers: `CollectInvariance`. While trackers are asked, `all_peers` is a
list of addresses that has exactly the peers in `named`; once merged, each of them once;
and every announce was read as it was meant, with the length of the torrent, which
no later step changes. Three arguments go into it:

* The packets. A packet is a chain of parts, each found again at its place however
  much is added behind it (`PartAdded`, `PartIsField`), up to the thirteen parts of an
  announce (`AnnounceRead`). `PortTwice` is the reason why the port is read right though
  it is shifted into an `int` twice: the first two of its four bytes are those of
  the port, even where the `int` wraps around. `AnnounceAnswered` says that the client
  accepts the answers.
* The addresses. Both ways of reading a list (`PeersOfAnswer`, `ParsedPeers`) give the
  addresses of the protocol in their order; an address that is an `int` with a sign in
  between comes back (`AddressBack`).
* The merging. Places are ordered by the address there and then by number
  (`AheadOrder`), so ranks differ, and by counting every rank is some place's
  (`EveryRank`): sorting loses nothing. In a sorted list equal elements are next to
  each other, so `std::unique` leaves each value once (`UniqueKeeps`).

`RecordsAsMeant` and `EveryPeerOnce` follow. `ImplementsCycle`: every step is one of
`TrackerCycle`; the invariant is needed because only a list of addresses is an answer
there.

In the same module, of `TrackerCycle`, for any torrent, trackers and peers:
`ImplementsLayout` shows that the steps of the main thread are steps of `FileLayout`,
so that what is proved there holds here. `CycleInvariance` says that between two runs
of the download the queue has every missing piece: the retry count stays at zero, and
the branch that gives up (TorrentClient.cpp:227) is never taken.
`SuccessUnlessAWriteFailed` puts both together: when `main` prints success, all pieces are
recorded as saved, and if no write failed, of the zeros or of a piece, the file has its
length and every byte of it comes from its piece. The condition is necessary: after a
failed write `main` prints success as well, and bytes are missing (finding 1).
`FileIsRight` carries all three properties of the file over to
`PeerCollection`, along both refinements.

**ParserProofs**, for texts of any length, with dictionaries and lists of any depth. In
`LoadsRight`, what `LoadTorrentFile` makes of a file (fields, hash, number of pieces) is
what the file says, for every file that is `IsTorrent`; in `PeersFound`, the peers
`ParseTrackerResponse` makes of an answer are those of its compact list, or none, for
every answer that is `IsReply`. The argument:

* Texts. What all texts of values have in common is `Balanced`: the bracket that comes
  first is the last one closed. The entries of a dictionary are laid one behind the other
  in its text (`DictText`, `LaidWithin`); where they begin comes from `FlattenCuts`.
* Calls. The parser reads a balanced text by one call that leaves the calls around it
  alone and returns the string, if it is one (`ValueIsRead`), whatever it begins and ends
  inside. So an entry is two calls that return to its dictionary (`EntryIsRead`). No
  induction on the depth of a value is needed: the invariant along the text is that the
  calls in progress are the ones before and one for each open bracket.
* Hash. Along the entries of the outermost dictionary its `start` and `end` are set by
  the entry "info" and no other; inner dictionaries may set `info_hash`, but the
  outermost ends last (`HashIsInfo`).
* Fields. The list of strings is what stands in the text, in order (`ParsedIsLeaves`), so
  the loop of `LoadTorrentFile` can be followed along the text (`TextIsScanned`), entry by
  entry: one without the name of a field leaves everything (`SilentEntry`), a key with
  such a name takes its value, even if that has the name of another (`FieldEntry`), and
  "info" takes its own fields (`InfoEntry`).
* Names that occur once. "pieces", "peers" and "failure reason" are looked for in the
  whole list: if only a key has the name, what follows it is its value, or the first
  string inside it (`KeyPlace`, `FoundOnce`).

**SessionProofs**, of `Session`, for any set of such files and answers, any peers and any
ids: `LoadsAsWritten`, from `SessionInv`: while the sizes are taken from the torrent file
it is what was made of the file. `SessionCollects` shows that `Session`
implements `PeerCollection`: the sizes are in range, and an HTTP answer gives the peers it
means, or as good as an exception. With the refinements above this is a chain of three,
from texts to `PeerCollection`, `TrackerCycle` and `FileLayout`, and `SessionIsRight` has
all five other invariants of the run `session` for `Session` itself.

Assumptions: the named `ASSUME`s of the modules (finite sets of threads, numbers
that are numbers, constants of different kinds that differ, identities and hashes of
twenty bytes, messages that fit, files and answers that can be told from others, see
limits 4 and 5), nothing else. TLC evaluates each of them in a run.

Only model-checked: liveness (`Completes`, `EndsAfterCompletion`, `UpdatePeersEnds`,
`ReachesDownload`), which is out of the prover's reach. Every invariant and every step
property of a passing run is a theorem.

That PeerConnect's socket, one flag there, behaves as `PeerWire`'s bytes do is neither
checked nor proved.

## 5. Findings

1. A failed write counts as saved (PieceStorage.cpp:216-220), and the program
   reports "All pieces complete and valid: YES" (TorrentClient.cpp:281). The
   weaker `FinishedIntact`, `DiskVerified`, `SavedInPlace` and `SuccessIsComplete` say
   what holds: the file is right as long as no write fails, and a failed write does not
   put bytes in a wrong place.
2. The program may not end after completion: a peer thread between
   `is_terminated` and `connect` clears `force_close_` (TcpConnect.cpp:41) and
   then waits for a handshake in `recv` without a timeout (TcpConnect.cpp:172).
3. When every peer was given up before completion, the monitor loop
   (TorrentClient.cpp:80) goes on for ever; the retry cycle of
   `DownloadFromTracker` (TorrentClient.cpp:215-236) is never reached again.

Limits. Each of these marks where a property above stops, met while writing it
and not checked by a run of its own:

1. A torrent of an empty file has no pieces, and the report divides by their
   number (TorrentClient.cpp:282). `session` has such files: they end in
   `crashed`, of which `SuccessIsComplete` says nothing.
2. A message whose body arrives in two segments is returned together with the
   beginning of the next one, if that is there (TcpConnect.cpp:172 asks for
   `sizeof(data_2)`, not for `to_read`), and framing is lost from there on; a length
   of which less than four bytes have come loses the connection
   (TcpConnect.cpp:158). Hence `~split` in `InStepUnlessSplit`.
3. A HAVE is not kept until a BITFIELD gave the object a size
   (PeerConnect.cpp:21): a peer that begins with no pieces never seems to have
   any. Hence `greeted` in `KnowsWhatItHas`.
4. A file or a comment that is called "pieces" is taken for the key of the
   hashes (BencodeParser.cpp:123), and a string called like a field inside another
   value, like the `length` of each file in a torrent of several, for the field
   (TorrentFile.cpp:17). `IsTorrent` leaves both out, and `FilesAssumption` requires it.
   The value of a field itself may be any string but "pieces".
5. An empty list of peers is not rejected (TorrentTracker.cpp:252) if the next key
   of the answer has six letters: "peers6" is read as one peer
   (TorrentTracker.cpp:199), and so is the first string inside a list of dictionaries, if
   its length is a multiple of six. `IsReply` leaves these out, and `TrackersAssumption` requires it; `MCReplies`
   has empty lists with another key only.

A weakness that is bounded and not a finding: `Terminate` by the main thread
races with the owner (PeerConnect.cpp:190), but only after every piece was
saved (`CrashOnlyAfterCompletion`). Another: `SendReceive` gives up on the first
stray datagram (UdpClient.cpp:75) instead of waiting for its answer;
`ThrowsOnlyAfterAll` counts that as a fault of the network.

## 6. Not modelled, and the plan

| next | module | what it is to show |
|---|---|---|
| 1 | `PeerConnect` on `PeerWire` | what a client does with a misread stream |

Not modelled: what the operating system makes of a descriptor that one thread
closes while another is in `select` or `recv` on it (TcpConnect.cpp:70); memory
beyond the end of a short BITFIELD (PeerConnect.cpp:17); files and answers that
are not bencoded; the command line of `main.cpp`; the splitting of tracker URLs;
the random suffix of the peer id; SHA-1, hex and HTTP (library calls); the
wording of the console output.
