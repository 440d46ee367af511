------------------------ MODULE TorrentTrackerProofs ------------------------
(***************************************************************************)
(* Theorems about TorrentTracker: UpdatePeers returns the peers of the     *)
(* tracker it asked last, and throws only after it asked all of them, for  *)
(* any number of trackers, any choice of ports and any loss, delay,        *)
(* duplication and reordering of datagrams.                                *)
(*                                                                         *)
(* The argument is about transaction ids: all requests with one id went to *)
(* one tracker (OneTracker), an answer has the id of a request that its    *)
(* sender got (NetInv), and while the client waits, the requests with its  *)
(* current id went to the tracker it asks (Asked).                         *)
(***************************************************************************)
EXTENDS TorrentTracker, TLAPS

IsRequest(m) == m.to \in Trackers /\ m.from \in Ports

\* What is in the network was sent by the client or answers what it sent.
IsAnswer(m) ==
    /\ m.to \in Ports /\ m.from \in Trackers
    /\ m.action = "connect" => m.id = m.from
    /\ m.action = "announce" => m.peers = PeersOf[m.from]
    /\ \E r \in net : r.to = m.from /\ r.txid = m.txid

NetInv ==
    \A m \in net :
        /\ m.txid \in 1 .. transaction_id
        /\ IsRequest(m) \/ IsAnswer(m)

OneTracker ==
    \A r, s \in net :
        r.to \in Trackers /\ s.to \in Trackers /\ r.txid = s.txid => r.to = s.to

\* How the places of the client relate to what it sent and got.
Asked ==
    /\ place \in {"AwaitConnect", "AwaitAnnounce"} =>
          \A r \in net : r.to \in Trackers /\ r.txid = transaction_id => r.to = current
    /\ place = "Connect" => server_address = current
    /\ AnnounceToConnected
    /\ place = "Answered" => answer = PeersOf[current]

\* The loop of UpdatePeers: what is known of the trackers it has left behind.
LoopInv ==
    /\ place # "Next" =>
          peers = {} /\ i \in DOMAIN all_trackers /\ current = all_trackers[i]
    /\ place = "Thrown" => current \in faults
    /\ outcome # "running" => place = "Next"
    /\ outcome = "thrown" => ~MoreToTry /\ peers = {}
    /\ \A k \in 0 .. i - 1 :
          peers # {} \/ PeersOf[all_trackers[k]] = {} \/ all_trackers[k] \in faults

IInv == TypeOK /\ NetInv /\ OneTracker /\ Asked /\ LoopInv /\ PeersAreGenuine

-----------------------------------------------------------------------------
\* The list of trackers, counted from 0 without gaps.
LEMMA ListIsTrackers ==
  ASSUME tracker_url \in Trackers
  PROVE  /\ \A k \in DOMAIN all_trackers : all_trackers[k] \in Trackers
         /\ \E n \in Nat : DOMAIN all_trackers = 0 .. n
BY TrackersAssumption DEF all_trackers

\* tracker_url does not change, and with it the list does not.
LEMMA ListStays ==
  ASSUME tracker_url' = tracker_url
  PROVE  all_trackers' = all_trackers
BY DEF all_trackers, IsUdpTracker

LEMMA InitIInv == Init => IInv
BY ListIsTrackers, TrackersAssumption
   DEF Init, IInv, TypeOK, Places, NetInv, OneTracker, Asked, AnnounceToConnected,
       LoopInv, MoreToTry, PeersAreGenuine

\* A request under a new transaction id leaves what is known of the network true.
LEMMA SendNet ==
  ASSUME IInv, NEW from, NEW to, NEW action, NEW id, Send(from, to, action, id)
  PROVE  NetInv' /\ OneTracker'
<1>1. PICK m : /\ m.to = server_address /\ m.from = port /\ m.txid = transaction_id + 1
               /\ net' = net \cup {m}
  BY DEF Send, Request
<1>a. /\ transaction_id' = transaction_id + 1
      /\ server_address \in Trackers /\ port \in Ports /\ transaction_id \in Nat
  BY DEF IInv, TypeOK, Send
<1>2. \A r \in net : r.txid \in 1 .. transaction_id
  BY DEF IInv, NetInv
<1>3. NetInv'
  <2>1. \A r \in net : IsAnswer(r) => IsAnswer(r)'
    BY <1>1 DEF IsAnswer
  <2>2. \A r \in net : (IsRequest(r) \/ IsAnswer(r)) => (IsRequest(r) \/ IsAnswer(r))'
    BY <2>1 DEF IsRequest
  <2>3. IsRequest(m)'
    BY <1>1, <1>a DEF IsRequest
  <2> QED
    BY <1>1, <1>a, <1>2, <2>2, <2>3 DEF IInv, NetInv
<1>4. OneTracker'
  <2>1. \A r \in net : r.txid # m.txid
    BY <1>1, <1>a, <1>2
  <2> QED
    BY <1>1, <2>1 DEF IInv, OneTracker
<1> QED
  BY <1>3, <1>4

\* So does an answer of a tracker, and the client does not notice it.
LEMMA RespondStep ==
  ASSUME IInv, NEW m \in net, Respond(m), UNCHANGED loopVars
  PROVE  IInv'
<1>1. PICK a : /\ net' = net \cup {a}
               /\ a.to = m.from /\ a.from = m.to /\ a.txid = m.txid
               /\ a.action = "connect" => a.id = a.from
               /\ a.action = "announce" => a.peers = PeersOf[a.from]
  <2>1. CASE net' = net \cup {Answer(m, "connect", m.to, {})}
    <3> DEFINE a == Answer(m, "connect", m.to, {})
    <3>1. /\ a.to = m.from /\ a.from = m.to /\ a.txid = m.txid
          /\ a.action = "connect" => a.id = a.from
          /\ a.action = "announce" => a.peers = PeersOf[a.from]
      BY DEF Answer
    <3>2. net' = net \cup {a}
      BY <2>1
    <3> HIDE DEF a
    <3> QED
      BY <3>1, <3>2
  <2>2. CASE net' = net \cup {Answer(m, "announce", None, PeersOf[m.to])}
    <3> DEFINE a == Answer(m, "announce", None, PeersOf[m.to])
    <3>1. /\ a.to = m.from /\ a.from = m.to /\ a.txid = m.txid
          /\ a.action = "connect" => a.id = a.from
          /\ a.action = "announce" => a.peers = PeersOf[a.from]
      BY DEF Answer
    <3>2. net' = net \cup {a}
      BY <2>2
    <3> HIDE DEF a
    <3> QED
      BY <3>1, <3>2
  <2>3. CASE net' = net \cup {Answer(m, "error", None, {})}
    <3> DEFINE a == Answer(m, "error", None, {})
    <3>1. /\ a.to = m.from /\ a.from = m.to /\ a.txid = m.txid
          /\ a.action = "connect" => a.id = a.from
          /\ a.action = "announce" => a.peers = PeersOf[a.from]
      BY DEF Answer
    <3>2. net' = net \cup {a}
      BY <2>3
    <3> HIDE DEF a
    <3> QED
      BY <3>1, <3>2
  <2> QED
    BY <2>1, <2>2, <2>3 DEF Respond
<1>2. m.to \in Trackers /\ m.from \in Ports
  BY TrackersAssumption DEF Respond, IInv, NetInv, IsRequest, IsAnswer
<1>3. UNCHANGED <<loopVars, place, current, server_address, port, transaction_id,
                  connection_id, answer, faults>>
  BY DEF Respond
<1>4. a.to \notin Trackers /\ a.txid \in 1 .. transaction_id
  BY <1>1, <1>2, TrackersAssumption DEF IInv, NetInv
<1>5. NetInv'
  <2>1. \A r \in net : IsRequest(r) \/ IsAnswer(r) => (IsRequest(r) \/ IsAnswer(r))'
    BY <1>1 DEF IsRequest, IsAnswer
  <2>2. IsAnswer(a)'
    BY <1>1, <1>2 DEF IsAnswer
  <2> QED
    BY <1>1, <1>3, <1>4, <2>1, <2>2 DEF IInv, NetInv
<1>6. OneTracker' /\ Asked'
  BY <1>1, <1>3, <1>4 DEF IInv, OneTracker, Asked, AnnounceToConnected
<1>7. LoopInv' /\ PeersAreGenuine' /\ TypeOK'
  BY <1>3, ListStays
     DEF IInv, LoopInv, loopVars, PeersAreGenuine, TypeOK, MoreToTry
<1> QED
  BY <1>5, <1>6, <1>7 DEF IInv

\* While nothing is sent, what is known of the network stays true.
LEMMA NetStays ==
  ASSUME IInv, UNCHANGED <<net, transaction_id>>
  PROVE  NetInv' /\ OneTracker'
BY DEF IInv, NetInv, OneTracker, IsRequest, IsAnswer

-----------------------------------------------------------------------------
\* What the client does between two looks at the network.
LEMMA SendStep ==
  ASSUME IInv, SendConnect \/ SendAnnounce, UNCHANGED loopVars
  PROVE  IInv'
<1>1. PICK from, to, action, id :
          /\ Send(from, to, action, id)
          /\ <<from, to>> \in {<<"Connect", "AwaitConnect">>, <<"Announce", "AwaitAnnounce">>}
  BY DEF SendConnect, SendAnnounce
<1>2. NetInv' /\ OneTracker'
  BY <1>1, SendNet
<1>3. UNCHANGED <<loopVars, current, server_address, port, connection_id, answer, faults>>
      /\ place = from /\ place' = to /\ transaction_id' = transaction_id + 1
  BY <1>1 DEF Send
<1>4. server_address = current
  BY <1>1, <1>3 DEF IInv, Asked, AnnounceToConnected
<1>5. Asked'
  <2>1. PICK m : m.to = server_address /\ net' = net \cup {m}
    BY <1>1 DEF Send, Request
  <2>2. \A r \in net : r.txid # transaction_id'
    BY <1>3 DEF IInv, NetInv, TypeOK
  <2> QED
    BY <1>1, <1>3, <1>4, <2>1, <2>2 DEF Asked, AnnounceToConnected
<1>6. TypeOK'
  BY <1>1, <1>3, ListStays DEF IInv, TypeOK, Places, loopVars
<1>7. LoopInv' /\ PeersAreGenuine'
  BY <1>1, <1>3, ListStays DEF IInv, LoopInv, MoreToTry, PeersAreGenuine, loopVars
<1> QED
  BY <1>2, <1>5, <1>6, <1>7 DEF IInv

\* A datagram that comes to the client's port is an answer, and one with the id it
\* waits for is from the tracker it asks.
LEMMA Received ==
  ASSUME IInv, NEW m \in net, m.to = port,
         place \in {"AwaitConnect", "AwaitAnnounce"}
  PROVE  /\ IsAnswer(m)
         /\ m.txid = transaction_id => m.from = current
<1>1. IsAnswer(m)
  BY TrackersAssumption DEF IInv, TypeOK, NetInv, IsRequest
<1>2. PICK r \in net : r.to = m.from /\ r.txid = m.txid
  BY <1>1 DEF IsAnswer
<1> QED
  BY <1>1, <1>2 DEF IInv, Asked, IsAnswer

LEMMA ReceiveStep ==
  ASSUME IInv, NEW m \in net, ReceiveConnect(m) \/ ReceiveAnnounce(m), UNCHANGED loopVars
  PROVE  IInv'
<1>1. /\ UNCHANGED <<loopVars, current, port, transaction_id, net>>
      /\ server_address' = m.from /\ m.to = port
      /\ faults' \in {faults, faults \cup {current}}
      /\ place \in {"AwaitConnect", "AwaitAnnounce"}
  BY DEF ReceiveConnect, ReceiveAnnounce, Receive, Spoiled
<1>2. /\ IsAnswer(m)
      /\ m.txid = transaction_id => m.from = current
  BY <1>1, Received
<1>3. \/ place' = "Thrown" /\ current \in faults' /\ UNCHANGED <<connection_id, answer>>
      \/ /\ place' = "Announce" /\ connection_id' = current /\ m.from = current
         /\ UNCHANGED answer
      \/ place' = "Answered" /\ answer' = PeersOf[current] /\ UNCHANGED connection_id
  BY <1>2
     DEF ReceiveConnect, ReceiveAnnounce, Receive, Matches, Genuine, Spoiled, IsAnswer
<1>4. NetInv' /\ OneTracker'
  BY <1>1, NetStays
<1>5. Asked'
  BY <1>1, <1>3 DEF IInv, Asked, AnnounceToConnected
<1>6. TypeOK'
  BY <1>1, <1>2, <1>3, ListStays DEF IInv, TypeOK, Places, loopVars, AllPeers, IsAnswer
<1>7. LoopInv' /\ PeersAreGenuine'
  BY <1>1, <1>3, ListStays DEF IInv, LoopInv, MoreToTry, PeersAreGenuine, loopVars
<1> QED
  BY <1>4, <1>5, <1>6, <1>7 DEF IInv

LEMMA TimeoutStep ==
  ASSUME IInv, Timeout, UNCHANGED loopVars
  PROVE  IInv'
<1>1. NetInv' /\ OneTracker'
  BY NetStays DEF Timeout
<1>2. TypeOK' /\ Asked'
  BY ListStays
     DEF IInv, Timeout, Spoiled, TypeOK, Places, loopVars, Asked, AnnounceToConnected
<1>3. LoopInv' /\ PeersAreGenuine'
  BY ListStays
     DEF IInv, Timeout, Spoiled, LoopInv, MoreToTry, PeersAreGenuine, loopVars
<1> QED
  BY <1>1, <1>2, <1>3 DEF IInv

-----------------------------------------------------------------------------
\* The loop of UpdatePeers.  i only moves past a tracker whose answer is in peers,
\* that has none, that failed, or that was tried before.
LEMMA SkipStep ==
  ASSUME IInv, Skip
  PROVE  IInv'
<1>1. UNCHANGED <<udpVars, tracker_url, peers, outcome>> /\ i' = i + 1 /\ place = "Next"
      /\ i \in DOMAIN all_trackers /\ outcome = "running"
      /\ i > 0 /\ all_trackers[i] = all_trackers[0]
  BY DEF Skip, MoreToTry, IsRepeated, all_trackers
<1>2. NetInv' /\ OneTracker' /\ Asked' /\ PeersAreGenuine'
  BY <1>1, NetStays DEF IInv, udpVars, Asked, AnnounceToConnected, PeersAreGenuine
<1>3. TypeOK'
  BY <1>1, ListStays DEF IInv, TypeOK, udpVars
<1>4. LoopInv'
  BY <1>1, ListStays DEF IInv, TypeOK, LoopInv, udpVars
<1> QED
  BY <1>2, <1>3, <1>4 DEF IInv

LEMMA TryStep ==
  ASSUME IInv, TryTracker
  PROVE  IInv'
<1>1. /\ UNCHANGED <<loopVars, transaction_id, connection_id, answer, net>>
      /\ place = "Next" /\ outcome = "running" /\ i \in DOMAIN all_trackers /\ peers = {}
      /\ current' = all_trackers[i]
      /\ \/ place' = "Connect" /\ server_address' = current' /\ port' \in Ports
            /\ UNCHANGED faults
         \/ place' = "Thrown" /\ faults' = faults \cup {current'}
            /\ UNCHANGED <<server_address, port>>
         \/ place' = "Http" /\ UNCHANGED <<server_address, port, faults>>
  BY DEF TryTracker, Open, MoreToTry
<1>2. all_trackers[i] \in Trackers
  BY <1>1, ListIsTrackers DEF IInv, TypeOK
<1>3. NetInv' /\ OneTracker'
  BY <1>1, NetStays
<1>4. TypeOK' /\ Asked'
  BY <1>1, <1>2, ListStays
     DEF IInv, TypeOK, Places, loopVars, Asked, AnnounceToConnected
<1>5. LoopInv' /\ PeersAreGenuine'
  BY <1>1, ListStays DEF IInv, LoopInv, MoreToTry, PeersAreGenuine, loopVars
<1> QED
  BY <1>3, <1>4, <1>5 DEF IInv

LEMMA HttpStep ==
  ASSUME IInv, UpdatePeersHttp
  PROVE  IInv'
<1>1. NetInv' /\ OneTracker'
  BY NetStays DEF UpdatePeersHttp
<1>2. TypeOK' /\ Asked'
  BY ListStays
     DEF IInv, UpdatePeersHttp, Spoiled, TypeOK, Places, AllPeers, loopVars, Asked,
         AnnounceToConnected
<1>3. LoopInv' /\ PeersAreGenuine'
  BY ListStays
     DEF IInv, UpdatePeersHttp, Spoiled, LoopInv, MoreToTry, PeersAreGenuine, loopVars
<1> QED
  BY <1>1, <1>2, <1>3 DEF IInv

LEMMA UpdatePeersStep ==
  ASSUME IInv, UpdatePeers
  PROVE  IInv'
<1>1. /\ place = "Answered" /\ place' = "Next" /\ peers' = answer /\ i' = i + 1
      /\ answer = PeersOf[current]
      /\ UNCHANGED <<tracker_url, outcome, current, server_address, port,
                     transaction_id, connection_id, answer, net, faults>>
  BY DEF UpdatePeers, IInv, Asked
<1>2. i \in DOMAIN all_trackers /\ current = all_trackers[i] /\ outcome = "running"
  BY <1>1 DEF IInv, LoopInv, TypeOK
<1>3. NetInv' /\ OneTracker' /\ PeersAreGenuine' /\ Asked'
  BY <1>1, NetStays DEF PeersAreGenuine, Asked, AnnounceToConnected
<1>4. TypeOK'
  BY <1>1, <1>2, ListStays DEF IInv, TypeOK, Places
<1>5. LoopInv'
  BY <1>1, <1>2, ListStays DEF IInv, TypeOK, LoopInv
<1> QED
  BY <1>3, <1>4, <1>5 DEF IInv

LEMMA CatchStep ==
  ASSUME IInv, Catch
  PROVE  IInv'
<1>1. /\ place = "Thrown" /\ place' = "Next" /\ i' = i + 1 /\ current \in faults
      /\ UNCHANGED <<tracker_url, peers, outcome, current, server_address, port,
                     transaction_id, connection_id, answer, net, faults>>
  BY DEF Catch, IInv, LoopInv
<1>2. i \in DOMAIN all_trackers /\ current = all_trackers[i] /\ outcome = "running"
  BY <1>1 DEF IInv, LoopInv, TypeOK
<1>3. NetInv' /\ OneTracker' /\ PeersAreGenuine' /\ Asked'
  BY <1>1, NetStays DEF IInv, PeersAreGenuine, Asked, AnnounceToConnected
<1>4. TypeOK'
  BY <1>1, <1>2, ListStays DEF IInv, TypeOK, Places
<1>5. LoopInv'
  BY <1>1, <1>2, ListStays DEF IInv, TypeOK, LoopInv
<1> QED
  BY <1>3, <1>4, <1>5 DEF IInv

LEMMA FinishStep ==
  ASSUME IInv, Finish
  PROVE  IInv'
<1>1. NetInv' /\ OneTracker' /\ Asked' /\ PeersAreGenuine'
  BY NetStays
     DEF Finish, IInv, udpVars, Asked, AnnounceToConnected, PeersAreGenuine
<1>2. TypeOK'
  BY ListStays DEF Finish, IInv, TypeOK, udpVars
<1>3. LoopInv'
  BY ListStays DEF Finish, IInv, LoopInv, MoreToTry, udpVars
<1> QED
  BY <1>1, <1>2, <1>3 DEF IInv

-----------------------------------------------------------------------------
\* The invariant is inductive: it holds in every reachable state.
THEOREM Invariance == Spec => []IInv
<1>1. Init => IInv
  BY InitIInv
<1>2. IInv /\ [Next]_vars => IInv'
  <2> SUFFICES ASSUME IInv, [Next]_vars PROVE IInv'
    OBVIOUS
  <2>1. CASE Client
    <3>1. CASE Exchange /\ UNCHANGED loopVars
      BY <3>1, SendStep, ReceiveStep, TimeoutStep DEF Exchange
    <3> QED
      BY <2>1, <3>1, SkipStep, TryStep, HttpStep, UpdatePeersStep, CatchStep, FinishStep
         DEF Client
  <2>2. CASE Network
    BY <2>2, RespondStep DEF Network
  <2>3. CASE UNCHANGED vars
    <3>1. NetInv' /\ OneTracker' /\ Asked' /\ PeersAreGenuine'
      BY <2>3, NetStays
         DEF vars, IInv, udpVars, loopVars, Asked, AnnounceToConnected, PeersAreGenuine
    <3>2. TypeOK' /\ LoopInv'
      BY <2>3, ListStays
         DEF vars, udpVars, loopVars, IInv, TypeOK, LoopInv, MoreToTry
    <3> QED
      BY <3>1, <3>2 DEF IInv
  <2> QED
    BY <2>1, <2>2, <2>3 DEF Next, Over
<1> QED
  BY <1>1, <1>2, PTL DEF Spec

\* Every variable keeps its type and the loop never counts past its list.
THEOREM TypeCorrect == Spec => []TypeOK
<1>1. IInv => TypeOK
  BY DEF IInv
<1> QED
  BY <1>1, Invariance, PTL

\* Late and repeated answers of other trackers never get into the result.
THEOREM Genuineness == Spec => []PeersAreGenuine
<1>1. IInv => PeersAreGenuine
  BY DEF IInv
<1> QED
  BY <1>1, Invariance, PTL

\* The announce goes to the tracker that gave the connection id, although recvfrom has
\* written over the address it is sent to.
THEOREM AnnounceGoesRight == Spec => []AnnounceToConnected
<1>1. IInv => AnnounceToConnected
  BY DEF IInv, Asked
<1> QED
  BY <1>1, Invariance, PTL

\* UpdatePeers throws only when every tracker that has peers was asked and its
\* exchange was spoiled.
THEOREM FailoverIsComplete == Spec => []ThrowsOnlyAfterAll
<1>1. IInv => ThrowsOnlyAfterAll
  <2> SUFFICES ASSUME IInv, outcome = "thrown", NEW k \in DOMAIN all_trackers
               PROVE  PeersOf[all_trackers[k]] = {} \/ all_trackers[k] \in faults
    BY DEF ThrowsOnlyAfterAll
  <2>1. i \in Nat /\ i \notin DOMAIN all_trackers /\ peers = {}
    BY DEF IInv, TypeOK, LoopInv, MoreToTry
  <2>2. PICK n \in Nat : DOMAIN all_trackers = 0 .. n
    BY ListIsTrackers DEF IInv, TypeOK
  <2>3. k \in 0 .. i - 1
    BY <2>1, <2>2
  <2> QED
    BY <2>1, <2>3 DEF IInv, LoopInv
<1> QED
  BY <1>1, Invariance, PTL
=============================================================================
