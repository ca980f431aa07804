----------------------------- MODULE PeerSession -----------------------------
(***************************************************************************)
(* The life of the connections, and of the program with them.              *)
(*                                                                         *)
(* tracker_com (client.rs, handle_tracker_com) starts one task for every   *)
(* address the trackers report.  The task connects, shakes hands, claims   *)
(* the peer's id, enters the peer in pr_map, updates the number of peers   *)
(* in the statistics, starts the request task of the peer and waits for    *)
(* one of the two to end.  Two more tasks serve the connection: rh reads   *)
(* messages and relays them to peer_com over a bounded channel, sh writes  *)
(* what others put in a bounded queue, the outbox here.  run() returns,    *)
(* and the process with it, when tracker_com, peer_com or the statistics   *)
(* task ends.                                                              *)
(*                                                                         *)
(* What a message says is left open: it is what peer_com waits for while   *)
(* it handles the message, with pr_map and the sender's PeerTracker in its *)
(* hand, that matters here.  A lock is in the model as far as its holder   *)
(* may wait for something else meanwhile; LockOrder has all of them, and   *)
(* the order of their waiters.                                             *)
(***************************************************************************)
EXTENDS Integers, Sequences

CONSTANTS
    Addrs,          \* socket addresses the trackers may report
    Ids,            \* peer ids
    IdsAt,          \* the ids that the peers at the addresses may have
    Capacity,       \* of the channel to peer_com, 40 in the code
    OutCapacity,    \* of the queue to sh, 40 in the code
    SlowReaders     \* peers that may keep a connection open and not read

ASSUME PeerSessionAssumption ==
    /\ IdsAt \subseteq [Addrs -> Ids]
    /\ Capacity \in Nat \ {0}
    /\ OutCapacity \in Nat \ {0}
    /\ SlowReaders \subseteq Addrs

VARIABLES
    id_of,       \* the id the peer at an address gives; does not change
    session,     \* where the task of each address is
    peer_ids,    \* ids that have been claimed (peers in handle_tracker_com)
    pr_map,      \* addresses with a PeerTracker
    reqh,        \* addresses whose request task is running
    requesting,  \* the request task that has the piece tracker, if one has
    rh,          \* the reading half of each connection
    sh,          \* the writing half
    outbox,      \* how many messages wait for sh
    remote,      \* addresses whose peers keep the connection open
    channel,     \* messages relayed to peer_com, oldest first
    serving,     \* the peer whose message it handles with pr_map in its hand
    awaits,      \* what it waits for meanwhile
    run          \* "running", or how run() has returned

taskVars == <<session, peer_ids, pr_map, reqh, requesting>>
outVars == <<sh, outbox>>
comVars == <<serving, awaits>>
fixed == <<id_of, run>>
vars == <<taskVars, outVars, rh, channel, comVars, remote, fixed>>

Stages ==
    {"unknown", "handshaking", "claiming", "claimed", "inserted", "counting", "listed", "ended"}

Init ==
    /\ id_of \in IdsAt
    /\ session  = [a \in Addrs |-> "unknown"]
    /\ peer_ids = {}
    /\ pr_map   = {}
    /\ reqh     = {}
    /\ requesting = {}
    /\ rh       = [a \in Addrs |-> "off"]
    /\ sh       = [a \in Addrs |-> "off"]
    /\ outbox   = [a \in Addrs |-> 0]
    /\ remote   = Addrs
    /\ channel  = <<>>
    /\ serving  = {}
    /\ awaits   = "nothing"
    /\ run      = "running"

MoveTo(a, stage) == session' = [session EXCEPT ![a] = stage]

-----------------------------------------------------------------------------
(* The task of an address *)

\* tracker_com receives a new address and starts its task.  A refused connection or
\* a timeout ends it.
Discover(a) ==
    /\ session[a] = "unknown"
    /\ \E stage \in {"handshaking", "ended"} : MoveTo(a, stage)
    /\ UNCHANGED <<peer_ids, pr_map, reqh, requesting, outVars, rh, channel, comVars,
                   remote, fixed>>

\* The tasks of the trackers end; what they have not reported stays unreported.
TrackersEnd ==
    /\ \E a \in Addrs : session[a] = "unknown"
    /\ session' = [a \in Addrs |-> IF session[a] = "unknown" THEN "ended" ELSE session[a]]
    /\ UNCHANGED <<peer_ids, pr_map, reqh, requesting, outVars, rh, channel, comVars, remote,
                   fixed>>

\* No timeout: the task waits for as long as the peer neither answers nor closes.
Handshake(a) ==
    /\ session[a] = "handshaking"
    /\ \/ /\ a \in remote
          /\ MoveTo(a, "claiming")
          /\ rh' = [rh EXCEPT ![a] = "reading"]
          /\ sh' = [sh EXCEPT ![a] = "writing"]
       \/ MoveTo(a, "ended") /\ UNCHANGED <<rh, sh>>
    /\ UNCHANGED <<peer_ids, pr_map, reqh, requesting, outbox, channel, comVars,
                   remote, fixed>>

HasRoom(a) == outbox[a] < OutCapacity

\* What is sent to an sh that has ended is lost.
Send(a) == outbox' = [outbox EXCEPT ![a] = IF sh[a] = "writing" THEN @ + 1 ELSE @]

\* Mutant: ids are collected but not looked up.
Taken_NotLookedUp(id) == FALSE

Taken(id) == id \in peer_ids

\* The first task with an id goes on and says that we are interested; the queue is
\* empty, and the peer may answer as soon as sh has written this.
ClaimId(a) ==
    /\ ~Taken(id_of[a])
    /\ HasRoom(a)
    /\ MoveTo(a, "claimed")
    /\ peer_ids' = peer_ids \cup {id_of[a]}
    /\ Send(a)
    /\ UNCHANGED sh

\* The second one returns.  Its msg_tx is dropped, so sh ends; the handle of rh is
\* dropped too, but that only detaches it.
TurnAway(a) ==
    /\ Taken(id_of[a])
    /\ MoveTo(a, "ended")
    /\ sh' = [sh EXCEPT ![a] = "ended"]
    /\ UNCHANGED <<peer_ids, outbox>>

Claim(a) ==
    /\ session[a] = "claiming"
    /\ ClaimId(a) \/ TurnAway(a)
    /\ UNCHANGED <<pr_map, reqh, requesting, rh, channel, comVars, remote, fixed>>

\* The PeerTracker is inserted, with its own msg_tx, when peer_com does not have
\* the map.
Insert(a) ==
    /\ session[a] = "claimed"
    /\ serving = {}
    /\ MoveTo(a, "inserted")
    /\ pr_map' = pr_map \cup {a}
    /\ UNCHANGED <<peer_ids, reqh, requesting, outVars, rh, channel, comVars, remote,
                   fixed>>

\* Nobody has the statistics: no task that counts the peers, and peer_com does not
\* work the availability out.
StatsFree == awaits # "availability" /\ \A b \in Addrs : session[b] # "counting"

\* The statistics are locked before the map is asked for the number of peers ...
CountPeers(a) ==
    /\ session[a] = "inserted"
    /\ StatsFree
    /\ MoveTo(a, "counting")
    /\ UNCHANGED <<peer_ids, pr_map, reqh, requesting, outVars, rh, channel, comVars,
                   remote, fixed>>

\* ... which has to wait while peer_com has the map.  Then the request task starts.
List(a) ==
    /\ session[a] = "counting"
    /\ serving = {}
    /\ MoveTo(a, "listed")
    /\ reqh' = reqh \cup {a}
    /\ UNCHANGED <<peer_ids, pr_map, requesting, outVars, rh, channel, comVars, remote,
                   fixed>>

\* Mutant: the task waits for both halves of the connection.
ConnectionOver_Both(a) == rh[a] = "ended" /\ sh[a] = "ended"

ConnectionOver(a) == rh[a] = "ended" \/ sh[a] = "ended"

\* Mutant: the entry of a peer that has gone is removed.
MapWithout_Removed(a) == pr_map \ {a}

\* The entry of a peer that has gone stays, and with it the msg_tx that keeps
\* sh alive.
MapWithout(a) == pr_map

\* The connection is over, or the request task has panicked.
End(a) ==
    /\ session[a] = "listed"
    /\ ConnectionOver(a) \/ a \notin reqh
    /\ MoveTo(a, "ended")
    /\ pr_map' = MapWithout(a)
    /\ UNCHANGED <<peer_ids, reqh, requesting, outVars, rh, channel, comVars, remote,
                   fixed>>

-----------------------------------------------------------------------------
(* The request task, which outlives the task that started it *)

\* It locks the piece tracker, to look for a piece the peer has ...
LockPieces(a) ==
    /\ a \in reqh
    /\ requesting = {}
    /\ requesting' = {a}
    /\ UNCHANGED <<session, peer_ids, pr_map, reqh, outVars, rh, channel, comVars,
                   remote, fixed>>

\* ... and needs the PeerTracker for that before it unlocks it.
UnlockPieces(a) ==
    /\ a \in requesting
    /\ a \notin serving
    /\ requesting' = {}
    /\ UNCHANGED <<session, peer_ids, pr_map, reqh, outVars, rh, channel, comVars,
                   remote, fixed>>

\* A Request is queued.
Ask(a) ==
    /\ a \in reqh \ requesting
    /\ HasRoom(a)
    /\ Send(a)
    /\ UNCHANGED <<taskVars, sh, rh, channel, comVars, remote, fixed>>

\* The timeout of a request underflows, in a debug build: see Download.
RequestTaskPanics(a) ==
    /\ a \in reqh \ requesting
    /\ reqh' = reqh \ {a}
    /\ UNCHANGED <<session, peer_ids, pr_map, requesting, outVars, rh, channel, comVars,
                   remote, fixed>>

-----------------------------------------------------------------------------
(* The connection *)

\* Mutant: a write that fails is tried again.
Writable_Retried(a) == a \in remote

\* A failed write is as good as another: the peer may have gone.  The message sh
\* is writing counts as one of the outbox.
Writable(a) == TRUE

Write(a) ==
    /\ sh[a] = "writing"
    /\ outbox[a] > 0
    /\ Writable(a)
    /\ outbox' = [outbox EXCEPT ![a] = @ - 1]
    /\ UNCHANGED <<taskVars, sh, rh, channel, comVars, remote, fixed>>

\* Mutant: an unbounded channel.
MayRelay_Unbounded(a) == rh[a] = "reading"

\* A peer may speak as soon as the handshake is over.  rh waits while the channel is
\* full.
MayRelay(a) == rh[a] = "reading" /\ Len(channel) < Capacity

\* Whether the sender is known when its message is relayed is history: nobody
\* looks at it.
Relay(a) ==
    /\ MayRelay(a)
    /\ channel' = Append(channel, [from |-> a, known |-> a \in pr_map])
    /\ UNCHANGED <<taskVars, outVars, rh, comVars, remote, fixed>>

RemoteCloses(a) ==
    /\ a \in remote
    /\ remote' = remote \ {a}
    /\ UNCHANGED <<taskVars, outVars, rh, channel, comVars, fixed>>

\* End of the stream, an error, or a message deserialize panics on.
ReaderEnds(a) ==
    /\ rh[a] = "reading"
    /\ rh' = [rh EXCEPT ![a] = "ended"]
    /\ UNCHANGED <<taskVars, outVars, channel, comVars, remote, fixed>>

-----------------------------------------------------------------------------
(* peer_com *)

\* What a message is shows when it is handled.
Receives == serving = {} /\ channel # <<>>

\* A block that completes no piece: peer_com waits for the piece tracker with nothing
\* in its hand, and asks for no PeerTracker.
HandleBlock ==
    /\ Receives
    /\ requesting = {}
    /\ channel' = Tail(channel)
    /\ UNCHANGED <<taskVars, outVars, rh, comVars, remote, fixed>>

\* What peer_com may have to wait for next, with the map and the sender's PeerTracker
\* in its hand.  For most messages nothing; for an Unchoke that makes pieces needed the
\* piece tracker; for a Have or a Bitfield the piece tracker if the peer lets us ask,
\* the statistics and, with them, the availability that the piece tracker knows, and
\* for a Bitfield the geometry of the torrent, from the piece tracker again; for a
\* Request the geometry and then room in the outbox.
WaitsAfter(got) ==
    CASE got = "message" -> {"nothing", "pieces", "stats", "geometry"}
      [] got = "pieces" -> {"nothing", "stats"}
      [] got = "stats" -> {"availability"}
      [] got = "availability" -> {"nothing", "geometry"}
      [] got = "geometry" -> {"nothing", "room"}
      [] got = "room" -> {"nothing"}

Finds(m) == m.from \in pr_map

HandleMessage ==
    LET m == Head(channel) IN
    /\ Receives
    /\ Finds(m)
    /\ channel' = Tail(channel)
    /\ awaits' \in WaitsAfter("message")
    /\ serving' = IF awaits' = "nothing" THEN {} ELSE {m.from}
    /\ UNCHANGED <<taskVars, outVars, rh, remote, fixed>>

\* The last thing peer_com waits for frees the map.
GoOn ==
    /\ awaits' \in WaitsAfter(awaits)
    /\ serving' = IF awaits' = "nothing" THEN {} ELSE serving

\* The piece tracker, which knows all three.
NeedsPieces == awaits \in {"pieces", "availability", "geometry"}

GetPieces ==
    /\ NeedsPieces
    /\ requesting = {}
    /\ GoOn
    /\ UNCHANGED <<taskVars, outVars, rh, channel, remote, fixed>>

GetStats ==
    /\ awaits = "stats"
    /\ StatsFree
    /\ GoOn
    /\ UNCHANGED <<taskVars, outVars, rh, channel, remote, fixed>>

SendAnswer(a) ==
    /\ awaits = "room"
    /\ a \in serving
    /\ HasRoom(a)
    /\ Send(a)
    /\ GoOn
    /\ UNCHANGED <<taskVars, sh, rh, channel, remote, fixed>>

-----------------------------------------------------------------------------
(* run() *)

\* It returns when one of its tasks ends, and the process with it: nothing is left
\* of the tasks.
Return(how) ==
    /\ run' = how
    /\ session' = [a \in Addrs |-> "ended"]
    /\ peer_ids' = {} /\ pr_map' = {} /\ reqh' = {} /\ requesting' = {}
    /\ rh' = [a \in Addrs |-> "off"]
    /\ sh' = [a \in Addrs |-> "off"]
    /\ outbox' = [a \in Addrs |-> 0]
    /\ channel' = <<>> /\ serving' = {} /\ awaits' = "nothing"
    /\ UNCHANGED <<id_of, remote>>

\* The channel of addresses is closed and join_all has every task.
TrackerComReturns ==
    /\ \A a \in Addrs : session[a] = "ended"
    /\ Return("over")

\* unwrap() on a sender that is not in the map.
PeerComLost ==
    /\ Receives
    /\ ~Finds(Head(channel))
    /\ Return("lost")

\* A handler may panic otherwise: a count overflows in a debug build (Download), an
\* index is not one of the torrent's (PeerWire).
PeerComPanics ==
    /\ Receives
    /\ Finds(Head(channel))
    /\ Return("panicked")

\* print() has the statistics and panics: its assertion, the clock, the terminal.
StatsPanic == StatsFree /\ Return("panicked")

Task(a) ==
    \/ Discover(a) \/ Handshake(a) \/ Claim(a) \/ Insert(a) \/ CountPeers(a) \/ List(a)
    \/ End(a)

RequestTask(a) == LockPieces(a) \/ UnlockPieces(a) \/ Ask(a) \/ RequestTaskPanics(a)

Link(a) ==
    Write(a) \/ RemoteCloses(a) \/ ReaderEnds(a) \/ Relay(a)

PeerCom ==
    \/ HandleBlock \/ HandleMessage \/ GetPieces \/ GetStats
    \/ \E a \in Addrs : SendAnswer(a)

RunReturns == TrackerComReturns \/ PeerComLost \/ PeerComPanics \/ StatsPanic

Next ==
    /\ run = "running"
    /\ \/ \E a \in Addrs : Task(a) \/ RequestTask(a) \/ Link(a)
       \/ TrackersEnd
       \/ PeerCom
       \/ RunReturns

Spec == Init /\ [][Next]_vars

\* The tasks go on when they can.  A handshake only ends for sure when the peer
\* closes, and so does a connection; sh writes when the peer reads or has closed.
\* The search for peers ends as in Trackers: UDP entries time out, HTTP servers
\* answer or close.  SF: waiters for a lock and for room in a queue are served in
\* their order, so others may go first, but not for ever.  It promises nothing to
\* tasks that wait for each other: neither gets what it waits for even once.
GoesOn(a) ==
    \/ a \notin remote /\ Handshake(a)
    \/ Claim(a) \/ Insert(a) \/ CountPeers(a) \/ List(a) \/ End(a)

Fairness ==
    /\ WF_vars(TrackersEnd \/ TrackerComReturns)
    /\ SF_vars(PeerCom \/ PeerComLost)
    /\ \A a \in Addrs :
        /\ SF_vars(GoesOn(a))
        /\ SF_vars(UnlockPieces(a))
        /\ WF_vars(a \notin SlowReaders \cap remote /\ Write(a))
        /\ WF_vars(a \notin remote /\ ReaderEnds(a))

FairSpec == Spec /\ Fairness

-----------------------------------------------------------------------------
(* Properties *)

Messages == [from : Addrs, known : BOOLEAN]

TypeOK ==
    /\ id_of \in [Addrs -> Ids]
    /\ session \in [Addrs -> Stages]
    /\ peer_ids \subseteq Ids
    /\ pr_map \subseteq Addrs
    /\ reqh \subseteq Addrs
    /\ requesting = {} \/ \E a \in Addrs : requesting = {a}
    /\ rh \in [Addrs -> {"off", "reading", "ended"}]
    /\ sh \in [Addrs -> {"off", "writing", "ended"}]
    /\ outbox \in [Addrs -> 0 .. OutCapacity]
    /\ remote \subseteq Addrs
    /\ channel \in Seq(Messages)
    /\ Len(channel) <= Capacity
    /\ awaits \in {"nothing", "pieces", "stats", "availability", "geometry", "room"}
    /\ IF awaits = "nothing" THEN serving = {} ELSE \E a \in Addrs : serving = {a}
    /\ run \in {"running", "over", "lost", "panicked"}

\* Two connections to one peer, over addresses that different trackers report
\* at the same time, never both get into the map.
OneSessionPerId == \A a, b \in pr_map : id_of[a] = id_of[b] => a = b

\* The unwrap that looks a sender up fails only on a message that was relayed before
\* its sender was entered in the map: messages that are still queued when their
\* connection ends, and those of a reader that outlives its task, find the tracker.
LostBeforeEntry == [][run' = "lost" => ~Head(channel).known]_vars

\* peer_com finds the tracker of whoever sent the message it takes.
SendersFound == run # "lost"

\* peer_com has the tracker of a peer and awaits the piece tracker, which the
\* request task of that peer has while it awaits the tracker of the peer.
AgainstRequests ==
    NeedsPieces /\ serving \cap requesting # {}

\* peer_com has the map and awaits the statistics, which a task that counts the
\* peers has while it awaits the map.
AgainstListing ==
    awaits = "stats" /\ \E a \in Addrs : session[a] = "counting"

\* The circles of LockOrder: peer_com goes on no more.
Circle == AgainstRequests \/ AgainstListing

\* peer_com waits for room in the outbox of a peer that does not read.
HeldForReader == awaits = "room" /\ serving \cap SlowReaders \cap remote # {}

\* A peer whose id is its own gets into the map, unless the program ends before, or
\* peer_com has the map and waits for a peer that does not read or in a circle.  That
\* a peer has closed its connection keeps nobody waiting.
EntersUnlessHeld ==
    \A a \in Addrs :
        session[a] = "claimed" ~>
            a \in pr_map \/ run # "running" \/ HeldForReader \/ Circle

\* Once every peer has closed its connection the program ends, although the map
\* keeps each sh alive, unless a circle of waiting tasks has closed.
RunEnds == remote = {} ~> run # "running" \/ Circle

=============================================================================
