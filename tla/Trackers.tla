------------------------------ MODULE Trackers ------------------------------
(***************************************************************************)
(* How addresses of peers are found (tracker_protocol/mod.rs and udp.rs).  *)
(*                                                                         *)
(* tch starts one task for every entry of the announce list.  The entries  *)
(* of UDP trackers share one socket: udp_rh reads it and hands a datagram  *)
(* to the entry that tracker_map has for its sender.  Such an entry sends  *)
(* a connect and then an announce, each with a transaction id of its own,  *)
(* and takes the next datagram it is handed, or none within five seconds,  *)
(* for the answer: there is no retry.  An entry that has peers puts the    *)
(* new ones into peers_map and sends them to tracker_com while it holds    *)
(* the lock of peers_map.  Until it is done datagrams queue up for it, and *)
(* hold udp_rh up once its channel is full.                                *)
(*                                                                         *)
(* Datagrams may be lost, duplicated, reordered and late.  A transaction   *)
(* id, drawn at random from 2^32, is taken to be unique: it is the entry   *)
(* that drew it together with the action.                                  *)
(***************************************************************************)
EXTENDS Integers, Sequences

Seqs == INSTANCE SequencesExt
Sets == INSTANCE FiniteSetsExt

CONSTANTS
    AnnounceList,    \* sequence of [protocol, addr], addr being the tracker's
    Peers,           \* addresses of peers
    PeersAt,         \* the peers the tracker at an address lists, in its order
    NoEntry,         \* no entry of the list
    Capacity,        \* of a channel, 40 in the code
    MaxPeers,        \* in the part of a datagram that is read, 82 in the code
    Reliable,        \* entries whose datagrams arrive, once and in time
    Refusing         \* tracker addresses that may answer with an error

Entries == DOMAIN AnnounceList

AddrOf(t) == AnnounceList[t].addr

Udp == {t \in Entries : AnnounceList[t].protocol = "udp"}

Http == Entries \ Udp

ASSUME TrackersAssumption ==
    /\ AnnounceList \in Seq([protocol : {"udp", "http"}, addr : DOMAIN PeersAt])
    /\ \A a \in DOMAIN PeersAt : PeersAt[a] \in Seq(Peers)
    /\ NoEntry \notin Entries
    /\ Capacity \in Nat \ {0}
    /\ MaxPeers \in Nat \ {0}
    /\ Reliable \subseteq Udp
    /\ Refusing \subseteq DOMAIN PeersAt \ {AddrOf(t) : t \in Reliable}

VARIABLES
    task,         \* where the task of each entry is
    cid,          \* the entry whose connect the connection id answers
    rx,           \* datagrams handed to an entry and not yet taken
    todo,         \* peers an entry has still to look at, in their order
    net,          \* requests on their way to trackers
    answers,      \* answers on their way to the socket
    udp_rh,       \* the task that reads the socket
    in_hand,      \* the datagram it has read and not yet handed over
    tch,          \* the task that waits for the entries
    peers_map,    \* peers some entry has reported
    holder,       \* the entry that holds the lock of peers_map
    sending,      \* the peer it is about to send
    channel,      \* to tracker_com
    found         \* peers tracker_com has received, oldest first

taskVars == <<task, cid, rx, todo>>
netVars == <<net, answers, udp_rh, in_hand>>
reportVars == <<peers_map, holder, sending, channel, found>>
vars == <<taskVars, netVars, tch, reportVars>>

Init ==
    /\ task = [t \in Entries |-> "starting"]
    /\ cid = [t \in Entries |-> NoEntry]
    /\ rx = [t \in Entries |-> <<>>]
    /\ todo = [t \in Entries |-> <<>>]
    /\ net = {}
    /\ answers = {}
    /\ udp_rh = "running"
    /\ in_hand = {}
    /\ tch = "running"
    /\ peers_map = {}
    /\ holder = NoEntry
    /\ sending = {}
    /\ channel = <<>>
    /\ found = <<>>

\* Mutant: channels without bounds.
HasRoom_Always(queue) == TRUE

HasRoom(queue) == Len(queue) < Capacity

-----------------------------------------------------------------------------
(* An entry of a UDP tracker *)

MoveTo(t, stage) == task' = [task EXCEPT ![t] = stage]

Waits(t) == t \in Udp /\ task[t] \in {"connect", "announce"}

\* A request carries the connection id, and the transaction id of its entry.
Request(t, action) == [tid |-> t, action |-> action, cid |-> cid'[t]]

\* The first request, unless it cannot be sent.
Connect(t) ==
    /\ t \in Udp
    /\ task[t] = "starting"
    /\ UNCHANGED <<cid, rx, todo, answers, udp_rh, in_hand, tch, reportVars>>
    /\ \/ MoveTo(t, "connect") /\ net' = net \cup {Request(t, "connect")}
       \/ t \notin Reliable /\ MoveTo(t, "ended") /\ UNCHANGED net

\* Mutant: the transaction id of an answer is not compared.
Matches_AnyTid(t, m) == m.action = task[t]

\* Mutant: the action of an answer is compared with the first request's.
Matches_Connect(t, m) == m.action = "connect" /\ m.tid = t

\* expect_eq of the action and of the transaction id.
Matches(t, m) == m.action = task[t] /\ m.tid = t

\* A datagram that does not match ends the entry, and drops its receiver.
Receive(t) ==
    LET m == Head(rx[t]) IN
    /\ Waits(t)
    /\ rx[t] # <<>>
    /\ IF ~Matches(t, m)
       THEN /\ MoveTo(t, "ended")
            /\ rx' = [rx EXCEPT ![t] = <<>>]
            /\ UNCHANGED <<cid, todo, net>>
       ELSE /\ rx' = [rx EXCEPT ![t] = Tail(@)]
            /\ IF task[t] = "connect"
               THEN /\ cid' = [cid EXCEPT ![t] = m.issued_to]
                    /\ MoveTo(t, "announce")
                    /\ net' = net \cup {Request(t, "announce")}
                    /\ UNCHANGED todo
               ELSE /\ MoveTo(t, "reporting")
                    /\ todo' = [todo EXCEPT ![t] = m.peers]
                    /\ UNCHANGED <<cid, net>>
    /\ UNCHANGED <<answers, udp_rh, in_hand, tch, reportVars>>

\* tracker_map: the last entry for an address replaces the others.
Owner(a) == Sets!Max({t \in Udp : AddrOf(t) = a})

\* An entry that was replaced has no sender, and nobody has when udp_rh ends.
Disconnected(t) == Owner(AddrOf(t)) # t \/ udp_rh = "ended"

ReceiveNone(t) ==
    /\ Waits(t)
    /\ rx[t] = <<>>
    /\ Disconnected(t)
    /\ MoveTo(t, "ended")
    /\ UNCHANGED <<cid, rx, todo, netVars, tch, reportVars>>

\* Mutant: the answer is awaited for as long as it takes.
MayTimeOut_Never(t) == FALSE

\* udp_rh waits for an entry that is busy with its peers, and t for udp_rh.
HeldUp(t) ==
    Waits(t) /\ \E m \in in_hand :
        task[Owner(m.from)] = "reporting" /\ ~HasRoom(rx[Owner(m.from)])

\* The timeout of a reliable entry is longer than its answer takes to the socket, but
\* udp_rh may be held up for longer.
MayTimeOut(t) == t \notin Reliable \/ udp_rh = "ended" \/ HeldUp(t)

TimeOut(t) ==
    /\ Waits(t)
    /\ rx[t] = <<>>
    /\ MayTimeOut(t)
    /\ MoveTo(t, "ended")
    /\ UNCHANGED <<cid, rx, todo, netVars, tch, reportVars>>

-----------------------------------------------------------------------------
(* The network and udp_rh *)

\* The action in a tracker's answer; an error matches no request.
Replies(r) == {r.action} \cup (IF AddrOf(r.tid) \in Refusing THEN {"error"} ELSE {})

\* A tracker issues a connection id in answer to a connect, and answers an announce
\* with all the peers it knows of: we ask for no smaller number.
Answer(r, action) ==
    [from      |-> AddrOf(r.tid),
     tid       |-> r.tid,
     issued_to |-> IF action = "connect" THEN r.tid ELSE NoEntry,
     peers     |-> IF action = "announce" THEN PeersAt[AddrOf(r.tid)] ELSE <<>>,
     action    |-> action]

TrackerAnswers(r) ==
    /\ r \in net
    /\ \E action \in Replies(r) : answers' = answers \cup {Answer(r, action)}
    /\ net' = net \ {r}
    /\ UNCHANGED <<taskVars, udp_rh, in_hand, tch, reportVars>>

LoseRequest(r) ==
    /\ r \in net
    /\ r.tid \notin Reliable
    /\ net' = net \ {r}
    /\ UNCHANGED <<taskVars, answers, udp_rh, in_hand, tch, reportVars>>

\* What is left of the peers in an answer longer than the buffer of udp_rh.
Cut(peers) == IF Len(peers) <= MaxPeers THEN peers ELSE SubSeq(peers, 1, MaxPeers)

\* An answer that may arrive again stays on its way.
ReadSocket(m) ==
    /\ udp_rh = "running"
    /\ in_hand = {}
    /\ m \in answers
    /\ in_hand' = {[m EXCEPT !.peers = Cut(m.peers)]}
    /\ \/ answers' = answers \ {m}
       \/ m.tid \notin Reliable /\ UNCHANGED answers
    /\ UNCHANGED <<taskVars, net, udp_rh, tch, reportVars>>

\* udp_rh hands the answer to the entry its sender's address has in the map, and
\* waits while the entry's channel is full.  The entry has the receiver until its task
\* ends, also while it is busy with its peers and takes nothing; a receiver that has
\* gone gets nothing.
Dispatch(m) ==
    LET t == Owner(m.from) IN
    /\ udp_rh = "running"
    /\ in_hand = {m}
    /\ IF task[t] = "ended"
       THEN UNCHANGED rx
       ELSE /\ HasRoom(rx[t])
            /\ rx' = [rx EXCEPT ![t] = Append(@, m)]
    /\ in_hand' = {}
    /\ UNCHANGED <<task, cid, todo, net, answers, udp_rh, tch, reportVars>>

LoseAnswer(m) ==
    /\ m \in answers
    /\ m.tid \notin Reliable
    /\ answers' = answers \ {m}
    /\ UNCHANGED <<taskVars, net, udp_rh, in_hand, tch, reportVars>>

\* An error other than WouldBlock.  What is on its way nobody reads any more.
SocketFails ==
    /\ udp_rh = "running"
    /\ in_hand = {}
    /\ udp_rh' = "ended"
    /\ net' = {}
    /\ answers' = {}
    /\ UNCHANGED <<taskVars, in_hand, tch, reportVars>>

-----------------------------------------------------------------------------
(* An entry of an HTTP tracker: one request, and no timeout *)

HttpAnnounce(t) ==
    /\ t \in Http
    /\ task[t] = "starting"
    /\ \/ /\ MoveTo(t, "reporting")
          /\ todo' = [todo EXCEPT ![t] = PeersAt[AddrOf(t)]]
       \/ MoveTo(t, "ended") /\ UNCHANGED todo
    /\ UNCHANGED <<cid, rx, netVars, tch, reportVars>>

-----------------------------------------------------------------------------
(* Reporting peers *)

\* Mutant: peers_map is not consulted.
Known_Ignored(a) == FALSE

Known(a) == a \in peers_map

\* The lock is taken; a known peer is skipped and the lock released.
Claim(t) ==
    LET a == Head(todo[t]) IN
    /\ task[t] = "reporting"
    /\ holder = NoEntry
    /\ todo[t] # <<>>
    /\ todo' = [todo EXCEPT ![t] = Tail(@)]
    /\ IF Known(a)
       THEN UNCHANGED <<peers_map, holder, sending>>
       ELSE /\ peers_map' = peers_map \cup {a}
            /\ holder' = t
            /\ sending' = {a}
    /\ UNCHANGED <<task, cid, rx, netVars, tch, channel, found>>

Send(t) ==
    /\ holder = t
    /\ HasRoom(channel)
    /\ \E a \in sending : channel' = Append(channel, a)
    /\ holder' = NoEntry
    /\ sending' = {}
    /\ UNCHANGED <<taskVars, netVars, tch, peers_map, found>>

EntryEnds(t) ==
    /\ task[t] = "reporting"
    /\ todo[t] = <<>>
    /\ holder # t
    /\ MoveTo(t, "ended")
    /\ rx' = [rx EXCEPT ![t] = <<>>]
    /\ UNCHANGED <<cid, todo, netVars, tch, reportVars>>

TrackerComReceives ==
    /\ channel # <<>>
    /\ found' = Append(found, Head(channel))
    /\ channel' = Tail(channel)
    /\ UNCHANGED <<taskVars, netVars, tch, peers_map, holder, sending>>

\* join_all of the HTTP entries, then of the UDP entries or udp_rh.
TchEnds ==
    /\ tch = "running"
    /\ \A t \in Http : task[t] = "ended"
    /\ udp_rh = "ended" \/ \A t \in Udp : task[t] = "ended"
    /\ tch' = "ended"
    /\ UNCHANGED <<taskVars, netVars, reportVars>>

Entry(t) ==
    \/ Connect(t) \/ Receive(t) \/ ReceiveNone(t) \/ TimeOut(t)
    \/ HttpAnnounce(t)
    \/ Claim(t) \/ Send(t) \/ EntryEnds(t)

Next ==
    \/ \E t \in Entries : Entry(t)
    \/ \E r \in net : TrackerAnswers(r) \/ LoseRequest(r)
    \/ \E m \in answers : ReadSocket(m) \/ LoseAnswer(m)
    \/ \E m \in in_hand : Dispatch(m)
    \/ SocketFails
    \/ TrackerComReceives
    \/ TchEnds

Spec == Init /\ [][Next]_vars

-----------------------------------------------------------------------------
(* Properties *)

Stages == {"starting", "connect", "announce", "reporting", "ended"}

Datagrams ==
    [from : DOMAIN PeersAt, tid : Udp, issued_to : Udp \cup {NoEntry},
     peers : Seq(Peers), action : {"connect", "announce", "error"}]

\* The lock is held exactly while a peer is about to be sent, and no channel
\* holds more than it can.
TypeOK ==
    /\ task \in [Entries -> Stages]
    /\ cid \in [Entries -> Udp \cup {NoEntry}]
    /\ \A t \in Entries : rx[t] \in Seq(Datagrams) /\ Len(rx[t]) <= Capacity
    /\ todo \in [Entries -> Seq(Peers)]
    /\ net \subseteq [tid : Udp, action : {"connect", "announce"}, cid : Udp \cup {NoEntry}]
    /\ answers \subseteq Datagrams
    /\ in_hand \subseteq Datagrams /\ \A m, n \in in_hand : m = n
    /\ udp_rh \in {"running", "ended"} /\ tch \in {"running", "ended"}
    /\ peers_map \subseteq Peers
    /\ IF holder = NoEntry THEN sending = {}
       ELSE task[holder] = "reporting" /\ \E a \in peers_map : sending = {a}
    /\ channel \in Seq(Peers) /\ Len(channel) <= Capacity
    /\ found \in Seq(Peers)

\* However many trackers report a peer, and at whatever time, tracker_com starts
\* one task for its address.
ReportedOnce ==
    LET sent == found \o channel IN Seqs!IsInjective(sent) /\ sending \cap Seqs!ToSet(sent) = {}

\* A connection id is only used by the entry it was issued to, although answers
\* to two entries with the same address are handed to one of them, late answers
\* to its connect are handed to an entry that announces, and so on.
ConnectionIdsOwn == \A t \in Udp : cid[t] \in {t, NoEntry} /\ (task[t] = "announce" => cid[t] = t)

\* Tasks go on when they can, and the timer and the network of reliable entries
\* do what they must; their answers wait their turn at the socket (SF).  A task
\* takes finitely many steps, so fairness to all of them together is fairness to
\* each.  An HTTP server answers or closes the connection: nothing in the code
\* ends the wait for it.
Fairness ==
    /\ WF_vars((\E t \in Entries : Entry(t)) \/ TrackerComReceives \/ TchEnds)
    /\ WF_vars(\E r \in net : r.tid \in Reliable /\ TrackerAnswers(r))
    /\ \A t \in Reliable : SF_vars(\E m \in answers : m.tid = t /\ ReadSocket(m))
    /\ WF_vars(\E m \in in_hand : Dispatch(m))

FairSpec == Spec /\ Fairness

\* The search for peers ends, whatever the network does, and closes the channel
\* of tracker_com.
SearchEnds == <>[](tch = "ended" /\ \A t \in Entries : task[t] = "ended")

\* A reliable tracker that is listed once contributes its peers, or those that fit
\* into the buffer, unless the socket fails or an entry that is busy with its peers
\* holds udp_rh up while an answer is awaited.
ReliableServed ==
    \A t \in Reliable :
        (\A u \in Udp \ {t} : AddrOf(u) # AddrOf(t))
            => <>(\/ Seqs!ToSet(Cut(PeersAt[AddrOf(t)])) \subseteq Seqs!ToSet(found)
                 \/ udp_rh = "ended"
                 \/ HeldUp(t))

=============================================================================
