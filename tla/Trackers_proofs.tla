--------------------------- MODULE Trackers_proofs ---------------------------
(***************************************************************************)
(* Proofs about Trackers, for any announce list, any trackers and any      *)
(* network.                                                                *)
(***************************************************************************)
EXTENDS Trackers, SequenceTheorems, TLAPS

-----------------------------------------------------------------------------
(* Datagrams and connection ids *)

Requests == [tid : Udp, action : {"connect", "announce"}, cid : Udp \cup {NoEntry}]

\* Datagrams that bring a connection id to the entry that asked for it only.
Own == {m \in Datagrams : m.action = "connect" => m.issued_to = m.tid}

NetInv ==
    /\ task \in [Entries -> Stages]
    /\ cid \in [Entries -> Udp \cup {NoEntry}]
    /\ rx \in [Entries -> Seq(Own)]
    /\ \A t \in Entries : Len(rx[t]) <= Capacity
    /\ todo \in [Entries -> Seq(Peers)]
    /\ net \subseteq Requests
    /\ answers \subseteq Own
    /\ in_hand = {} \/ \E m \in Own : in_hand = {m}
    /\ udp_rh \in {"running", "ended"} /\ tch \in {"running", "ended"}
    /\ ConnectionIdsOwn

LEMMA PeersOfEntry ==
    ASSUME NEW t \in Entries
    PROVE  AddrOf(t) \in DOMAIN PeersAt /\ PeersAt[AddrOf(t)] \in Seq(Peers)
<1>1. AnnounceList[t] \in [protocol : {"udp", "http"}, addr : DOMAIN PeersAt]
  <2> DEFINE E == [protocol : {"udp", "http"}, addr : DOMAIN PeersAt]
  <2>1. AnnounceList \in Seq(E)
    BY TrackersAssumption
  <2> HIDE DEF E
  <2>2. t \in 1 .. Len(AnnounceList)
    BY <2>1, LenProperties DEF Entries
  <2>3. AnnounceList[t] \in E
    BY <2>1, <2>2, ElementOfSeq
  <2>4. QED
    BY <2>3 DEF E
<1>2. AddrOf(t) \in DOMAIN PeersAt
  BY <1>1 DEF AddrOf
<1>3. QED
  BY <1>2, TrackersAssumption

LEMMA InitNet == ASSUME Init PROVE NetInv
<1>1. /\ rx \in [Entries -> Seq(Own)] /\ \A t \in Entries : Len(rx[t]) <= Capacity
      /\ todo \in [Entries -> Seq(Peers)]
  BY EmptySeq, TrackersAssumption DEF Init
<1>2. QED
  BY <1>1 DEF Init, NetInv, Stages, ConnectionIdsOwn, Udp

\* A task that goes anywhere but to "announce" keeps NetInv.
LEMMA MovesKeepNet ==
    ASSUME NetInv, NEW t \in Entries, NEW stage \in Stages \ {"announce"}, MoveTo(t, stage),
           todo' \in [Entries -> Seq(Peers)],
           net' \subseteq Requests,
           rx' \in [Entries -> Seq(Own)],
           \A u \in Entries : Len(rx'[u]) <= Capacity,
           UNCHANGED <<cid, answers, udp_rh, in_hand, tch>>
    PROVE  NetInv'
<1>1. task' = [task EXCEPT ![t] = stage] /\ task' \in [Entries -> Stages]
  BY DEF MoveTo, NetInv
<1>2. ConnectionIdsOwn'
  BY <1>1 DEF ConnectionIdsOwn, NetInv, Udp
<1>3. QED
  BY <1>1, <1>2 DEF NetInv

LEMMA ConnectNet == ASSUME NetInv, NEW t \in Entries, Connect(t) PROVE NetInv'
<1>1. CASE MoveTo(t, "connect") /\ net' = net \cup {Request(t, "connect")}
  <2>1. cid'[t] \in Udp \cup {NoEntry} /\ t \in Udp
    BY DEF Connect, NetInv
  <2>2. Request(t, "connect") \in Requests
    BY <2>1 DEF Request, Requests
  <2>3. QED
    BY <1>1, <2>2, MovesKeepNet DEF Connect, NetInv, Stages
<1>2. CASE MoveTo(t, "ended") /\ UNCHANGED net
  BY <1>2, MovesKeepNet DEF Connect, NetInv, Stages
<1>3. QED
  BY <1>1, <1>2 DEF Connect

LEMMA DropsOwn ==
    ASSUME NetInv, NEW t \in Entries, rx' = [rx EXCEPT ![t] = <<>>]
    PROVE  rx' \in [Entries -> Seq(Own)] /\ \A u \in Entries : Len(rx'[u]) <= Capacity
<1>1. <<>> \in Seq(Own) /\ Len(<<>>) = 0 /\ 0 <= Capacity
  BY EmptySeq, TrackersAssumption
<1>2. QED
  BY <1>1 DEF NetInv

\* What an entry does with the next datagram, what taking it leaves, and what
\* dropping the receiver does.
LEMMA TakesOwn ==
    ASSUME NetInv, NEW t \in Entries, rx[t] # <<>>,
           \/ rx' = [rx EXCEPT ![t] = Tail(@)]
           \/ rx' = [rx EXCEPT ![t] = <<>>]
    PROVE  /\ Head(rx[t]) \in Own
           /\ rx' \in [Entries -> Seq(Own)]
           /\ \A u \in Entries : Len(rx'[u]) <= Capacity
<1>1. rx[t] \in Seq(Own) /\ rx[t] # <<>> /\ Len(rx[t]) <= Capacity
  BY DEF NetInv
<1>2. /\ Head(rx[t]) \in Own /\ Tail(rx[t]) \in Seq(Own)
      /\ Len(Tail(rx[t])) = Len(rx[t]) - 1 /\ Len(rx[t]) \in Nat
  BY <1>1, HeadTailProperties, LenProperties
<1>3. Len(Tail(rx[t])) <= Capacity
  BY <1>1, <1>2, TrackersAssumption
<1>4. CASE rx' = [rx EXCEPT ![t] = Tail(rx[t])]
  BY <1>2, <1>3, <1>4 DEF NetInv
<1>5. CASE rx' = [rx EXCEPT ![t] = <<>>]
  BY <1>2, <1>5, DropsOwn
<1>6. QED
  BY <1>4, <1>5

LEMMA ReceiveNet == ASSUME NetInv, NEW t \in Entries, Receive(t) PROVE NetInv'
<1> DEFINE m == Head(rx[t])
<1>1. /\ m \in Own /\ t \in Udp /\ m.peers \in Seq(Peers)
      /\ rx' \in [Entries -> Seq(Own)] /\ \A u \in Entries : Len(rx'[u]) <= Capacity
      /\ UNCHANGED <<answers, udp_rh, in_hand, tch>>
  <2>1. \/ rx' = [rx EXCEPT ![t] = Tail(@)]
        \/ rx' = [rx EXCEPT ![t] = <<>>]
    BY DEF Receive
  <2>2. m \in Own /\ rx' \in [Entries -> Seq(Own)] /\ \A u \in Entries : Len(rx'[u]) <= Capacity
    BY <2>1, TakesOwn DEF Receive
  <2>3. QED
    BY <2>2 DEF Receive, Waits, Own, Datagrams
<1>2. ASSUME NEW stage \in Stages \ {"announce"}, MoveTo(t, stage),
             todo' \in [Entries -> Seq(Peers)], UNCHANGED <<cid, net>>
      PROVE  NetInv'
  <2>1. task' = [task EXCEPT ![t] = stage] /\ task' \in [Entries -> Stages]
    BY <1>2 DEF MoveTo, NetInv
  <2>2. ConnectionIdsOwn'
    BY <1>2, <2>1 DEF ConnectionIdsOwn, NetInv, Udp
  <2>3. QED
    BY <1>1, <1>2, <2>1, <2>2 DEF NetInv
<1>3. CASE ~Matches(t, m)
  BY <1>2, <1>3 DEF Receive, NetInv, Stages
<1>4. CASE Matches(t, m) /\ task[t] = "connect"
  <2>1. m.issued_to = t
    BY <1>1, <1>4 DEF Matches, Own
  <2>2. /\ cid' = [cid EXCEPT ![t] = t] /\ task' = [task EXCEPT ![t] = "announce"]
        /\ net' = net \cup {Request(t, "announce")} /\ todo' = todo
    BY <1>4, <2>1 DEF Receive, MoveTo
  <2>3. cid' \in [Entries -> Udp \cup {NoEntry}] /\ cid'[t] = t /\ task' \in [Entries -> Stages]
    BY <1>1, <2>2 DEF NetInv, Stages
  <2>4. Request(t, "announce") \in Requests
    BY <1>1, <2>3 DEF Request, Requests
  <2>5. ConnectionIdsOwn'
    BY <2>2, <2>3 DEF ConnectionIdsOwn, NetInv, Udp
  <2>6. QED
    BY <1>1, <2>2, <2>3, <2>4, <2>5 DEF NetInv
<1>5. CASE Matches(t, m) /\ task[t] # "connect"
  <2>1. todo' \in [Entries -> Seq(Peers)]
    BY <1>1, <1>5 DEF Receive, NetInv
  <2>2. QED
    BY <1>2, <1>5, <2>1 DEF Receive, Stages
<1>6. QED
  BY <1>3, <1>4, <1>5

LEMMA EntryNet == ASSUME NetInv, NEW t \in Entries, Entry(t) PROVE NetInv'
<1>1. CASE ReceiveNone(t) \/ TimeOut(t)
  BY <1>1, MovesKeepNet DEF ReceiveNone, TimeOut, netVars, NetInv, Stages
<1>2. CASE HttpAnnounce(t)
  <2>1. todo' \in [Entries -> Seq(Peers)]
    BY <1>2, PeersOfEntry DEF HttpAnnounce, NetInv
  <2>2. QED
    BY <1>2, <2>1, MovesKeepNet DEF HttpAnnounce, netVars, NetInv, Stages
<1>3. CASE Claim(t)
  <2>1. todo' \in [Entries -> Seq(Peers)]
    <3>1. todo[t] \in Seq(Peers) /\ todo[t] # <<>>
      BY <1>3 DEF Claim, NetInv
    <3>2. Tail(todo[t]) \in Seq(Peers)
      BY <3>1, HeadTailProperties
    <3>3. QED
      BY <1>3, <3>2 DEF Claim, NetInv
  <2>2. QED
    BY <1>3, <2>1 DEF Claim, netVars, NetInv, ConnectionIdsOwn
<1>4. CASE Send(t)
  BY <1>4 DEF Send, taskVars, netVars, NetInv, ConnectionIdsOwn
<1>5. CASE EntryEnds(t)
  <2>1. rx' \in [Entries -> Seq(Own)] /\ \A u \in Entries : Len(rx'[u]) <= Capacity
    BY <1>5, DropsOwn DEF EntryEnds
  <2>2. QED
    BY <1>5, <2>1, MovesKeepNet DEF EntryEnds, netVars, NetInv, Stages
<1>6. QED
  BY <1>1, <1>2, <1>3, <1>4, <1>5, ConnectNet, ReceiveNet DEF Entry

\* A tracker issues a connection id to the entry that asks.
LEMMA AnswersOwn ==
    ASSUME NEW r \in Requests, NEW action \in Replies(r)
    PROVE  Answer(r, action) \in Own
<1>1. r.tid \in Udp /\ r.tid \in Entries /\ action \in {"connect", "announce", "error"}
  BY DEF Requests, Replies, Udp
<1>2. AddrOf(r.tid) \in DOMAIN PeersAt /\ PeersAt[AddrOf(r.tid)] \in Seq(Peers)
  BY <1>1, PeersOfEntry
<1>3. <<>> \in Seq(Peers)
  BY EmptySeq
<1>4. QED
  BY <1>1, <1>2, <1>3 DEF Answer, Own, Datagrams

\* The part of an answer that is read is an answer.
LEMMA CutOwn ==
    ASSUME NEW m \in Own
    PROVE  [m EXCEPT !.peers = Cut(m.peers)] \in Own
<1>1. m.peers \in Seq(Peers)
  BY DEF Own, Datagrams
<1>2. Cut(m.peers) \in Seq(Peers)
  BY <1>1, SubSeqProperties, LenProperties, TrackersAssumption DEF Cut
<1>3. QED
  BY <1>2 DEF Own, Datagrams

LEMMA SocketNet ==
    ASSUME NetInv,
           \/ \E r \in net : TrackerAnswers(r) \/ LoseRequest(r)
           \/ \E m \in answers : ReadSocket(m) \/ LoseAnswer(m)
           \/ SocketFails
    PROVE  NetInv'
<1>1. UNCHANGED <<task, cid, rx, todo, tch>>
  BY DEF TrackerAnswers, LoseRequest, ReadSocket, LoseAnswer, SocketFails, taskVars
<1>2. net' \subseteq Requests
  BY DEF TrackerAnswers, LoseRequest, ReadSocket, LoseAnswer, SocketFails, NetInv
<1>3. answers' \subseteq Own
  BY AnswersOwn DEF TrackerAnswers, LoseRequest, ReadSocket, LoseAnswer, SocketFails, NetInv
<1>4. in_hand' = {} \/ \E m \in Own : in_hand' = {m}
  <2>1. ASSUME NEW m \in answers, ReadSocket(m) PROVE \E n \in Own : in_hand' = {n}
    BY <2>1, CutOwn DEF ReadSocket, NetInv
  <2>2. CASE UNCHANGED in_hand
    BY <2>2 DEF NetInv
  <2>3. QED
    BY <2>1, <2>2 DEF TrackerAnswers, LoseRequest, LoseAnswer, SocketFails
<1>5. udp_rh' \in {"running", "ended"}
  BY DEF TrackerAnswers, LoseRequest, ReadSocket, LoseAnswer, SocketFails, NetInv
<1>6. QED
  BY <1>1, <1>2, <1>3, <1>4, <1>5 DEF NetInv, ConnectionIdsOwn

LEMMA DispatchNet == ASSUME NetInv, NEW m \in in_hand, Dispatch(m) PROVE NetInv'
<1> DEFINE t == Owner(m.from)
<1>1. m \in Own
  BY DEF NetInv
<1>2. rx' \in [Entries -> Seq(Own)] /\ \A u \in Entries : Len(rx'[u]) <= Capacity
  <2>1. CASE rx' = rx
    BY <2>1 DEF NetInv
  <2>2. CASE HasRoom(rx[t]) /\ rx' = [rx EXCEPT ![t] = Append(rx[t], m)] /\ t \in Entries
    <3>1. rx[t] \in Seq(Own) /\ Len(rx[t]) < Capacity /\ Len(rx[t]) \in Nat
      BY <2>2, LenProperties DEF NetInv, HasRoom
    <3>2. Append(rx[t], m) \in Seq(Own) /\ Len(Append(rx[t], m)) = Len(rx[t]) + 1
      BY <1>1, <3>1, AppendProperties
    <3>3. Len(Append(rx[t], m)) <= Capacity
      BY <3>1, <3>2, TrackersAssumption
    <3> HIDE DEF t
    <3>4. QED
      BY <2>2, <3>2, <3>3 DEF NetInv
  <2>3. CASE rx' = [rx EXCEPT ![t] = Append(rx[t], m)] /\ t \notin Entries
    <3> HIDE DEF t
    <3>1. rx' = rx
      BY <2>3 DEF NetInv
    <3>2. QED
      BY <3>1 DEF NetInv
  <2>4. QED
    BY <2>1, <2>2, <2>3 DEF Dispatch
<1>3. QED
  BY <1>2 DEF Dispatch, NetInv, ConnectionIdsOwn

LEMMA NextNet == ASSUME NetInv, [Next]_vars PROVE NetInv'
<1>1. CASE TrackerComReceives \/ TchEnds \/ UNCHANGED vars
  BY <1>1 DEF TrackerComReceives, TchEnds, vars, taskVars, netVars, NetInv, ConnectionIdsOwn
<1>2. QED
  BY <1>1, EntryNet, SocketNet, DispatchNet DEF Next

\* Answers that are lost, doubled, late or handed to another entry at the same
\* address never leave an entry with a connection id that was issued to another.
THEOREM IdsStayOwn == Spec => []ConnectionIdsOwn
<1>1. Init => NetInv
  BY InitNet
<1>2. NetInv /\ [Next]_vars => NetInv'
  BY NextNet
<1>3. NetInv => ConnectionIdsOwn
  BY DEF NetInv
<1>4. QED
  BY <1>1, <1>2, <1>3, PTL DEF Spec

-----------------------------------------------------------------------------
(* Each peer is reported once *)

Sent == found \o channel

\* What has been sent, or is about to be, is in peers_map, and once only.
ReportInv ==
    /\ channel \in Seq(Peers) /\ found \in Seq(Peers)
    /\ sending = {} \/ \E a \in Peers \cap peers_map : sending = {a}
    /\ \A k \in DOMAIN Sent : Sent[k] \in peers_map \ sending
    /\ \A j, k \in DOMAIN Sent : Sent[j] = Sent[k] => j = k

\* The steps that do not report.
Unreported == UNCHANGED reportVars

LEMMA InitReport == ASSUME Init PROVE ReportInv
<1>1. Sent = <<>> /\ DOMAIN Sent = {}
  BY EmptySeq, ConcatEmptySeq DEF Init, Sent
<1>2. QED
  BY <1>1, EmptySeq DEF Init, ReportInv

LEMMA StepReports ==
    ASSUME [Next]_vars
    PROVE  \/ Unreported
           \/ \E t \in Entries : Claim(t)
           \/ \E t \in Entries : Send(t)
           \/ TrackerComReceives
<1>1. ASSUME NEW t \in Entries, Entry(t)
      PROVE  Unreported \/ Claim(t) \/ Send(t)
  BY <1>1 DEF Entry, Connect, Receive, ReceiveNone, TimeOut, HttpAnnounce, EntryEnds, Unreported
<1>2. ASSUME NEW r \in net, TrackerAnswers(r) \/ LoseRequest(r) PROVE Unreported
  BY <1>2 DEF TrackerAnswers, LoseRequest, Unreported
<1>3. ASSUME NEW m \in answers, ReadSocket(m) \/ LoseAnswer(m) PROVE Unreported
  BY <1>3 DEF ReadSocket, LoseAnswer, Unreported
<1>4. ASSUME NEW m \in in_hand, Dispatch(m) PROVE Unreported
  BY <1>4 DEF Dispatch, Unreported
<1>5. ASSUME SocketFails \/ TchEnds \/ UNCHANGED vars PROVE Unreported
  BY <1>5 DEF SocketFails, TchEnds, vars, Unreported
<1>6. QED
  BY <1>1, <1>2, <1>3, <1>4, <1>5 DEF Next

LEMMA HeadPeer == ASSUME NetInv, NEW t \in Entries, Claim(t) PROVE Head(todo[t]) \in Peers
<1>1. todo[t] \in Seq(Peers) /\ todo[t] # <<>>
  BY DEF Claim, NetInv
<1>2. QED
  BY <1>1, HeadTailProperties

LEMMA ClaimReports ==
    ASSUME NetInv, ReportInv, NEW t \in Entries, Claim(t)
    PROVE  ReportInv'
<1> DEFINE a == Head(todo[t])
<1>0. a \in Peers
  BY HeadPeer
<1>1. Sent' = Sent
  BY DEF Claim, Sent
<1>2. CASE Known(a)
  BY <1>1, <1>2 DEF Claim, ReportInv
<1>3. CASE ~Known(a)
  <2>1. peers_map' = peers_map \cup {a} /\ sending' = {a} /\ a \notin peers_map
    BY <1>3 DEF Claim, Known
  <2>2. UNCHANGED <<channel, found>>
    BY DEF Claim
  <2>3. \A k \in DOMAIN Sent : Sent[k] \in peers_map' \ sending'
    BY <2>1 DEF ReportInv
  <2>4. QED
    BY <1>0, <1>1, <2>1, <2>2, <2>3 DEF ReportInv
<1>4. QED
  BY <1>2, <1>3

\* The peer that is sent is at the end of Sent, where it was not before.
LEMMA SendReports == ASSUME ReportInv, NEW t, Send(t) PROVE ReportInv'
<1>1. PICK a \in Peers \cap peers_map :
        /\ sending = {a} /\ channel' = Append(channel, a) /\ sending' = {}
        /\ UNCHANGED <<peers_map, found>>
  BY DEF Send, ReportInv
<1>2. channel \in Seq(Peers) /\ found \in Seq(Peers) /\ Sent \in Seq(Peers)
  BY ConcatProperties DEF ReportInv, Sent
<1>3. channel' \in Seq(Peers) /\ Sent' = Append(Sent, a)
  <2>1. channel' = channel \o <<a>> /\ Append(Sent, a) = Sent \o <<a>>
    BY <1>1, <1>2, AppendIsConcat
  <2>2. <<a>> \in Seq(Peers)
    BY <1>1
  <2>3. found \o (channel \o <<a>>) = (found \o channel) \o <<a>>
    BY <1>2, <2>2, ConcatAssociative
  <2>4. QED
    BY <1>1, <1>2, <2>1, <2>3, AppendProperties DEF Sent
<1> DEFINE n == Len(Sent)
<1>4. /\ n \in Nat /\ DOMAIN Sent = 1 .. n /\ DOMAIN Sent' = 1 .. n + 1
      /\ \A k \in 1 .. n : Sent'[k] = Sent[k]
      /\ Sent'[n + 1] = a
  BY <1>1, <1>2, <1>3, AppendProperties, LenProperties
<1>5. \A k \in 1 .. n : Sent[k] \in peers_map /\ Sent[k] # a
  BY <1>1, <1>4 DEF ReportInv
<1> HIDE DEF n
<1>6. \A k \in DOMAIN Sent' : Sent'[k] \in peers_map' \ sending'
  BY <1>1, <1>4, <1>5
<1>7. \A j, k \in DOMAIN Sent' : Sent'[j] = Sent'[k] => j = k
  BY <1>4, <1>5 DEF ReportInv
<1>8. QED
  BY <1>1, <1>2, <1>3, <1>6, <1>7 DEF ReportInv

LEMMA HeadThenTail ==
    ASSUME NEW S, NEW s \in Seq(S), s # <<>>
    PROVE  s = <<Head(s)>> \o Tail(s)
<1>1. /\ Head(s) \in S /\ <<Head(s)>> \in Seq(S) /\ Tail(s) \in Seq(S)
      /\ Len(Tail(s)) = Len(s) - 1 /\ Len(s) \in Nat /\ Len(<<Head(s)>>) = 1
      /\ \A k \in 1 .. Len(s) - 1 : Tail(s)[k] = s[k + 1]
  BY HeadTailProperties, LenProperties
<1>2. /\ <<Head(s)>> \o Tail(s) \in Seq(S)
      /\ Len(<<Head(s)>> \o Tail(s)) = Len(s)
      /\ \A k \in 1 .. Len(s) :
            (<<Head(s)>> \o Tail(s))[k] = IF k <= 1 THEN <<Head(s)>>[k] ELSE Tail(s)[k - 1]
  BY <1>1, ConcatProperties
<1>3. \A k \in 1 .. Len(s) : s[k] = (<<Head(s)>> \o Tail(s))[k]
  <2>1. TAKE k \in 1 .. Len(s)
  <2>2. CASE k = 1
    BY <1>2, <2>2 DEF Head
  <2>3. CASE k # 1
    BY <1>1, <1>2, <2>3
  <2>4. QED
    BY <2>2, <2>3
<1>4. QED
  BY <1>2, <1>3, SeqEqual

\* Receiving moves a peer within Sent without changing it.
LEMMA ReceiveReports == ASSUME ReportInv, TrackerComReceives PROVE ReportInv'
<1>1. /\ channel \in Seq(Peers) /\ channel # <<>> /\ found \in Seq(Peers)
      /\ channel' = Tail(channel) /\ found' = Append(found, Head(channel))
      /\ UNCHANGED <<peers_map, sending>>
  BY DEF TrackerComReceives, ReportInv
<1> DEFINE h == Head(channel)
<1>2. /\ h \in Peers /\ Tail(channel) \in Seq(Peers)
      /\ <<h>> \in Seq(Peers)
  BY <1>1, HeadTailProperties
<1>3. channel = <<h>> \o Tail(channel)
  BY <1>1, HeadThenTail
<1>4. found' = found \o <<h>> /\ found' \in Seq(Peers)
  BY <1>1, <1>2, AppendIsConcat, AppendProperties
<1> HIDE DEF h
<1>5. Sent' = Sent
  BY <1>1, <1>2, <1>3, <1>4, ConcatAssociative DEF Sent
<1>6. QED
  BY <1>1, <1>2, <1>4, <1>5 DEF ReportInv

LEMMA NextReport == ASSUME NetInv, ReportInv, [Next]_vars PROVE ReportInv'
<1>1. CASE Unreported
  BY <1>1 DEF Unreported, reportVars, ReportInv, Sent
<1>2. QED
  BY <1>1, StepReports, ClaimReports, SendReports, ReceiveReports

\* Whatever trackers report, in whatever order, no address is sent to tracker_com
\* twice: peers_map is looked up and added to under one lock.
THEOREM AddressesReportedOnce == Spec => []ReportedOnce
<1>1. Init => NetInv /\ ReportInv
  BY InitNet, InitReport
<1>2. NetInv /\ ReportInv /\ [Next]_vars => NetInv' /\ ReportInv'
  BY NextNet, NextReport
<1>3. ReportInv => ReportedOnce
  BY DEF ReportInv, ReportedOnce, Sent, Seqs!IsInjective, Seqs!ToSet
<1>4. QED
  BY <1>1, <1>2, <1>3, PTL DEF Spec

-----------------------------------------------------------------------------
(* Types *)

\* The lock of peers_map is held by a task that reports, to send one peer.
LockInv ==
    /\ holder \in Entries \cup {NoEntry}
    /\ IF holder = NoEntry THEN sending = {}
       ELSE task[holder] = "reporting" /\ \E a \in peers_map : sending = {a}
    /\ peers_map \subseteq Peers
    /\ Len(channel) <= Capacity

TypeInv == NetInv /\ ReportInv /\ LockInv

LEMMA InitLock == ASSUME Init PROVE LockInv
<1>1. Len(channel) = 0
  BY EmptySeq DEF Init
<1>2. QED
  BY <1>1, TrackersAssumption DEF Init, LockInv

LEMMA NextLock == ASSUME TypeInv, [Next]_vars PROVE LockInv'
<1> USE DEF TypeInv
<1>1. ASSUME Unreported, NEW t \in Entries, NEW stage, MoveTo(t, stage), holder # t PROVE LockInv'
  <2>1. holder \in Entries => task'[holder] = task[holder]
    BY <1>1 DEF MoveTo, NetInv
  <2>2. QED
    BY <1>1, <2>1 DEF Unreported, reportVars, LockInv
<1>2. ASSUME NEW t \in Entries,
             Connect(t) \/ Receive(t) \/ ReceiveNone(t) \/ TimeOut(t) \/ HttpAnnounce(t) \/ EntryEnds(t)
      PROVE  LockInv'
  <2>1. holder # t
    <3>1. NoEntry \notin Entries
      BY TrackersAssumption
    <3>2. task[t] \in {"starting", "connect", "announce"} \/ holder # t
      BY <1>2 DEF Connect, Receive, ReceiveNone, TimeOut, HttpAnnounce, EntryEnds, Waits
    <3>3. QED
      BY <3>1, <3>2 DEF LockInv
  <2>2. Unreported /\ \E stage : MoveTo(t, stage)
    BY <1>2 DEF Connect, Receive, ReceiveNone, TimeOut, HttpAnnounce, EntryEnds, Unreported
  <2>3. QED
    BY <1>1, <2>1, <2>2
<1>3. ASSUME NEW t \in Entries, Claim(t) PROVE LockInv'
  <2>1. t # NoEntry /\ UNCHANGED <<task, channel>>
    BY <1>3, TrackersAssumption DEF Claim
  <2>2. Head(todo[t]) \in Peers
    BY <1>3, HeadPeer
  <2>3. CASE UNCHANGED <<peers_map, holder, sending>>
    BY <2>1, <2>3 DEF LockInv
  <2>4. CASE /\ peers_map' = peers_map \cup {Head(todo[t])}
             /\ holder' = t
             /\ sending' = {Head(todo[t])}
    BY <1>3, <2>1, <2>2, <2>4 DEF Claim, LockInv
  <2>5. QED
    BY <1>3, <2>3, <2>4 DEF Claim
<1>4. ASSUME NEW t \in Entries, Send(t) PROVE LockInv'
  <2>1. PICK a \in Peers : channel' = Append(channel, a)
    BY <1>4 DEF Send, ReportInv
  <2>2. Len(channel') = Len(channel) + 1 /\ Len(channel) \in Nat
    BY <2>1, AppendProperties, LenProperties DEF ReportInv
  <2>3. Len(channel') <= Capacity
    BY <1>4, <2>2, TrackersAssumption DEF Send, HasRoom
  <2>4. QED
    BY <1>4, <2>3 DEF Send, LockInv
<1>5. ASSUME TrackerComReceives PROVE LockInv'
  <2>1. Len(channel') = Len(channel) - 1 /\ Len(channel) \in Nat
    BY <1>5, HeadTailProperties, LenProperties DEF TrackerComReceives, ReportInv
  <2>2. Len(channel') <= Capacity
    BY <2>1, TrackersAssumption DEF LockInv
  <2>3. QED
    BY <1>5, <2>2 DEF TrackerComReceives, taskVars, LockInv
<1>6. CASE UNCHANGED <<task, reportVars>>
  BY <1>6 DEF reportVars, LockInv
<1>7. ASSUME \/ \E r \in net : TrackerAnswers(r) \/ LoseRequest(r)
             \/ \E m \in answers : ReadSocket(m) \/ LoseAnswer(m)
             \/ \E m \in in_hand : Dispatch(m)
             \/ SocketFails \/ TchEnds \/ UNCHANGED vars
      PROVE  UNCHANGED <<task, reportVars>>
  BY <1>7 DEF TrackerAnswers, LoseRequest, ReadSocket, LoseAnswer, Dispatch, SocketFails, TchEnds,
              vars, taskVars
<1>8. QED
  BY <1>2, <1>3, <1>4, <1>5, <1>6, <1>7 DEF Next, Entry

\* No channel holds more than it can, and the lock of peers_map is held exactly
\* while a peer is about to be sent.
THEOREM TypeCorrect == Spec => []TypeOK
<1>1. Init => TypeInv
  BY InitNet, InitReport, InitLock DEF TypeInv
<1>2. TypeInv /\ [Next]_vars => TypeInv'
  BY NextNet, NextReport, NextLock DEF TypeInv
<1>3. TypeInv => TypeOK
  <2> SUFFICES ASSUME TypeInv PROVE TypeOK
    OBVIOUS
  <2>1. Own \subseteq Datagrams
    BY DEF Own
  <2>2. \A t \in Entries : rx[t] \in Seq(Datagrams) /\ Len(rx[t]) <= Capacity
    BY <2>1, SeqMonotonic DEF TypeInv, NetInv
  <2>3. in_hand \subseteq Datagrams /\ \A m, n \in in_hand : m = n
    BY <2>1 DEF TypeInv, NetInv
  <2>4. QED
    BY <2>1, <2>2, <2>3 DEF TypeInv, NetInv, ReportInv, LockInv, TypeOK, Requests
<1>4. QED
  BY <1>1, <1>2, <1>3, PTL DEF Spec

=============================================================================
