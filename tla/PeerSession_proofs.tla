-------------------------- MODULE PeerSession_proofs --------------------------
(***************************************************************************)
(* Proofs about PeerSession, for any addresses, ids and capacities.        *)
(***************************************************************************)
EXTENDS PeerSession, SequenceTheorems, TLAPS

-----------------------------------------------------------------------------
(* Types *)

LEMMA InitType == ASSUME Init PROVE TypeOK
<1>1. channel \in Seq(Messages) /\ Len(channel) <= Capacity
  BY EmptySeq, PeerSessionAssumption DEF Init
<1>2. outbox \in [Addrs -> 0 .. OutCapacity] /\ id_of \in [Addrs -> Ids]
  BY PeerSessionAssumption DEF Init
<1>3. QED
  BY <1>1, <1>2 DEF Init, TypeOK, Stages

LEMMA SendType ==
    ASSUME TypeOK, NEW a \in Addrs, HasRoom(a), Send(a)
    PROVE  outbox' \in [Addrs -> 0 .. OutCapacity]
<1>1. outbox[a] \in 0 .. OutCapacity /\ outbox[a] + 1 \in 0 .. OutCapacity
  BY PeerSessionAssumption DEF TypeOK, HasRoom
<1>2. QED
  BY <1>1 DEF TypeOK, Send

\* The steps of the task of an address.
LEMMA TaskType == ASSUME TypeOK, NEW a \in Addrs, Task(a) PROVE TypeOK'
<1> USE DEF MoveTo, Stages, outVars, comVars, fixed
<1>1. CASE Discover(a)
  BY <1>1 DEF Discover, TypeOK
<1>2. CASE Handshake(a)
  <2>1. session' \in [Addrs -> Stages]
    BY <1>2 DEF Handshake, TypeOK
  <2>2. /\ rh' \in [Addrs -> {"off", "reading", "ended"}]
        /\ sh' \in [Addrs -> {"off", "writing", "ended"}]
    BY <1>2 DEF Handshake, TypeOK
  <2>3. QED
    BY <1>2, <2>1, <2>2 DEF Handshake, TypeOK
<1>3. CASE Claim(a)
  <2>1. session' \in [Addrs -> Stages]
    BY <1>3 DEF Claim, ClaimId, TurnAway, TypeOK
  <2>2. peer_ids' \subseteq Ids
    BY <1>3 DEF Claim, ClaimId, TurnAway, TypeOK
  <2>3. sh' \in [Addrs -> {"off", "writing", "ended"}]
    BY <1>3 DEF Claim, ClaimId, TurnAway, TypeOK
  <2>4. outbox' \in [Addrs -> 0 .. OutCapacity]
    BY <1>3, SendType DEF Claim, ClaimId, TurnAway, TypeOK
  <2>5. QED
    BY <1>3, <2>1, <2>2, <2>3, <2>4 DEF Claim, TypeOK
<1>4. CASE Insert(a)
  BY <1>4 DEF Insert, TypeOK
<1>5. CASE CountPeers(a)
  BY <1>5 DEF CountPeers, TypeOK
<1>6. CASE List(a)
  BY <1>6 DEF List, TypeOK
<1>7. CASE End(a)
  BY <1>7 DEF End, MapWithout, TypeOK
<1>8. QED
  BY <1>1, <1>2, <1>3, <1>4, <1>5, <1>6, <1>7 DEF Task

LEMMA RequestType == ASSUME TypeOK, NEW a \in Addrs, RequestTask(a) PROVE TypeOK'
<1> USE DEF taskVars, outVars, comVars, fixed
<1>1. CASE LockPieces(a)
  BY <1>1 DEF LockPieces, TypeOK
<1>2. CASE UnlockPieces(a)
  BY <1>2 DEF UnlockPieces, TypeOK
<1>3. CASE Ask(a)
  BY <1>3, SendType DEF Ask, TypeOK
<1>4. CASE RequestTaskPanics(a)
  BY <1>4 DEF RequestTaskPanics, TypeOK
<1>5. QED
  BY <1>1, <1>2, <1>3, <1>4 DEF RequestTask

\* The steps of the two halves of a connection and of the remote peer.
LEMMA LinkType == ASSUME TypeOK, NEW a \in Addrs, Link(a) PROVE TypeOK'
<1> USE DEF taskVars, outVars, comVars, fixed
<1>1. CASE Write(a)
  <2>1. outbox[a] - 1 \in 0 .. OutCapacity
    BY <1>1, PeerSessionAssumption DEF Write, TypeOK
  <2>2. QED
    BY <1>1, <2>1 DEF Write, TypeOK
<1>2. CASE RemoteCloses(a)
  BY <1>2 DEF RemoteCloses, TypeOK
<1>3. CASE ReaderEnds(a)
  BY <1>3 DEF ReaderEnds, TypeOK
<1>4. CASE Relay(a)
  <2>1. [from |-> a, known |-> a \in pr_map] \in Messages
    BY DEF Messages
  <2>2. channel' \in Seq(Messages) /\ Len(channel') = Len(channel) + 1
    BY <1>4, <2>1 DEF Relay, TypeOK
  <2>3. Len(channel') <= Capacity
    BY <1>4, <2>2, PeerSessionAssumption DEF Relay, MayRelay, TypeOK
  <2>4. QED
    BY <1>4, <2>2, <2>3 DEF Relay, TypeOK
<1>5. QED
  BY <1>1, <1>2, <1>3, <1>4 DEF Link

\* What is left of the channel when its first message has been taken.
LEMMA ReceiveType ==
    ASSUME TypeOK, Receives
    PROVE  /\ Head(channel) \in Messages
           /\ Tail(channel) \in Seq(Messages)
           /\ Len(Tail(channel)) = Len(channel) - 1
           /\ Len(Tail(channel)) <= Capacity
BY HeadTailProperties, PeerSessionAssumption DEF Receives, TypeOK

LEMMA PeerComType == ASSUME TypeOK, PeerCom PROVE TypeOK'
<1> USE DEF taskVars, outVars, comVars, fixed
<1>1. CASE HandleBlock
  BY <1>1, ReceiveType DEF HandleBlock, TypeOK
<1>2. CASE HandleMessage
  BY <1>2, ReceiveType DEF HandleMessage, WaitsAfter, Messages, TypeOK
<1>3. CASE GetPieces
  BY <1>3 DEF GetPieces, NeedsPieces, GoOn, WaitsAfter, TypeOK
<1>4. CASE GetStats
  BY <1>4 DEF GetStats, GoOn, WaitsAfter, TypeOK
<1>5. ASSUME NEW a \in Addrs, SendAnswer(a) PROVE TypeOK'
  BY <1>5, SendType DEF SendAnswer, GoOn, WaitsAfter, TypeOK
<1>6. QED
  BY <1>1, <1>2, <1>3, <1>4, <1>5 DEF PeerCom

LEMMA ReturnType ==
    ASSUME TypeOK, NEW how \in {"over", "lost", "panicked"}, Return(how)
    PROVE  TypeOK'
<1>1. channel' \in Seq(Messages) /\ Len(channel') <= Capacity
  BY EmptySeq, PeerSessionAssumption DEF Return
<1>2. outbox' \in [Addrs -> 0 .. OutCapacity]
  BY PeerSessionAssumption DEF Return
<1>3. QED
  BY <1>1, <1>2 DEF Return, TypeOK, Stages

LEMMA NextType == ASSUME TypeOK, [Next]_vars PROVE TypeOK'
<1>1. CASE TrackersEnd
  BY <1>1 DEF TrackersEnd, TypeOK, Stages, outVars, comVars, fixed
<1>2. CASE RunReturns
  BY <1>2, ReturnType DEF RunReturns, TrackerComReturns, PeerComLost, PeerComPanics, StatsPanic
<1>3. CASE UNCHANGED vars
  BY <1>3 DEF vars, taskVars, outVars, comVars, fixed, TypeOK
<1>4. QED
  BY <1>1, <1>2, <1>3, TaskType, RequestType, LinkType, PeerComType DEF Next

\* The queues of both directions stay within their capacities, and peer_com waits
\* for something exactly as long as it has the tracker of a peer.
THEOREM TypeCorrect == Spec => []TypeOK
<1>1. Init => TypeOK
  BY InitType
<1>2. TypeOK /\ [Next]_vars => TypeOK'
  BY NextType
<1>3. QED
  BY <1>1, <1>2, PTL DEF Spec

-----------------------------------------------------------------------------
(* One session per id *)

\* Tasks that have claimed their peer's id, and entries, which outlive theirs.
Claimants ==
    {a \in Addrs : session[a] \in {"claimed", "inserted", "counting", "listed"}} \cup pr_map

\* A claim is an entry in peer_ids, and nobody shares it.
ClaimsOwn ==
    /\ \A a \in pr_map : session[a] \in {"inserted", "counting", "listed", "ended"}
    /\ \A a \in Claimants : id_of[a] \in peer_ids
    /\ \A a, b \in Claimants : id_of[a] = id_of[b] => a = b

ClaimInv == TypeOK /\ ClaimsOwn

\* A step that moves one task on, and changes neither ids nor the map, keeps the
\* claims if it makes no claim.
LEMMA NoNewClaim ==
    ASSUME ClaimInv, NEW a \in Addrs, NEW stage \in Stages,
           session' = [session EXCEPT ![a] = stage],
           stage \in {"claimed", "inserted", "counting", "listed"} => a \in Claimants,
           a \in pr_map => stage \in {"inserted", "counting", "listed", "ended"},
           UNCHANGED <<id_of, peer_ids, pr_map>>
    PROVE  ClaimsOwn'
<1>1. Claimants' \subseteq Claimants
  BY DEF Claimants, ClaimInv, TypeOK
<1>2. \A c \in pr_map' : session'[c] \in {"inserted", "counting", "listed", "ended"}
  BY DEF ClaimInv, ClaimsOwn, TypeOK
<1>3. QED
  BY <1>1, <1>2 DEF ClaimInv, ClaimsOwn

\* An id that has been claimed is not claimed again.
LEMMA ClaimKeepsOwn == ASSUME ClaimInv, NEW a \in Addrs, Claim(a) PROVE ClaimsOwn'
<1>1. a \notin Claimants
  BY DEF Claim, Claimants, ClaimInv, ClaimsOwn
<1>2. CASE TurnAway(a)
  BY <1>1, <1>2, NoNewClaim DEF Claim, TurnAway, MoveTo, Stages, Claimants, fixed
<1>3. CASE ClaimId(a)
  <2>1. Claimants' = Claimants \cup {a}
    BY <1>3 DEF Claim, ClaimId, MoveTo, Claimants, ClaimInv, TypeOK
  <2>2. id_of[a] \notin peer_ids /\ peer_ids' = peer_ids \cup {id_of[a]} /\ id_of' = id_of
    BY <1>3 DEF Claim, ClaimId, Taken, fixed
  <2>3. \A c \in pr_map' : session'[c] \in {"inserted", "counting", "listed", "ended"}
    BY <1>1, <1>3 DEF Claim, ClaimId, MoveTo, Claimants, ClaimInv, ClaimsOwn, TypeOK
  <2>4. QED
    BY <2>1, <2>2, <2>3 DEF ClaimInv, ClaimsOwn
<1>4. QED
  BY <1>2, <1>3 DEF Claim

LEMMA InsertKeepsOwn == ASSUME ClaimInv, NEW a \in Addrs, Insert(a) PROVE ClaimsOwn'
<1>1. Claimants' = Claimants
  BY DEF Insert, MoveTo, Claimants, ClaimInv, TypeOK
<1>2. \A c \in pr_map' : session'[c] \in {"inserted", "counting", "listed", "ended"}
  BY DEF Insert, MoveTo, ClaimInv, ClaimsOwn, TypeOK
<1>3. QED
  BY <1>1, <1>2 DEF Insert, ClaimInv, ClaimsOwn, fixed

LEMMA TaskKeepsOwn == ASSUME ClaimInv, NEW a \in Addrs, Task(a) PROVE ClaimsOwn'
<1> USE DEF MoveTo, Stages, ClaimInv, ClaimsOwn, fixed
<1>1. CASE Discover(a)
  BY <1>1, NoNewClaim DEF Discover
<1>2. CASE Handshake(a)
  BY <1>2, NoNewClaim DEF Handshake
<1>3. CASE CountPeers(a)
  BY <1>3, NoNewClaim DEF CountPeers, Claimants
<1>4. CASE List(a)
  BY <1>4, NoNewClaim DEF List, Claimants
<1>5. CASE End(a)
  BY <1>5, NoNewClaim DEF End, MapWithout
<1>6. QED
  BY <1>1, <1>2, <1>3, <1>4, <1>5, ClaimKeepsOwn, InsertKeepsOwn DEF Task

\* What the tracker tasks do not report was in nobody's hands.
LEMMA TrackersEndKeepOwn == ASSUME ClaimInv, TrackersEnd PROVE ClaimsOwn'
<1>1. Claimants' = Claimants
  BY DEF TrackersEnd, Claimants, ClaimInv, TypeOK
<1>2. \A c \in pr_map' : session'[c] \in {"inserted", "counting", "listed", "ended"}
  BY DEF TrackersEnd, ClaimInv, ClaimsOwn, TypeOK
<1>3. QED
  BY <1>1, <1>2 DEF TrackersEnd, ClaimInv, ClaimsOwn, fixed

LEMMA ReturnKeepsOwn == ASSUME ClaimInv, NEW how, Return(how) PROVE ClaimsOwn'
<1>1. Claimants' = {} /\ pr_map' = {}
  BY DEF Return, Claimants
<1>2. QED
  BY <1>1 DEF ClaimsOwn

LEMMA NextKeepsOwn == ASSUME ClaimInv, [Next]_vars PROVE ClaimsOwn'
<1>1. CASE UNCHANGED <<id_of, session, peer_ids, pr_map>>
  BY <1>1 DEF ClaimInv, ClaimsOwn, Claimants
<1>2. ASSUME NEW a \in Addrs, RequestTask(a) \/ Link(a)
      PROVE  UNCHANGED <<id_of, session, peer_ids, pr_map>>
  BY <1>2 DEF RequestTask, LockPieces, UnlockPieces, Ask, RequestTaskPanics, Link, Write,
              RemoteCloses, ReaderEnds, Relay, taskVars, fixed
<1>3. ASSUME PeerCom \/ UNCHANGED vars
      PROVE  UNCHANGED <<id_of, session, peer_ids, pr_map>>
  BY <1>3 DEF PeerCom, HandleBlock, HandleMessage, GetPieces, GetStats, SendAnswer, vars,
              taskVars, fixed
<1>4. CASE RunReturns
  BY <1>4, ReturnKeepsOwn DEF RunReturns, TrackerComReturns, PeerComLost, PeerComPanics,
                              StatsPanic
<1>5. QED
  BY <1>1, <1>2, <1>3, <1>4, TaskKeepsOwn, TrackersEndKeepOwn DEF Next

\* Whatever addresses the trackers report, and however the tasks interleave, no two
\* entries of pr_map are one peer's.
THEOREM SessionsApart == Spec => []OneSessionPerId
<1>1. Init => ClaimInv
  BY InitType DEF Init, ClaimInv, ClaimsOwn, Claimants
<1>2. ClaimInv /\ [Next]_vars => ClaimInv'
  BY NextType, NextKeepsOwn DEF ClaimInv
<1>3. ClaimInv => OneSessionPerId
  BY DEF ClaimInv, ClaimsOwn, Claimants, OneSessionPerId
<1>4. QED
  BY <1>1, <1>2, <1>3, PTL DEF Spec

-----------------------------------------------------------------------------
(* Whose messages find no tracker *)

\* The map loses no entry as long as the process runs, so whoever was in it when a
\* message was relayed is in it still.
KnownStay == \A k \in 1 .. Len(channel) : channel[k].known => channel[k].from \in pr_map

SenderInv == TypeOK /\ KnownStay

LEMMA RelayKeepsKnown == ASSUME SenderInv, NEW a \in Addrs, Relay(a) PROVE KnownStay'
<1> DEFINE m == [from |-> a, known |-> a \in pr_map]
<1>1. m \in Messages /\ channel \in Seq(Messages)
  BY DEF Messages, SenderInv, TypeOK
<1>2. /\ Len(channel') = Len(channel) + 1
      /\ \A k \in 1 .. Len(channel) : channel'[k] = channel[k]
      /\ channel'[Len(channel) + 1] = m
      /\ Len(channel) \in Nat
  BY <1>1, LenProperties DEF Relay
<1>3. SUFFICES ASSUME NEW k \in 1 .. Len(channel'), channel'[k].known
               PROVE  channel'[k].from \in pr_map'
  BY DEF KnownStay
<1>4. CASE k = Len(channel) + 1
  <2>1. m.from = a /\ (m.known <=> a \in pr_map)
    OBVIOUS
  <2>2. channel'[k] = m
    BY <1>2, <1>4
  <2>3. QED
    BY <1>3, <2>1, <2>2 DEF Relay, taskVars
<1>5. CASE k # Len(channel) + 1
  <2>1. k \in 1 .. Len(channel)
    BY <1>2, <1>5
  <2>2. QED
    BY <1>2, <1>3, <2>1 DEF Relay, taskVars, SenderInv, KnownStay
<1>6. QED
  BY <1>4, <1>5

LEMMA TakeKeepsKnown ==
    ASSUME SenderInv, Receives, channel' = Tail(channel), pr_map' = pr_map
    PROVE  KnownStay'
<1>1. /\ Len(channel') = Len(channel) - 1
      /\ Len(channel) \in Nat
      /\ \A k \in 1 .. Len(channel) - 1 : channel'[k] = channel[k + 1]
  BY HeadTailProperties, LenProperties DEF Receives, SenderInv, TypeOK
<1>2. QED
  BY <1>1 DEF SenderInv, KnownStay

LEMMA NextKeepsKnown == ASSUME SenderInv, [Next]_vars PROVE KnownStay'
<1>1. CASE channel' = channel /\ pr_map \subseteq pr_map'
  BY <1>1 DEF SenderInv, KnownStay
<1>2. ASSUME NEW a \in Addrs,
             Task(a) \/ RequestTask(a) \/ Write(a) \/ RemoteCloses(a) \/ ReaderEnds(a)
      PROVE  channel' = channel /\ pr_map \subseteq pr_map'
  BY <1>2 DEF Task, Discover, Handshake, Claim, Insert, CountPeers, List, End, MapWithout,
              RequestTask, LockPieces, UnlockPieces, Ask, RequestTaskPanics, Write,
              RemoteCloses, ReaderEnds, taskVars
<1>3. ASSUME TrackersEnd \/ UNCHANGED vars
      PROVE  channel' = channel /\ pr_map \subseteq pr_map'
  BY <1>3 DEF TrackersEnd, vars, taskVars
<1>4. CASE PeerCom
  <2>1. CASE HandleBlock \/ HandleMessage
    BY <2>1, TakeKeepsKnown DEF HandleBlock, HandleMessage, taskVars
  <2>2. CASE GetPieces \/ GetStats \/ \E a \in Addrs : SendAnswer(a)
    BY <1>1, <2>2 DEF GetPieces, GetStats, SendAnswer, taskVars
  <2>3. QED
    BY <1>4, <2>1, <2>2 DEF PeerCom
<1>5. CASE RunReturns
  <2>1. channel' = <<>>
    BY <1>5 DEF RunReturns, TrackerComReturns, PeerComLost, PeerComPanics, StatsPanic, Return
  <2>2. 1 .. Len(channel') = {}
    BY <2>1
  <2>3. QED
    BY <2>2 DEF KnownStay
<1>6. QED
  BY <1>1, <1>2, <1>3, <1>4, <1>5, RelayKeepsKnown DEF Next, Link

\* peer_com is lost to the unwrap only by a message at the head that was not known.
LEMMA LostUnknown ==
    ASSUME SenderInv, Next, run' = "lost"
    PROVE  ~Head(channel).known
<1>1. PeerComLost
  <2>1. ASSUME \/ \E a \in Addrs : Task(a) \/ RequestTask(a) \/ Link(a)
               \/ TrackersEnd \/ PeerCom
        PROVE  run' = run
    BY <2>1 DEF Task, Discover, Handshake, Claim, Insert, CountPeers, List, End, RequestTask,
                LockPieces, UnlockPieces, Ask, RequestTaskPanics, Link, Write, RemoteCloses,
                ReaderEnds, Relay, TrackersEnd, PeerCom, HandleBlock, HandleMessage,
                GetPieces, GetStats, SendAnswer, fixed
  <2>2. QED
    BY <2>1 DEF Next, RunReturns, TrackerComReturns, PeerComPanics, StatsPanic, Return
<1>2. channel \in Seq(Messages) /\ channel # <<>>
  BY <1>1 DEF PeerComLost, Receives, SenderInv, TypeOK
<1>3. Head(channel) = channel[1] /\ 1 \in 1 .. Len(channel)
  BY <1>2, EmptySeq DEF Head
<1>4. QED
  BY <1>1, <1>3 DEF PeerComLost, Finds, SenderInv, KnownStay

\* The unwrap fails only on a message relayed before its sender was entered in the
\* map, however long messages queue and whatever has ended meanwhile.
THEOREM LostOnlyBeforeEntry == Spec => LostBeforeEntry
<1>1. Init => SenderInv
  <2> SUFFICES ASSUME Init PROVE SenderInv
    OBVIOUS
  <2>1. 1 .. Len(channel) = {}
    BY DEF Init
  <2>2. QED
    BY <2>1, InitType DEF SenderInv, KnownStay
<1>2. SenderInv /\ [Next]_vars => SenderInv'
  BY NextType, NextKeepsKnown DEF SenderInv
<1>3. SenderInv /\ [Next]_vars => [run' = "lost" => ~Head(channel).known]_vars
  BY LostUnknown
<1>4. QED
  BY <1>1, <1>2, <1>3, PTL DEF Spec, LostBeforeEntry

=============================================================================
