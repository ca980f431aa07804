--------------------------- MODULE Download_proofs ---------------------------
(***************************************************************************)
(* Proofs about Download, for any peers, pieces, blocks and bounds.        *)
(***************************************************************************)
EXTENDS Download, FiniteSetTheorems, TLAPS

-----------------------------------------------------------------------------
(* The operators of the tracker *)

\* What update_multiple, and update_single with a singleton, return: the pieces
\* that may be needed are, and nothing but the counters changes besides.
LEMMA UpdateMultipleResult ==
    ASSUME NEW pt \in PieceTrackers, NEW S \in SUBSET Pieces
    PROVE  /\ UpdateMultiple(pt, S) \in PieceTrackers
           /\ UpdateMultiple(pt, S).needed = pt.needed \cup {i \in S : MayNeed(pt, i)}
           /\ UpdateMultiple(pt, S).requested = pt.requested
           /\ UpdateMultiple(pt, S).have = pt.have
           /\ UpdateMultiple(pt, S).buffered = pt.buffered
<1> DEFINE ins == Insert(pt, S)
<1>1. /\ ins \in PieceTrackers
      /\ ins.needed = pt.needed \cup {i \in S : MayNeed(pt, i)}
      /\ ins.requested = pt.requested
      /\ ins.have = pt.have
      /\ ins.buffered = pt.buffered
  BY DEF Insert, PieceTrackers
<1>2. ASSUME NEW i \in Pieces PROVE (ins.available[i] + 1) % AvailModulus \in 0 .. AvailModulus - 1
  BY <1>1, TrackerAssumption DEF PieceTrackers
<1> HIDE DEF ins
<1>3. QED
  BY <1>1, <1>2 DEF UpdateMultiple, Count, PieceTrackers, ins

\* The other methods leave a tracker a tracker.
LEMMA TrackerTypes ==
    ASSUME NEW pt \in PieceTrackers, NEW i \in Pieces, NEW b \in Blocks,
           NEW data \in {"good", "bad"}
    PROVE  /\ UnreservePiece(pt, i) \in PieceTrackers
           /\ [ReservePiece(pt, i) EXCEPT !.needed = @ \ {i}] \in PieceTrackers
           /\ OnBlockBuffered(pt, i, b, data) \in PieceTrackers
           /\ OnPieceSaved(pt, i) \in PieceTrackers
<1>1. NothingBuffered \in [Blocks -> BlockData]
  BY DEF NothingBuffered, BlockData
<1>2. data \in BlockData
  BY DEF BlockData
<1>3. UnreservePiece(pt, i) \in PieceTrackers
  BY DEF UnreservePiece, PieceTrackers
<1>4. [ReservePiece(pt, i) EXCEPT !.needed = @ \ {i}] \in PieceTrackers
  BY DEF ReservePiece, PieceTrackers
<1>5. OnBlockBuffered(pt, i, b, data) \in PieceTrackers
  BY <1>2 DEF OnBlockBuffered, PieceTrackers
<1>6. OnPieceSaved(pt, i) \in PieceTrackers
  BY <1>1 DEF OnPieceSaved, PieceTrackers
<1>7. QED
  BY <1>3, <1>4, <1>5, <1>6

LEMMA CompletedType ==
    ASSUME NEW pt \in PieceTrackers, NEW i \in Pieces
    PROVE  Completed(pt, i) \in PieceTrackers
<1>1. PICK b \in Blocks : TRUE
  BY TrackerAssumption
<1>2. UnreservePiece(pt, i) \in PieceTrackers
  BY <1>1, TrackerTypes
<1>3. /\ OnPieceSaved(UnreservePiece(pt, i), i) \in PieceTrackers
      /\ UpdateSingle(UnreservePiece(pt, i), i) \in PieceTrackers
  BY <1>1, <1>2, TrackerTypes, UpdateMultipleResult DEF UpdateSingle
<1>4. QED
  BY <1>3 DEF Completed

\* What giving a reservation up does to the stages of the pieces.
LEMMA GiveUpResult ==
    ASSUME NEW pt \in PieceTrackers, NEW i \in Pieces \ pt.have
    PROVE  /\ GiveUp(pt, i) \in PieceTrackers
           /\ GiveUp(pt, i).needed = pt.needed \cup {i}
           /\ GiveUp(pt, i).requested = pt.requested \ {i}
           /\ GiveUp(pt, i).have = pt.have
           /\ GiveUp(pt, i).buffered = pt.buffered
<1> DEFINE un == UnreservePiece(pt, i)
<1>1. /\ un \in PieceTrackers
      /\ un.needed = pt.needed
      /\ un.requested = pt.requested \ {i}
      /\ un.have = pt.have
      /\ un.buffered = pt.buffered
  BY DEF UnreservePiece, PieceTrackers
<1>2. {j \in {i} : MayNeed(un, j)} = {i}
  BY <1>1 DEF MayNeed
<1> HIDE DEF un
<1>3. /\ UpdateSingle(un, i) \in PieceTrackers
      /\ UpdateSingle(un, i).needed = pt.needed \cup {i}
      /\ UpdateSingle(un, i).requested = pt.requested \ {i}
      /\ UpdateSingle(un, i).have = pt.have
      /\ UpdateSingle(un, i).buffered = pt.buffered
  BY <1>1, <1>2, UpdateMultipleResult DEF UpdateSingle
<1>4. /\ Insert(un, {i}) \in PieceTrackers
      /\ Insert(un, {i}).needed = pt.needed \cup {i}
      /\ Insert(un, {i}).requested = pt.requested \ {i}
      /\ Insert(un, {i}).have = pt.have
      /\ Insert(un, {i}).buffered = pt.buffered
  BY <1>1, <1>2 DEF Insert, PieceTrackers
<1>5. GiveUp(pt, i) = Insert(un, {i}) \/ GiveUp(pt, i) = UpdateSingle(un, i)
  BY DEF GiveUp, un
<1>6. QED
  BY <1>3, <1>4, <1>5

\* What verifying a completed piece does to the stages of the pieces.
LEMMA CompletedResult ==
    ASSUME NEW pt \in PieceTrackers, NEW i \in Pieces \ pt.have
    PROVE  /\ Completed(pt, i) \in PieceTrackers
           /\ Completed(pt, i).requested = pt.requested \ {i}
           /\ VerifyPieceHash(pt, i) =>
                 /\ Completed(pt, i).needed = pt.needed
                 /\ Completed(pt, i).have = pt.have \cup {i}
                 /\ Completed(pt, i).buffered = [pt.buffered EXCEPT ![i] = NothingBuffered]
           /\ ~VerifyPieceHash(pt, i) =>
                 /\ Completed(pt, i).needed = pt.needed \cup {i}
                 /\ Completed(pt, i).have = pt.have
                 /\ Completed(pt, i).buffered = pt.buffered
<1> DEFINE un == UnreservePiece(pt, i)
<1>1. /\ un \in PieceTrackers
      /\ un.needed = pt.needed
      /\ un.requested = pt.requested \ {i}
      /\ un.have = pt.have
      /\ un.buffered = pt.buffered
  BY DEF UnreservePiece, PieceTrackers
<1>2. {j \in {i} : MayNeed(un, j)} = {i}
  BY <1>1 DEF MayNeed
<1> HIDE DEF un
<1>3. NothingBuffered \in [Blocks -> BlockData]
  BY DEF NothingBuffered, BlockData
<1>4. CASE VerifyPieceHash(pt, i)
  <2>1. Completed(pt, i) = OnPieceSaved(un, i)
    BY <1>4 DEF Completed, un
  <2>2. OnPieceSaved(un, i) \in PieceTrackers
    BY <1>1, <1>3 DEF OnPieceSaved, PieceTrackers
  <2>3. /\ OnPieceSaved(un, i).needed = un.needed
        /\ OnPieceSaved(un, i).requested = un.requested
        /\ OnPieceSaved(un, i).have = un.have \cup {i}
        /\ OnPieceSaved(un, i).buffered = [un.buffered EXCEPT ![i] = NothingBuffered]
    BY <1>1 DEF OnPieceSaved, PieceTrackers
  <2>4. QED
    BY <1>1, <1>4, <2>1, <2>2, <2>3
<1>5. CASE ~VerifyPieceHash(pt, i)
  <2>1. Completed(pt, i) = UpdateSingle(un, i)
    BY <1>5 DEF Completed, un
  <2>2. QED
    BY <1>1, <1>2, <1>5, <2>1, UpdateMultipleResult DEF UpdateSingle
<1>6. QED
  BY <1>4, <1>5

-----------------------------------------------------------------------------
(* Type correctness *)

LEMMA InitType == Init => TypeOK
<1>1. NewTracker \in PieceTrackers
  BY TrackerAssumption DEF NewTracker, PieceTrackers, NothingBuffered, BlockData
<1>2. ASSUME Init PROVE asked \in [Peers -> [Pieces -> [Blocks -> 0 .. MaxAsked]]]
  BY <1>2, DownloadAssumption DEF Init
<1>3. ASSUME Init
      PROVE  /\ permits \in [Peers -> 0 .. MaxPermits]
             /\ checks \in [Pieces -> 0 .. MaxChecks]
  BY <1>3, DownloadAssumption DEF Init
<1>4. ASSUME Init
      PROVE  /\ pr_map \subseteq Peers
             /\ am_choked \in [Peers -> BOOLEAN]
             /\ peer_have \in [Peers -> SUBSET Pieces]
             /\ exited \in BOOLEAN
  BY <1>4 DEF Init
<1>5. ASSUME Init
      PROVE  /\ reqh \in [Peers -> {"off", "running", "panicked"}]
             /\ sending \in [Peers -> Pieces \cup {NoPiece}]
             /\ completing \in Pieces \cup {NoPiece}
             /\ latent \in Nat
             /\ downloaded \in Nat
  BY <1>5 DEF Init
<1>6. QED
  BY <1>1, <1>2, <1>3, <1>4, <1>5 DEF Init, TypeOK

\* The pieces an announcement makes the tracker look at are pieces.
LEMMA AnnouncedType ==
    ASSUME TypeOK, NEW p \in Peers, NEW S \in SUBSET Pieces
    PROVE  UpdateMultiple(pc_tracker, Announced(p, S)) \in PieceTrackers
  BY UpdateMultipleResult DEF TypeOK, Announced

LEMMA PeerComType == TypeOK /\ PeerComNext => TypeOK'
<1> SUFFICES ASSUME TypeOK, PeerComNext PROVE TypeOK'
  OBVIOUS
<1>1. ASSUME NEW p \in Peers, NEW i \in Pieces, HandleHave(p, i)
      PROVE  TypeOK'
  <2>1. pc_tracker' \in PieceTrackers
    BY <1>1, AnnouncedType DEF HandleHave
  <2>2. QED
    BY <1>1, <2>1 DEF HandleHave, TypeOK, taskVars, statVars
<1>2. ASSUME NEW p \in Peers, NEW S \in SUBSET Pieces, HandleBitfield(p, S)
      PROVE  TypeOK'
  <2>1. pc_tracker' \in PieceTrackers
    BY <1>2, AnnouncedType DEF HandleBitfield
  <2>2. QED
    BY <1>2, <2>1 DEF HandleBitfield, TypeOK, taskVars, statVars
<1>3. ASSUME NEW p \in Peers, HandleChoke(p)
      PROVE  TypeOK'
  BY <1>3 DEF HandleChoke, TypeOK, taskVars, statVars
<1>4. ASSUME NEW p \in Peers, HandleUnchoke(p)
      PROVE  TypeOK'
  <2>1. pc_tracker' \in PieceTrackers
    BY <1>4, UpdateMultipleResult DEF HandleUnchoke, HeldBack, TypeOK
  <2>2. permits[p] + Cap \in 0 .. MaxPermits
    BY <1>4, DownloadAssumption DEF HandleUnchoke, TypeOK
  <2>3. QED
    BY <1>4, <2>1, <2>2 DEF HandleUnchoke, TypeOK, taskVars, statVars
<1>5. ASSUME NEW p \in Peers, NEW i \in Pieces, NEW b \in Blocks,
             NEW data \in {"good", "bad"}, HandleBlock(p, i, b, data)
      PROVE  TypeOK'
  <2> DEFINE pt == OnBlockBuffered(pc_tracker, i, b, data)
  <2>1. pt \in PieceTrackers
    BY TrackerTypes DEF TypeOK
  <2>2. PermitsBack(pt, i) \in {0, 1}
    BY DEF PermitsBack
  <2>3. asked[p][i][b] - 1 \in 0 .. MaxAsked
    BY <1>5, DownloadAssumption DEF HandleBlock, TypeOK
  <2>4. asked' \in [Peers -> [Pieces -> [Blocks -> 0 .. MaxAsked]]]
    BY <1>5, <2>3 DEF HandleBlock, TypeOK
  <2> HIDE DEF pt
  <2>5. /\ pc_tracker' \in {pc_tracker, pt}
        /\ completing' \in {completing, i, NoPiece}
    BY <1>5 DEF HandleBlock, pt
  <2>6. permits' \in [Peers -> 0 .. MaxPermits]
    <3>1. CASE Misses(pc_tracker, i)
      <4>1. permits[p] + PermitsBack(pt, i) \in 0 .. MaxPermits
        BY <1>5, <2>2, <3>1, DownloadAssumption DEF HandleBlock, TypeOK, pt
      <4>2. permits' = [permits EXCEPT ![p] = permits[p] + PermitsBack(pt, i)]
        BY <1>5, <3>1 DEF HandleBlock, pt
      <4>3. QED
        BY <4>1, <4>2 DEF TypeOK
    <3>2. CASE ~Misses(pc_tracker, i)
      BY <1>5, <3>2 DEF HandleBlock, TypeOK
    <3>3. QED
      BY <3>1, <3>2
  <2>7. QED
    BY <1>5, <2>1, <2>4, <2>5, <2>6 DEF HandleBlock, TypeOK, statVars
<1>6. ASSUME NEW i \in Pieces, CompletePiece(i)
      PROVE  TypeOK'
  <2>1. pc_tracker' \in PieceTrackers
    BY <1>6, CompletedType DEF CompletePiece, TypeOK
  <2>2. latent' \in Nat
    BY <1>6 DEF CompletePiece, TypeOK
  <2>3. QED
    BY <1>6, <2>1, <2>2 DEF CompletePiece, TypeOK, peerVars
<1>7. CASE PeerComPanics
  BY <1>7 DEF PeerComPanics, TypeOK, peerVars, statVars
<1>8. QED
  BY <1>1, <1>2, <1>3, <1>4, <1>5, <1>6, <1>7 DEF PeerComNext, Answers

LEMMA RequestsType == TypeOK /\ RequestsNext => TypeOK'
<1> SUFFICES ASSUME TypeOK, RequestsNext PROVE TypeOK'
  OBVIOUS
<1>1. ASSUME NEW p \in Peers, Register(p)
      PROVE  TypeOK'
  BY <1>1 DEF Register, TypeOK, statVars
<1>2. ASSUME NEW p \in Peers, NEW i \in Pieces, RequestPiece(p, i)
      PROVE  TypeOK'
  <2>1. pc_tracker' \in PieceTrackers
    <3>1. PICK b \in Blocks : TRUE
      BY TrackerAssumption
    <3>2. QED
      BY <1>2, <3>1, TrackerTypes DEF RequestPiece, TypeOK
  <2>2. permits' \in [Peers -> 0 .. MaxPermits]
    BY <1>2, DownloadAssumption DEF RequestPiece, HasPermit, TypeOK
  <2>3. [b \in Blocks |-> asked[p][i][b] + 1] \in [Blocks -> 0 .. MaxAsked]
    BY <1>2, DownloadAssumption DEF RequestPiece, TypeOK
  <2>4. asked' \in [Peers -> [Pieces -> [Blocks -> 0 .. MaxAsked]]]
    BY <1>2, <2>3 DEF RequestPiece, TypeOK
  <2>5. QED
    BY <1>2, <2>1, <2>2, <2>4 DEF RequestPiece, TypeOK, statVars
<1>3. ASSUME NEW p \in Peers, SpawnDelayedCheck(p)
      PROVE  TypeOK'
  <2>1. sending[p] \in Pieces
    BY <1>3 DEF SpawnDelayedCheck, TypeOK
  <2>2. checks' \in [Pieces -> 0 .. MaxChecks]
    <3>1. CASE TimeoutUnderflows(p)
      BY <1>3, <3>1 DEF SpawnDelayedCheck, TypeOK
    <3>2. CASE ~TimeoutUnderflows(p)
      <4>1. checks[sending[p]] + 1 \in 0 .. MaxChecks
        BY <1>3, <2>1, <3>2, DownloadAssumption DEF SpawnDelayedCheck, TypeOK
      <4>2. QED
        BY <1>3, <3>2, <4>1 DEF SpawnDelayedCheck, TypeOK
    <3>3. QED
      BY <3>1, <3>2
  <2>3. reqh' \in [Peers -> {"off", "running", "panicked"}]
    BY <1>3 DEF SpawnDelayedCheck, TypeOK
  <2>4. QED
    BY <1>3, <2>2, <2>3 DEF SpawnDelayedCheck, TypeOK, peerVars, statVars
<1>4. ASSUME NEW i \in Pieces, DelayedCheck(i)
      PROVE  TypeOK'
  <2>1. pc_tracker' \in PieceTrackers
    BY <1>4, GiveUpResult DEF DelayedCheck, TypeOK
  <2>2. checks' \in [Pieces -> 0 .. MaxChecks]
    BY <1>4, DownloadAssumption DEF DelayedCheck, TypeOK
  <2>3. QED
    BY <1>4, <2>1, <2>2 DEF DelayedCheck, TypeOK, peerVars, statVars
<1>5. QED
  BY <1>1, <1>2, <1>3, <1>4 DEF RequestsNext

LEMMA NextType == TypeOK /\ [Next]_vars => TypeOK'
<1> SUFFICES ASSUME TypeOK, [Next]_vars PROVE TypeOK'
  OBVIOUS
<1>1. CASE PeerComNext
  BY <1>1, PeerComType
<1>2. CASE RequestsNext
  BY <1>2, RequestsType
<1>3. CASE PrintStats
  BY <1>3 DEF PrintStats, TypeOK, peerVars, taskVars
<1>4. ASSUME NEW p \in Peers, NEW i \in Pieces, NEW b \in Blocks, DropRequest(p, i, b)
      PROVE  TypeOK'
  <2>1. asked[p][i][b] - 1 \in 0 .. MaxAsked
    BY <1>4, DownloadAssumption DEF DropRequest, TypeOK
  <2>2. asked' \in [Peers -> [Pieces -> [Blocks -> 0 .. MaxAsked]]]
    BY <1>4, <2>1 DEF DropRequest, TypeOK
  <2>3. QED
    BY <1>4, <2>2 DEF DropRequest, TypeOK, peerVars, taskVars, statVars
<1>5. CASE UNCHANGED vars
  BY <1>5 DEF vars, peerVars, taskVars, statVars, TypeOK
<1>6. QED
  BY <1>1, <1>2, <1>3, <1>4, <1>5 DEF Next

\* The shared state of the tasks keeps its types, and the bounded counters stay
\* within their bounds, in every reachable state.
THEOREM TypeCorrect == Spec => []TypeOK
  BY InitType, NextType, PTL DEF Spec

-----------------------------------------------------------------------------
(* The stages of the pieces *)

\* The inductive invariant.  A piece that completes must have been asked for,
\* and a piece that was asked for must still be known to the tracker: without
\* the two parts of StagesAgree a saved piece could come from nowhere.
StagesInv == TypeOK /\ NeededNotReserved /\ StagesAgree

\* What every step does to the tracker: no piece gets lost, no saved piece is
\* taken back, and needed and requested stay apart.
StageStep ==
    /\ Tracked \subseteq Tracked'
    /\ pc_tracker.have \subseteq pc_tracker'.have
    /\ NeededNotReserved'

\* The ways a step may change the stages of the pieces.
Announces(S) ==
    /\ pc_tracker'.needed = pc_tracker.needed \cup {i \in S : MayNeed(pc_tracker, i)}
    /\ pc_tracker'.requested = pc_tracker.requested
    /\ pc_tracker'.have = pc_tracker.have

Reserves(i) ==
    /\ i \in pc_tracker.needed
    /\ pc_tracker'.needed = pc_tracker.needed \ {i}
    /\ pc_tracker'.requested = pc_tracker.requested \cup {i}
    /\ pc_tracker'.have = pc_tracker.have

GivesUp(i) ==
    /\ i \notin pc_tracker.have
    /\ i \in Tracked
    /\ pc_tracker'.needed = pc_tracker.needed \cup {i}
    /\ pc_tracker'.requested = pc_tracker.requested \ {i}
    /\ pc_tracker'.have = pc_tracker.have

Saves(i) ==
    /\ i \notin pc_tracker.have
    /\ i \in Tracked
    /\ pc_tracker'.needed = pc_tracker.needed
    /\ pc_tracker'.requested = pc_tracker.requested \ {i}
    /\ pc_tracker'.have = pc_tracker.have \cup {i}

KeepsStages ==
    /\ pc_tracker'.needed = pc_tracker.needed
    /\ pc_tracker'.requested = pc_tracker.requested
    /\ pc_tracker'.have = pc_tracker.have

\* What the statistics have been told of.
Counts(n) == latent' + downloaded' = latent + downloaded + n

LEMMA StageStepResult ==
    ASSUME StagesInv,
           \/ \E S \in SUBSET Pieces : Announces(S)
           \/ \E i \in Pieces : Reserves(i) \/ GivesUp(i) \/ Saves(i)
           \/ KeepsStages
    PROVE  StageStep
<1>1. ASSUME NEW S \in SUBSET Pieces, Announces(S) PROVE StageStep
  BY <1>1 DEF Announces, StageStep, Tracked, StagesInv, NeededNotReserved, MayNeed
<1>2. ASSUME NEW i \in Pieces, Reserves(i) PROVE StageStep
  BY <1>2 DEF Reserves, StageStep, Tracked, StagesInv, NeededNotReserved
<1>3. ASSUME NEW i \in Pieces, GivesUp(i) PROVE StageStep
  BY <1>3 DEF GivesUp, StageStep, Tracked, StagesInv, NeededNotReserved
<1>4. ASSUME NEW i \in Pieces, Saves(i) PROVE StageStep
  BY <1>4 DEF Saves, StageStep, Tracked, StagesInv, NeededNotReserved
<1>5. CASE KeepsStages
  BY <1>5 DEF KeepsStages, StageStep, Tracked, StagesInv, NeededNotReserved
<1>6. QED
  BY <1>1, <1>2, <1>3, <1>4, <1>5

\* Every handler is one of those ways, and only saving counts.

LEMMA AnnounceStages ==
    ASSUME StagesInv, NEW p \in Peers, NEW S \in SUBSET Pieces,
           pc_tracker' = UpdateMultiple(pc_tracker, S)
    PROVE  Announces(S)
  BY UpdateMultipleResult DEF StagesInv, TypeOK, Announces

LEMMA BlockStages ==
    ASSUME StagesInv, NEW p \in Peers, NEW i \in Pieces, NEW b \in Blocks,
           NEW data \in {"good", "bad"}, HandleBlock(p, i, b, data)
    PROVE  KeepsStages /\ Counts(0)
<1>1. \/ pc_tracker' = pc_tracker
      \/ pc_tracker' = OnBlockBuffered(pc_tracker, i, b, data)
  BY DEF HandleBlock
<1>2. KeepsStages
  BY <1>1 DEF KeepsStages, OnBlockBuffered, StagesInv, TypeOK, PieceTrackers
<1>3. Counts(0)
  BY DEF HandleBlock, statVars, Counts, StagesInv, TypeOK
<1>4. QED
  BY <1>2, <1>3

LEMMA CompleteStages ==
    ASSUME StagesInv, NEW i \in Pieces, CompletePiece(i)
    PROVE  (Saves(i) /\ Counts(1)) \/ (GivesUp(i) /\ Counts(0))
<1>1. i \in Pieces \ pc_tracker.have /\ i \in Tracked
  BY DownloadAssumption DEF CompletePiece, StagesInv, StagesAgree, CompletingMissing
<1>2. pc_tracker \in PieceTrackers /\ pc_tracker' = Completed(pc_tracker, i)
  BY DEF CompletePiece, StagesInv, TypeOK
<1>3. CASE VerifyPieceHash(pc_tracker, i)
  <2>1. Saves(i)
    BY <1>1, <1>2, <1>3, CompletedResult DEF Saves
  <2>2. Counts(1)
    BY <1>3 DEF CompletePiece, Counts, StagesInv, TypeOK
  <2>3. QED
    BY <2>1, <2>2
<1>4. CASE ~VerifyPieceHash(pc_tracker, i)
  <2>1. GivesUp(i)
    BY <1>1, <1>2, <1>4, CompletedResult DEF GivesUp
  <2>2. Counts(0)
    BY <1>4 DEF CompletePiece, Counts, StagesInv, TypeOK
  <2>3. QED
    BY <2>1, <2>2
<1>5. QED
  BY <1>3, <1>4

LEMMA RequestStages ==
    ASSUME StagesInv, NEW p \in Peers, NEW i \in Pieces, RequestPiece(p, i)
    PROVE  Reserves(i) /\ Counts(0)
<1>1. Reserves(i)
  BY DEF RequestPiece, ReservePiece, Reserves, StagesInv, TypeOK, PieceTrackers
<1>2. Counts(0)
  BY DEF RequestPiece, statVars, Counts, StagesInv, TypeOK
<1>3. QED
  BY <1>1, <1>2

LEMMA CheckStages ==
    ASSUME StagesInv, NEW i \in Pieces, DelayedCheck(i)
    PROVE  (GivesUp(i) \/ KeepsStages) /\ Counts(0)
<1>1. CASE i \in pc_tracker.requested /\ i \notin pc_tracker.have
  <2>1. pc_tracker' = GiveUp(pc_tracker, i)
    BY <1>1 DEF DelayedCheck
  <2>2. QED
    BY <1>1, <2>1, GiveUpResult
    DEF GivesUp, Tracked, DelayedCheck, statVars, Counts, StagesInv, TypeOK
<1>2. CASE ~(i \in pc_tracker.requested /\ i \notin pc_tracker.have)
  BY <1>2 DEF DelayedCheck, KeepsStages, statVars, Counts, StagesInv, TypeOK
<1>3. QED
  BY <1>1, <1>2

\* Every step of the specification.
LEMMA NextStages ==
    ASSUME StagesInv, [Next]_vars
    PROVE  \/ \E S \in SUBSET Pieces : Announces(S) /\ Counts(0)
           \/ \E i \in Pieces : \/ Reserves(i) /\ Counts(0)
                                \/ GivesUp(i) /\ Counts(0)
                                \/ Saves(i) /\ Counts(1)
           \/ KeepsStages /\ Counts(0)
<1> DEFINE Goal == \/ \E S \in SUBSET Pieces : Announces(S) /\ Counts(0)
                   \/ \E i \in Pieces : \/ Reserves(i) /\ Counts(0)
                                        \/ GivesUp(i) /\ Counts(0)
                                        \/ Saves(i) /\ Counts(1)
                   \/ KeepsStages /\ Counts(0)
<1> SUFFICES Goal
  OBVIOUS
<1>1. ASSUME UNCHANGED <<latent, downloaded>> PROVE Counts(0)
  BY <1>1 DEF Counts, StagesInv, TypeOK
<1>2. ASSUME NEW p \in Peers, NEW S \in SUBSET Pieces,
             pc_tracker' = UpdateMultiple(pc_tracker, Announced(p, S)),
             UNCHANGED statVars
      PROVE  Goal
  <2>1. Announced(p, S) \in SUBSET Pieces
    BY DEF Announced
  <2>2. Announces(Announced(p, S))
    BY <1>2, <2>1, AnnounceStages
  <2>3. QED
    BY <1>1, <1>2, <2>1, <2>2 DEF statVars
<1>3. CASE PeerComNext
  <2>1. ASSUME NEW p \in Peers, NEW i \in Pieces, HandleHave(p, i) PROVE Goal
    <3>1. {i} \in SUBSET Pieces
      OBVIOUS
    <3>2. QED
      BY <1>2, <2>1, <3>1 DEF HandleHave
  <2>2. ASSUME NEW p \in Peers, NEW S \in SUBSET Pieces, HandleBitfield(p, S) PROVE Goal
    BY <1>2, <2>2 DEF HandleBitfield
  <2>3. ASSUME NEW p \in Peers, HandleChoke(p) PROVE Goal
    BY <1>1, <2>3 DEF HandleChoke, statVars, KeepsStages
  <2>4. ASSUME NEW p \in Peers, HandleUnchoke(p) PROVE Goal
    <3>1. peer_have[p] \in SUBSET Pieces
      BY DEF StagesInv, TypeOK
    <3>2. Announces(peer_have[p])
      BY <2>4, <3>1, AnnounceStages DEF HandleUnchoke, HeldBack
    <3>3. QED
      BY <1>1, <2>4, <3>1, <3>2 DEF HandleUnchoke, statVars
  <2>5. ASSUME NEW p \in Peers, NEW i \in Pieces, NEW b \in Blocks,
               NEW data \in {"good", "bad"}, HandleBlock(p, i, b, data)
        PROVE  Goal
    BY <2>5, BlockStages
  <2>6. ASSUME NEW i \in Pieces, CompletePiece(i) PROVE Goal
    BY <2>6, CompleteStages
  <2>7. CASE PeerComPanics
    BY <1>1, <2>7 DEF PeerComPanics, statVars, KeepsStages
  <2> HIDE DEF Goal
  <2>8. QED
    BY <1>3, <2>1, <2>2, <2>3, <2>4, <2>5, <2>6, <2>7 DEF PeerComNext, Answers
<1>4. CASE RequestsNext
  <2>1. ASSUME NEW p \in Peers, Register(p) PROVE Goal
    BY <1>1, <2>1 DEF Register, statVars, KeepsStages
  <2>2. ASSUME NEW p \in Peers, NEW i \in Pieces, RequestPiece(p, i) PROVE Goal
    BY <2>2, RequestStages
  <2>3. ASSUME NEW p \in Peers, SpawnDelayedCheck(p) PROVE Goal
    BY <1>1, <2>3 DEF SpawnDelayedCheck, statVars, KeepsStages
  <2>4. ASSUME NEW i \in Pieces, DelayedCheck(i) PROVE Goal
    BY <2>4, CheckStages
  <2> HIDE DEF Goal
  <2>5. QED
    BY <1>4, <2>1, <2>2, <2>3, <2>4 DEF RequestsNext
<1>5. CASE PrintStats
  <2>1. Counts(0)
    BY <1>5 DEF PrintStats, Counts, StagesInv, TypeOK
  <2>2. KeepsStages
    BY <1>5 DEF PrintStats, KeepsStages
  <2>3. QED
    BY <2>1, <2>2
<1>6. ASSUME NEW p \in Peers, NEW i \in Pieces, NEW b \in Blocks, DropRequest(p, i, b)
      PROVE  Goal
  BY <1>1, <1>6 DEF DropRequest, statVars, KeepsStages
<1>7. CASE UNCHANGED vars
  BY <1>1, <1>7 DEF vars, statVars, KeepsStages
<1> HIDE DEF Goal
<1>8. QED
  BY <1>3, <1>4, <1>5, <1>6, <1>7 DEF Next

-----------------------------------------------------------------------------
(* StagesInv is inductive *)

LEMMA NextStageStep ==
    ASSUME StagesInv, [Next]_vars
    PROVE  StageStep
  BY NextStages, StageStepResult

\* An answer is asked for only with the reservation of its piece.
LEMMA NextAnswersTracked ==
    ASSUME StagesInv, [Next]_vars
    PROVE  AnswersTracked'
<1> SUFFICES ASSUME NEW q \in Peers, NEW j \in Pieces, NEW c \in Blocks,
                    asked'[q][j][c] > 0
             PROVE  j \in Tracked'
  BY DEF AnswersTracked
<1>1. Tracked \subseteq Tracked'
  BY NextStageStep DEF StageStep
<1>2. asked[q][j][c] > 0 => j \in Tracked
  BY DEF StagesInv, StagesAgree, AnswersTracked
<1>3. asked \in [Peers -> [Pieces -> [Blocks -> Nat]]]
  BY DownloadAssumption DEF StagesInv, TypeOK
<1>4. CASE UNCHANGED asked
  BY <1>1, <1>2, <1>4
<1>5. ASSUME NEW p \in Peers, NEW i \in Pieces, NEW b \in Blocks,
             asked[p][i][b] > 0, asked' = [asked EXCEPT ![p][i][b] = @ - 1]
      PROVE  j \in Tracked'
  <2>1. asked[q][j][c] > 0
    BY <1>3, <1>5
  <2>2. QED
    BY <1>1, <1>2, <2>1
<1>6. ASSUME NEW p \in Peers, NEW i \in Pieces, RequestPiece(p, i)
      PROVE  j \in Tracked'
  <2>1. CASE j = i
    BY <1>6, <2>1, RequestStages DEF Reserves, Tracked
  <2>2. CASE j # i
    <3>1. asked'[q][j][c] = asked[q][j][c]
      BY <1>3, <1>6, <2>2 DEF RequestPiece
    <3>2. QED
      BY <1>1, <1>2, <3>1
  <2>3. QED
    BY <2>1, <2>2
<1>7. CASE PeerComNext
  <2>1. ASSUME NEW p \in Peers, NEW i \in Pieces, NEW b \in Blocks,
               NEW data \in {"good", "bad"}, HandleBlock(p, i, b, data)
        PROVE  j \in Tracked'
    BY <1>5, <2>1 DEF HandleBlock
  <2>2. QED
    BY <1>4, <1>7, <2>1
    DEF PeerComNext, Answers, HandleHave, HandleBitfield, HandleChoke,
        HandleUnchoke, CompletePiece, PeerComPanics
<1>8. CASE RequestsNext
  BY <1>4, <1>6, <1>8
  DEF RequestsNext, Register, SpawnDelayedCheck, DelayedCheck
<1>9. CASE PrintStats \/ UNCHANGED vars
  BY <1>4, <1>9 DEF PrintStats, vars
<1>10. CASE \E p \in Peers, i \in Pieces, b \in Blocks : DropRequest(p, i, b)
  BY <1>5, <1>10 DEF DropRequest
<1>11. QED
  BY <1>7, <1>8, <1>9, <1>10 DEF Next

\* Only peer_com saves pieces, and it completes one before it takes the next.
LEMMA NextCompletingMissing ==
    ASSUME StagesInv, [Next]_vars
    PROVE  CompletingMissing'
<1> SUFFICES ASSUME completing' # NoPiece
             PROVE  completing' \in Tracked' \ pc_tracker'.have
  BY DEF CompletingMissing
<1>1. Tracked \subseteq Tracked'
  BY NextStageStep DEF StageStep
<1>2. ASSUME UNCHANGED completing, pc_tracker'.have = pc_tracker.have
      PROVE  completing' \in Tracked' \ pc_tracker'.have
  BY <1>1, <1>2 DEF StagesInv, StagesAgree, CompletingMissing
<1>3. CASE PeerComNext
  <2>1. ASSUME NEW p \in Peers, NEW i \in Pieces, NEW b \in Blocks,
               NEW data \in {"good", "bad"}, HandleBlock(p, i, b, data)
        PROVE  completing' \in Tracked' \ pc_tracker'.have
    <3>1. pc_tracker'.have = pc_tracker.have
      BY <2>1, BlockStages DEF KeepsStages
    <3>2. CASE Misses(pc_tracker, i)
      <4>1. completing' = i
        BY <2>1, <3>2 DEF HandleBlock
      <4>2. i \in Tracked
        BY <2>1 DEF HandleBlock, StagesInv, StagesAgree, AnswersTracked
      <4>3. QED
        BY <1>1, <3>1, <3>2, <4>1, <4>2 DEF Misses
    <3>3. CASE ~Misses(pc_tracker, i)
      BY <1>2, <2>1, <3>1, <3>3 DEF HandleBlock
    <3>4. QED
      BY <3>2, <3>3
  <2>2. ASSUME NEW i \in Pieces, CompletePiece(i) PROVE FALSE
    BY <2>2 DEF CompletePiece
  <2>3. ASSUME NEW S \in SUBSET Pieces, pc_tracker' = UpdateMultiple(pc_tracker, S)
        PROVE  pc_tracker'.have = pc_tracker.have
    BY <2>3, UpdateMultipleResult DEF StagesInv, TypeOK
  <2>4. ASSUME NEW p \in Peers, NEW i \in Pieces, HandleHave(p, i)
        PROVE  completing' \in Tracked' \ pc_tracker'.have
    BY <1>2, <2>3, <2>4 DEF HandleHave, Announced, taskVars
  <2>5. ASSUME NEW p \in Peers, NEW S \in SUBSET Pieces, HandleBitfield(p, S)
        PROVE  completing' \in Tracked' \ pc_tracker'.have
    BY <1>2, <2>3, <2>5 DEF HandleBitfield, Announced, taskVars
  <2>6. ASSUME NEW p \in Peers, HandleUnchoke(p)
        PROVE  completing' \in Tracked' \ pc_tracker'.have
    <3>1. peer_have[p] \in SUBSET Pieces
      BY DEF StagesInv, TypeOK
    <3>2. QED
      BY <1>2, <2>3, <2>6, <3>1 DEF HandleUnchoke, HeldBack, taskVars
  <2>7. ASSUME NEW p \in Peers, HandleChoke(p)
        PROVE  completing' \in Tracked' \ pc_tracker'.have
    BY <1>2, <2>7 DEF HandleChoke, taskVars
  <2>8. CASE PeerComPanics
    BY <1>2, <2>8 DEF PeerComPanics
  <2>9. QED
    BY <1>3, <2>1, <2>2, <2>4, <2>5, <2>6, <2>7, <2>8 DEF PeerComNext, Answers
<1>4. CASE RequestsNext
  <2>1. ASSUME NEW p \in Peers, NEW i \in Pieces, RequestPiece(p, i)
        PROVE  completing' \in Tracked' \ pc_tracker'.have
    BY <1>2, <2>1, RequestStages DEF RequestPiece, Reserves
  <2>2. ASSUME NEW i \in Pieces, DelayedCheck(i)
        PROVE  completing' \in Tracked' \ pc_tracker'.have
    BY <1>2, <2>2, CheckStages DEF DelayedCheck, GivesUp, KeepsStages
  <2>3. QED
    BY <1>2, <1>4, <2>1, <2>2 DEF RequestsNext, Register, SpawnDelayedCheck
<1>5. CASE PrintStats \/ UNCHANGED vars
  BY <1>2, <1>5 DEF PrintStats, vars, taskVars
<1>6. CASE \E p \in Peers, i \in Pieces, b \in Blocks : DropRequest(p, i, b)
  BY <1>2, <1>6 DEF DropRequest, taskVars
<1>7. QED
  BY <1>3, <1>4, <1>5, <1>6 DEF Next

LEMMA InitStages == Init => StagesInv
<1>1. Init => NeededNotReserved
  BY DEF Init, NewTracker, NeededNotReserved
<1>2. Init => AnswersTracked
  BY DEF Init, AnswersTracked
<1>3. Init => CompletingMissing
  BY DEF Init, CompletingMissing
<1>4. QED
  BY <1>1, <1>2, <1>3, InitType DEF StagesInv, StagesAgree

LEMMA NextStagesInv == StagesInv /\ [Next]_vars => StagesInv'
<1> SUFFICES ASSUME StagesInv, [Next]_vars PROVE StagesInv'
  OBVIOUS
<1>1. TypeOK'
  BY NextType DEF StagesInv
<1>2. NeededNotReserved'
  BY NextStageStep DEF StageStep
<1>3. AnswersTracked'
  BY NextAnswersTracked
<1>4. CompletingMissing'
  BY NextCompletingMissing
<1>5. QED
  BY <1>1, <1>2, <1>3, <1>4 DEF StagesInv, StagesAgree

LEMMA StagesInvariant == Spec => []StagesInv
  BY InitStages, NextStagesInv, PTL DEF Spec

\* A reserved piece is never offered to another request task, whatever Have
\* messages, failed verifications and delayed checks arrive meanwhile.
THEOREM ReservationsRespected == Spec => []NeededNotReserved
<1>1. StagesInv => NeededNotReserved
  BY DEF StagesInv
<1>2. QED
  BY <1>1, StagesInvariant, PTL

\* Answers on their way and the piece up for verification agree with the stages
\* the tracker has their pieces in.
THEOREM HandsAgreeWithTracker == Spec => []StagesAgree
<1>1. StagesInv => StagesAgree
  BY DEF StagesInv
<1>2. QED
  BY <1>1, StagesInvariant, PTL

-----------------------------------------------------------------------------
(* No piece is forgotten *)

\* What is announced to the tracker is known to it afterwards.
LEMMA AnnouncedTracked ==
    ASSUME StagesInv, NEW S \in SUBSET Pieces,
           pc_tracker' = UpdateMultiple(pc_tracker, S)
    PROVE  S \subseteq Tracked'
  BY UpdateMultipleResult DEF StagesInv, TypeOK, Tracked, MayNeed

LEMMA NextNoPieceForgotten ==
    ASSUME StagesInv, NoPieceForgotten, [Next]_vars
    PROVE  NoPieceForgotten'
<1> SUFFICES ASSUME NEW q \in Peers, ~am_choked'[q]
             PROVE  peer_have'[q] \subseteq Tracked'
  BY DEF NoPieceForgotten
<1>1. Tracked \subseteq Tracked'
  BY NextStageStep DEF StageStep
<1>2. ASSUME ~am_choked[q], peer_have'[q] = peer_have[q]
      PROVE  peer_have'[q] \subseteq Tracked'
  BY <1>1, <1>2 DEF NoPieceForgotten
<1>3. /\ am_choked \in [Peers -> BOOLEAN]
      /\ peer_have \in [Peers -> SUBSET Pieces]
  BY DEF StagesInv, TypeOK
<1>4. ASSUME NEW p \in Peers, NEW i \in Pieces, HandleHave(p, i)
      PROVE  peer_have'[q] \subseteq Tracked'
  <2>1. CASE p = q
    <3>1. {i} \subseteq Tracked'
      BY <1>4, <2>1, AnnouncedTracked DEF HandleHave, Announced
    <3>2. peer_have[q] \subseteq Tracked'
      BY <1>1, <1>4 DEF HandleHave, NoPieceForgotten
    <3>3. QED
      BY <1>3, <1>4, <2>1, <3>1, <3>2 DEF HandleHave
  <2>2. CASE p # q
    BY <1>2, <1>3, <1>4, <2>2 DEF HandleHave
  <2>3. QED
    BY <2>1, <2>2
<1>5. ASSUME NEW p \in Peers, NEW S \in SUBSET Pieces, HandleBitfield(p, S)
      PROVE  peer_have'[q] \subseteq Tracked'
  <2>1. CASE p = q
    <3>1. S \subseteq Tracked'
      BY <1>5, <2>1, AnnouncedTracked DEF HandleBitfield, Announced
    <3>2. QED
      BY <1>3, <1>5, <2>1, <3>1 DEF HandleBitfield
  <2>2. CASE p # q
    BY <1>2, <1>3, <1>5, <2>2 DEF HandleBitfield
  <2>3. QED
    BY <2>1, <2>2
<1>6. ASSUME NEW p \in Peers, HandleChoke(p)
      PROVE  peer_have'[q] \subseteq Tracked'
  BY <1>2, <1>3, <1>6 DEF HandleChoke
<1>7. ASSUME NEW p \in Peers, HandleUnchoke(p)
      PROVE  peer_have'[q] \subseteq Tracked'
  <2>1. CASE p = q
    <3>1. peer_have[p] \subseteq Tracked'
      BY <1>3, <1>7, AnnouncedTracked DEF HandleUnchoke, HeldBack
    <3>2. QED
      BY <1>7, <2>1, <3>1 DEF HandleUnchoke
  <2>2. CASE p # q
    BY <1>2, <1>3, <1>7, <2>2 DEF HandleUnchoke
  <2>3. QED
    BY <2>1, <2>2
<1>8. CASE UNCHANGED <<am_choked, peer_have>>
  BY <1>2, <1>8
<1>9. CASE PeerComNext
  <2>1. ASSUME NEW p \in Peers, NEW i \in Pieces, NEW b \in Blocks,
               NEW data \in {"good", "bad"}, HandleBlock(p, i, b, data)
        PROVE  peer_have'[q] \subseteq Tracked'
    BY <1>8, <2>1 DEF HandleBlock
  <2>2. ASSUME (\E i \in Pieces : CompletePiece(i)) \/ PeerComPanics
        PROVE  peer_have'[q] \subseteq Tracked'
    BY <1>8, <2>2 DEF CompletePiece, PeerComPanics, peerVars
  <2>3. QED
    BY <1>4, <1>5, <1>6, <1>7, <1>9, <2>1, <2>2 DEF PeerComNext, Answers
<1>10. CASE RequestsNext
  BY <1>8, <1>10
  DEF RequestsNext, Register, RequestPiece, SpawnDelayedCheck, DelayedCheck, peerVars
<1>11. CASE PrintStats \/ UNCHANGED vars
  BY <1>8, <1>11 DEF PrintStats, vars, peerVars
<1>12. CASE \E p \in Peers, i \in Pieces, b \in Blocks : DropRequest(p, i, b)
  BY <1>8, <1>12 DEF DropRequest, peerVars
<1>13. QED
  BY <1>9, <1>10, <1>11, <1>12 DEF Next

\* A piece that a peer which lets us ask has announced stays known to the
\* tracker, in whatever order announcements, chokes, failed verifications and
\* delayed checks come.
THEOREM NothingForgotten == Spec => []NoPieceForgotten
<1>1. Init => NoPieceForgotten
  BY DEF Init, NoPieceForgotten
<1>2. StagesInv /\ NoPieceForgotten /\ [Next]_vars => NoPieceForgotten'
  BY NextNoPieceForgotten
<1>3. QED
  BY <1>1, <1>2, StagesInvariant, PTL DEF Spec

-----------------------------------------------------------------------------
(* Every saved piece is counted once *)

LEMMA NextCountedOnce ==
    ASSUME StagesInv, CountedOnce, [Next]_vars
    PROVE  CountedOnce'
<1>1. IsFiniteSet(pc_tracker.have)
  <2>1. pc_tracker.have \subseteq Pieces
    BY DEF StagesInv, TypeOK, PieceTrackers
  <2>2. QED
    BY <2>1, DownloadAssumption, FS_Subset
<1>2. ASSUME NEW i \in Pieces, Saves(i), Counts(1)
      PROVE  CountedOnce'
  <2>1. Cardinality(pc_tracker.have \cup {i}) = Cardinality(pc_tracker.have) + 1
    BY <1>1, <1>2, FS_AddElement DEF Saves
  <2>2. QED
    BY <1>2, <2>1 DEF Saves, Counts, CountedOnce, StagesInv, TypeOK
<1>3. ASSUME pc_tracker'.have = pc_tracker.have, Counts(0)
      PROVE  CountedOnce'
  BY <1>3 DEF Counts, CountedOnce, StagesInv, TypeOK
<1>4. QED
  BY <1>2, <1>3, NextStages DEF Announces, Reserves, GivesUp, KeepsStages

\* The statistics count a piece exactly once, however many times late answers,
\* retries and failed verifications deliver it.
THEOREM EachPieceCountedOnce == Spec => []CountedOnce
<1>1. Init => CountedOnce
  BY FS_EmptySet DEF Init, NewTracker, CountedOnce
<1>2. StagesInv /\ CountedOnce /\ [Next]_vars => CountedOnce'
  BY NextCountedOnce
<1>3. QED
  BY <1>1, <1>2, StagesInvariant, PTL DEF Spec

-----------------------------------------------------------------------------
(* Download implements PieceLifecycle *)

LEMMA InitLifecycle == Init => Lifecycle!Init
  BY DEF Init, NewTracker, Lifecycle!Init, Status, StatusOf

LEMMA AnnounceRefines ==
    ASSUME StagesInv, NEW S \in SUBSET Pieces, Announces(S), Counts(0)
    PROVE  Lifecycle!Next
<1> DEFINE Fresh == {i \in S : StatusOf(i) = "unknown"}
<1>1. \A i \in Pieces : StatusOf(i)' = IF i \in Fresh THEN "wanted" ELSE StatusOf(i)
  BY DEF Announces, StatusOf, MayNeed
<1>2. Status' = [i \in Pieces |-> IF i \in Fresh THEN "wanted" ELSE Status[i]]
  BY <1>1 DEF Status
<1>3. \A i \in Fresh : Status[i] = "unknown"
  BY DEF Status
<1>4. (latent + downloaded)' = latent + downloaded
  BY DEF Counts, StagesInv, TypeOK
<1>5. Fresh \in SUBSET Pieces
  OBVIOUS
<1> HIDE DEF Fresh
<1>6. Lifecycle!Announce(Fresh)
  BY <1>2, <1>3, <1>4 DEF Lifecycle!Announce
<1>7. QED
  BY <1>5, <1>6 DEF Lifecycle!Next

LEMMA ReserveRefines ==
    ASSUME StagesInv, NEW i \in Pieces, Reserves(i), Counts(0)
    PROVE  [Lifecycle!Next]_(Lifecycle!vars)
<1>1. (latent + downloaded)' = latent + downloaded
  BY DEF Counts, StagesInv, TypeOK
<1>2. i \notin pc_tracker.requested
  BY DEF Reserves, StagesInv, NeededNotReserved
<1>3. CASE i \in pc_tracker.have
  <2>1. Status' = Status
    BY <1>3 DEF Reserves, Status, StatusOf
  <2>2. QED
    BY <1>1, <2>1 DEF Lifecycle!vars
<1>4. CASE i \notin pc_tracker.have
  <2>1. Status[i] = "wanted"
    BY <1>2, <1>4 DEF Reserves, Status, StatusOf
  <2>2. Status' = [Status EXCEPT ![i] = "reserved"]
    BY <1>4 DEF Reserves, Status, StatusOf
  <2>3. Lifecycle!Reserve(i)
    BY <1>1, <2>1, <2>2 DEF Lifecycle!Reserve
  <2>4. QED
    BY <2>3 DEF Lifecycle!Next
<1>5. QED
  BY <1>3, <1>4

LEMMA GiveUpRefines ==
    ASSUME StagesInv, NEW i \in Pieces, GivesUp(i), Counts(0)
    PROVE  [Lifecycle!Next]_(Lifecycle!vars)
<1>1. (latent + downloaded)' = latent + downloaded
  BY DEF Counts, StagesInv, TypeOK
<1>2. CASE i \in pc_tracker.requested
  <2>1. Status[i] = "reserved"
    BY <1>2 DEF GivesUp, Status, StatusOf
  <2>2. Status' = [Status EXCEPT ![i] = "wanted"]
    BY <1>2 DEF GivesUp, Status, StatusOf
  <2>3. Lifecycle!GiveUp(i)
    BY <1>1, <2>1, <2>2 DEF Lifecycle!GiveUp
  <2>4. QED
    BY <2>3 DEF Lifecycle!Next
<1>3. CASE i \notin pc_tracker.requested
  <2>1. Status' = Status
    BY <1>3 DEF GivesUp, Tracked, Status, StatusOf
  <2>2. QED
    BY <1>1, <2>1 DEF Lifecycle!vars
<1>4. QED
  BY <1>2, <1>3

LEMMA SaveRefines ==
    ASSUME StagesInv, NEW i \in Pieces, Saves(i), Counts(1)
    PROVE  Lifecycle!Next
<1>1. (latent + downloaded)' = latent + downloaded + 1
  BY DEF Counts, StagesInv, TypeOK
<1>2. Status[i] \in {"wanted", "reserved"}
  BY DEF Saves, Tracked, Status, StatusOf
<1>3. Status' = [Status EXCEPT ![i] = "saved"]
  BY DEF Saves, Status, StatusOf
<1>4. Lifecycle!Save(i)
  BY <1>1, <1>2, <1>3 DEF Lifecycle!Save
<1>5. QED
  BY <1>4 DEF Lifecycle!Next

LEMMA NextLifecycle ==
    ASSUME StagesInv, [Next]_vars
    PROVE  [Lifecycle!Next]_(Lifecycle!vars)
<1>1. CASE KeepsStages /\ Counts(0)
  BY <1>1 DEF KeepsStages, Counts, StagesInv, TypeOK, Status, StatusOf, Lifecycle!vars
<1>2. QED
  BY <1>1, NextStages, AnnounceRefines, ReserveRefines, GiveUpRefines, SaveRefines

\* The tasks, interleaved in any way with any peers, take each piece through
\* the life cycle: never lost once wanted, saved once and counted once.
THEOREM ImplementsLifecycle == Spec => RefinesLifecycle
<1>1. StagesInv /\ [Next]_vars => [Lifecycle!Next]_(Lifecycle!vars)
  BY NextLifecycle
<1>2. QED
  BY <1>1, InitLifecycle, StagesInvariant, PTL DEF Spec, RefinesLifecycle, Lifecycle!Spec

-----------------------------------------------------------------------------
(* The availability counters, in a build whose overflow checks stop a      *)
(* counter from wrapping, for any finite set of peers.                     *)

\* A debug build with so many peers as can be counted at all.
Checked == OverflowChecks /\ IsFiniteSet(Peers)

\* The peers that may be asked for i.
Askable(i) == {p \in Peers : ~am_choked[p] /\ i \in peer_have[p]}

CountInv == TypeOK /\ AvailabilityNotUnderCounted

\* The sums of update_multiple do not wrap when none of them overflows.
LEMMA CountedUp ==
    ASSUME NEW pt \in PieceTrackers, NEW S \in SUBSET Pieces, ~CountOverflows(pt, S),
           NEW i \in Pieces
    PROVE  UpdateMultiple(pt, S).available[i] =
              IF i \in S THEN pt.available[i] + 1 ELSE pt.available[i]
<1>1. Insert(pt, S).available = pt.available
  BY DEF Insert, PieceTrackers
<1>2. Insert(pt, S) \in PieceTrackers
  BY DEF Insert, PieceTrackers
<1>3. UpdateMultiple(pt, S).available[i] =
        IF i \in S THEN (pt.available[i] + 1) % AvailModulus ELSE pt.available[i]
  BY <1>1, <1>2 DEF UpdateMultiple, Count, PieceTrackers
<1>4. pt.available[i] \in 0 .. AvailModulus - 1
  BY DEF PieceTrackers
<1>5. ASSUME i \in S PROVE (pt.available[i] + 1) % AvailModulus = pt.available[i] + 1
  <2>1. pt.available[i] # AvailModulus - 1
    BY <1>5 DEF CountOverflows
  <2>2. QED
    BY <1>4, <2>1, TrackerAssumption
<1>6. QED
  BY <1>3, <1>5

\* When no more peers may be asked for a piece, its counter need not grow.
LEMMA NoMoreAskable ==
    ASSUME CountInv, Checked,
           \A i \in Pieces : pc_tracker'.available[i] >= pc_tracker.available[i],
           \A p \in Peers : ~am_choked'[p] => ~am_choked[p] /\ peer_have'[p] \subseteq peer_have[p],
           TypeOK'
    PROVE  AvailabilityNotUnderCounted'
<1> SUFFICES ASSUME NEW i \in Pieces PROVE Cardinality(Askable(i)') <= pc_tracker'.available[i]
  BY DEF AvailabilityNotUnderCounted, Askable
<1>1. Askable(i)' \subseteq Askable(i) /\ Askable(i) \subseteq Peers
  BY DEF Askable
<1>2. IsFiniteSet(Askable(i))
  BY <1>1, FS_Subset DEF Checked
<1>3. /\ Cardinality(Askable(i)') <= Cardinality(Askable(i))
      /\ Cardinality(Askable(i)) \in Nat /\ Cardinality(Askable(i)') \in Nat
  BY <1>1, <1>2, FS_Subset, FS_CardinalityType
<1>4. Cardinality(Askable(i)) <= pc_tracker.available[i]
  BY DEF CountInv, AvailabilityNotUnderCounted, Askable
<1>5. pc_tracker.available[i] \in Int /\ pc_tracker'.available[i] \in Int
  BY TrackerAssumption DEF CountInv, TypeOK, PieceTrackers
<1>6. QED
  BY <1>3, <1>4, <1>5

LEMMA OneMore ==
    ASSUME NEW S, NEW x, IsFiniteSet(S)
    PROVE  Cardinality(S \cup {x}) <= Cardinality(S) + 1
<1>1. Cardinality(S) \in Nat
  BY FS_CardinalityType
<1>2. Cardinality(S \cup {x}) = IF x \in S THEN Cardinality(S) ELSE Cardinality(S) + 1
  BY FS_AddElement
<1>3. QED
  BY <1>1, <1>2

\* Where p becomes askable for the pieces in S, each of them is counted.
LEMMA MoreAskable ==
    ASSUME CountInv, Checked, NEW p \in Peers, NEW S \in SUBSET Pieces,
           ~Panics(S), pc_tracker' = UpdateMultiple(pc_tracker, S),
           \A q \in Peers \ {p} : am_choked'[q] = am_choked[q] /\ peer_have'[q] = peer_have[q],
           ~am_choked'[p] => \/ peer_have'[p] \subseteq S
                             \/ ~am_choked[p] /\ peer_have'[p] \subseteq peer_have[p] \cup S
    PROVE  AvailabilityNotUnderCounted'
<1> SUFFICES ASSUME NEW i \in Pieces PROVE Cardinality(Askable(i)') <= pc_tracker'.available[i]
  BY DEF AvailabilityNotUnderCounted, Askable
<1>1. pc_tracker'.available[i] =
        IF i \in S THEN pc_tracker.available[i] + 1 ELSE pc_tracker.available[i]
  <2>1. pc_tracker \in PieceTrackers /\ ~CountOverflows(pc_tracker, S)
    BY DEF Panics, Checked, CountInv, TypeOK
  <2>2. QED
    BY <2>1, CountedUp
<1>2. Cardinality(Askable(i)) <= pc_tracker.available[i]
  BY DEF CountInv, AvailabilityNotUnderCounted, Askable
<1>3. pc_tracker.available[i] \in Int
  BY TrackerAssumption DEF CountInv, TypeOK, PieceTrackers
<1>4. IsFiniteSet(Askable(i)) /\ Cardinality(Askable(i)) \in Nat
  BY FS_Subset, FS_CardinalityType DEF Checked, Askable
<1>5. CASE i \in S
  <2>1. Askable(i)' \subseteq Askable(i) \cup {p}
    BY DEF Askable
  <2>2. Cardinality(Askable(i) \cup {p}) <= Cardinality(Askable(i)) + 1
    BY <1>4, OneMore
  <2>3. IsFiniteSet(Askable(i) \cup {p})
    BY <1>4, FS_AddElement
  <2>4. /\ Cardinality(Askable(i)') <= Cardinality(Askable(i) \cup {p})
        /\ Cardinality(Askable(i)') \in Nat /\ Cardinality(Askable(i) \cup {p}) \in Nat
    BY <2>1, <2>3, FS_Subset, FS_CardinalityType
  <2>5. QED
    BY <1>1, <1>2, <1>3, <1>4, <1>5, <2>2, <2>4
<1>6. CASE i \notin S
  <2>1. Askable(i)' \subseteq Askable(i)
    BY <1>6 DEF Askable
  <2>2. Cardinality(Askable(i)') <= Cardinality(Askable(i)) /\ Cardinality(Askable(i)') \in Nat
    BY <1>4, <2>1, FS_Subset, FS_CardinalityType
  <2>3. QED
    BY <1>1, <1>2, <1>3, <1>4, <1>6, <2>2
<1>7. QED
  BY <1>5, <1>6

\* Nobody takes a count back: blocks, requests, failed verifications and checks
\* leave the counters or add to them.
LEMMA CountsKept ==
    ASSUME CountInv, Checked, NEW i \in Pieces,
           \/ \E p \in Peers, j \in Pieces, b \in Blocks : \E data \in Answers(p) :
                 HandleBlock(p, j, b, data)
           \/ \E j \in Pieces : CompletePiece(j) \/ DelayedCheck(j)
           \/ \E p \in Peers, j \in Pieces : RequestPiece(p, j)
    PROVE  pc_tracker'.available[i] >= pc_tracker.available[i]
<1>1. pc_tracker \in PieceTrackers /\ pc_tracker.available[i] \in Int
  BY TrackerAssumption DEF CountInv, TypeOK, PieceTrackers
<1>2. ASSUME NEW j \in Pieces
      PROVE  /\ UnreservePiece(pc_tracker, j) \in PieceTrackers
             /\ UnreservePiece(pc_tracker, j).available = pc_tracker.available
  BY <1>1 DEF UnreservePiece, PieceTrackers
<1>3. ASSUME NEW j \in Pieces, ~CountOverflows(pc_tracker, {j})
      PROVE  UpdateSingle(UnreservePiece(pc_tracker, j), j).available[i] >= pc_tracker.available[i]
  <2>1. ~CountOverflows(UnreservePiece(pc_tracker, j), {j})
    BY <1>2, <1>3 DEF CountOverflows
  <2>2. QED
    BY <1>1, <1>2, <2>1, CountedUp DEF UpdateSingle
<1>4. ASSUME NEW p \in Peers, NEW j \in Pieces, NEW b \in Blocks, NEW data,
             HandleBlock(p, j, b, data)
      PROVE  pc_tracker'.available[i] >= pc_tracker.available[i]
  <2>1. pc_tracker'.available = pc_tracker.available
    BY <1>1, <1>4 DEF HandleBlock, OnBlockBuffered, PieceTrackers
  <2>2. QED
    BY <1>1, <2>1
<1>5. ASSUME NEW j \in Pieces, CompletePiece(j)
      PROVE  pc_tracker'.available[i] >= pc_tracker.available[i]
  <2>1. CASE VerifyPieceHash(pc_tracker, j)
    <3> DEFINE un == UnreservePiece(pc_tracker, j)
    <3>1. un \in PieceTrackers /\ un.available = pc_tracker.available
      BY <1>2
    <3>2. pc_tracker' = OnPieceSaved(un, j)
      BY <1>5, <2>1 DEF CompletePiece, Completed
    <3> HIDE DEF un
    <3>3. pc_tracker'.available = pc_tracker.available
      BY <3>1, <3>2 DEF OnPieceSaved, PieceTrackers
    <3>4. QED
      BY <1>1, <3>3
  <2>2. CASE ~VerifyPieceHash(pc_tracker, j)
    BY <1>3, <1>5, <2>2 DEF CompletePiece, Completed, Panics, Checked
  <2>3. QED
    BY <2>1, <2>2
<1>6. ASSUME NEW j \in Pieces, DelayedCheck(j)
      PROVE  pc_tracker'.available[i] >= pc_tracker.available[i]
  <2>1. CASE pc_tracker' = pc_tracker
    BY <1>1, <2>1
  <2>2. CASE pc_tracker' = GiveUp(pc_tracker, j) /\ CountOverflows(pc_tracker, {j})
    <3>1. pc_tracker' = Insert(UnreservePiece(pc_tracker, j), {j})
      BY <2>2 DEF GiveUp, Checked
    <3>2. pc_tracker'.available = pc_tracker.available
      BY <1>2, <3>1 DEF Insert, PieceTrackers
    <3>3. QED
      BY <1>1, <3>2
  <2>3. CASE pc_tracker' = GiveUp(pc_tracker, j) /\ ~CountOverflows(pc_tracker, {j})
    BY <1>3, <2>3 DEF GiveUp
  <2>4. QED
    BY <1>6, <2>1, <2>2, <2>3 DEF DelayedCheck
<1>7. ASSUME NEW p \in Peers, NEW j \in Pieces, RequestPiece(p, j)
      PROVE  pc_tracker'.available[i] >= pc_tracker.available[i]
  <2>1. pc_tracker'.available = pc_tracker.available
    BY <1>1, <1>7 DEF RequestPiece, ReservePiece, PieceTrackers
  <2>2. QED
    BY <1>1, <2>1
<1>8. QED
  BY <1>4, <1>5, <1>6, <1>7

LEMMA NextCounted ==
    ASSUME CountInv, Checked, [Next]_vars
    PROVE  AvailabilityNotUnderCounted'
<1>1. TypeOK /\ TypeOK'
  BY NextType DEF CountInv
<1>2. ASSUME \A i \in Pieces : pc_tracker'.available[i] >= pc_tracker.available[i],
             UNCHANGED <<am_choked, peer_have>>
      PROVE  AvailabilityNotUnderCounted'
  BY <1>1, <1>2, NoMoreAskable
<1>3. ASSUME UNCHANGED <<pc_tracker, am_choked, peer_have>>
      PROVE  AvailabilityNotUnderCounted'
  BY <1>3 DEF CountInv, AvailabilityNotUnderCounted
<1>4. CASE PeerComNext
  <2>1. ASSUME NEW p \in Peers, NEW i \in Pieces, HandleHave(p, i)
        PROVE  AvailabilityNotUnderCounted'
    <3>1. /\ Announced(p, {i}) \in SUBSET Pieces
          /\ ~Panics(Announced(p, {i}))
          /\ pc_tracker' = UpdateMultiple(pc_tracker, Announced(p, {i}))
          /\ am_choked' = am_choked
          /\ peer_have' = [peer_have EXCEPT ![p] = @ \cup {i}]
          /\ ~am_choked[p] => Announced(p, {i}) = {i}
      BY <2>1 DEF HandleHave, AnnouncePanics, Announced
    <3>2. QED
      BY <1>1, <3>1, MoreAskable DEF TypeOK
  <2>2. ASSUME NEW p \in Peers, NEW S \in SUBSET Pieces, HandleBitfield(p, S)
        PROVE  AvailabilityNotUnderCounted'
    <3>1. /\ Announced(p, S) \in SUBSET Pieces
          /\ ~Panics(Announced(p, S))
          /\ pc_tracker' = UpdateMultiple(pc_tracker, Announced(p, S))
          /\ am_choked' = am_choked
          /\ peer_have' = [peer_have EXCEPT ![p] = S]
          /\ ~am_choked[p] => Announced(p, S) = S
      BY <2>2 DEF HandleBitfield, AnnouncePanics, Announced
    <3>2. QED
      BY <1>1, <3>1, MoreAskable DEF TypeOK
  <2>3. ASSUME NEW p \in Peers, HandleChoke(p)
        PROVE  AvailabilityNotUnderCounted'
    <3>1. UNCHANGED <<pc_tracker, peer_have>> /\ am_choked' = [am_choked EXCEPT ![p] = TRUE]
      BY <2>3 DEF HandleChoke
    <3>2. \A i \in Pieces : pc_tracker'.available[i] >= pc_tracker.available[i]
      BY <1>1, <3>1, TrackerAssumption DEF TypeOK, PieceTrackers
    <3>3. QED
      BY <1>1, <3>1, <3>2, NoMoreAskable DEF TypeOK
  <2>4. ASSUME NEW p \in Peers, HandleUnchoke(p)
        PROVE  AvailabilityNotUnderCounted'
    <3>1. /\ peer_have[p] \in SUBSET Pieces
          /\ ~Panics(peer_have[p])
          /\ pc_tracker' = UpdateMultiple(pc_tracker, peer_have[p])
          /\ am_choked' = [am_choked EXCEPT ![p] = FALSE]
          /\ peer_have' = peer_have
      BY <1>1, <2>4 DEF HandleUnchoke, HeldBack, TypeOK
    <3>2. QED
      BY <1>1, <3>1, MoreAskable DEF TypeOK
  <2>5. CASE PeerComPanics
    BY <1>3, <2>5 DEF PeerComPanics, peerVars
  <2>6. ASSUME NEW p \in Peers, NEW i \in Pieces, NEW b \in Blocks, NEW data \in Answers(p),
               HandleBlock(p, i, b, data)
        PROVE  AvailabilityNotUnderCounted'
    BY <1>2, <2>6, CountsKept DEF HandleBlock
  <2>7. ASSUME NEW i \in Pieces, CompletePiece(i) PROVE AvailabilityNotUnderCounted'
    BY <1>2, <2>7, CountsKept DEF CompletePiece, peerVars
  <2>8. QED
    BY <1>4, <2>1, <2>2, <2>3, <2>4, <2>5, <2>6, <2>7 DEF PeerComNext
<1>5. CASE RequestsNext
  <2>1. ASSUME NEW p \in Peers, NEW i \in Pieces, RequestPiece(p, i)
        PROVE  AvailabilityNotUnderCounted'
    BY <1>2, <2>1, CountsKept DEF RequestPiece
  <2>2. ASSUME NEW i \in Pieces, DelayedCheck(i) PROVE AvailabilityNotUnderCounted'
    BY <1>2, <2>2, CountsKept DEF DelayedCheck, peerVars
  <2>3. QED
    BY <1>3, <1>5, <2>1, <2>2 DEF RequestsNext, Register, SpawnDelayedCheck, peerVars
<1>6. QED
  BY <1>3, <1>4, <1>5 DEF Next, PrintStats, DropRequest, vars, peerVars

LEMMA InitCounted == ASSUME Checked PROVE Init => CountInv
<1> SUFFICES ASSUME Init PROVE CountInv
  OBVIOUS
<1>1. ASSUME NEW i \in Pieces PROVE Cardinality(Askable(i)) <= pc_tracker.available[i]
  <2>1. Askable(i) = {} /\ pc_tracker.available[i] = 0
    BY DEF Init, NewTracker, Askable
  <2>2. QED
    BY <2>1, FS_EmptySet
<1>2. QED
  BY <1>1, InitType DEF CountInv, AvailabilityNotUnderCounted, Askable

\* A piece is never counted as rarer than the peers that can be asked for it
\* make it, whether they announced it before or after they unchoked us, in any
\* order and with any number of chokes, failed verifications and late checks.
THEOREM NeverUnderCounted == ASSUME Checked PROVE Spec => []AvailabilityNotUnderCounted
<1>1. CountInv /\ [Next]_vars => CountInv'
  BY NextCounted, NextType DEF CountInv
<1>2. CountInv => AvailabilityNotUnderCounted
  BY DEF CountInv
<1>3. QED
  BY <1>1, <1>2, InitCounted, PTL DEF Spec

=============================================================================
