----------------------- MODULE DownloadWindow_proofs -----------------------
(***************************************************************************)
(* The request window of Download: permits, reservations and the checks    *)
(* that watch them, for any peers that neither choke us again nor send     *)
(* wrong bytes.  A peer that chokes and unchokes us accumulates permits    *)
(* (run download_rechoked); the buffer of a piece with wrong bytes stays   *)
(* full, so that every later block of it returns one.                      *)
(***************************************************************************)
EXTENDS Download_proofs

\* The peers for which the window is kept: they unchoke us once, and what they
\* send verifies.
Steady == Chokers = {} /\ Corrupters = {}

\* The pieces p may still complete: each stands for a permit of p that is out.
Window(p) ==
    {i \in Pieces \ (pc_tracker.have \cup {completing}) :
        \E b \in Blocks : asked[p][i][b] > 0}

\* A peer that has not unchoked us has no permits and nothing to answer.
ChokedIdle ==
    \A p \in Peers : am_choked[p] =>
        /\ permits[p] = 0
        /\ \A i \in Pieces, b \in Blocks : asked[p][i][b] = 0

\* What is buffered is right, so a piece that completes is saved.
BufferedGood ==
    \A i \in Pieces, b \in Blocks : pc_tracker.buffered[i][b] \in {"none", "good"}

CompletingVerifies == completing # NoPiece => VerifyPieceHash(pc_tracker, completing)

WindowKept == \A p \in Peers : permits[p] + Cardinality(Window(p)) <= Cap

WindowInv ==
    StagesInv /\ ChokedIdle /\ BufferedGood /\ CompletingVerifies /\ WindowKept

-----------------------------------------------------------------------------
(* Sizes of sets of pieces *)

LEMMA PieceCounts ==
    ASSUME NEW S \in SUBSET Pieces
    PROVE  IsFiniteSet(S) /\ Cardinality(S) \in Nat
  BY FS_Subset, FS_CardinalityType, DownloadAssumption

LEMMA CountSmaller ==
    ASSUME NEW S \in SUBSET Pieces, NEW T \in SUBSET S
    PROVE  Cardinality(T) <= Cardinality(S)
  BY FS_Subset, PieceCounts

LEMMA CountOneLess ==
    ASSUME NEW S \in SUBSET Pieces, NEW i \in S, NEW T \in SUBSET (S \ {i})
    PROVE  Cardinality(T) + 1 <= Cardinality(S)
<1>1. Cardinality(S \ {i}) = Cardinality(S) - 1
  BY FS_RemoveElement, PieceCounts
<1>2. S \ {i} \in SUBSET Pieces
  OBVIOUS
<1>3. Cardinality(T) <= Cardinality(S \ {i})
  BY <1>2, CountSmaller
<1>4. QED
  BY <1>1, <1>2, <1>3, PieceCounts

LEMMA CountOneMore ==
    ASSUME NEW S \in SUBSET Pieces, NEW i \in Pieces, NEW T \in SUBSET (S \cup {i})
    PROVE  Cardinality(T) <= Cardinality(S) + 1
<1>1. Cardinality(S \cup {i}) <= Cardinality(S) + 1
  BY FS_AddElement, PieceCounts
<1>2. S \cup {i} \in SUBSET Pieces
  OBVIOUS
<1>3. Cardinality(T) <= Cardinality(S \cup {i})
  BY <1>2, CountSmaller
<1>4. QED
  BY <1>1, <1>2, <1>3, PieceCounts

LEMMA WindowType ==
    ASSUME NEW p \in Peers
    PROVE  /\ Window(p) \in SUBSET Pieces
           /\ Cardinality(Window(p)) \in Nat
           /\ Window(p)' \in SUBSET Pieces
           /\ Cardinality(Window(p)') \in Nat
  BY PieceCounts DEF Window

-----------------------------------------------------------------------------
(* The initial state, and what a step does to the bytes in the buffers *)

LEMMA InitWindow == Init => WindowInv
<1> SUFFICES ASSUME Init PROVE WindowInv
  OBVIOUS
<1>1. ChokedIdle /\ BufferedGood /\ CompletingVerifies
  BY DEF Init, ChokedIdle, BufferedGood, CompletingVerifies, NewTracker, NothingBuffered
<1>2. ASSUME NEW p \in Peers PROVE permits[p] + Cardinality(Window(p)) <= Cap
  <2>1. Window(p) = {}
    BY DEF Window, Init
  <2>2. permits[p] = 0
    BY DEF Init
  <2>3. QED
    BY <2>1, <2>2, FS_EmptySet, DownloadAssumption
<1>3. QED
  BY <1>1, <1>2, InitStages DEF WindowInv, WindowKept

\* Only answers and completions change what is buffered.
LEMMA BuffersKept ==
    ASSUME StagesInv, [Next]_vars,
           ~ \E p \in Peers, i \in Pieces, b \in Blocks : \E data \in Answers(p) :
                HandleBlock(p, i, b, data),
           ~ \E i \in Pieces : CompletePiece(i)
    PROVE  pc_tracker'.buffered = pc_tracker.buffered /\ completing' = completing
<1>1. ASSUME NEW S \in SUBSET Pieces, pc_tracker' = UpdateMultiple(pc_tracker, S)
      PROVE  pc_tracker'.buffered = pc_tracker.buffered
  BY <1>1, UpdateMultipleResult DEF StagesInv, TypeOK
<1>2. ASSUME NEW p \in Peers, NEW S \in SUBSET Pieces,
             pc_tracker' = UpdateMultiple(pc_tracker, Announced(p, S))
      PROVE  pc_tracker'.buffered = pc_tracker.buffered
  BY <1>1, <1>2 DEF Announced
<1>3. CASE PeerComNext
  <2>1. ASSUME NEW p \in Peers, HandleUnchoke(p)
        PROVE  pc_tracker'.buffered = pc_tracker.buffered /\ completing' = completing
    BY <1>1, <2>1 DEF HandleUnchoke, HeldBack, taskVars, StagesInv, TypeOK
  <2>2. ASSUME NEW p \in Peers, NEW i \in Pieces, HandleHave(p, i)
        PROVE  pc_tracker'.buffered = pc_tracker.buffered /\ completing' = completing
    BY <1>2, <2>2 DEF HandleHave, taskVars
  <2>3. ASSUME NEW p \in Peers, NEW S \in SUBSET Pieces, HandleBitfield(p, S)
        PROVE  pc_tracker'.buffered = pc_tracker.buffered /\ completing' = completing
    BY <1>2, <2>3 DEF HandleBitfield, taskVars
  <2>4. QED
    BY <1>3, <2>1, <2>2, <2>3
    DEF PeerComNext, Answers, HandleChoke, PeerComPanics, taskVars
<1>4. CASE RequestsNext
  <2>1. ASSUME NEW p \in Peers, NEW i \in Pieces, RequestPiece(p, i)
        PROVE  pc_tracker'.buffered = pc_tracker.buffered /\ completing' = completing
    BY <2>1 DEF RequestPiece, ReservePiece, StagesInv, TypeOK, PieceTrackers
  <2>2. ASSUME NEW i \in Pieces, DelayedCheck(i)
        PROVE  pc_tracker'.buffered = pc_tracker.buffered /\ completing' = completing
    BY <2>2, GiveUpResult DEF DelayedCheck, StagesInv, TypeOK
  <2>3. QED
    BY <1>4, <2>1, <2>2 DEF RequestsNext, Register, SpawnDelayedCheck
<1>5. QED
  BY <1>3, <1>4 DEF Next, PrintStats, DropRequest, vars, taskVars

LEMMA BlockBuffers ==
    ASSUME WindowInv, Steady, NEW p \in Peers, NEW i \in Pieces, NEW b \in Blocks,
           HandleBlock(p, i, b, "good")
    PROVE  BufferedGood' /\ CompletingVerifies'
<1> DEFINE pt == OnBlockBuffered(pc_tracker, i, b, "good")
<1>1. ASSUME NEW j \in Pieces, NEW c \in Blocks
      PROVE  pt.buffered[j][c] = IF j = i /\ c = b THEN "good" ELSE pc_tracker.buffered[j][c]
  BY DEF OnBlockBuffered, WindowInv, StagesInv, TypeOK, PieceTrackers
<1>2. BufferedGood
  BY DEF WindowInv
<1>3. pc_tracker' \in {pc_tracker, pt}
  BY DEF HandleBlock
<1>4. BufferedGood'
  BY <1>1, <1>2, <1>3 DEF BufferedGood
<1>5. CompletingVerifies'
  <2>1. CASE Misses(pc_tracker, i) /\ AllBuffered(pt, i)
    <3>1. completing' = i /\ pc_tracker' = pt
      BY <2>1 DEF HandleBlock
    <3>2. VerifyPieceHash(pt, i)
      BY <1>4, <2>1, <3>1 DEF BufferedGood, AllBuffered, VerifyPieceHash
    <3>3. QED
      BY <3>1, <3>2 DEF CompletingVerifies
  <2>2. CASE ~(Misses(pc_tracker, i) /\ AllBuffered(pt, i))
    <3>1. completing' = NoPiece
      BY <2>2 DEF HandleBlock, Receives
    <3>2. QED
      BY <3>1 DEF CompletingVerifies
  <2>3. QED
    BY <2>1, <2>2
<1>6. QED
  BY <1>4, <1>5

LEMMA CompleteBuffers ==
    ASSUME WindowInv, NEW i \in Pieces, CompletePiece(i)
    PROVE  /\ BufferedGood' /\ CompletingVerifies'
           /\ pc_tracker'.have = pc_tracker.have \cup {completing}
           /\ completing' = NoPiece
<1>1. i = completing /\ i # NoPiece /\ completing' = NoPiece
  BY DownloadAssumption DEF CompletePiece
<1>2. i \notin pc_tracker.have /\ pc_tracker \in PieceTrackers
  BY <1>1 DEF WindowInv, StagesInv, StagesAgree, CompletingMissing, TypeOK
<1>3. VerifyPieceHash(pc_tracker, i)
  BY <1>1 DEF WindowInv, CompletingVerifies
<1>4. /\ pc_tracker'.have = pc_tracker.have \cup {i}
      /\ pc_tracker'.buffered = [pc_tracker.buffered EXCEPT ![i] = NothingBuffered]
  BY <1>2, <1>3, CompletedResult DEF CompletePiece
<1>5. pc_tracker.buffered \in [Pieces -> [Blocks -> BlockData]]
  BY <1>2 DEF PieceTrackers
<1>6. BufferedGood'
  BY <1>4, <1>5 DEF WindowInv, BufferedGood, NothingBuffered
<1>7. QED
  BY <1>1, <1>4, <1>6 DEF CompletingVerifies

LEMMA NextBuffers ==
    ASSUME WindowInv, Steady, [Next]_vars
    PROVE  BufferedGood' /\ CompletingVerifies'
<1>1. ASSUME NEW p \in Peers, NEW i \in Pieces, NEW b \in Blocks,
             NEW data \in Answers(p), HandleBlock(p, i, b, data)
      PROVE  BufferedGood' /\ CompletingVerifies'
  BY <1>1, BlockBuffers DEF Answers, Steady
<1>2. ASSUME NEW i \in Pieces, CompletePiece(i) PROVE BufferedGood' /\ CompletingVerifies'
  BY <1>2, CompleteBuffers
<1>3. ASSUME pc_tracker'.buffered = pc_tracker.buffered, completing' = completing
      PROVE  BufferedGood' /\ CompletingVerifies'
  BY <1>3 DEF WindowInv, BufferedGood, CompletingVerifies, VerifyPieceHash
<1>4. QED
  BY <1>1, <1>2, <1>3, BuffersKept DEF WindowInv

-----------------------------------------------------------------------------
(* What a step does to permits and answers *)

\* Steps that leave permits and answers alone can only shrink the windows.
LEMMA AskedKept ==
    ASSUME WindowInv, Steady, [Next]_vars, UNCHANGED <<permits, asked>>
    PROVE  WindowKept'
<1> SUFFICES ASSUME NEW q \in Peers PROVE permits[q] + Cardinality(Window(q)') <= Cap
  BY DEF WindowKept
<1>1. pc_tracker.have \subseteq pc_tracker'.have
  BY NextStageStep DEF WindowInv, StageStep
<1>2. completing' = completing \/ completing \in pc_tracker'.have \/ completing = NoPiece
  <2>1. ASSUME NEW i \in Pieces, CompletePiece(i) PROVE completing \in pc_tracker'.have
    BY <2>1, CompleteBuffers
  <2>2. ASSUME NEW p \in Peers, NEW i \in Pieces, NEW b \in Blocks, NEW data,
               HandleBlock(p, i, b, data)
        PROVE  completing = NoPiece
    BY <2>2 DEF HandleBlock, Receives
  <2>3. QED
    BY <2>1, <2>2, BuffersKept DEF WindowInv
<1>3. Window(q)' \subseteq Window(q)
  BY <1>1, <1>2, DownloadAssumption DEF Window
<1>4. Cardinality(Window(q)') <= Cardinality(Window(q))
  BY <1>3, WindowType, CountSmaller
<1>5. permits[q] \in Nat /\ permits[q] + Cardinality(Window(q)) <= Cap
  BY DownloadAssumption DEF WindowInv, WindowKept, StagesInv, TypeOK
<1>6. QED
  BY <1>4, <1>5, WindowType, DownloadAssumption

\* p answers, or discards a request: the piece leaves its window before a
\* permit comes back for it.
LEMMA BlockWindow ==
    ASSUME WindowInv, NEW p \in Peers, NEW i \in Pieces, NEW b \in Blocks,
           NEW data \in {"good", "bad"}, HandleBlock(p, i, b, data)
    PROVE  WindowKept'
<1> SUFFICES ASSUME NEW q \in Peers PROVE permits'[q] + Cardinality(Window(q)') <= Cap
  BY DEF WindowKept
<1> DEFINE pt == OnBlockBuffered(pc_tracker, i, b, data)
<1>1. pc_tracker'.have = pc_tracker.have
  BY BlockStages DEF WindowInv, KeepsStages
<1>2. completing = NoPiece /\ asked[p][i][b] > 0
  BY DEF HandleBlock, Receives
<1>3. /\ asked \in [Peers -> [Pieces -> [Blocks -> Nat]]]
      /\ permits \in [Peers -> Nat]
  BY DownloadAssumption DEF WindowInv, StagesInv, TypeOK
<1>4. asked' = [asked EXCEPT ![p][i][b] = @ - 1]
  BY DEF HandleBlock
<1>5. ASSUME NEW j \in Pieces, NEW c \in Blocks, asked'[q][j][c] > 0
      PROVE  asked[q][j][c] > 0
  BY <1>3, <1>4, <1>5
<1>6. Window(q)' \subseteq Window(q)
  BY <1>1, <1>2, <1>5, DownloadAssumption DEF Window
<1>7. Cardinality(Window(q)') <= Cardinality(Window(q))
  BY <1>6, WindowType, CountSmaller
<1>8. permits[q] + Cardinality(Window(q)) <= Cap
  BY DEF WindowInv, WindowKept
<1>9. CASE permits'[q] = permits[q]
  BY <1>3, <1>7, <1>8, <1>9, WindowType, DownloadAssumption
<1>10. CASE permits'[q] # permits[q]
  <2>1. /\ q = p
        /\ Misses(pc_tracker, i) /\ AllBuffered(pt, i)
        /\ permits'[p] = permits[p] + 1
        /\ completing' = i
    BY <1>3, <1>10 DEF HandleBlock, PermitsBack
  <2>2. i \in Window(p)
    BY <1>2, <2>1, DownloadAssumption DEF Window, Misses
  <2>3. i \notin Window(p)'
    BY <2>1 DEF Window
  <2>4. Window(p)' \in SUBSET (Window(p) \ {i})
    BY <1>6, <2>1, <2>3
  <2>5. Cardinality(Window(p)') + 1 <= Cardinality(Window(p))
    BY <2>2, <2>4, WindowType, CountOneLess
  <2>6. QED
    BY <1>3, <1>8, <2>1, <2>5, WindowType, DownloadAssumption
<1>11. QED
  BY <1>9, <1>10

LEMMA DropWindow ==
    ASSUME WindowInv, NEW p \in Peers, NEW i \in Pieces, NEW b \in Blocks,
           DropRequest(p, i, b)
    PROVE  WindowKept'
<1> SUFFICES ASSUME NEW q \in Peers PROVE permits'[q] + Cardinality(Window(q)') <= Cap
  BY DEF WindowKept
<1>1. /\ asked \in [Peers -> [Pieces -> [Blocks -> Nat]]]
      /\ permits \in [Peers -> Nat]
  BY DownloadAssumption DEF WindowInv, StagesInv, TypeOK
<1>2. /\ asked' = [asked EXCEPT ![p][i][b] = @ - 1]
      /\ UNCHANGED <<pc_tracker, permits, completing>>
  BY DEF DropRequest, peerVars, taskVars
<1>3. ASSUME NEW j \in Pieces, NEW c \in Blocks, asked'[q][j][c] > 0
      PROVE  asked[q][j][c] > 0
  BY <1>1, <1>2, <1>3
<1>4. Window(q)' \subseteq Window(q)
  BY <1>2, <1>3 DEF Window
<1>5. Cardinality(Window(q)') <= Cardinality(Window(q))
  BY <1>4, WindowType, CountSmaller
<1>6. permits[q] + Cardinality(Window(q)) <= Cap
  BY DEF WindowInv, WindowKept
<1>7. QED
  BY <1>1, <1>2, <1>5, <1>6, WindowType, DownloadAssumption

\* A request takes a permit for the one piece it may add to the window.
LEMMA RequestWindow ==
    ASSUME WindowInv, NEW p \in Peers, NEW i \in Pieces, RequestPiece(p, i)
    PROVE  WindowKept'
<1> SUFFICES ASSUME NEW q \in Peers PROVE permits'[q] + Cardinality(Window(q)') <= Cap
  BY DEF WindowKept
<1>1. /\ asked \in [Peers -> [Pieces -> [Blocks -> Nat]]]
      /\ permits \in [Peers -> Nat]
  BY DownloadAssumption DEF WindowInv, StagesInv, TypeOK
<1>2. pc_tracker'.have = pc_tracker.have /\ completing' = completing
  BY RequestStages DEF WindowInv, Reserves, RequestPiece
<1>3. permits[q] + Cardinality(Window(q)) <= Cap
  BY DEF WindowInv, WindowKept
<1>4. CASE q = p
  <2>1. ASSUME NEW j \in Pieces, j # i PROVE asked'[p][j] = asked[p][j]
    BY <1>1, <2>1 DEF RequestPiece
  <2>2. Window(p)' \in SUBSET (Window(p) \cup {i})
    BY <1>2, <2>1 DEF Window
  <2>3. Cardinality(Window(p)') <= Cardinality(Window(p)) + 1
    BY <2>2, WindowType, CountOneMore
  <2>4. permits'[p] = permits[p] - 1
    BY <1>1 DEF RequestPiece
  <2>5. QED
    BY <1>1, <1>3, <1>4, <2>3, <2>4, WindowType, DownloadAssumption
<1>5. CASE q # p
  <2>1. asked'[q] = asked[q] /\ permits'[q] = permits[q]
    BY <1>1, <1>5 DEF RequestPiece
  <2>2. Window(q)' = Window(q)
    BY <1>2, <2>1 DEF Window
  <2>3. QED
    BY <1>3, <2>1, <2>2
<1>6. QED
  BY <1>4, <1>5

\* A peer that unchokes us has nothing to answer yet.
LEMMA UnchokeWindow ==
    ASSUME WindowInv, NEW p \in Peers, HandleUnchoke(p)
    PROVE  WindowKept'
<1> SUFFICES ASSUME NEW q \in Peers PROVE permits'[q] + Cardinality(Window(q)') <= Cap
  BY DEF WindowKept
<1>1. UNCHANGED <<asked, completing>>
  BY DEF HandleUnchoke, taskVars
<1>2. pc_tracker'.have = pc_tracker.have
  BY UpdateMultipleResult DEF HandleUnchoke, HeldBack, WindowInv, StagesInv, TypeOK
<1>3. Window(q)' = Window(q)
  BY <1>1, <1>2 DEF Window
<1>4. CASE q = p
  <2>1. permits'[p] = 0 + Cap /\ Window(p) = {}
    BY DEF HandleUnchoke, WindowInv, ChokedIdle, Window, StagesInv, TypeOK
  <2>2. QED
    BY <1>3, <1>4, <2>1, FS_EmptySet, DownloadAssumption
<1>5. CASE q # p
  BY <1>3, <1>5 DEF HandleUnchoke, WindowInv, WindowKept, StagesInv, TypeOK
<1>6. QED
  BY <1>4, <1>5

LEMMA NextWindow ==
    ASSUME WindowInv, Steady, [Next]_vars
    PROVE  WindowKept'
<1>1. CASE PeerComNext
  BY <1>1, AskedKept, BlockWindow, UnchokeWindow
  DEF PeerComNext, Answers, HandleHave, HandleBitfield, HandleChoke, CompletePiece,
      PeerComPanics, peerVars
<1>2. CASE RequestsNext
  BY <1>2, AskedKept, RequestWindow
  DEF RequestsNext, Register, SpawnDelayedCheck, DelayedCheck, peerVars
<1>3. CASE \E p \in Peers, i \in Pieces, b \in Blocks : DropRequest(p, i, b)
  BY <1>3, DropWindow
<1>4. CASE PrintStats \/ UNCHANGED vars
  BY <1>4, AskedKept DEF PrintStats, vars, peerVars
<1>5. QED
  BY <1>1, <1>2, <1>3, <1>4 DEF Next

\* Only an Unchoke gives the first permits, and only a permit a request.
LEMMA NextIdle ==
    ASSUME WindowInv, Steady, [Next]_vars
    PROVE  ChokedIdle'
<1> SUFFICES ASSUME NEW q \in Peers, am_choked'[q]
             PROVE  permits'[q] = 0 /\ \A j \in Pieces, c \in Blocks : asked'[q][j][c] = 0
  BY DEF ChokedIdle
<1>1. /\ asked \in [Peers -> [Pieces -> [Blocks -> Nat]]]
      /\ permits \in [Peers -> Nat]
      /\ am_choked \in [Peers -> BOOLEAN]
  BY DownloadAssumption DEF WindowInv, StagesInv, TypeOK
<1>2. am_choked[q] => permits[q] = 0 /\ \A j \in Pieces, c \in Blocks : asked[q][j][c] = 0
  BY DEF WindowInv, ChokedIdle
<1> DEFINE Goal == permits'[q] = 0 /\ \A j \in Pieces, c \in Blocks : asked'[q][j][c] = 0
<1> SUFFICES Goal
  OBVIOUS
<1>3. ASSUME UNCHANGED <<am_choked, permits, asked>> PROVE Goal
  BY <1>2, <1>3
<1>4. ASSUME NEW p \in Peers, NEW i \in Pieces, NEW b \in Blocks, NEW data,
             HandleBlock(p, i, b, data)
      PROVE  Goal
  <2>1. am_choked' = am_choked /\ asked[p][i][b] > 0
    BY <1>4 DEF HandleBlock
  <2>2. p # q
    BY <1>1, <1>2, <2>1
  <2>3. permits'[q] = permits[q] /\ asked'[q] = asked[q]
    BY <1>1, <1>4, <2>2 DEF HandleBlock
  <2>4. QED
    BY <1>2, <2>1, <2>3
<1>5. ASSUME NEW p \in Peers, HandleUnchoke(p) PROVE Goal
  <2>1. p # q /\ am_choked'[q] = am_choked[q]
    BY <1>1, <1>5 DEF HandleUnchoke
  <2>2. QED
    BY <1>1, <1>2, <1>5, <2>1 DEF HandleUnchoke
<1>6. ASSUME NEW p \in Peers, NEW i \in Pieces, RequestPiece(p, i) PROVE Goal
  <2>1. am_choked' = am_choked /\ permits[p] > 0
    BY <1>6 DEF RequestPiece, HasPermit
  <2>2. p # q
    BY <1>1, <1>2, <2>1
  <2>3. permits'[q] = permits[q] /\ asked'[q] = asked[q]
    BY <1>1, <1>6, <2>2 DEF RequestPiece
  <2>4. QED
    BY <1>2, <2>1, <2>3
<1>7. ASSUME NEW p \in Peers, NEW i \in Pieces, NEW b \in Blocks, DropRequest(p, i, b)
      PROVE  Goal
  <2>1. UNCHANGED <<am_choked, permits>> /\ asked[p][i][b] > 0
    BY <1>7 DEF DropRequest, peerVars
  <2>2. p # q
    BY <1>1, <1>2, <2>1
  <2>3. asked'[q] = asked[q]
    BY <1>1, <1>7, <2>2 DEF DropRequest
  <2>4. QED
    BY <1>2, <2>1, <2>3
<1>8. ASSUME NEW p \in Peers, HandleChoke(p) PROVE FALSE
  BY <1>8 DEF HandleChoke, Steady
<1> HIDE DEF Goal
<1>9. CASE PeerComNext
  BY <1>3, <1>4, <1>5, <1>8, <1>9
  DEF PeerComNext, HandleHave, HandleBitfield, CompletePiece, PeerComPanics, peerVars
<1>10. CASE RequestsNext
  BY <1>3, <1>6, <1>10
  DEF RequestsNext, Register, SpawnDelayedCheck, DelayedCheck, peerVars
<1>11. CASE PrintStats \/ UNCHANGED vars
  BY <1>3, <1>11 DEF PrintStats, vars, peerVars
<1>12. QED
  BY <1>7, <1>9, <1>10, <1>11 DEF Next

LEMMA NextWindowInv == ASSUME Steady PROVE WindowInv /\ [Next]_vars => WindowInv'
  BY NextStagesInv, NextBuffers, NextIdle, NextWindow DEF WindowInv

\* The subtraction cap - available_permits() never underflows with steady peers,
\* whichever peer sends the last block of a piece and however many requests
\* time out meanwhile.
THEOREM PermitsBounded == ASSUME Steady PROVE Spec => []PermitsWithinCap
<1>1. WindowInv => PermitsWithinCap
  BY WindowType, DownloadAssumption DEF WindowInv, WindowKept, PermitsWithinCap, StagesInv, TypeOK
<1>2. QED
  BY <1>1, InitWindow, NextWindowInv, PTL DEF Spec

-----------------------------------------------------------------------------
(* Reservations *)

WatchInv == WindowInv /\ ReservedIsWatched

\* With the permits bounded, a request task always starts the check it owes.
LEMMA NextWatched ==
    ASSUME WatchInv, [Next]_vars
    PROVE  ReservedIsWatched'
<1> DEFINE Watched(i) == checks[i] > 0 \/ \E p \in Peers : sending[p] = i
<1> SUFFICES ASSUME NEW j \in pc_tracker'.requested \ pc_tracker'.have PROVE Watched(j)'
  BY DEF ReservedIsWatched
<1>1. /\ checks \in [Pieces -> Nat]
      /\ sending \in [Peers -> Pieces \cup {NoPiece}]
  BY DownloadAssumption DEF WatchInv, WindowInv, StagesInv, TypeOK
<1>2. StagesInv /\ WindowInv
  BY DEF WatchInv, WindowInv
<1>3. j \in pc_tracker.requested \ pc_tracker.have => Watched(j)
  BY DEF WatchInv, ReservedIsWatched
<1>4. j \in Pieces
  <2>1. TypeOK'
    BY <1>2, NextType DEF StagesInv
  <2>2. QED
    BY <2>1 DEF TypeOK, PieceTrackers
<1>5. ASSUME NEW p \in Peers, NEW i \in Pieces, RequestPiece(p, i) PROVE Watched(j)'
  <2>1. /\ pc_tracker'.requested = pc_tracker.requested \cup {i}
        /\ pc_tracker'.have = pc_tracker.have
    BY <1>2, <1>5, RequestStages DEF Reserves
  <2>2. sending[p] = NoPiece /\ sending' = [sending EXCEPT ![p] = i] /\ checks' = checks
    BY <1>5 DEF RequestPiece
  <2>3. QED
    BY <1>1, <1>3, <1>4, <2>1, <2>2, DownloadAssumption
<1>6. ASSUME NEW p \in Peers, SpawnDelayedCheck(p) PROVE Watched(j)'
  <2>1. ~TimeoutUnderflows(p)
    BY WindowType, DownloadAssumption
    DEF WatchInv, WindowInv, WindowKept, TimeoutUnderflows, StagesInv, TypeOK
  <2>2. /\ pc_tracker' = pc_tracker
        /\ sending[p] \in Pieces
        /\ sending' = [sending EXCEPT ![p] = NoPiece]
        /\ checks' = [checks EXCEPT ![sending[p]] = @ + 1]
    BY <1>1, <1>6, <2>1 DEF SpawnDelayedCheck
  <2>3. QED
    BY <1>1, <1>3, <1>4, <2>2
<1>7. ASSUME NEW i \in Pieces, DelayedCheck(i) PROVE Watched(j)'
  <2>1. /\ UNCHANGED sending
        /\ checks' = [checks EXCEPT ![i] = @ - 1]
    BY <1>7 DEF DelayedCheck
  <2>2. j # i /\ j \in pc_tracker.requested \ pc_tracker.have
    <3>1. CASE i \in pc_tracker.requested /\ i \notin pc_tracker.have
      BY <1>2, <1>7, <3>1, GiveUpResult DEF DelayedCheck, StagesInv, TypeOK
    <3>2. CASE ~(i \in pc_tracker.requested /\ i \notin pc_tracker.have)
      BY <1>7, <3>2 DEF DelayedCheck
    <3>3. QED
      BY <3>1, <3>2
  <2>3. QED
    BY <1>1, <1>3, <1>4, <2>1, <2>2
<1>8. ASSUME UNCHANGED <<checks, sending>>, pc_tracker'.requested \subseteq pc_tracker.requested
      PROVE  Watched(j)'
  <2>1. pc_tracker.have \subseteq pc_tracker'.have
    BY <1>2, NextStageStep DEF StageStep
  <2>2. QED
    BY <1>3, <1>8, <2>1
<1>9. ASSUME NEW p \in Peers, NEW S \in SUBSET Pieces,
             \/ pc_tracker' = UpdateMultiple(pc_tracker, Announced(p, S))
             \/ pc_tracker' = UpdateMultiple(pc_tracker, S)
      PROVE  pc_tracker'.requested \subseteq pc_tracker.requested
  <2>1. Announced(p, S) \in SUBSET Pieces /\ pc_tracker \in PieceTrackers
    BY <1>2 DEF Announced, StagesInv, TypeOK
  <2>2. QED
    BY <1>9, <2>1, UpdateMultipleResult
<1> HIDE DEF Watched
<1>10. CASE PeerComNext
  <2>1. ASSUME NEW p \in Peers, NEW i \in Pieces, NEW b \in Blocks, NEW data \in {"good", "bad"},
               HandleBlock(p, i, b, data)
        PROVE  Watched(j)'
    BY <1>2, <1>8, <2>1, BlockStages DEF HandleBlock, KeepsStages
  <2>2. ASSUME NEW i \in Pieces, CompletePiece(i) PROVE Watched(j)'
    BY <1>2, <1>8, <2>2, CompleteStages DEF CompletePiece, GivesUp, Saves
  <2>3. ASSUME NEW p \in Peers, HandleUnchoke(p) PROVE Watched(j)'
    BY <1>2, <1>8, <1>9, <2>3 DEF HandleUnchoke, HeldBack, taskVars, StagesInv, TypeOK
  <2>4. ASSUME NEW p \in Peers, NEW i \in Pieces, HandleHave(p, i) PROVE Watched(j)'
    BY <1>8, <1>9, <2>4 DEF HandleHave, taskVars
  <2>5. ASSUME NEW p \in Peers, NEW S \in SUBSET Pieces, HandleBitfield(p, S) PROVE Watched(j)'
    BY <1>8, <1>9, <2>5 DEF HandleBitfield, taskVars
  <2>6. ASSUME NEW p \in Peers, HandleChoke(p) PROVE Watched(j)'
    BY <1>8, <2>6 DEF HandleChoke, taskVars
  <2>7. CASE PeerComPanics
    BY <1>8, <2>7 DEF PeerComPanics
  <2>8. QED
    BY <1>10, <2>1, <2>2, <2>3, <2>4, <2>5, <2>6, <2>7 DEF PeerComNext, Answers
<1>11. CASE RequestsNext
  BY <1>5, <1>6, <1>7, <1>8, <1>11 DEF RequestsNext, Register
<1>12. QED
  BY <1>8, <1>10, <1>11 DEF Next, PrintStats, DropRequest, vars, taskVars

LEMMA InitWatch == Init => WatchInv
  BY InitWindow DEF WatchInv, ReservedIsWatched, Init, NewTracker

LEMMA NextWatch == ASSUME Steady PROVE WatchInv /\ [Next]_vars => WatchInv'
  BY NextWindowInv, NextWatched DEF WatchInv

\* A missing piece that is reserved always has somebody who will give the
\* reservation up, because no request task dies, or sleeps for centuries, on
\* the subtraction that arms the check.
THEOREM ReservationsWatched == ASSUME Steady PROVE Spec => []ReservedIsWatched
<1>1. WatchInv => ReservedIsWatched
  BY DEF WatchInv
<1>2. QED
  BY <1>1, InitWatch, NextWatch, PTL DEF Spec

-----------------------------------------------------------------------------
(* Among peers that either answer before any check wakes or never answer at *)
(* all, nothing is fetched twice, and no permit is lost.                   *)

Prompt == Steady /\ TimelyPeers # {} /\ Peers = TimelyPeers \cup DeadPeers

\* A piece some timely peer still owes us a block of.
Owed(i) == \E p \in TimelyPeers : i \in InFlight(p)

\* Nobody gives up the reservation of a piece that is owed or about to be saved.
OwedReserved ==
    /\ \A i \in Pieces : Owed(i) => i \in pc_tracker.requested \ pc_tracker.have /\ completing # i
    /\ completing # NoPiece => completing \in pc_tracker.requested

OwedByOne ==
    \A p, q \in TimelyPeers : \A i \in InFlight(p) \cap InFlight(q) : p = q

\* The peer owes exactly the blocks the buffer misses.
OwesTheMissing ==
    \A p \in TimelyPeers : \A i \in InFlight(p), b \in Blocks :
        asked[p][i][b] = IF pc_tracker.buffered[i][b] = "none" THEN 1 ELSE 0

\* Without that the buffer is empty: dead peers fill no buffer.
NothingLeftOver ==
    \A i \in Pieces : ~Owed(i) /\ completing # i => \A b \in Blocks : pc_tracker.buffered[i][b] = "none"

OwedInv == OwedReserved /\ OwedByOne /\ OwesTheMissing /\ NothingLeftOver

PromptInv == WindowInv /\ OwedInv /\ NeverRefetched /\ PermitsConserved

-----------------------------------------------------------------------------

LEMMA PromptTypes ==
    ASSUME PromptInv
    PROVE  /\ asked \in [Peers -> [Pieces -> [Blocks -> Nat]]]
           /\ permits \in [Peers -> Nat]
           /\ pc_tracker \in PieceTrackers
           /\ TimelyPeers \subseteq Peers
           /\ StagesInv
  BY DownloadAssumption DEF PromptInv, WindowInv, StagesInv, TypeOK

LEMMA InFlightType ==
    ASSUME NEW p \in Peers
    PROVE  /\ InFlight(p) \in SUBSET Pieces
           /\ Cardinality(InFlight(p)) \in Nat
           /\ IsFiniteSet(InFlight(p))
           /\ InFlight(p)' \in SUBSET Pieces
           /\ Cardinality(InFlight(p)') \in Nat
  BY PieceCounts DEF InFlight

LEMMA InitPrompt == Init => PromptInv
<1> SUFFICES ASSUME Init PROVE PromptInv
  OBVIOUS
<1>1. \A p \in Peers : InFlight(p) = {}
  BY DEF Init, InFlight
<1>2. TimelyPeers \subseteq Peers
  BY DownloadAssumption
<1>3. OwedInv
  BY <1>1, <1>2 DEF Init, NewTracker, NothingBuffered, OwedInv, OwedReserved, Owed,
                    OwedByOne, OwesTheMissing, NothingLeftOver
<1>4. NeverRefetched
  BY DEF Init, NewTracker, NeverRefetched
<1>5. PermitsConserved
  <2>1. ASSUME NEW p \in TimelyPeers
        PROVE  permits[p] = 0 /\ am_choked[p] /\ Cardinality(InFlight(p)) = 0
    BY <1>1, <1>2, FS_EmptySet DEF Init
  <2>2. QED
    BY <2>1 DEF PermitsConserved
<1>6. QED
  BY <1>3, <1>4, <1>5, InitWindow DEF PromptInv

-----------------------------------------------------------------------------
(* Steps that leave the answers, the buffers and the reservations alone *)

Quiet ==
    /\ UNCHANGED <<asked, completing>>
    /\ pc_tracker'.buffered = pc_tracker.buffered
    /\ pc_tracker'.requested = pc_tracker.requested
    /\ pc_tracker'.have = pc_tracker.have

LEMMA QuietOwed == ASSUME PromptInv, Quiet PROVE OwedInv'
<1>1. \A p \in TimelyPeers : InFlight(p)' = InFlight(p)
  BY DEF Quiet, InFlight
<1>2. \A i \in Pieces : Owed(i)' <=> Owed(i)
  BY <1>1 DEF Owed
<1>3. QED
  BY <1>1, <1>2
  DEF Quiet, PromptInv, OwedInv, OwedReserved, OwedByOne, OwesTheMissing, NothingLeftOver

LEMMA AnnounceQuiet ==
    ASSUME PromptInv, NEW S \in SUBSET Pieces, pc_tracker' = UpdateMultiple(pc_tracker, S),
           UNCHANGED <<asked, completing>>
    PROVE  Quiet /\ NeverRefetched'
  BY PromptTypes, UpdateMultipleResult DEF Quiet, PromptInv, NeverRefetched, MayNeed

LEMMA ConservedKept ==
    ASSUME PromptInv, Quiet, UNCHANGED <<permits, am_choked>>
    PROVE  PermitsConserved'
  BY DEF Quiet, PromptInv, PermitsConserved, InFlight

\* Nothing but the answers of dead peers changes.
LEMMA DeadOwed ==
    ASSUME PromptInv, UNCHANGED <<completing, permits, am_choked, pc_tracker>>,
           \A p \in TimelyPeers : asked'[p] = asked[p]
    PROVE  OwedInv' /\ NeverRefetched' /\ PermitsConserved'
<1>1. \A p \in TimelyPeers : InFlight(p)' = InFlight(p)
  BY DEF InFlight
<1>2. \A i \in Pieces : Owed(i)' <=> Owed(i)
  BY <1>1 DEF Owed
<1>3. QED
  BY <1>1, <1>2
  DEF PromptInv, OwedInv, OwedReserved, OwedByOne, OwesTheMissing, NothingLeftOver,
      NeverRefetched, PermitsConserved

-----------------------------------------------------------------------------
(* Requests *)

\* A piece on offer is owed by nobody, and nothing of it is buffered.
LEMMA OfferedIsFresh ==
    ASSUME PromptInv, NEW i \in pc_tracker.needed
    PROVE  /\ i \in Pieces /\ i \notin pc_tracker.have /\ completing # i /\ ~Owed(i)
           /\ \A b \in Blocks : pc_tracker.buffered[i][b] = "none"
<1>1. i \in Pieces /\ i \notin pc_tracker.requested /\ i \notin pc_tracker.have
  BY PromptTypes DEF PieceTrackers, PromptInv, NeverRefetched, StagesInv, NeededNotReserved
<1>2. ~Owed(i) /\ completing # i
  BY <1>1, DownloadAssumption DEF PromptInv, OwedInv, OwedReserved
<1>3. QED
  BY <1>1, <1>2 DEF PromptInv, OwedInv, NothingLeftOver

LEMMA RequestPrompt ==
    ASSUME PromptInv, NEW p \in Peers, NEW i \in Pieces, RequestPiece(p, i)
    PROVE  OwedInv' /\ NeverRefetched' /\ PermitsConserved'
<1>1. /\ i \in pc_tracker.needed /\ i \notin pc_tracker.have /\ completing # i /\ ~Owed(i)
      /\ \A b \in Blocks : pc_tracker.buffered[i][b] = "none"
  BY OfferedIsFresh DEF RequestPiece
<1>2. /\ pc_tracker'.buffered = pc_tracker.buffered
      /\ pc_tracker'.needed = pc_tracker.needed \ {i}
      /\ pc_tracker'.requested = pc_tracker.requested \cup {i}
      /\ pc_tracker'.have = pc_tracker.have
      /\ UNCHANGED <<completing, am_choked>>
  BY PromptTypes DEF RequestPiece, ReservePiece, PieceTrackers
<1>3. /\ asked' = [asked EXCEPT ![p][i] = [b \in Blocks |-> @[b] + 1]]
      /\ permits' = [permits EXCEPT ![p] = @ - 1]
  BY DEF RequestPiece
<1>4. ASSUME NEW q \in TimelyPeers, q # p PROVE InFlight(q)' = InFlight(q) /\ asked'[q] = asked[q]
  BY <1>3, <1>4, PromptTypes DEF InFlight
<1>5. ASSUME p \in TimelyPeers
      PROVE  /\ i \notin InFlight(p)
             /\ InFlight(p)' = InFlight(p) \cup {i}
             /\ \A b \in Blocks : asked'[p][i][b] = 1
             /\ \A j \in Pieces \ {i} : asked'[p][j] = asked[p][j]
  <2>1. i \notin InFlight(p)
    BY <1>1, <1>5 DEF Owed
  <2>2. ASSUME NEW b \in Blocks PROVE asked'[p][i][b] = asked[p][i][b] + 1
    BY <1>3, PromptTypes
  <2>3. \A j \in Pieces \ {i} : asked'[p][j] = asked[p][j]
    BY <1>3, PromptTypes
  <2>4. ASSUME NEW b \in Blocks PROVE asked[p][i][b] = 0
    <3>1. ~(asked[p][i][b] > 0)
      BY <2>1 DEF InFlight
    <3>2. asked[p][i][b] \in Nat
      BY PromptTypes
    <3>3. QED
      BY <3>1, <3>2
  <2>5. \A b \in Blocks : asked'[p][i][b] = 1
    BY <2>2, <2>4
  <2>6. InFlight(p)' = InFlight(p) \cup {i}
    BY <2>3, <2>5, TrackerAssumption DEF InFlight
  <2>7. QED
    BY <2>1, <2>3, <2>5, <2>6
<1>6. ASSUME NEW q \in TimelyPeers PROVE InFlight(q)' \subseteq InFlight(q) \cup {i}
  BY <1>4, <1>5, <1>6
<1>7. \A j \in Pieces : Owed(j)' => Owed(j) \/ j = i
  BY <1>6 DEF Owed
<1>8. \A j \in Pieces : Owed(j) => Owed(j)'
  BY <1>4, <1>5 DEF Owed
<1>9. OwedReserved'
  BY <1>1, <1>2, <1>7 DEF PromptInv, OwedInv, OwedReserved
<1>10. OwedByOne'
  BY <1>1, <1>4, <1>5 DEF PromptInv, OwedInv, OwedByOne, Owed
<1>11. OwesTheMissing'
  BY <1>1, <1>2, <1>4, <1>5 DEF PromptInv, OwedInv, OwesTheMissing, InFlight
<1>12. NothingLeftOver'
  BY <1>1, <1>2, <1>8 DEF PromptInv, OwedInv, NothingLeftOver
<1>13. NeverRefetched'
  BY <1>2 DEF PromptInv, NeverRefetched
<1>14. PermitsConserved'
  <2> SUFFICES ASSUME NEW q \in TimelyPeers
               PROVE  permits'[q] + Cardinality(InFlight(q)') = IF am_choked'[q] THEN 0 ELSE Cap
    BY DEF PermitsConserved
  <2>1. permits[q] + Cardinality(InFlight(q)) = IF am_choked[q] THEN 0 ELSE Cap
    BY DEF PromptInv, PermitsConserved
  <2>2. CASE q = p
    <3>1. Cardinality(InFlight(q)') = Cardinality(InFlight(q)) + 1
      BY <1>5, <2>2, PromptTypes, InFlightType, FS_AddElement
    <3>2. permits'[q] = permits[q] - 1
      BY <1>3, <2>2, PromptTypes
    <3>3. permits[q] \in Nat /\ Cardinality(InFlight(q)) \in Nat /\ am_choked' = am_choked
      BY <1>2, PromptTypes, InFlightType
    <3>4. QED
      BY <2>1, <3>1, <3>2, <3>3
  <2>3. CASE q # p
    BY <1>2, <1>3, <1>4, <2>1, <2>3, PromptTypes
  <2>4. QED
    BY <2>2, <2>3
<1>15. QED
  BY <1>9, <1>10, <1>11, <1>12, <1>13, <1>14 DEF OwedInv

-----------------------------------------------------------------------------
(* Answers *)

\* The answer is the last the peer owes exactly if it completes the piece.
LEMMA AnswerPrompt ==
    ASSUME PromptInv, Prompt, NEW p \in Peers, NEW i \in Pieces, NEW b \in Blocks,
           HandleBlock(p, i, b, "good")
    PROVE  OwedInv' /\ NeverRefetched' /\ PermitsConserved'
<1> DEFINE pt == OnBlockBuffered(pc_tracker, i, b, "good")
<1>1. p \in TimelyPeers /\ i \in InFlight(p) /\ completing = NoPiece
  BY DEF HandleBlock, Receives, Prompt, InFlight
<1>2. i \in pc_tracker.requested \ pc_tracker.have /\ Owed(i)
  BY <1>1 DEF PromptInv, OwedInv, OwedReserved, Owed
<1>3. /\ pc_tracker' = pt
      /\ asked' = [asked EXCEPT ![p][i][b] = @ - 1]
      /\ permits' = [permits EXCEPT ![p] = @ + PermitsBack(pt, i)]
      /\ completing' = IF AllBuffered(pt, i) THEN i ELSE NoPiece
      /\ am_choked' = am_choked
  BY <1>2 DEF HandleBlock, Misses
<1>4. /\ pt.needed = pc_tracker.needed
      /\ pt.requested = pc_tracker.requested
      /\ pt.have = pc_tracker.have
      /\ \A j \in Pieces \ {i} : pt.buffered[j] = pc_tracker.buffered[j]
      /\ \A c \in Blocks : pt.buffered[i][c] = IF c = b THEN "good" ELSE pc_tracker.buffered[i][c]
  BY PromptTypes DEF OnBlockBuffered, PieceTrackers
<1>5. \A c \in Blocks : asked[p][i][c] = IF pc_tracker.buffered[i][c] = "none" THEN 1 ELSE 0
  BY <1>1 DEF PromptInv, OwedInv, OwesTheMissing
<1>6. asked[p][i][b] = 1
  BY <1>5 DEF HandleBlock
<1>7. ASSUME NEW c \in Blocks
      PROVE  asked'[p][i][c] = IF pt.buffered[i][c] = "none" THEN 1 ELSE 0
  <2>1. CASE c = b
    BY <1>3, <1>4, <1>6, <2>1, PromptTypes
  <2>2. CASE c # b
    BY <1>3, <1>4, <1>5, <2>2, PromptTypes
  <2>3. QED
    BY <2>1, <2>2
<1>8. \A q \in TimelyPeers, j \in Pieces : q # p \/ j # i => asked'[q][j] = asked[q][j]
  BY <1>3, PromptTypes
<1> HIDE DEF pt
<1>9. ASSUME NEW q \in TimelyPeers, NEW j \in Pieces, q # p \/ j # i
      PROVE  j \in InFlight(q)' <=> j \in InFlight(q)
  BY <1>8, <1>9 DEF InFlight
<1>10. i \in InFlight(p)' <=> ~AllBuffered(pt, i)
  BY <1>7 DEF InFlight, AllBuffered
<1>11. ASSUME NEW j \in Pieces, j # i PROVE Owed(j)' <=> Owed(j)
  BY <1>9, <1>11 DEF Owed
<1>12. ASSUME NEW q \in TimelyPeers, q # p PROVE i \notin InFlight(q)'
  BY <1>1, <1>9, <1>12 DEF PromptInv, OwedInv, OwedByOne
<1>13. Owed(i)' <=> ~AllBuffered(pt, i)
  BY <1>1, <1>10, <1>12 DEF Owed
<1>14. OwedReserved'
  BY <1>2, <1>3, <1>4, <1>11, <1>13, DownloadAssumption DEF PromptInv, OwedInv, OwedReserved
<1>15. OwedByOne'
  BY <1>9, <1>12 DEF PromptInv, OwedInv, OwedByOne, InFlight
<1>16. OwesTheMissing'
  <2> SUFFICES ASSUME NEW q \in TimelyPeers, NEW j \in Pieces, j \in InFlight(q)', NEW c \in Blocks
               PROVE  asked'[q][j][c] = IF pc_tracker'.buffered[j][c] = "none" THEN 1 ELSE 0
    BY DEF OwesTheMissing, InFlight
  <2>1. CASE j = i
    BY <1>3, <1>7, <1>12, <2>1
  <2>2. CASE j # i
    <3>1. j \in InFlight(q) /\ asked'[q][j] = asked[q][j] /\ pt.buffered[j] = pc_tracker.buffered[j]
      BY <1>4, <1>8, <1>9, <2>2
    <3>2. QED
      BY <1>3, <3>1 DEF PromptInv, OwedInv, OwesTheMissing
  <2>3. QED
    BY <2>1, <2>2
<1>17. NothingLeftOver'
  BY <1>1, <1>3, <1>4, <1>11, <1>13, DownloadAssumption DEF PromptInv, OwedInv, NothingLeftOver
<1>18. NeverRefetched'
  BY <1>3, <1>4 DEF PromptInv, NeverRefetched
<1>19. PermitsConserved'
  <2> SUFFICES ASSUME NEW q \in TimelyPeers
               PROVE  permits'[q] + Cardinality(InFlight(q)') = IF am_choked'[q] THEN 0 ELSE Cap
    BY DEF PermitsConserved
  <2>1. permits[q] + Cardinality(InFlight(q)) = IF am_choked[q] THEN 0 ELSE Cap
    BY DEF PromptInv, PermitsConserved
  <2>2. permits[q] \in Nat /\ Cardinality(InFlight(q)) \in Nat /\ q \in Peers
    BY PromptTypes, InFlightType
  <2>3. CASE q = p /\ AllBuffered(pt, i)
    <3>1. InFlight(p)' = InFlight(p) \ {i}
      BY <1>1, <1>9, <1>10, <2>3 DEF InFlight
    <3>2. Cardinality(InFlight(p)') = Cardinality(InFlight(p)) - 1
      BY <1>1, <3>1, InFlightType, FS_RemoveElement
    <3>3. permits'[p] = permits[p] + 1
      BY <1>3, <2>3, PromptTypes DEF PermitsBack
    <3>4. QED
      BY <1>3, <2>1, <2>2, <2>3, <3>2, <3>3
  <2>4. CASE q # p \/ ~AllBuffered(pt, i)
    <3>1. InFlight(q)' = InFlight(q)
      BY <1>1, <1>9, <1>10, <2>4 DEF InFlight
    <3>2. permits'[q] = permits[q]
      BY <1>3, <2>4, PromptTypes DEF PermitsBack
    <3>3. QED
      BY <1>3, <2>1, <3>1, <3>2
  <2>5. QED
    BY <2>3, <2>4
<1>20. QED
  BY <1>14, <1>15, <1>16, <1>17, <1>18, <1>19 DEF OwedInv

-----------------------------------------------------------------------------
(* Completed pieces and delayed checks *)

LEMMA CompletePrompt ==
    ASSUME PromptInv, NEW i \in Pieces, CompletePiece(i)
    PROVE  OwedInv' /\ NeverRefetched' /\ PermitsConserved'
<1>1. i = completing /\ completing # NoPiece
  BY DownloadAssumption DEF CompletePiece
<1>2. /\ i \notin pc_tracker.have /\ i \in pc_tracker.requested /\ i \notin pc_tracker.needed
      /\ VerifyPieceHash(pc_tracker, i) /\ ~Owed(i)
  BY <1>1, PromptTypes
  DEF PromptInv, OwedInv, OwedReserved, WindowInv, CompletingVerifies, StagesInv, StagesAgree,
      CompletingMissing, NeededNotReserved
<1>3. /\ pc_tracker'.needed = pc_tracker.needed
      /\ pc_tracker'.requested = pc_tracker.requested \ {i}
      /\ pc_tracker'.have = pc_tracker.have \cup {i}
      /\ pc_tracker'.buffered = [pc_tracker.buffered EXCEPT ![i] = NothingBuffered]
  BY <1>2, PromptTypes, CompletedResult DEF CompletePiece
<1>4. UNCHANGED <<asked, permits, am_choked>> /\ completing' = NoPiece
  BY DEF CompletePiece, peerVars
<1>5. \A p \in TimelyPeers : InFlight(p)' = InFlight(p)
  BY <1>4 DEF InFlight
<1>6. \A j \in Pieces : Owed(j)' <=> Owed(j)
  BY <1>5 DEF Owed
<1>7. \A j \in Pieces, b \in Blocks :
        pc_tracker'.buffered[j][b] = IF j = i THEN "none" ELSE pc_tracker.buffered[j][b]
  BY <1>3, PromptTypes DEF PieceTrackers, NothingBuffered
<1>8. OwedReserved'
  BY <1>2, <1>3, <1>4, <1>6, DownloadAssumption DEF PromptInv, OwedInv, OwedReserved
<1>9. OwedByOne'
  BY <1>5 DEF PromptInv, OwedInv, OwedByOne
<1>10. OwesTheMissing'
  <2>1. \A p \in TimelyPeers : i \notin InFlight(p)
    BY <1>2 DEF Owed
  <2>2. QED
    BY <1>4, <1>5, <1>7, <2>1 DEF PromptInv, OwedInv, OwesTheMissing, InFlight
<1>11. NothingLeftOver'
  BY <1>1, <1>6, <1>7 DEF PromptInv, OwedInv, NothingLeftOver
<1>12. NeverRefetched'
  BY <1>2, <1>3 DEF PromptInv, NeverRefetched
<1>13. PermitsConserved'
  BY <1>4, <1>5 DEF PromptInv, PermitsConserved
<1>14. QED
  BY <1>8, <1>9, <1>10, <1>11, <1>12, <1>13 DEF OwedInv

\* A check that wakes finds its piece saved, given up before, or owed by nobody.
LEMMA CheckPrompt ==
    ASSUME PromptInv, Prompt, NEW i \in Pieces, DelayedCheck(i)
    PROVE  OwedInv' /\ NeverRefetched' /\ PermitsConserved'
<1>1. completing # i /\ ~Owed(i)
  BY PromptTypes DEF DelayedCheck, MayWake, Prompt, Owed, InFlight
<1>2. UNCHANGED <<asked, completing, permits, am_choked>>
  BY DEF DelayedCheck, peerVars
<1>3. CASE i \in pc_tracker.requested /\ i \notin pc_tracker.have
  <2>1. /\ pc_tracker'.needed = pc_tracker.needed \cup {i}
        /\ pc_tracker'.requested = pc_tracker.requested \ {i}
        /\ pc_tracker'.have = pc_tracker.have
        /\ pc_tracker'.buffered = pc_tracker.buffered
    BY <1>3, PromptTypes, GiveUpResult DEF DelayedCheck
  <2>2. \A p \in TimelyPeers : InFlight(p)' = InFlight(p)
    BY <1>2 DEF InFlight
  <2>3. \A j \in Pieces : Owed(j)' <=> Owed(j)
    BY <2>2 DEF Owed
  <2>4. OwedInv'
    BY <1>1, <1>2, <2>1, <2>2, <2>3
    DEF PromptInv, OwedInv, OwedReserved, OwedByOne, OwesTheMissing, NothingLeftOver
  <2>5. NeverRefetched' /\ PermitsConserved'
    BY <1>2, <1>3, <2>1, <2>2 DEF PromptInv, NeverRefetched, PermitsConserved
  <2>6. QED
    BY <2>4, <2>5
<1>4. CASE ~(i \in pc_tracker.requested /\ i \notin pc_tracker.have)
  <2>1. UNCHANGED pc_tracker
    BY <1>4 DEF DelayedCheck
  <2>2. Quiet
    BY <1>2, <2>1 DEF Quiet
  <2>3. QED
    BY <1>2, <2>1, <2>2, QuietOwed, ConservedKept DEF PromptInv, NeverRefetched
<1>5. QED
  BY <1>3, <1>4

-----------------------------------------------------------------------------
(* Announcements and unchokes *)

LEMMA AnnouncePrompt ==
    ASSUME PromptInv, NEW p \in Peers, NEW S \in SUBSET Pieces,
           HandleBitfield(p, S) \/ \E i \in Pieces : HandleHave(p, i)
    PROVE  OwedInv' /\ NeverRefetched' /\ PermitsConserved'
<1>1. \E T \in SUBSET Pieces : pc_tracker' = UpdateMultiple(pc_tracker, Announced(p, T))
  <2>1. ASSUME NEW i \in Pieces, HandleHave(p, i)
        PROVE  \E T \in SUBSET Pieces : pc_tracker' = UpdateMultiple(pc_tracker, Announced(p, T))
    <3>1. {i} \in SUBSET Pieces
      OBVIOUS
    <3>2. QED
      BY <2>1, <3>1 DEF HandleHave
  <2>2. QED
    BY <2>1 DEF HandleBitfield
<1>2. PICK T \in SUBSET Pieces : pc_tracker' = UpdateMultiple(pc_tracker, Announced(p, T))
  BY <1>1
<1>3. Announced(p, T) \in SUBSET Pieces
  BY DEF Announced
<1>4. UNCHANGED <<asked, completing, permits, am_choked>>
  BY DEF HandleBitfield, HandleHave, taskVars
<1>5. QED
  BY <1>2, <1>3, <1>4, AnnounceQuiet, QuietOwed, ConservedKept

LEMMA UnchokePrompt ==
    ASSUME PromptInv, NEW p \in Peers, HandleUnchoke(p)
    PROVE  OwedInv' /\ NeverRefetched' /\ PermitsConserved'
<1>1. /\ peer_have[p] \in SUBSET Pieces
      /\ am_choked \in [Peers -> BOOLEAN]
  BY PromptTypes DEF StagesInv, TypeOK
<1>2. Quiet /\ NeverRefetched'
  BY <1>1, AnnounceQuiet DEF HandleUnchoke, HeldBack, taskVars
<1>3. ASSUME NEW q \in TimelyPeers
      PROVE  permits'[q] + Cardinality(InFlight(q)') = IF am_choked'[q] THEN 0 ELSE Cap
  <2>1. InFlight(q)' = InFlight(q)
    BY <1>2 DEF Quiet, InFlight
  <2>2. permits[q] + Cardinality(InFlight(q)) = IF am_choked[q] THEN 0 ELSE Cap
    BY DEF PromptInv, PermitsConserved
  <2>3. permits[q] \in Nat /\ Cardinality(InFlight(q)) \in Nat /\ q \in Peers
    BY PromptTypes, InFlightType
  <2>4. CASE q = p
    <3>1. permits'[q] = permits[q] + Cap /\ am_choked[q] /\ ~am_choked'[q]
      BY <1>1, <2>4, PromptTypes DEF HandleUnchoke
    <3>2. QED
      BY <2>1, <2>2, <2>3, <3>1, DownloadAssumption
  <2>5. CASE q # p
    <3>1. permits'[q] = permits[q] /\ am_choked'[q] = am_choked[q]
      BY <1>1, <2>3, <2>5, PromptTypes DEF HandleUnchoke
    <3>2. QED
      BY <2>1, <2>2, <3>1
  <2>6. QED
    BY <2>4, <2>5
<1>4. QED
  BY <1>2, <1>3, QuietOwed DEF PermitsConserved

-----------------------------------------------------------------------------

LEMMA NextPrompt ==
    ASSUME Prompt
    PROVE  PromptInv /\ [Next]_vars => PromptInv'
<1> SUFFICES ASSUME PromptInv, [Next]_vars
             PROVE  OwedInv' /\ NeverRefetched' /\ PermitsConserved'
  BY NextWindowInv DEF PromptInv, Prompt
<1> DEFINE Kept == OwedInv' /\ NeverRefetched' /\ PermitsConserved'
<1> SUFFICES Kept
  OBVIOUS
<1>1. ASSUME UNCHANGED <<asked, completing, permits, am_choked, pc_tracker>> PROVE Kept
  BY <1>1, DeadOwed
<1>2. CASE PeerComNext
  <2>1. ASSUME NEW p \in Peers, NEW i \in Pieces, NEW b \in Blocks, NEW data \in Answers(p),
               HandleBlock(p, i, b, data)
        PROVE  Kept
    <3>1. data = "good"
      BY DEF Answers, Prompt, Steady
    <3>2. QED
      BY <2>1, <3>1, AnswerPrompt
  <2>2. ASSUME NEW p \in Peers, HandleChoke(p) PROVE FALSE
    BY <2>2 DEF HandleChoke, Prompt, Steady
  <2>3. CASE PeerComPanics
    BY <1>1, <2>3 DEF PeerComPanics, peerVars
  <2> HIDE DEF Kept
  <2>4. ASSUME NEW p \in Peers, NEW i \in Pieces, HandleHave(p, i) PROVE Kept
    BY <2>4, AnnouncePrompt DEF Kept
  <2>5. ASSUME NEW p \in Peers, NEW S \in SUBSET Pieces, HandleBitfield(p, S) PROVE Kept
    BY <2>5, AnnouncePrompt DEF Kept
  <2>6. ASSUME NEW p \in Peers, HandleUnchoke(p) PROVE Kept
    BY <2>6, UnchokePrompt DEF Kept
  <2>7. ASSUME NEW i \in Pieces, CompletePiece(i) PROVE Kept
    BY <2>7, CompletePrompt DEF Kept
  <2>8. QED
    BY <1>2, <2>1, <2>2, <2>3, <2>4, <2>5, <2>6, <2>7 DEF PeerComNext
<1>3. CASE RequestsNext
  <2>1. ASSUME NEW p \in Peers, NEW i \in Pieces, RequestPiece(p, i) PROVE Kept
    BY <2>1, RequestPrompt
  <2>2. ASSUME NEW i \in Pieces, DelayedCheck(i) PROVE Kept
    BY <2>2, CheckPrompt
  <2> HIDE DEF Kept
  <2>3. QED
    BY <1>1, <1>3, <2>1, <2>2 DEF RequestsNext, Register, SpawnDelayedCheck, peerVars
<1>4. ASSUME NEW p \in Peers, NEW i \in Pieces, NEW b \in Blocks, DropRequest(p, i, b)
      PROVE  Kept
  <2>1. UNCHANGED <<completing, permits, am_choked, pc_tracker>>
    BY <1>4 DEF DropRequest, peerVars, taskVars
  <2>2. \A q \in TimelyPeers : asked'[q] = asked[q]
    BY <1>4, PromptTypes DEF DropRequest
  <2>3. QED
    BY <2>1, <2>2, DeadOwed
<1> HIDE DEF Kept
<1>5. QED
  BY <1>1, <1>2, <1>3, <1>4 DEF Next, PrintStats, vars, peerVars, taskVars

LEMMA PromptInvariant == ASSUME Prompt PROVE Spec => []PromptInv
  BY InitPrompt, NextPrompt, PTL DEF Spec

\* A piece on disk is never on offer again, although the checks of requests that
\* went to dead peers wake whenever they like.
THEOREM NothingRefetched == ASSUME Prompt PROVE Spec => []NeverRefetched
<1>1. PromptInv => NeverRefetched
  BY DEF PromptInv
<1>2. QED
  BY <1>1, PromptInvariant, PTL

\* The permits a timely peer has out are exactly those of the pieces it owes:
\* the last block it owes is the one that completes the piece.
THEOREM PermitsAccounted == ASSUME Prompt PROVE Spec => []PermitsConserved
<1>1. PromptInv => PermitsConserved
  BY DEF PromptInv
<1>2. QED
  BY <1>1, PromptInvariant, PTL

=============================================================================
