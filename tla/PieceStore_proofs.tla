--------------------------- MODULE PieceStore_proofs ---------------------------
(***************************************************************************)
(* Proofs about PieceStore, for any torrents, any sizes of its pieces,     *)
(* blocks and files, and any number of writes that fail.                   *)
(***************************************************************************)
EXTENDS PieceStore, NatRecursion, SequenceTheorems, FiniteSetTheorems, TLAPS

-----------------------------------------------------------------------------
(* The geometry of pieces and blocks *)

\* The number of parts of length b that cover a.
LEMMA Covering ==
    ASSUME NEW a \in Nat \ {0}, NEW b \in Nat \ {0}, NEW n, n = (a + b - 1) \div b
    PROVE  n \in Nat \ {0} /\ b * (n - 1) < a /\ a <= b * n
<1>1. a + b - 1 \in Nat
  OBVIOUS
<1>2. n \in Nat /\ (a + b - 1) % b \in 0 .. b - 1 /\ a + b - 1 = b * n + ((a + b - 1) % b)
  BY <1>1, Division
<1>3. PICK r \in 0 .. b - 1 : a + b - 1 = b * n + r
  BY <1>2
<1>4. n # 0
  BY <1>2, <1>3
<1>5. b * (n - 1) = b * n - b
  BY <1>2
<1>6. b * n \in Nat
  BY <1>2
<1>7. QED
  BY <1>2, <1>3, <1>4, <1>5, <1>6

\* Parts of length b one after the other do not overlap.
LEMMA PartsApart ==
    ASSUME NEW b \in Nat, NEW i \in Nat, NEW j \in Nat, i < j
    PROVE  b * i + b <= b * j
<1>1. PICK d \in Nat : j = i + 1 + d
  <2>1. j - i - 1 \in Nat /\ j = i + 1 + (j - i - 1)
    OBVIOUS
  <2>2. QED
    BY <2>1
<1>2. b * j = b * i + b + b * d /\ b * d \in Nat
  BY <1>1
<1>3. QED
  BY <1>2

LEMMA TorrentFacts ==
    ASSUME torrent \in Torrents
    PROVE  /\ torrent.piece_len \in Nat \ {0} /\ torrent.block_size \in Nat \ {0}
           /\ torrent.files \in Seq(Nat) /\ NumFiles \in Nat \ {0}
           /\ \A f \in 1 .. NumFiles : torrent.files[f] \in Nat
           /\ \E f \in 1 .. NumFiles : torrent.files[f] > 0
<1>1. /\ torrent.piece_len \in Nat \ {0} /\ torrent.block_size \in Nat \ {0}
      /\ torrent.files \in Seq(Nat)
      /\ \E f \in DOMAIN torrent.files : torrent.files[f] > 0
  BY PieceStoreAssumption
<1>2. NumFiles \in Nat /\ DOMAIN torrent.files = 1 .. NumFiles
  BY <1>1 DEF NumFiles
<1>3. QED
  BY <1>1, <1>2

\* Files lie one behind the other.
LEMMA FileStartsAre ==
    ASSUME torrent \in Torrents
    PROVE  /\ FileStarts[1] = 0
           /\ \A f \in 1 .. NumFiles + 1 : FileStarts[f] \in Nat
           /\ \A f \in 1 .. NumFiles : FileStarts[f + 1] = FileStarts[f] + torrent.files[f]
<1> DEFINE N == NumFiles
           P(g) == g = [f \in 1 .. N + 1 |-> IF f = 1 THEN 0 ELSE g[f - 1] + torrent.files[f - 1]]
<1>1. N \in Nat /\ \A f \in 1 .. N : torrent.files[f] \in Nat
  BY TorrentFacts
<1>2. \E g : P(g)
  <2> DEFINE D == [x \in Nat \X Nat |->
                     IF x[1] + 1 \in 1 .. N THEN x[2] + torrent.files[x[1] + 1] ELSE 0]
  <2>1. D \in [Nat \X Nat -> Nat]
    BY <1>1
  <2>2. \A n, v \in Nat : n + 1 \in 1 .. N => D[<<n, v>>] = v + torrent.files[n + 1]
    OBVIOUS
  <2> HIDE DEF D
  <2>a. 0 \in Nat
    OBVIOUS
  <2>b. PICK F \in [Nat -> Nat] : Unfolds(F, 0, D)
    BY <2>1, <2>a, Recursion
  <2>3. F[0] = 0 /\ \A n \in Nat : F[n + 1] = D[<<n, F[n]>>]
    BY <2>b DEF Unfolds
  <2> DEFINE g == [f \in 1 .. N + 1 |-> F[f - 1]]
  <2>4. ASSUME NEW f \in 1 .. N + 1
        PROVE  g[f] = IF f = 1 THEN 0 ELSE g[f - 1] + torrent.files[f - 1]
    <3>1. CASE f = 1
      BY <2>3, <3>1
    <3>2. CASE f # 1
      <4>1. /\ f - 2 \in Nat /\ f - 1 = (f - 2) + 1 /\ f - 1 \in 1 .. N
            /\ f - 1 \in 1 .. N + 1 /\ (f - 1) - 1 = f - 2
        BY <1>1, <3>2
      <4>2. F[f - 1] = F[f - 2] + torrent.files[f - 1]
        BY <2>2, <2>3, <4>1
      <4>3. g[f - 1] = F[f - 2]
        BY <4>1
      <4>4. QED
        BY <3>2, <4>2, <4>3
    <3>3. QED
      BY <3>1, <3>2
  <2>5. P(g)
    BY <2>4
  <2>6. QED
    BY <2>5
<1>3. FileStarts = CHOOSE g : P(g)
  BY DEF FileStarts
<1>4. P(FileStarts)
  BY <1>2, <1>3
<1>5. /\ FileStarts[1] = 0
      /\ \A f \in 1 .. N : FileStarts[f + 1] = FileStarts[f] + torrent.files[f]
  <2>1. \A f \in 1 .. N + 1 :
            FileStarts[f] = IF f = 1 THEN 0 ELSE FileStarts[f - 1] + torrent.files[f - 1]
    BY <1>4
  <2>2. ASSUME NEW f \in 1 .. N PROVE f + 1 \in 1 .. N + 1 /\ f + 1 # 1 /\ (f + 1) - 1 = f
    BY <1>1
  <2>3. 1 \in 1 .. N + 1
    BY <1>1
  <2> HIDE DEF N, P
  <2>4. QED
    BY <2>1, <2>2, <2>3
<1>6. \A f \in 1 .. N + 1 : FileStarts[f] \in Nat
  <2> DEFINE T == {n \in Nat : n <= N => FileStarts[n + 1] \in Nat}
  <2>1. 0 \in T
    BY <1>5
  <2>2. ASSUME NEW n \in 0 .. N - 1, n \in T PROVE n + 1 \in T
    <3>1. n + 1 \in 1 .. N /\ n <= N
      BY <1>1
    <3>2. QED
      BY <1>1, <1>5, <2>2, <3>1
  <2> HIDE DEF T
  <2>3. \A n \in 0 .. N : n \in T
    BY <1>1, <2>1, <2>2, InductTo
  <2>4. ASSUME NEW f \in 1 .. N + 1 PROVE FileStarts[f] \in Nat
    <3>1. f - 1 \in 0 .. N /\ f = (f - 1) + 1 /\ f - 1 <= N
      BY <1>1
    <3>2. QED
      BY <2>3, <3>1 DEF T
  <2>5. QED
    BY <2>4
<1>7. QED
  BY <1>5, <1>6

LEMMA FilesInOrder ==
    ASSUME torrent \in Torrents, NEW f \in 1 .. NumFiles, NEW g \in f + 1 .. NumFiles + 1
    PROVE  FileStarts[f] + torrent.files[f] <= FileStarts[g]
<1> DEFINE N == NumFiles
           T == {n \in Nat : f + 1 + n <= N + 1 => FileStarts[f + 1] <= FileStarts[f + 1 + n]}
<1>1. N \in Nat /\ \A h \in 1 .. N : torrent.files[h] \in Nat
  BY TorrentFacts
<1>2. 0 \in T
  BY <1>1, FileStartsAre
<1>3. ASSUME NEW n \in T PROVE n + 1 \in T
  <2>1. ASSUME f + 1 + (n + 1) <= N + 1
        PROVE  FileStarts[f + 1] <= FileStarts[f + 1 + (n + 1)]
    <3>1. f + 1 + n \in 1 .. N /\ f + 1 + (n + 1) = (f + 1 + n) + 1 /\ f + 1 + n <= N + 1
      BY <1>1, <2>1
    <3>2. FileStarts[(f + 1 + n) + 1] = FileStarts[f + 1 + n] + torrent.files[f + 1 + n]
      BY <3>1, FileStartsAre
    <3>3. /\ FileStarts[f + 1] \in Nat /\ FileStarts[f + 1 + n] \in Nat
          /\ torrent.files[f + 1 + n] \in Nat
      BY <1>1, <3>1, FileStartsAre
    <3>4. FileStarts[f + 1] <= FileStarts[f + 1 + n]
      BY <1>3, <3>1
    <3>5. QED
      BY <3>1, <3>2, <3>3, <3>4
  <2>2. QED
    BY <2>1
<1>4. T = Nat
  <2> HIDE DEF T
  <2>1. QED
    BY <1>2, <1>3, Induct DEF T
<1>5. g - (f + 1) \in Nat /\ g = f + 1 + (g - (f + 1)) /\ g <= N + 1
  BY <1>1
<1>6. FileStarts[f + 1] <= FileStarts[g]
  BY <1>4, <1>5
<1>7. QED
  BY <1>6, FileStartsAre

LEMMA TotalPositive == ASSUME torrent \in Torrents PROVE TotalLen \in Nat \ {0}
<1>1. PICK f \in 1 .. NumFiles : torrent.files[f] > 0
  BY TorrentFacts
<1>2. NumFiles \in Nat /\ NumFiles + 1 \in f + 1 .. NumFiles + 1 /\ torrent.files[f] \in Nat
  BY TorrentFacts
<1>3. FileStarts[f] + torrent.files[f] <= FileStarts[NumFiles + 1]
  BY <1>2, FilesInOrder
<1>4. FileStarts[f] \in Nat /\ FileStarts[NumFiles + 1] \in Nat
  BY <1>2, FileStartsAre
<1>5. QED
  BY <1>1, <1>2, <1>3, <1>4 DEF TotalLen

\* Pieces lie one behind the other, and the last one ends the torrent.
LEMMA PieceFacts ==
    ASSUME torrent \in Torrents
    PROVE  /\ NumPieces \in Nat \ {0}
           /\ \A i \in Pieces :
                 /\ i \in Nat /\ PieceLen(i) \in 1 .. torrent.piece_len
                 /\ torrent.piece_len * i \in Nat
                 /\ torrent.piece_len * i + PieceLen(i) <= TotalLen
                 /\ i # NumPieces - 1 => PieceLen(i) = torrent.piece_len
           /\ NumPieces - 1 \in Pieces
           /\ torrent.piece_len * (NumPieces - 1) + PieceLen(NumPieces - 1) = TotalLen
<1> DEFINE P == torrent.piece_len
           L == TotalLen
           N == NumPieces
<1>1. P \in Nat \ {0} /\ L \in Nat \ {0}
  BY TorrentFacts, TotalPositive
<1>2. N \in Nat \ {0} /\ P * (N - 1) < L /\ L <= P * N
  BY <1>1, Covering DEF NumPieces
<1>3. LastPieceLen \in 1 .. P /\ P * (N - 1) + LastPieceLen = L
  <2> DEFINE r == L - P * (N - 1)
  <2>1. P * N = P * (N - 1) + P /\ P * (N - 1) \in Nat /\ N - 1 \in Nat
    BY <1>1, <1>2
  <2>2. r \in 1 .. P /\ L = P * (N - 1) + r
    BY <1>1, <1>2, <2>1
  <2> HIDE DEF r, L, N, P
  <2>3. CASE r = P
    <3>1. L = P * N + 0 /\ 0 \in 0 .. P - 1 /\ N \in Nat
      BY <1>1, <1>2, <2>1, <2>2, <2>3
    <3>2. L % P = 0
      BY <1>1, <3>1, DivisionUnique
    <3>3. QED
      BY <1>1, <2>2, <2>3, <3>2 DEF LastPieceLen, L, P
  <2>4. CASE r # P
    <3>1. r \in 0 .. P - 1 /\ r # 0
      BY <1>1, <2>2, <2>4
    <3>2. L % P = r
      BY <1>1, <2>1, <2>2, <3>1, DivisionUnique
    <3>3. QED
      BY <1>1, <2>2, <3>1, <3>2 DEF LastPieceLen, L, P
  <2>5. QED
    BY <2>3, <2>4
<1>4. ASSUME NEW i \in Pieces
      PROVE  /\ i \in Nat /\ PieceLen(i) \in 1 .. P /\ P * i \in Nat /\ P * i + PieceLen(i) <= L
             /\ i # N - 1 => PieceLen(i) = P
  <2>1. i \in Nat /\ i <= N - 1 /\ P * i \in Nat
    BY <1>1, <1>2 DEF Pieces
  <2>2. CASE i = N - 1
    BY <1>1, <1>2, <1>3, <2>1, <2>2 DEF PieceLen
  <2>3. CASE i # N - 1
    <3>1. PieceLen(i) = P
      BY <2>3 DEF PieceLen
    <3>2. i < N - 1 /\ N - 1 \in Nat
      BY <1>2, <2>1, <2>3
    <3>3. P * i + P <= P * (N - 1) /\ P * (N - 1) \in Nat
      BY <1>1, <2>1, <3>2, PartsApart
    <3> HIDE DEF P, L, N
    <3>4. QED
      BY <1>1, <1>2, <2>1, <3>1, <3>3
  <2>4. QED
    BY <2>2, <2>3
<1>5. N - 1 \in Pieces /\ PieceLen(N - 1) = LastPieceLen
  BY <1>2 DEF Pieces, PieceLen
<1>6. QED
  BY <1>2, <1>3, <1>4, <1>5

\* How long a block is.
BlockLen(i, b) == Sets!Min({torrent.block_size, PieceLen(i) - torrent.block_size * b})

LEMMA MinOfTwo ==
    ASSUME NEW a \in Int, NEW b \in Int
    PROVE  Sets!Min({a, b}) = IF a <= b THEN a ELSE b
  BY DEF Sets!Min

LEMMA MaxOfTwo ==
    ASSUME NEW a \in Int, NEW b \in Int
    PROVE  Sets!Max({a, b}) = IF a >= b THEN a ELSE b
  BY DEF Sets!Max

LEMMA BlockFacts ==
    ASSUME torrent \in Torrents, NEW i \in Pieces
    PROVE  /\ NumBlocks(i) \in Nat \ {0}
           /\ \A b \in 0 .. NumBlocks(i) - 1 :
                 /\ torrent.block_size * b \in Nat
                 /\ BlockLen(i, b) \in 1 .. torrent.block_size
                 /\ torrent.block_size * b + BlockLen(i, b) <= PieceLen(i)
                 /\ b # NumBlocks(i) - 1 => BlockLen(i, b) = torrent.block_size
           /\ torrent.block_size * (NumBlocks(i) - 1) + BlockLen(i, NumBlocks(i) - 1) = PieceLen(i)
           /\ \A b \in Nat : torrent.block_size * b < PieceLen(i) => b <= NumBlocks(i) - 1
<1> DEFINE B == torrent.block_size
           L == PieceLen(i)
           N == NumBlocks(i)
<1>1. B \in Nat \ {0} /\ L \in Nat \ {0}
  <2>1. torrent.block_size \in Nat \ {0} /\ torrent.piece_len \in Nat \ {0}
    BY TorrentFacts
  <2>2. PieceLen(i) \in 1 .. torrent.piece_len
    BY PieceFacts
  <2>3. QED
    BY <2>1, <2>2
<1>2. N \in Nat \ {0} /\ B * (N - 1) < L /\ L <= B * N
  BY <1>1, Covering DEF NumBlocks
<1>3. \A b \in Nat : BlockLen(i, b) = IF B <= L - B * b THEN B ELSE L - B * b
  BY <1>1, MinOfTwo DEF BlockLen
<1> HIDE DEF B, L, N
<1>4. B * N = B * (N - 1) + B /\ B * (N - 1) \in Nat /\ N - 1 \in Nat
  BY <1>1, <1>2
<1>5. ASSUME NEW b \in 0 .. N - 1
      PROVE  /\ B * b \in Nat /\ BlockLen(i, b) \in 1 .. B /\ B * b + BlockLen(i, b) <= L
             /\ b # N - 1 => BlockLen(i, b) = B
  <2>1. b \in Nat /\ B * b \in Nat
    BY <1>1
  <2>2. CASE b = N - 1
    BY <1>1, <1>2, <1>3, <1>4, <2>1, <2>2
  <2>3. CASE b # N - 1
    <3>1. b < N - 1
      BY <1>2, <2>3
    <3>2. B * b + B <= B * (N - 1)
      BY <1>1, <1>4, <2>1, <3>1, PartsApart
    <3>3. QED
      BY <1>1, <1>2, <1>3, <1>4, <2>1, <3>2
  <2>4. QED
    BY <2>2, <2>3
<1>6. B * (N - 1) + BlockLen(i, N - 1) = L
  BY <1>1, <1>2, <1>3, <1>4
<1>7. ASSUME NEW b \in Nat, B * b < L PROVE b <= N - 1
  <2>1. ASSUME N < b PROVE FALSE
    <3>1. B * N + B <= B * b /\ B * b \in Nat /\ B * N \in Nat
      BY <1>1, <1>2, <2>1, PartsApart
    <3>2. QED
      BY <1>1, <1>2, <1>7, <3>1
  <2>2. b # N
    BY <1>1, <1>2, <1>7
  <2>3. QED
    BY <1>2, <2>1, <2>2
<1>8. QED
  BY <1>2, <1>5, <1>6, <1>7 DEF B, L, N

\* The request for block b.
RequestOf(i, b) == [offset |-> torrent.block_size * b, length |-> BlockLen(i, b)]

\* The loop of request_piece asks for the blocks of the piece.
LEMMA RequestsAre ==
    ASSUME torrent \in Torrents, NEW i \in Pieces
    PROVE  Requests(i) = {RequestOf(i, b) : b \in 0 .. NumBlocks(i) - 1}
<1> DEFINE B == torrent.block_size
           L == PieceLen(i)
           R(x) == [offset |-> x, length |-> Sets!Min({B, L - x})]
           P(g) == g = [offset \in 0 .. L |->
                          IF offset = L THEN {}
                          ELSE LET length == Sets!Min({torrent.block_size, PieceLen(i) - offset})
                               IN  {[offset |-> offset, length |-> length]} \cup g[offset + length]]
           Q(o) == {x \in o .. L - 1 : \E q \in Nat : x = o + B * q}
           G == [o \in 0 .. L |-> {R(x) : x \in Q(o)}]
<1>1. B \in Nat \ {0} /\ L \in Nat \ {0}
  <2>1. torrent.block_size \in Nat \ {0} /\ torrent.piece_len \in Nat \ {0}
    BY TorrentFacts
  <2>2. PieceLen(i) \in 1 .. torrent.piece_len
    BY PieceFacts
  <2>3. QED
    BY <2>1, <2>2
<1>2. ASSUME NEW o \in 0 .. L, o # L
      PROVE  /\ o + Sets!Min({B, L - o}) \in o + 1 .. L
             /\ Q(o) = {o} \cup Q(o + Sets!Min({B, L - o}))
  <2> DEFINE n == Sets!Min({B, L - o})
  <2>1. n = IF B <= L - o THEN B ELSE L - o
    BY <1>1, MinOfTwo
  <2> HIDE DEF n
  <2>2. n \in Nat /\ n > 0 /\ o + n \in o + 1 .. L
    BY <1>1, <1>2, <2>1
  <2>3. ASSUME NEW x \in Q(o), x # o PROVE x \in Q(o + n)
    <3>1. PICK q \in Nat : x = o + B * q
      OBVIOUS
    <3>2. q # 0
      BY <1>1, <2>3, <3>1
    <3>3. q - 1 \in Nat /\ B * q = B + B * (q - 1) /\ B * (q - 1) \in Nat
      BY <1>1, <3>1, <3>2
    <3>4. n = B
      BY <1>1, <1>2, <2>1, <3>1, <3>3
    <3>5. x = (o + n) + B * (q - 1) /\ x \in o + n .. L - 1
      BY <1>1, <3>1, <3>3, <3>4
    <3>6. QED
      BY <3>3, <3>5
  <2>4. ASSUME NEW x \in Q(o + n) PROVE x \in Q(o)
    <3>1. PICK q \in Nat : x = (o + n) + B * q
      OBVIOUS
    <3>2. o + n < L /\ x \in o .. L - 1
      BY <1>1, <2>2, <3>1
    <3>3. n = B
      BY <1>1, <1>2, <2>1, <3>2
    <3>4. x = o + B * (q + 1) /\ q + 1 \in Nat
      BY <1>1, <3>1, <3>3
    <3>5. QED
      BY <3>2, <3>4
  <2>5. o \in Q(o)
    <3>1. o = o + B * 0 /\ o \in o .. L - 1
      BY <1>1, <1>2
    <3>2. QED
      BY <3>1
  <2>6. Q(o) = {o} \cup Q(o + n)
    <3> HIDE DEF Q
    <3>1. QED
      BY <2>3, <2>4, <2>5
  <2>7. QED
    BY <2>2, <2>6 DEF n
<1>3. Q(L) = {}
  BY <1>1
<1>4. ASSUME NEW o \in 0 .. L
      PROVE  G[o] = IF o = L THEN {} ELSE {R(o)} \cup G[o + Sets!Min({B, L - o})]
  <2> HIDE DEF Q, R
  <2>1. CASE o = L
    BY <1>1, <1>3, <2>1
  <2>2. CASE o # L
    <3>1. o + Sets!Min({B, L - o}) \in 0 .. L
      BY <1>1, <1>2, <2>2
    <3>2. G[o] = {R(x) : x \in {o} \cup Q(o + Sets!Min({B, L - o}))}
      BY <1>2, <2>2
    <3>3. QED
      BY <2>2, <3>1, <3>2
  <2>3. QED
    BY <2>1, <2>2
<1>5. P(G)
  BY <1>4
<1>6. Requests(i) = (CHOOSE g : P(g))[0]
  BY DEF Requests
<1>7. PICK g : P(g) /\ Requests(i) = g[0]
  BY <1>5, <1>6
<1>8. \A o \in 0 .. L :
          g[o] = IF o = L THEN {} ELSE {R(o)} \cup g[o + Sets!Min({B, L - o})]
  BY <1>7
<1> HIDE DEF P, G, Q, R
<1>9. g[0] = G[0]
  <2> DEFINE T == {n \in Nat : \A o \in 0 .. L : L - o <= n => g[o] = G[o]}
  <2>1. 0 \in T
    <3>1. ASSUME NEW o \in 0 .. L, L - o <= 0 PROVE g[o] = G[o]
      <4>1. o = L
        BY <1>1, <3>1
      <4>2. g[o] = {} /\ G[o] = {}
        BY ONLY <1>4, <1>8, <4>1, o \in 0 .. L
      <4>3. QED
        BY <4>2
    <3>2. QED
      BY <3>1
  <2>2. ASSUME NEW n \in T PROVE n + 1 \in T
    <3>1. ASSUME NEW o \in 0 .. L, L - o <= n + 1 PROVE g[o] = G[o]
      <4>1. CASE o = L
        BY <1>4, <1>8, <4>1
      <4>2. CASE o # L
        <5> DEFINE m == o + Sets!Min({B, L - o})
        <5>1. m \in o + 1 .. L
          BY <1>2, <4>2
        <5> HIDE DEF m
        <5>2. m \in 0 .. L /\ L - m <= n
          BY <1>1, <3>1, <5>1
        <5>3. g[m] = G[m]
          BY <5>2
        <5>4. g[o] = {R(o)} \cup g[m]
          BY ONLY <1>8, <4>2, o \in 0 .. L DEF m
        <5>5. G[o] = {R(o)} \cup G[m]
          BY ONLY <1>4, <4>2, o \in 0 .. L DEF m
        <5>6. QED
          BY <5>3, <5>4, <5>5
      <4>3. QED
        BY <4>1, <4>2
    <3>2. QED
      BY <3>1
  <2>3. T = Nat
    <3> HIDE DEF T
    <3>1. QED
      BY <2>1, <2>2, Induct DEF T
  <2>4. 0 \in 0 .. L /\ L - 0 <= L /\ L \in T
    BY <1>1, <2>3
  <2>5. QED
    BY <2>4
<1>10. G[0] = {RequestOf(i, b) : b \in 0 .. NumBlocks(i) - 1}
  <2>1. G[0] = {R(x) : x \in Q(0)}
    BY <1>1 DEF G
  <2>2. \A b \in Nat : RequestOf(i, b) = R(B * b)
    BY DEF RequestOf, BlockLen, R
  <2>3. Q(0) = {B * b : b \in 0 .. NumBlocks(i) - 1}
    <3>1. ASSUME NEW x \in Q(0) PROVE x \in {B * b : b \in 0 .. NumBlocks(i) - 1}
      <4>1. PICK b \in Nat : x = 0 + B * b /\ x \in 0 .. L - 1
        BY DEF Q
      <4>2. B * b \in Nat /\ x = B * b /\ B * b < L
        BY <1>1, <4>1
      <4>3. b <= NumBlocks(i) - 1 /\ NumBlocks(i) \in Nat
        BY <4>2, BlockFacts
      <4>4. b \in 0 .. NumBlocks(i) - 1
        BY <4>3
      <4>5. QED
        BY <4>2, <4>4
    <3>2. ASSUME NEW b \in 0 .. NumBlocks(i) - 1 PROVE B * b \in Q(0)
      <4>1. B * b \in Nat /\ BlockLen(i, b) \in 1 .. B /\ B * b + BlockLen(i, b) <= L /\ b \in Nat
        BY BlockFacts
      <4>2. B * b \in 0 .. L - 1 /\ B * b = 0 + B * b
        BY <1>1, <4>1
      <4>3. QED
        BY <4>1, <4>2 DEF Q
    <3>3. QED
      BY <3>1, <3>2
  <2>4. \A b \in 0 .. NumBlocks(i) - 1 : b \in Nat
    OBVIOUS
  <2>5. QED
    BY <2>1, <2>2, <2>3, <2>4
<1>11. QED
  BY <1>7, <1>9, <1>10

-----------------------------------------------------------------------------
(* Every byte of the torrent is asked for once *)

LEMMA BlockIndexes ==
    ASSUME torrent \in Torrents, NEW i \in Pieces, NEW b \in 0 .. NumBlocks(i) - 1
    PROVE  (torrent.block_size * b) \div torrent.block_size = b
<1>1. torrent.block_size \in Nat \ {0}
  BY TorrentFacts
<1>2. b \in Nat /\ 0 \in 0 .. torrent.block_size - 1
  BY <1>1
<1>3. (torrent.block_size * b + 0) \div torrent.block_size = b
  BY <1>1, <1>2, DivisionUnique
<1>4. QED
  BY <1>1, <1>2, <1>3

\* A position lies in a block of a piece.
LEMMA PositionIn ==
    ASSUME torrent \in Torrents, NEW k \in 0 .. TotalLen - 1
    PROVE  \E i \in Pieces : \E b \in 0 .. NumBlocks(i) - 1 : \E x \in 0 .. BlockLen(i, b) - 1 :
              k = torrent.piece_len * i + torrent.block_size * b + x
<1> DEFINE P == torrent.piece_len
           B == torrent.block_size
           i == k \div P
           o == k % P
           b == o \div B
           x == o % B
<1>1. P \in Nat \ {0} /\ B \in Nat \ {0} /\ TotalLen \in Nat \ {0} /\ k \in Nat
  BY TorrentFacts, TotalPositive
<1>2. i \in Nat /\ o \in 0 .. P - 1 /\ k = P * i + o
  BY <1>1, Division
<1>3. b \in Nat /\ x \in 0 .. B - 1 /\ o = B * b + x
  <2>1. o \in Nat
    BY <1>1, <1>2
  <2> HIDE DEF o
  <2>2. QED
    BY <1>1, <2>1, Division
<1> HIDE DEF P, B, i, o, b, x
<1>4. NumPieces \in Nat \ {0} /\ TotalLen <= P * NumPieces
  BY <1>1, Covering DEF NumPieces, P
<1>5. i \in Pieces
  <2>1. ASSUME NumPieces <= i PROVE FALSE
    <3>1. P * NumPieces <= P * i
      <4>1. CASE NumPieces = i
        BY <1>1, <1>2, <4>1
      <4>2. CASE NumPieces # i
        <5>1. P * NumPieces + P <= P * i
          BY <1>1, <1>2, <1>4, <2>1, <4>2, PartsApart
        <5>2. P * NumPieces \in Nat /\ P * i \in Nat
          BY <1>1, <1>2, <1>4
        <5>3. QED
          BY <1>1, <5>1, <5>2
      <4>3. QED
        BY <4>1, <4>2
    <3>2. P * NumPieces \in Nat /\ P * i \in Nat
      BY <1>1, <1>2, <1>4
    <3>3. QED
      BY <1>1, <1>2, <1>4, <3>1, <3>2
  <2>2. QED
    BY <1>2, <1>4, <2>1 DEF Pieces
<1>6. o < PieceLen(i)
  <2>1. CASE i = NumPieces - 1
    <3>1. P * i + PieceLen(i) = TotalLen /\ PieceLen(i) \in 1 .. P /\ P * i \in Nat
      BY <1>5, <2>1, PieceFacts DEF P
    <3>2. QED
      BY <1>1, <1>2, <3>1
  <2>2. CASE i # NumPieces - 1
    <3>1. PieceLen(i) = P
      BY <1>5, <2>2, PieceFacts DEF P
    <3>2. QED
      BY <1>1, <1>2, <3>1
  <2>3. QED
    BY <2>1, <2>2
<1>7. PieceLen(i) \in 1 .. P
  BY <1>5, PieceFacts DEF P
<1>8. B * b \in Nat /\ B * b < PieceLen(i)
  BY <1>1, <1>2, <1>3, <1>6, <1>7
<1>9. NumBlocks(i) \in Nat \ {0} /\ b <= NumBlocks(i) - 1
  BY <1>3, <1>5, <1>8, BlockFacts DEF B
<1>10. b \in 0 .. NumBlocks(i) - 1
  BY <1>3, <1>9
<1>11. BlockLen(i, b) \in 1 .. B /\ x < BlockLen(i, b)
  <2>1. BlockLen(i, b) \in 1 .. B
    BY <1>5, <1>10, BlockFacts DEF B
  <2>2. CASE b = NumBlocks(i) - 1
    <3>1. B * b + BlockLen(i, b) = PieceLen(i)
      BY <1>5, <2>2, BlockFacts DEF B
    <3>2. QED
      BY <1>1, <1>3, <1>6, <1>7, <1>8, <2>1, <3>1
  <2>3. CASE b # NumBlocks(i) - 1
    <3>1. BlockLen(i, b) = B
      BY <1>5, <1>10, <2>3, BlockFacts DEF B
    <3>2. QED
      BY <1>1, <1>3, <3>1
  <2>4. QED
    BY <2>1, <2>2, <2>3
<1>12. x \in 0 .. BlockLen(i, b) - 1
  BY <1>1, <1>3, <1>11
<1>13. k = P * i + B * b + x
  <2>1. P * i \in Nat /\ B * b \in Nat
    BY <1>1, <1>2, <1>3
  <2>2. QED
    BY <1>1, <1>2, <1>3, <2>1
<1>14. QED
  BY <1>5, <1>10, <1>12, <1>13 DEF P, B

\* It lies in no other.
LEMMA PositionOnce ==
    ASSUME torrent \in Torrents,
           NEW i \in Pieces, NEW b \in 0 .. NumBlocks(i) - 1, NEW x \in 0 .. BlockLen(i, b) - 1,
           NEW j \in Pieces, NEW c \in 0 .. NumBlocks(j) - 1, NEW y \in 0 .. BlockLen(j, c) - 1,
           torrent.piece_len * i + torrent.block_size * b + x
              = torrent.piece_len * j + torrent.block_size * c + y
    PROVE  i = j /\ b = c /\ x = y
<1> DEFINE P == torrent.piece_len
           B == torrent.block_size
<1>1. P \in Nat \ {0} /\ B \in Nat \ {0}
  BY TorrentFacts
<1>2. i \in Nat /\ j \in Nat /\ PieceLen(i) \in 1 .. P /\ PieceLen(j) \in 1 .. P
      /\ P * i \in Nat /\ P * j \in Nat
  BY PieceFacts
<1>3. BlockLen(i, b) \in 1 .. B /\ B * b \in Nat /\ B * b + BlockLen(i, b) <= PieceLen(i)
  BY BlockFacts
<1>4. BlockLen(j, c) \in 1 .. B /\ B * c \in Nat /\ B * c + BlockLen(j, c) <= PieceLen(j)
  BY BlockFacts
<1>5. P * i + (B * b + x) = P * j + (B * c + y)
  BY <1>1, <1>2, <1>3, <1>4
<1> HIDE DEF P, B
<1>6. B * b + x \in 0 .. P - 1 /\ B * c + y \in 0 .. P - 1
  BY <1>1, <1>2, <1>3, <1>4
<1>7. /\ (P * i + (B * b + x)) \div P = i /\ (P * i + (B * b + x)) % P = B * b + x
      /\ (P * j + (B * c + y)) \div P = j /\ (P * j + (B * c + y)) % P = B * c + y
  BY <1>1, <1>2, <1>6, DivisionUnique
<1>8. i = j /\ B * b + x = B * c + y
  BY <1>5, <1>7
<1>9. x \in 0 .. B - 1 /\ y \in 0 .. B - 1 /\ b \in Nat /\ c \in Nat
  BY <1>1, <1>3, <1>4
<1>10. /\ (B * b + x) \div B = b /\ (B * b + x) % B = x
       /\ (B * c + y) \div B = c /\ (B * c + y) % B = y
  BY <1>1, <1>9, DivisionUnique
<1>11. QED
  BY <1>8, <1>10

\* The requests that request_piece sends for all pieces ask for every byte of the
\* torrent and for none twice, and number the blocks as on_block_buffered does.
LEMMA Tiled == ASSUME torrent \in Torrents PROVE RequestsTileTorrent
<1> DEFINE Span(a) == BytesAsked(a[1], a[2])
           real == AllRequests
           Asked(i, b) == <<i, RequestOf(i, b)>>
<1>1. ASSUME NEW i \in Pieces, NEW b \in 0 .. NumBlocks(i) - 1
      PROVE  /\ Asked(i, b) \in real
             /\ Span(Asked(i, b)) = {torrent.piece_len * i + torrent.block_size * b + x :
                                        x \in 0 .. BlockLen(i, b) - 1}
  <2>1. RequestOf(i, b) \in Requests(i)
    BY RequestsAre
  <2>2. Asked(i, b) \in real
    BY <2>1 DEF AllRequests
  <2>3. RequestOf(i, b).offset = torrent.block_size * b /\ RequestOf(i, b).length = BlockLen(i, b)
    BY DEF RequestOf
  <2>4. QED
    BY <2>2, <2>3 DEF BytesAsked
<1>2. ASSUME NEW a \in real
      PROVE  \E i \in Pieces : \E b \in 0 .. NumBlocks(i) - 1 : a = Asked(i, b)
  <2>1. PICK i \in Pieces : a \in {<<i, r>> : r \in Requests(i)}
    BY DEF AllRequests
  <2>2. PICK r \in Requests(i) : a = <<i, r>>
    BY <2>1
  <2>3. PICK b \in 0 .. NumBlocks(i) - 1 : r = RequestOf(i, b)
    BY <2>2, RequestsAre
  <2>4. QED
    BY <2>2, <2>3
<1> HIDE DEF real, Span, Asked
<1>3. UNION {Span(a) : a \in real} = 0 .. TotalLen - 1
  <2>1. ASSUME NEW k \in 0 .. TotalLen - 1 PROVE \E a \in real : k \in Span(a)
    <3>1. PICK i \in Pieces : \E b \in 0 .. NumBlocks(i) - 1 : \E x \in 0 .. BlockLen(i, b) - 1 :
              k = torrent.piece_len * i + torrent.block_size * b + x
      BY PositionIn
    <3>2. PICK b \in 0 .. NumBlocks(i) - 1 : \E x \in 0 .. BlockLen(i, b) - 1 :
              k = torrent.piece_len * i + torrent.block_size * b + x
      BY <3>1
    <3>3. k \in Span(Asked(i, b))
      BY <1>1, <3>2
    <3>4. QED
      BY <1>1, <3>3
  <2>2. ASSUME NEW a \in real, NEW k \in Span(a) PROVE k \in 0 .. TotalLen - 1
    <3>1. PICK i \in Pieces : \E b \in 0 .. NumBlocks(i) - 1 : a = Asked(i, b)
      BY <1>2
    <3>2. PICK b \in 0 .. NumBlocks(i) - 1 : a = Asked(i, b)
      BY <3>1
    <3>3. PICK x \in 0 .. BlockLen(i, b) - 1 :
              k = torrent.piece_len * i + torrent.block_size * b + x
      BY <1>1, <3>2
    <3>4. torrent.piece_len * i \in Nat /\ torrent.piece_len * i + PieceLen(i) <= TotalLen
      BY PieceFacts
    <3>5. /\ torrent.block_size * b \in Nat /\ BlockLen(i, b) \in 1 .. torrent.block_size
          /\ torrent.block_size * b + BlockLen(i, b) <= PieceLen(i)
      BY BlockFacts
    <3>6. torrent.block_size \in Nat /\ torrent.piece_len \in Nat
      BY TorrentFacts
    <3>7. TotalLen \in Nat
      BY TotalPositive
    <3>8. PieceLen(i) \in 1 .. torrent.piece_len
      BY PieceFacts
    <3>9. QED
      BY <3>3, <3>4, <3>5, <3>6, <3>7, <3>8
  <2>3. QED
    BY <2>1, <2>2
<1>4. ASSUME NEW a \in real, NEW c \in real, a # c PROVE Span(a) \cap Span(c) = {}
  <2>1. SUFFICES ASSUME NEW k \in Span(a), k \in Span(c) PROVE FALSE
    OBVIOUS
  <2>2. PICK i \in Pieces : \E b \in 0 .. NumBlocks(i) - 1 : a = Asked(i, b)
    BY <1>2
  <2>3. PICK b \in 0 .. NumBlocks(i) - 1 : a = Asked(i, b)
    BY <2>2
  <2>4. PICK j \in Pieces : \E d \in 0 .. NumBlocks(j) - 1 : c = Asked(j, d)
    BY <1>2
  <2>5. PICK d \in 0 .. NumBlocks(j) - 1 : c = Asked(j, d)
    BY <2>4
  <2>6. PICK x \in 0 .. BlockLen(i, b) - 1 :
            k = torrent.piece_len * i + torrent.block_size * b + x
    BY <1>1, <2>3
  <2>7. PICK y \in 0 .. BlockLen(j, d) - 1 :
            k = torrent.piece_len * j + torrent.block_size * d + y
    BY <1>1, <2>1, <2>5
  <2>8. i = j /\ b = d
    BY <2>6, <2>7, PositionOnce
  <2>9. QED
    BY <1>4, <2>3, <2>5, <2>8
<1>5. ASSUME NEW i \in Pieces
      PROVE  {r.offset \div torrent.block_size : r \in Requests(i)} = 0 .. NumBlocks(i) - 1
  <2>1. \A b \in 0 .. NumBlocks(i) - 1 :
            RequestOf(i, b).offset \div torrent.block_size = b
    BY BlockIndexes DEF RequestOf
  <2>2. QED
    BY <2>1, RequestsAre
<1>6. \A a, c \in real : a # c => Span(a) \cap Span(c) = {}
  BY <1>4
<1>7. QED
  BY <1>3, <1>5, <1>6 DEF RequestsTileTorrent, real, Span

-----------------------------------------------------------------------------
(* Sequences taken apart and put together *)

\* n elements from position a on, counted from 0.
LEMMA StretchOf ==
    ASSUME NEW Y, NEW s \in Seq(Y), NEW a \in Nat, NEW n \in Nat, a + n <= Len(s)
    PROVE  /\ SubSeq(s, a + 1, a + n) \in Seq(Y) /\ Len(SubSeq(s, a + 1, a + n)) = n
           /\ \A x \in 1 .. n : SubSeq(s, a + 1, a + n)[x] = s[a + x]
<1> DEFINE r == SubSeq(s, a + 1, a + n)
           l == Len(s)
<1>1. l \in Nat /\ a + n <= l
  OBVIOUS
<1>2. \A k \in 1 .. l : s[k] \in Y
  BY ElementOfSeq
<1> HIDE DEF l
<1>3. \A k \in a + 1 .. a + n : k \in 1 .. l
  BY <1>1
<1>4. \A k \in a + 1 .. a + n : s[k] \in Y
  BY <1>2, <1>3
<1>5. a + 1 \in Int /\ a + n \in Int
  OBVIOUS
<1>6. /\ r \in Seq(Y)
      /\ Len(r) = IF a + 1 <= a + n THEN (a + n) - (a + 1) + 1 ELSE 0
      /\ \A x \in 1 .. (a + n) - (a + 1) + 1 : r[x] = s[a + 1 + x - 1]
  BY ONLY <1>4, <1>5, SubSeqProperties
<1> HIDE DEF r
<1>7. /\ (a + n) - (a + 1) + 1 = n /\ (a + 1 <= a + n <=> n > 0)
      /\ \A x \in 1 .. n : a + 1 + x - 1 = a + x
  OBVIOUS
<1>8. Len(r) = n
  BY ONLY <1>6, <1>7, n \in Nat
<1>9. \A x \in 1 .. n : r[x] = s[a + x]
  BY ONLY <1>6, <1>7
<1>10. QED
  BY <1>6, <1>8, <1>9 DEF r

\* What FlattenSeq makes of the first k sequences, one step after the other.
Flattens(g, F, n) ==
    /\ g[0] = <<>>
    /\ \A k \in 0 .. n - 1 : g[k + 1] = g[k] \o F[k + 1]
    /\ \A k \in 0 .. n : Seqs!FlattenSeq([j \in 1 .. k |-> F[j]]) = g[k]

LEMMA FlattenSteps ==
    ASSUME NEW X, NEW n \in Nat, NEW F \in [1 .. n -> Seq(X)]
    PROVE  \E g \in [Nat -> Seq(X)] : Flattens(g, F, n)
<1> DEFINE D == [x \in Nat \X Seq(X) |->
                    IF x[1] + 1 \in 1 .. n THEN x[2] \o F[x[1] + 1] ELSE <<>>]
<1>1. D \in [Nat \X Seq(X) -> Seq(X)]
  <2>1. ASSUME NEW m \in Nat, NEW v \in Seq(X), m + 1 \in 1 .. n PROVE v \o F[m + 1] \in Seq(X)
    <3>1. F[m + 1] \in Seq(X)
      BY <2>1
    <3>2. QED
      BY <3>1, ConcatProperties
  <2>2. <<>> \in Seq(X)
    OBVIOUS
  <2>3. QED
    BY <2>1, <2>2
<1>2. \A m \in Nat, v \in Seq(X) : m + 1 \in 1 .. n => D[<<m, v>>] = v \o F[m + 1]
  OBVIOUS
<1> HIDE DEF D
<1>3. <<>> \in Seq(X)
  OBVIOUS
<1>4. PICK g \in [Nat -> Seq(X)] : Unfolds(g, <<>>, D)
  BY <1>1, <1>3, Recursion
<1>5. g[0] = <<>>
  BY <1>4 DEF Unfolds
<1>6. ASSUME NEW k \in 0 .. n - 1 PROVE g[k + 1] = g[k] \o F[k + 1]
  <2>1. k \in Nat /\ k + 1 \in 1 .. n /\ g[k] \in Seq(X)
    OBVIOUS
  <2>2. g[k + 1] = D[<<k, g[k]>>]
    BY <1>4, <2>1 DEF Unfolds
  <2>3. QED
    BY <1>2, <2>1, <2>2
<1>7. ASSUME NEW k \in 0 .. n PROVE Seqs!FlattenSeq([j \in 1 .. k |-> F[j]]) = g[k]
  <2> DEFINE s == [j \in 1 .. k |-> F[j]]
             P(f) == f = [j \in 1 .. k |-> IF j = 1 THEN s[j] ELSE f[j - 1] \o s[j]]
  <2>1. k \in Nat /\ s \in Seq(Seq(X)) /\ Len(s) = k
    OBVIOUS
  <2>2. CASE k = 0
    BY <1>5, <2>1, <2>2 DEF Seqs!FlattenSeq
  <2>3. CASE k # 0
    <3> DEFINE h == [j \in 1 .. k |-> g[j]]
    <3>1. ASSUME NEW j \in 1 .. k PROVE h[j] = IF j = 1 THEN s[j] ELSE h[j - 1] \o s[j]
      <4>1. j - 1 \in 0 .. n - 1 /\ (j - 1) + 1 = j
        OBVIOUS
      <4>2. g[j] = g[j - 1] \o F[j]
        BY <1>6, <4>1
      <4>a. s[j] = F[j] /\ h[j] = g[j]
        OBVIOUS
      <4> HIDE DEF s
      <4>3. CASE j = 1
        <5>1. F[j] \in Seq(X)
          OBVIOUS
        <5>2. <<>> \o F[j] = F[j]
          BY <5>1, ConcatEmptySeq
        <5>3. g[j - 1] = <<>>
          BY <1>5, <4>3
        <5>4. h[j] = s[j]
          BY <4>a, <4>2, <5>2, <5>3
        <5> HIDE DEF h
        <5>5. QED
          BY <4>3, <5>4
      <4>4. CASE j # 1
        <5>1. j - 1 \in 1 .. k
          BY <4>4
        <5>2. h[j - 1] = g[j - 1]
          BY <5>1
        <5> HIDE DEF h
        <5>3. QED
          BY <4>a, <4>2, <4>4, <5>2
      <4>5. QED
        BY <4>3, <4>4
    <3>2. P(h)
      BY <3>1
    <3>3. PICK f : P(f) /\ Seqs!FlattenSeq(s) = f[k]
      <4>1. Seqs!FlattenSeq(s) = (CHOOSE f : P(f))[k]
        BY <2>1, <2>3 DEF Seqs!FlattenSeq
      <4>2. QED
        BY <3>2, <4>1
    <3>4. \A j \in 1 .. k : f[j] = IF j = 1 THEN s[j] ELSE f[j - 1] \o s[j]
      BY <3>3
    <3>5. \A j \in 1 .. k : h[j] = IF j = 1 THEN s[j] ELSE h[j - 1] \o s[j]
      BY <3>1
    <3> HIDE DEF h, s, P
    <3> DEFINE T == {m \in Nat : m = 0 \/ f[m] = h[m]}
    <3>6. 0 \in T
      OBVIOUS
    <3>7. ASSUME NEW m \in 0 .. k - 1, m \in T PROVE m + 1 \in T
      <4>1. /\ m + 1 \in 1 .. k /\ (m + 1) - 1 = m /\ (m + 1 = 1 <=> m = 0)
            /\ m + 1 \in Nat
        BY <2>1
      <4>2. CASE m = 0
        BY <3>4, <3>5, <4>1, <4>2
      <4>3. CASE m # 0
        <5>1. f[m + 1] = f[m] \o s[m + 1] /\ h[m + 1] = h[m] \o s[m + 1]
          BY <3>4, <3>5, <4>1, <4>3
        <5>2. QED
          BY <3>7, <4>1, <4>3, <5>1
      <4>4. QED
        BY <4>2, <4>3
    <3>8. \A m \in 0 .. k : m \in T
      <4> HIDE DEF T
      <4>1. QED
        BY <2>1, <3>6, <3>7, InductTo
    <3>9. f[k] = h[k]
      BY <2>1, <2>3, <3>8
    <3>10. QED
      BY <2>1, <2>3, <3>3, <3>9 DEF h, s
  <2>4. QED
    BY <2>2, <2>3
<1>8. QED
  BY <1>5, <1>6, <1>7 DEF Flattens

\* Its bytes: sequence c starts at S[c], where the ones before it end.
PutTogether(X, F, S, n) ==
    \A k \in 0 .. n :
       LET s == Seqs!FlattenSeq([j \in 1 .. k |-> F[j]]) IN
       /\ s \in Seq(X) /\ Len(s) = S[k + 1]
       /\ \A c \in 1 .. k : \A x \in 1 .. Len(F[c]) : s[S[c] + x] = F[c][x]

LEMMA Flattened ==
    ASSUME NEW X, NEW n \in Nat, NEW F \in [1 .. n -> Seq(X)],
           NEW S, S[1] = 0, \A c \in 1 .. n : S[c] \in Nat /\ S[c + 1] = S[c] + Len(F[c])
    PROVE  PutTogether(X, F, S, n)
<1>0. PICK g \in [Nat -> Seq(X)] : Flattens(g, F, n)
  BY FlattenSteps
<1>1. /\ g[0] = <<>>
      /\ \A k \in 0 .. n - 1 : g[k + 1] = g[k] \o F[k + 1]
      /\ \A k \in 0 .. n : Seqs!FlattenSeq([j \in 1 .. k |-> F[j]]) = g[k]
  BY <1>0 DEF Flattens
<1> DEFINE Placed(k) == /\ Len(g[k]) = S[k + 1]
                        /\ \A c \in 1 .. k : S[c] + Len(F[c]) <= S[k + 1]
                        /\ \A c \in 1 .. k : \A x \in 1 .. Len(F[c]) : g[k][S[c] + x] = F[c][x]
           T == {k \in Nat : Placed(k)}
<1>2. 0 \in T
  <2>1. Len(g[0]) = S[0 + 1] /\ 1 .. 0 = {}
    BY <1>1
  <2>2. Placed(0)
    BY ONLY <2>1
  <2>3. QED
    BY <2>2
<1>3. ASSUME NEW k \in 0 .. n - 1, k \in T PROVE k + 1 \in T
  <2>0. Placed(k)
    BY <1>3
  <2> HIDE DEF Placed, T
  <2>1. k \in Nat /\ k + 1 \in 1 .. n /\ g[k] \in Seq(X) /\ F[k + 1] \in Seq(X)
    OBVIOUS
  <2>2. g[k + 1] = g[k] \o F[k + 1]
    BY <1>1
  <2>3. /\ Len(g[k + 1]) = Len(g[k]) + Len(F[k + 1])
        /\ \A x \in 1 .. Len(g[k]) + Len(F[k + 1]) :
              g[k + 1][x] = IF x <= Len(g[k]) THEN g[k][x] ELSE F[k + 1][x - Len(g[k])]
    BY <2>1, <2>2, ConcatProperties
  <2>4. Len(g[k]) \in Nat /\ Len(F[k + 1]) \in Nat
    BY ONLY <2>1, LenProperties
  <2>5. /\ S[k + 1] \in Nat /\ S[(k + 1) + 1] = S[k + 1] + Len(F[k + 1])
        /\ Len(g[k]) = S[k + 1]
    BY <2>0, <2>1 DEF Placed
  <2> DEFINE next == S[(k + 1) + 1]
             start == S[k + 1]
             more == Len(F[k + 1])
             l == Len(g[k])
  <2>a. /\ next = start + more /\ l = start /\ start \in Nat /\ more \in Nat /\ l \in Nat
    BY ONLY <2>4, <2>5
  <2>b. \A x \in 1 .. l + more : g[k + 1][x] = IF x <= l THEN g[k][x] ELSE F[k + 1][x - l]
    BY <2>3
  <2> HIDE DEF next, start, more, l
  <2>6. ASSUME NEW c \in 1 .. k + 1
        PROVE  /\ S[c] + Len(F[c]) <= S[(k + 1) + 1]
               /\ \A x \in 1 .. Len(F[c]) : g[k + 1][S[c] + x] = F[c][x]
    <3>1. CASE c = k + 1
      <4>1. ASSUME NEW x \in 1 .. more PROVE g[k + 1][start + x] = F[k + 1][x]
        <5>1. start + x \in 1 .. l + more /\ ~(start + x <= l) /\ (start + x) - l = x
          BY ONLY <2>a, x \in 1 .. more
        <5>2. QED
          BY ONLY <2>b, <5>1
      <4>2. start + more <= next
        BY ONLY <2>a
      <4>3. QED
        BY <3>1, <4>1, <4>2 DEF start, more, next
    <3>2. CASE c # k + 1
      <4>1. c \in 1 .. k /\ c \in 1 .. n
        BY <2>1, <3>2
      <4> DEFINE size == Len(F[c])
                 from == S[c]
      <4>2. size \in Nat /\ from \in Nat
        BY <4>1, LenProperties
      <4> HIDE DEF size, from
      <4>3. from + size <= start /\ \A x \in 1 .. size : g[k][from + x] = F[c][x]
        BY <2>0, <4>1 DEF Placed, start, from, size
      <4>4. from + size <= next
        BY ONLY <2>a, <4>2, <4>3
      <4>5. ASSUME NEW x \in 1 .. size PROVE g[k + 1][from + x] = F[c][x]
        <5>1. from + x \in 1 .. l + more /\ from + x <= l
          BY ONLY <2>a, <4>2, <4>3, x \in 1 .. size
        <5>2. g[k + 1][from + x] = g[k][from + x]
          BY ONLY <2>b, <5>1
        <5>3. QED
          BY <4>3, <5>2
      <4>6. QED
        BY <4>4, <4>5 DEF next, from, size
    <3>3. QED
      BY <3>1, <3>2
  <2>7. Len(g[k + 1]) = S[(k + 1) + 1]
    BY <2>3, <2>5
  <2>8. k + 1 \in Nat /\ Placed(k + 1)
    <3>1. /\ \A c \in 1 .. k + 1 : S[c] + Len(F[c]) <= S[(k + 1) + 1]
          /\ \A c \in 1 .. k + 1 : \A x \in 1 .. Len(F[c]) : g[k + 1][S[c] + x] = F[c][x]
      BY <2>6
    <3>2. k + 1 \in Nat
      BY <2>1
    <3>3. QED
      BY ONLY <2>7, <3>1, <3>2 DEF Placed
  <2>9. QED
    BY <2>8 DEF T
<1>4. \A k \in 0 .. n : k \in T
  <2> HIDE DEF T
  <2>1. QED
    BY <1>2, <1>3, InductTo
<1>5. ASSUME NEW k \in 0 .. n PROVE Placed(k) /\ g[k] \in Seq(X)
  BY <1>4
<1> HIDE DEF T
<1>6. QED
  BY <1>1, <1>5 DEF PutTogether

-----------------------------------------------------------------------------
(* Positions in files *)

LEMMA FileHolds ==
    ASSUME torrent \in Torrents, NEW k \in 0 .. TotalLen - 1
    PROVE  /\ FileOf(k) \in 1 .. NumFiles
           /\ FileStarts[FileOf(k)] <= k
           /\ k < FileStarts[FileOf(k)] + torrent.files[FileOf(k)]
<1> DEFINE T == {f \in 1 .. NumFiles : k < FileStarts[f] + torrent.files[f]}
<1>1. NumFiles \in Nat \ {0} /\ TotalLen \in Nat /\ T \subseteq Nat
  BY TorrentFacts, TotalPositive
<1>2. NumFiles \in T
  <2>1. NumFiles \in 1 .. NumFiles
    BY <1>1
  <2>2. FileStarts[NumFiles] + torrent.files[NumFiles] = TotalLen
    BY <2>1, FileStartsAre DEF TotalLen
  <2>3. QED
    BY <1>1, <2>1, <2>2
<1>3. PICK f \in T : \A g \in T : f <= g
  <2> HIDE DEF T
  <2>1. QED
    BY <1>1, <1>2, Least
<1>4. FileStarts[f] <= k
  <2>1. CASE f = 1
    BY <1>1, <2>1, FileStartsAre
  <2>2. CASE f # 1
    <3>1. f - 1 \in 1 .. NumFiles /\ (f - 1) + 1 = f /\ f - 1 \notin T
      BY <1>1, <1>3, <2>2
    <3>2. FileStarts[f] = FileStarts[f - 1] + torrent.files[f - 1]
      BY <3>1, FileStartsAre
    <3>3. FileStarts[f] \in Nat
      BY <1>1, FileStartsAre
    <3>4. QED
      BY <3>1, <3>2, <3>3
  <2>3. QED
    BY <2>1, <2>2
<1>5. \E g \in 1 .. NumFiles : FileStarts[g] <= k /\ k < FileStarts[g] + torrent.files[g]
  BY <1>3, <1>4
<1>6. QED
  BY <1>5 DEF FileOf

LEMMA FileUnique ==
    ASSUME torrent \in Torrents, NEW k \in Nat, NEW f \in 1 .. NumFiles, NEW g \in 1 .. NumFiles,
           FileStarts[f] <= k, k < FileStarts[f] + torrent.files[f],
           FileStarts[g] <= k, k < FileStarts[g] + torrent.files[g]
    PROVE  f = g
<1>1. /\ FileStarts[f] \in Nat /\ FileStarts[g] \in Nat
      /\ torrent.files[f] \in Nat /\ torrent.files[g] \in Nat /\ NumFiles \in Nat
  <2>1. NumFiles \in Nat /\ f \in 1 .. NumFiles + 1 /\ g \in 1 .. NumFiles + 1
    BY TorrentFacts
  <2>2. QED
    BY <2>1, TorrentFacts, FileStartsAre
<1>2. ASSUME f < g PROVE FALSE
  <2>1. g \in f + 1 .. NumFiles + 1
    BY <1>1, <1>2
  <2>2. FileStarts[f] + torrent.files[f] <= FileStarts[g]
    BY <2>1, FilesInOrder
  <2>3. QED
    BY <1>1, <2>2
<1>3. ASSUME g < f PROVE FALSE
  <2>1. f \in g + 1 .. NumFiles + 1
    BY <1>1, <1>3
  <2>2. FileStarts[g] + torrent.files[g] <= FileStarts[f]
    BY <2>1, FilesInOrder
  <2>3. QED
    BY <1>1, <2>2
<1>4. QED
  BY <1>2, <1>3

\* Byte x of file f, counted from 0, and where it is in the torrent.
LEMMA BytesOfFile ==
    ASSUME torrent \in Torrents, NEW f \in 1 .. NumFiles, NEW x \in 0 .. torrent.files[f] - 1
    PROVE  /\ FileStarts[f] + x \in 0 .. TotalLen - 1
           /\ FileOf(FileStarts[f] + x) = f
           /\ (FileStarts[f] + x) - FileStarts[f] + 1 = x + 1
<1> DEFINE k == FileStarts[f] + x
<1>1. /\ NumFiles \in Nat /\ f \in 1 .. NumFiles + 1 /\ NumFiles + 1 \in f + 1 .. NumFiles + 1
      /\ torrent.files[f] \in Nat
  BY TorrentFacts
<1>2. FileStarts[f] \in Nat /\ TotalLen \in Nat
  BY <1>1, FileStartsAre, TotalPositive
<1>3. FileStarts[f] + torrent.files[f] <= TotalLen
  BY <1>1, FilesInOrder DEF TotalLen
<1>4. k \in 0 .. TotalLen - 1 /\ FileStarts[f] <= k /\ k < FileStarts[f] + torrent.files[f]
  BY <1>1, <1>2, <1>3
<1> HIDE DEF k
<1>5. FileOf(k) = f
  <2>1. /\ FileOf(k) \in 1 .. NumFiles /\ FileStarts[FileOf(k)] <= k
        /\ k < FileStarts[FileOf(k)] + torrent.files[FileOf(k)] /\ k \in Nat
    BY <1>2, <1>4, FileHolds
  <2>2. QED
    BY <1>4, <2>1, FileUnique
<1>6. QED
  BY <1>1, <1>2, <1>4, <1>5 DEF k

\* get_relative_offset finds the file that holds the position.
LEMMA FileAtIs ==
    ASSUME torrent \in Torrents, NEW k \in 0 .. TotalLen - 1
    PROVE  FileAt(k) = [file |-> FileOf(k), at |-> k - FileStarts[FileOf(k)]]
<1> DEFINE H == {f \in 1 .. NumFiles : FileStarts[f] + torrent.files[f] > k}
           h == FileOf(k)
<1>1. NumFiles \in Nat /\ TotalLen \in Nat /\ k \in Nat
  BY TorrentFacts, TotalPositive
<1>2. h \in 1 .. NumFiles /\ FileStarts[h] <= k /\ k < FileStarts[h] + torrent.files[h]
  BY FileHolds
<1> HIDE DEF h
<1>3. h \in 1 .. NumFiles + 1 /\ torrent.files[h] \in Nat
  BY <1>1, <1>2, TorrentFacts
<1>4. FileStarts[h] \in Nat
  BY <1>3, FileStartsAre
<1>5. h \in H
  BY <1>1, <1>2, <1>3, <1>4
<1>6. ASSUME NEW f \in H PROVE h <= f
  <2>1. ASSUME f < h PROVE FALSE
    <3>1. f \in 1 .. NumFiles /\ h \in f + 1 .. NumFiles + 1 /\ f \in 1 .. NumFiles + 1
      BY <1>1, <1>2, <2>1
    <3>2. FileStarts[f] + torrent.files[f] <= FileStarts[h]
      BY <3>1, FilesInOrder
    <3>3. FileStarts[f] \in Nat /\ torrent.files[f] \in Nat
      BY <3>1, FileStartsAre, TorrentFacts
    <3>4. FileStarts[f] + torrent.files[f] > k
      BY <1>6
    <3> HIDE DEF H
    <3>5. QED
      BY <1>1, <1>2, <1>4, <3>2, <3>3, <3>4
  <2>2. f \in Nat /\ h \in Nat
    BY <1>1, <1>2
  <2>3. QED
    BY <2>1, <2>2
<1>7. H \subseteq Nat
  BY <1>1
<1> HIDE DEF H
<1>8. Sets!Min(H) = h
  <2>1. \E m \in H : \A y \in H : m <= y
    BY <1>5, <1>6
  <2>2. Sets!Min(H) \in H /\ \A y \in H : Sets!Min(H) <= y
    BY <2>1 DEF Sets!Min
  <2>3. Sets!Min(H) <= h /\ h <= Sets!Min(H) /\ Sets!Min(H) \in Nat /\ h \in Nat
    BY <1>5, <1>6, <1>7, <2>2
  <2>4. QED
    BY <2>3
<1>9. H # {}
  BY <1>5
<1>10. FileAt(k).file = h /\ FileAt(k) = [file |-> h, at |-> k - FileStarts[h]]
  BY <1>8, <1>9 DEF FileAt, H
<1>11. QED
  BY <1>10 DEF h

\* How much of `length` bytes from `offset` on lies before file f.
Done(offset, length, f) ==
    IF FileStarts[f] <= offset THEN 0
    ELSE IF FileStarts[f] - offset <= length THEN FileStarts[f] - offset ELSE length

LEMMA DoneFacts ==
    ASSUME torrent \in Torrents, NEW o \in Nat, NEW l \in Nat \ {0}, o + l <= TotalLen
    PROVE  /\ \A f \in 1 .. NumFiles + 1 : Done(o, l, f) \in 0 .. l
           /\ Done(o, l, 1) = 0 /\ Done(o, l, NumFiles + 1) = l
<1>1. NumFiles \in Nat /\ \A f \in 1 .. NumFiles + 1 : FileStarts[f] \in Nat
  BY TorrentFacts, FileStartsAre
<1>2. \A f \in 1 .. NumFiles + 1 : Done(o, l, f) \in 0 .. l
  BY <1>1 DEF Done
<1>3. Done(o, l, 1) = 0
  BY FileStartsAre DEF Done
<1>4. Done(o, l, NumFiles + 1) = l
  <2>1. FileStarts[NumFiles + 1] = TotalLen /\ TotalLen \in Nat
    BY TotalPositive DEF TotalLen
  <2>2. QED
    BY <2>1 DEF Done
<1>5. QED
  BY <1>2, <1>3, <1>4

\* The loop of write_piece and read_block: the parts follow each other without a
\* gap, each inside its file and where the torrent has it.
LEMMA PartsAre ==
    ASSUME torrent \in Torrents, NEW o \in Nat, NEW l \in Nat \ {0}, o + l <= TotalLen,
           NEW f \in 1 .. NumFiles
    PROVE  LET p == Parts(o, l)[f] IN
           /\ p.at \in Nat /\ p.length \in Nat /\ p.at + p.length <= torrent.files[f]
           /\ p.done = Done(o, l, f) /\ Done(o, l, f + 1) = Done(o, l, f) + p.length
           /\ p.length > 0 => FileStarts[f] + p.at = o + p.done
<1> DEFINE N == NumFiles
           h == FileOf(o)
           Start(g) == IF g = h THEN o - FileStarts[h] ELSE 0
           Part(g, done) == IF g < h THEN 0 ELSE LengthToAdd(g, Start(g), l - done)
           P(d) == d = [g \in 1 .. N + 1 |-> IF g = 1 THEN 0 ELSE d[g - 1] + Part(g - 1, d[g - 1])]
           D == [g \in 1 .. N + 1 |-> Done(o, l, g)]
<1>1. N \in Nat \ {0} /\ TotalLen \in Nat \ {0} /\ o \in 0 .. TotalLen - 1
  BY TorrentFacts, TotalPositive
<1>2. FileAt(o) = [file |-> h, at |-> o - FileStarts[h]]
  BY <1>1, FileAtIs
<1>3. h \in 1 .. N /\ FileStarts[h] <= o /\ o < FileStarts[h] + torrent.files[h]
  BY <1>1, FileHolds
<1> HIDE DEF h
<1>4. /\ \A g \in 1 .. N + 1 : FileStarts[g] \in Nat
      /\ \A g \in 1 .. N : torrent.files[g] \in Nat /\ FileStarts[g + 1] = FileStarts[g] + torrent.files[g]
  BY TorrentFacts, FileStartsAre
<1> HIDE DEF N
<1>5. ASSUME NEW g \in 1 .. N
      PROVE  /\ g < h => FileStarts[g] + torrent.files[g] <= o
             /\ g > h => FileStarts[g] > o
  <2>1. CASE g < h
    <3>1. h \in g + 1 .. N + 1
      BY <1>1, <1>3, <2>1
    <3>2. FileStarts[g] + torrent.files[g] <= FileStarts[h]
      BY <3>1, FilesInOrder DEF N
    <3>3. QED
      BY <1>1, <1>3, <1>4, <2>1, <3>2
  <2>2. CASE g > h
    <3>1. g \in h + 1 .. N + 1
      BY <1>1, <1>3, <2>2
    <3>2. FileStarts[h] + torrent.files[h] <= FileStarts[g]
      BY <1>3, <3>1, FilesInOrder DEF N
    <3>3. QED
      BY <1>1, <1>3, <1>4, <2>2, <3>2
  <2>3. CASE g = h
    BY <2>3
  <2>4. QED
    BY <1>1, <1>3, <2>1, <2>2, <2>3
<1>6. ASSUME NEW g \in 1 .. N
      PROVE  LET part == Part(g, Done(o, l, g)) IN
             /\ Start(g) \in Nat /\ part \in Nat /\ Start(g) + part <= torrent.files[g]
             /\ Done(o, l, g + 1) = Done(o, l, g) + part
             /\ part > 0 => FileStarts[g] + Start(g) = o + Done(o, l, g)
  <2> DEFINE s == FileStarts[g]
             z == torrent.files[g]
             d == Done(o, l, g)
             part == Part(g, d)
  <2>1. /\ g \in 1 .. N + 1 /\ s \in Nat /\ z \in Nat /\ FileStarts[g + 1] = s + z
        /\ d = IF s <= o THEN 0 ELSE IF s - o <= l THEN s - o ELSE l
        /\ Done(o, l, g + 1) = IF s + z <= o THEN 0 ELSE IF s + z - o <= l THEN s + z - o ELSE l
    <3>1. /\ g \in 1 .. N + 1 /\ s \in Nat /\ z \in Nat /\ FileStarts[g + 1] = s + z
      BY <1>1, <1>4
    <3>2. d = IF s <= o THEN 0 ELSE IF s - o <= l THEN s - o ELSE l
      BY DEF Done
    <3>3. QED
      BY <3>1, <3>2 DEF Done
  <2>2. CASE g < h
    <3>1. s + z <= o
      BY <1>5, <2>2
    <3>2. part = 0 /\ Start(g) = 0
      BY <1>1, <1>3, <2>2
    <3> HIDE DEF s, z, d, part, Start
    <3>3. d = 0 /\ Done(o, l, g + 1) = 0
      BY <2>1, <3>1
    <3>4. QED
      BY <2>1, <3>2, <3>3 DEF z, d, part, s
  <2>3. CASE g >= h
    <3>1. part = LengthToAdd(g, Start(g), l - d)
      BY <1>1, <1>3, <2>3
    <3>2. d \in 0 .. l
      BY <2>1
    <3>3. Start(g) \in Nat /\ Start(g) <= z /\ (Start(g) > 0 => g = h)
      BY <1>1, <1>3, <1>4
    <3>4. part = IF z - Start(g) <= l - d THEN z - Start(g) ELSE l - d
      <4>1. z - Start(g) \in Int /\ l - d \in Int
        BY <2>1, <3>2, <3>3
      <4> HIDE DEF Start, d
      <4>2. QED
        BY <3>1, <4>1, MinOfTwo DEF LengthToAdd
    <3>5. CASE g = h
      <4>1. Start(g) = o - s /\ s <= o /\ o < s + z
        BY <1>3, <3>5
      <4> HIDE DEF s, z, d, part, Start
      <4>2. d = 0
        BY <2>1, <4>1
      <4>3. part = IF s + z - o <= l THEN s + z - o ELSE l
        BY <2>1, <3>4, <4>1, <4>2
      <4>4. QED
        BY <2>1, <3>3, <4>1, <4>2, <4>3 DEF z, d, part, s
    <3>6. CASE g # h
      <4>1. Start(g) = 0 /\ s > o
        BY <1>1, <1>3, <1>5, <2>3, <3>6
      <4> HIDE DEF s, z, d, part, Start
      <4>2. part = IF z <= l - d THEN z ELSE l - d
        BY <2>1, <3>4, <4>1
      <4>3. d = IF s - o <= l THEN s - o ELSE l
        BY <2>1, <4>1
      <4>4. Done(o, l, g + 1) = IF s + z - o <= l THEN s + z - o ELSE l
        BY <2>1, <4>1
      <4>5. part \in Nat /\ part <= z /\ Done(o, l, g + 1) = d + part
        BY <2>1, <4>1, <4>2, <4>3, <4>4
      <4>6. part > 0 => s = o + d
        BY <2>1, <4>1, <4>2, <4>3
      <4>7. QED
        BY <2>1, <4>1, <4>5, <4>6 DEF z, d, part, s
    <3>7. QED
      BY <3>5, <3>6
  <2>4. QED
    BY <1>1, <1>3, <2>2, <2>3
<1>7. Done(o, l, 1) = 0
  BY FileStartsAre DEF Done
<1>8. P(D)
  <2>1. ASSUME NEW g \in 1 .. N + 1
        PROVE  D[g] = IF g = 1 THEN 0 ELSE D[g - 1] + Part(g - 1, D[g - 1])
    <3>1. CASE g = 1
      BY <1>7, <3>1
    <3>2. CASE g # 1
      <4>1. g - 1 \in 1 .. N /\ g - 1 \in 1 .. N + 1 /\ (g - 1) + 1 = g
        BY <1>1, <3>2
      <4>2. D[g] = Done(o, l, g) /\ D[g - 1] = Done(o, l, g - 1)
        BY <4>1
      <4> HIDE DEF Part, Start, D
      <4>3. Done(o, l, g) = Done(o, l, g - 1) + Part(g - 1, Done(o, l, g - 1))
        BY <1>6, <4>1
      <4>4. QED
        BY <3>2, <4>2, <4>3
    <3>3. QED
      BY <3>1, <3>2
  <2> HIDE DEF Part, D
  <2>2. D = [g \in 1 .. N + 1 |-> IF g = 1 THEN 0 ELSE D[g - 1] + Part(g - 1, D[g - 1])]
    <3>1. D = [g \in 1 .. N + 1 |-> D[g]]
      BY DEF D
    <3>2. QED
      BY <2>1, <3>1
  <2>3. QED
    BY <2>2
<1> DEFINE C == CHOOSE d : P(d)
<1>9. P(C)
  BY <1>8
<1>10. Parts(o, l)[f] = [at |-> Start(f), done |-> C[f], length |-> Part(f, C[f])]
  <2>1. FileAt(o).file = h /\ FileAt(o).at = o - FileStarts[h]
    BY <1>2
  <2>2. QED
    BY <2>1 DEF Parts, N
<1> HIDE DEF C
<1>11. \A g \in 1 .. N + 1 : C[g] = IF g = 1 THEN 0 ELSE C[g - 1] + Part(g - 1, C[g - 1])
  BY <1>9
<1> HIDE DEF P, Part, Start
<1>12. \A n \in 0 .. N : n \in {m \in Nat : C[m + 1] = Done(o, l, m + 1)}
  <2> DEFINE T == {m \in Nat : C[m + 1] = Done(o, l, m + 1)}
  <2>1. 0 \in T
    BY <1>1, <1>7, <1>11
  <2>2. ASSUME NEW n \in 0 .. N - 1, n \in T PROVE n + 1 \in T
    <3>1. n + 1 \in 1 .. N /\ (n + 1) + 1 \in 1 .. N + 1 /\ (n + 1) + 1 # 1
          /\ ((n + 1) + 1) - 1 = n + 1 /\ n + 1 \in Nat
      BY <1>1
    <3>2. C[(n + 1) + 1] = C[n + 1] + Part(n + 1, C[n + 1])
      BY <1>11, <3>1
    <3>3. C[n + 1] = Done(o, l, n + 1)
      BY <2>2
    <3>4. QED
      BY <1>6, <3>1, <3>2, <3>3
  <2> HIDE DEF T
  <2>3. \A n \in 0 .. N : n \in T
    BY <1>1, <2>1, <2>2, InductTo
  <2>4. QED
    BY <2>3 DEF T
<1>13. C[f] = Done(o, l, f)
  <2>1. f - 1 \in 0 .. N /\ (f - 1) + 1 = f
    BY <1>1 DEF N
  <2>2. QED
    BY <1>12, <2>1
<1>14. QED
  BY <1>6, <1>10, <1>13 DEF N

\* Byte y of what is written or read lies in the part for the file that holds it.
LEMMA PartHolding ==
    ASSUME torrent \in Torrents, NEW o \in Nat, NEW l \in Nat \ {0}, o + l <= TotalLen,
           NEW y \in 0 .. l - 1
    PROVE  LET f == FileOf(o + y)
               p == Parts(o, l)[f]
           IN  /\ f \in 1 .. NumFiles
               /\ y - p.done \in 0 .. p.length - 1
               /\ (o + y) - FileStarts[f] = p.at + (y - p.done)
<1> DEFINE f == FileOf(o + y)
           p == Parts(o, l)[f]
<1>1. o + y \in 0 .. TotalLen - 1 /\ TotalLen \in Nat
  BY TotalPositive
<1>2. f \in 1 .. NumFiles /\ FileStarts[f] <= o + y /\ o + y < FileStarts[f] + torrent.files[f]
  BY <1>1, FileHolds
<1> HIDE DEF f
<1>3. /\ p.at \in Nat /\ p.length \in Nat
      /\ p.done = Done(o, l, f) /\ Done(o, l, f + 1) = Done(o, l, f) + p.length
      /\ p.length > 0 => FileStarts[f] + p.at = o + p.done
  BY <1>2, PartsAre
<1> HIDE DEF p
<1>4. /\ FileStarts[f] \in Nat /\ torrent.files[f] \in Nat
      /\ FileStarts[f + 1] = FileStarts[f] + torrent.files[f]
  <2>1. f \in 1 .. NumFiles + 1 /\ NumFiles \in Nat
    BY <1>2, TorrentFacts
  <2>2. QED
    BY <1>2, <2>1, TorrentFacts, FileStartsAre
<1>5. p.done \in Nat /\ p.done <= y
  BY <1>2, <1>3, <1>4 DEF Done
<1>6. y < p.done + p.length
  <2>1. Done(o, l, f + 1) > y
    BY <1>2, <1>4 DEF Done
  <2>2. QED
    BY <1>3, <2>1
<1>7. p.length > 0 /\ FileStarts[f] + p.at = o + p.done
  BY <1>3, <1>5, <1>6
<1>8. y - p.done \in 0 .. p.length - 1 /\ (o + y) - FileStarts[f] = p.at + (y - p.done)
  BY <1>3, <1>4, <1>5, <1>6, <1>7
<1>9. QED
  BY <1>2, <1>8 DEF f, p

\* What is on disk of byte k of file f, counted from 1.
Content(file, k) == IF k \in DOMAIN file THEN file[k] ELSE Hole

LEMMA ByteAtIs == \A k : ByteAt(k) = Content(disk[FileOf(k)], k - FileStarts[FileOf(k)] + 1)
  BY DEF ByteAt, Content

\* Where request b of piece i lies.
LEMMA RequestsInside ==
    ASSUME torrent \in Torrents, NEW i \in Pieces, NEW r \in Requests(i)
    PROVE  /\ torrent.piece_len * i + r.offset \in Nat /\ r.length \in Nat \ {0}
           /\ torrent.piece_len * i + r.offset + r.length <= TotalLen
<1>1. PICK b \in 0 .. NumBlocks(i) - 1 : r = RequestOf(i, b)
  BY RequestsAre
<1>2. r.offset = torrent.block_size * b /\ r.length = BlockLen(i, b)
  BY <1>1 DEF RequestOf
<1>3. /\ torrent.block_size * b \in Nat /\ BlockLen(i, b) \in 1 .. torrent.block_size
      /\ torrent.block_size * b + BlockLen(i, b) <= PieceLen(i)
  BY BlockFacts
<1>4. torrent.piece_len * i \in Nat /\ torrent.piece_len * i + PieceLen(i) <= TotalLen
  BY PieceFacts
<1>5. PieceLen(i) \in 1 .. torrent.piece_len
  BY PieceFacts
<1>6. torrent.block_size \in Nat /\ torrent.piece_len \in Nat
  BY TorrentFacts
<1>7. TotalLen \in Nat
  BY TotalPositive
<1>8. QED
  BY <1>2, <1>3, <1>4, <1>5, <1>6, <1>7

FilesOnDisk ==
    /\ disk \in [1 .. NumFiles -> Seq(Bytes \cup {Hole})]
    /\ \A f \in 1 .. NumFiles : Len(disk[f]) <= torrent.files[f]

\* What read_block answers is its zeros and then what is on disk.
LEMMA ReadBlockIs ==
    ASSUME torrent \in Torrents, FilesOnDisk,
           NEW o \in Nat, NEW l \in Nat \ {0}, o + l <= TotalLen
    PROVE  /\ Len(ReadBlock(o, l)) = 2 * l
           /\ \A k \in 1 .. l : ReadBlock(o, l)[l + k] = ByteAt(o + k - 1)
<1> DEFINE N == NumFiles
           X == Bytes \cup {Hole}
           p == Parts(o, l)
           F == [f \in 1 .. N |-> ReadFromFile(f, p[f].at, p[f].length)]
           S == [f \in 1 .. N + 1 |-> Done(o, l, f)]
           Z == [k \in 1 .. l |-> Hole]
           s == Seqs!FlattenSeq([f \in 1 .. N |-> F[f]])
<1>1. N \in Nat
  BY TorrentFacts
<1>2. ASSUME NEW f \in 1 .. N
      PROVE  /\ p[f].at \in Nat /\ p[f].length \in Nat /\ p[f].done = Done(o, l, f)
             /\ Done(o, l, f + 1) = Done(o, l, f) + p[f].length
  BY PartsAre
<1>3. ASSUME NEW f \in 1 .. N
      PROVE  /\ F[f] \in Seq(X) /\ Len(F[f]) = p[f].length
             /\ \A x \in 1 .. p[f].length : F[f][x] = Content(disk[f], p[f].at + x)
  <2>1. disk[f] \in Seq(X)
    BY DEF FilesOnDisk
  <2>2. p[f].length \in Nat /\ p[f].at \in Nat
    BY <1>2
  <2>3. F[f] = [x \in 1 .. p[f].length |-> Content(disk[f], p[f].at + x)]
    BY DEF ReadFromFile, Content
  <2>4. ASSUME NEW x \in 1 .. p[f].length PROVE Content(disk[f], p[f].at + x) \in X
    <3>1. \A k \in DOMAIN disk[f] : disk[f][k] \in X
      BY <2>1
    <3>2. QED
      BY <3>1 DEF Content
  <2> DEFINE n == p[f].length
             Get(x) == Content(disk[f], p[f].at + x)
  <2>5. n \in Nat /\ F[f] = [x \in 1 .. n |-> Get(x)] /\ \A x \in 1 .. n : Get(x) \in X
    BY <2>2, <2>3, <2>4
  <2> HIDE DEF n, Get, X, F
  <2>6. [x \in 1 .. n |-> Get(x)] \in Seq(X) /\ Len([x \in 1 .. n |-> Get(x)]) = n
    BY ONLY <2>5
  <2>7. F[f] \in Seq(X) /\ Len(F[f]) = n /\ \A x \in 1 .. n : F[f][x] = Get(x)
    BY ONLY <2>5, <2>6
  <2>8. QED
    BY <2>7 DEF n, Get
<1> HIDE DEF F, X
<1>4. F \in [1 .. N -> Seq(X)]
  <2>1. F = [f \in 1 .. N |-> F[f]]
    BY DEF F
  <2>2. QED
    BY <1>3, <2>1
<1>5. S[1] = 0 /\ S[N + 1] = l /\ \A f \in 1 .. N + 1 : S[f] = Done(o, l, f)
  BY <1>1, DoneFacts
<1>6. \A c \in 1 .. N : S[c] \in Nat /\ S[c + 1] = S[c] + Len(F[c])
  <2>1. ASSUME NEW c \in 1 .. N PROVE S[c] \in Nat /\ S[c + 1] = S[c] + Len(F[c])
    <3>1. c \in 1 .. N + 1 /\ c + 1 \in 1 .. N + 1
      BY <1>1
    <3>2. Done(o, l, c) \in Nat
      BY <3>1, DoneFacts
    <3>3. QED
      BY <1>2, <1>3, <3>1, <3>2
  <2>2. QED
    BY <2>1
<1> HIDE DEF S, p, N
<1>7. /\ s \in Seq(X) /\ Len(s) = S[N + 1]
      /\ \A c \in 1 .. N : \A x \in 1 .. Len(F[c]) : s[S[c] + x] = F[c][x]
  <2>1. N \in 0 .. N
    BY <1>1
  <2>2. N \in Nat /\ S[1] = 0
    BY <1>1, <1>5
  <2> HIDE DEF s
  <2>3. PutTogether(X, F, S, N)
    BY <1>4, <1>6, <2>2, Flattened
  <2>4. QED
    BY ONLY <2>1, <2>3 DEF s, PutTogether
<1>8. ReadBlock(o, l) = Z \o s
  <2>1. F = [f \in 1 .. N |-> F[f]]
    BY <1>4
  <2>2. ReadBlock(o, l) = Z \o Seqs!FlattenSeq(F)
    BY DEF ReadBlock, F, p, N
  <2>3. QED
    BY <2>1, <2>2
<1>9. Z \in Seq(X) /\ Len(Z) = l
  BY DEF X
<1> HIDE DEF Z, s
<1>10. /\ Len(Z \o s) = Len(Z) + Len(s)
       /\ \A k \in 1 .. Len(Z) + Len(s) :
             (Z \o s)[k] = IF k <= Len(Z) THEN Z[k] ELSE s[k - Len(Z)]
  BY <1>7, <1>9, ConcatProperties
<1>11. Len(Z) = l /\ Len(s) = l
  BY <1>5, <1>7, <1>9
<1>12. ASSUME NEW k \in 1 .. l PROVE (Z \o s)[l + k] = ByteAt(o + k - 1)
  <2>1. (Z \o s)[l + k] = s[k]
    <3>1. l + k \in 1 .. l + l /\ ~(l + k <= l) /\ (l + k) - l = k
      OBVIOUS
    <3>2. \A x \in 1 .. l + l : (Z \o s)[x] = IF x <= l THEN Z[x] ELSE s[x - l]
      BY <1>10, <1>11
    <3>3. QED
      BY ONLY <3>1, <3>2
  <2> DEFINE y == k - 1
             f == FileOf(o + y)
             x == y - p[f].done + 1
  <2>2. y \in 0 .. l - 1 /\ k = y + 1 /\ o + k - 1 = o + y
    OBVIOUS
  <2>3. /\ f \in 1 .. N /\ y - p[f].done \in 0 .. p[f].length - 1
        /\ (o + y) - FileStarts[f] = p[f].at + (y - p[f].done)
    <3> HIDE DEF y
    <3>1. QED
      BY <2>2, PartHolding DEF p, N
  <2> HIDE DEF f, y
  <2>4. /\ p[f].at \in Nat /\ p[f].length \in Nat /\ p[f].done = S[f]
        /\ f \in 1 .. N + 1
    BY <1>1, <1>2, <1>5, <2>3
  <2>5. S[f] \in Nat
    BY <1>6, <2>3
  <2>6. x \in 1 .. p[f].length /\ S[f] + x = k /\ (o + y) - FileStarts[f] + 1 = p[f].at + x
    BY <2>2, <2>3, <2>4, <2>5
  <2> HIDE DEF x
  <2>7. s[k] = F[f][x]
    <3>1. Len(F[f]) = p[f].length
      BY <1>3, <2>3
    <3>2. s[S[f] + x] = F[f][x]
      BY <1>7, <2>3, <2>6, <3>1
    <3>3. QED
      BY <2>6, <3>2
  <2>8. F[f][x] = Content(disk[f], p[f].at + x)
    BY <1>3, <2>3, <2>6
  <2>9. ByteAt(o + y) = Content(disk[f], (o + y) - FileStarts[f] + 1)
    BY ByteAtIs DEF f
  <2>10. QED
    BY <2>1, <2>2, <2>6, <2>7, <2>8, <2>9
<1>13. QED
  BY <1>8, <1>10, <1>11, <1>12

LEMMA Served == ASSUME torrent \in Torrents, FilesOnDisk PROVE ServedFromDisk
<1>1. ASSUME NEW i \in Pieces, NEW r \in Requests(i)
      PROVE  LET position == torrent.piece_len * i + r.offset
                 answer == ReadBlock(position, r.length)
             IN  /\ Len(answer) = 2 * r.length
                 /\ \A k \in 1 .. r.length : answer[r.length + k] = ByteAt(position + k - 1)
  <2> DEFINE o == torrent.piece_len * i + r.offset
             l == r.length
  <2>1. o \in Nat /\ l \in Nat \ {0} /\ o + l <= TotalLen
    BY RequestsInside
  <2> HIDE DEF o, l
  <2>2. /\ Len(ReadBlock(o, l)) = 2 * l
        /\ \A k \in 1 .. l : ReadBlock(o, l)[l + k] = ByteAt(o + k - 1)
    BY <2>1, ReadBlockIs
  <2>3. QED
    BY <2>2 DEF o, l
<1>2. QED
  BY <1>1 DEF ServedFromDisk

-----------------------------------------------------------------------------
(* What a write leaves on disk *)

LEMMA WriteToFileIs ==
    ASSUME NEW X, Hole \in X, NEW file \in Seq(X), NEW at \in Nat, NEW w \in Seq(X),
           NEW z \in Nat, Len(file) <= z, at + Len(w) <= z
    PROVE  LET new == WriteToFile(file, at, w) IN
           /\ new \in Seq(X) /\ Len(new) <= z
           /\ \A k \in Nat \ {0} :
                 Content(new, k) = IF k - at \in 1 .. Len(w) THEN w[k - at] ELSE Content(file, k)
<1> DEFINE end == IF w = <<>> THEN 0 ELSE at + Len(w)
           m == Sets!Max({Len(file), end})
           Byte(k) == IF k - at \in DOMAIN w THEN w[k - at]
                      ELSE IF k \in DOMAIN file THEN file[k] ELSE Hole
           new == WriteToFile(file, at, w)
<1>1. /\ Len(file) \in Nat /\ DOMAIN file = 1 .. Len(file)
      /\ Len(w) \in Nat /\ DOMAIN w = 1 .. Len(w)
      /\ (w = <<>> <=> Len(w) = 0)
  OBVIOUS
<1>2. end \in Nat /\ end <= z
  BY <1>1
<1>3. m = IF Len(file) >= end THEN Len(file) ELSE end
  <2> HIDE DEF end
  <2>1. QED
    BY <1>1, <1>2, MaxOfTwo
<1>4. m \in Nat /\ m <= z /\ Len(file) <= m /\ end <= m
  <2> HIDE DEF end, m
  <2>1. QED
    BY <1>1, <1>2, <1>3
<1>5. new = [k \in 1 .. m |-> Byte(k)]
  BY DEF WriteToFile
<1>6. ASSUME NEW k \in 1 .. m PROVE Byte(k) \in X
  BY <1>1
<1> HIDE DEF m, new
<1>7. new \in Seq(X) /\ Len(new) = m /\ DOMAIN new = 1 .. m /\ \A k \in 1 .. m : new[k] = Byte(k)
  <2> HIDE DEF Byte
  <2>1. QED
    BY <1>4, <1>5, <1>6
<1>8. ASSUME NEW k \in Nat \ {0}
      PROVE  Content(new, k) = IF k - at \in 1 .. Len(w) THEN w[k - at] ELSE Content(file, k)
  <2>1. CASE k \in 1 .. m
    <3>1. Content(new, k) = Byte(k)
      BY <1>7, <2>1 DEF Content
    <3>2. QED
      BY <1>1, <3>1 DEF Content
  <2>2. CASE k \notin 1 .. m
    <3>1. k > m
      BY <1>4, <2>2
    <3>2. k \notin 1 .. Len(file)
      BY <1>1, <1>4, <3>1
    <3>3. k - at \notin 1 .. Len(w)
      BY <1>1, <1>4, <3>1
    <3>4. Content(new, k) = Hole /\ Content(file, k) = Hole
      BY <1>1, <1>7, <2>2, <3>2 DEF Content
    <3>5. QED
      BY <3>3, <3>4
  <2>3. QED
    BY <2>1, <2>2
<1>9. QED
  BY <1>4, <1>7, <1>8 DEF new

\* Of each part the first count[f] bytes are written.
FileWritten(o, l, bytes, count, f) ==
    LET p == Parts(o, l)[f]
        new == Written(Parts(o, l), bytes, count)[f]
    IN  /\ new \in Seq(Bytes \cup {Hole}) /\ Len(new) <= torrent.files[f]
        /\ \A k \in Nat \ {0} :
              Content(new, k) = IF k - p.at \in 1 .. count[f] THEN bytes[p.done + (k - p.at)]
                                ELSE Content(disk[f], k)

LEMMA WrittenIs ==
    ASSUME torrent \in Torrents, FilesOnDisk,
           NEW o \in Nat, NEW l \in Nat \ {0}, o + l <= TotalLen,
           NEW bytes \in Seq(Bytes \cup {Hole}), Len(bytes) = l,
           NEW count, NEW f \in 1 .. NumFiles,
           count[f] \in Nat, count[f] <= Parts(o, l)[f].length
    PROVE  FileWritten(o, l, bytes, count, f)
<1> DEFINE X == Bytes \cup {Hole}
           p == Parts(o, l)[f]
           n == count[f]
           w == SubSeq(bytes, p.done + 1, p.done + n)
           new == Written(Parts(o, l), bytes, count)[f]
<1>1. /\ p.at \in Nat /\ p.length \in Nat /\ p.at + p.length <= torrent.files[f]
      /\ p.done = Done(o, l, f) /\ Done(o, l, f + 1) = p.done + p.length
  BY PartsAre
<1>2. p.done \in Nat /\ p.done + p.length <= l
  <2>1. f \in 1 .. NumFiles + 1 /\ f + 1 \in 1 .. NumFiles + 1
    BY TorrentFacts
  <2>2. Done(o, l, f) \in 0 .. l /\ Done(o, l, f + 1) \in 0 .. l
    BY <2>1, DoneFacts
  <2> HIDE DEF p
  <2>3. QED
    BY <1>1, <2>2
<1>3. new = WriteToFile(disk[f], p.at, w)
  BY DEF Written
<1>4. n \in Nat /\ n <= p.length /\ torrent.files[f] \in Nat
  BY TorrentFacts
<1> HIDE DEF p, n, new
<1>5. bytes \in Seq(X)
  OBVIOUS
<1> HIDE DEF X
<1>6. p.done \in Nat /\ p.done + n <= Len(bytes)
  BY <1>1, <1>2, <1>4
<1>7. w \in Seq(X) /\ Len(w) = n /\ \A x \in 1 .. n : w[x] = bytes[p.done + x]
  <2> DEFINE d == p.done
  <2> HIDE DEF d
  <2>1. d \in Nat /\ n \in Nat /\ d + n <= Len(bytes)
    BY <1>4, <1>6 DEF d
  <2>2. /\ SubSeq(bytes, d + 1, d + n) \in Seq(X) /\ Len(SubSeq(bytes, d + 1, d + n)) = n
        /\ \A x \in 1 .. n : SubSeq(bytes, d + 1, d + n)[x] = bytes[d + x]
    BY <1>5, <2>1, StretchOf
  <2>3. QED
    BY <2>2 DEF d
<1> HIDE DEF w
<1>8. disk[f] \in Seq(X) /\ Len(disk[f]) <= torrent.files[f]
  BY DEF FilesOnDisk, X
<1>9. p.at + Len(w) <= torrent.files[f]
  BY <1>1, <1>4, <1>7
<1>10. Hole \in X
  BY DEF X
<1>11. /\ new \in Seq(X) /\ Len(new) <= torrent.files[f]
       /\ \A k \in Nat \ {0} :
             Content(new, k) = IF k - p.at \in 1 .. Len(w) THEN w[k - p.at] ELSE Content(disk[f], k)
  <2> DEFINE at == p.at
             file == disk[f]
             z == torrent.files[f]
             r == WriteToFile(file, at, w)
  <2>1. at \in Nat /\ file \in Seq(X) /\ w \in Seq(X) /\ z \in Nat /\ Len(file) <= z /\ at + Len(w) <= z
    BY <1>1, <1>4, <1>7, <1>8, <1>9
  <2> HIDE DEF at, file, z
  <2>2. /\ r \in Seq(X) /\ Len(r) <= z
        /\ \A k \in Nat \ {0} :
              Content(r, k) = IF k - at \in 1 .. Len(w) THEN w[k - at] ELSE Content(file, k)
    BY ONLY <1>10, <2>1, WriteToFileIs
  <2>3. QED
    BY <1>3, <2>2 DEF at, file, z
<1>12. ASSUME NEW k \in Nat \ {0}
       PROVE  Content(new, k) = IF k - p.at \in 1 .. n THEN bytes[p.done + (k - p.at)]
                                ELSE Content(disk[f], k)
  BY <1>7, <1>11
<1>13. QED
  BY <1>11, <1>12 DEF X, new, p, n, FileWritten

LEMMA PositionsAre ==
    ASSUME torrent \in Torrents, NEW i \in Pieces
    PROVE  /\ PieceOffset(i) = torrent.piece_len * i /\ PieceOffset(i) \in Nat
           /\ PieceLen(i) \in Nat \ {0} /\ PieceOffset(i) + PieceLen(i) <= TotalLen
           /\ Positions(i) = {PieceOffset(i) + y : y \in 0 .. PieceLen(i) - 1}
           /\ \A k \in Nat : k \in Positions(i) <=> k - PieceOffset(i) \in 0 .. PieceLen(i) - 1
<1>1. /\ PieceOffset(i) = torrent.piece_len * i /\ PieceOffset(i) \in Nat
      /\ PieceOffset(i) + PieceLen(i) <= TotalLen
  BY PieceFacts DEF PieceOffset
<1>2. PieceLen(i) \in Nat \ {0}
  <2>1. torrent.piece_len \in Nat
    BY TorrentFacts
  <2>2. PieceLen(i) \in 1 .. torrent.piece_len
    BY PieceFacts
  <2>3. QED
    BY <2>1, <2>2
<1>3. Positions(i) = {PieceOffset(i) + y : y \in 0 .. PieceLen(i) - 1}
  BY DEF Positions, PieceOffset
<1>4. ASSUME NEW k \in Nat
      PROVE  k \in Positions(i) <=> k - PieceOffset(i) \in 0 .. PieceLen(i) - 1
  <2> DEFINE o == PieceOffset(i)
             l == PieceLen(i)
  <2>1. o \in Nat /\ l \in Nat /\ Positions(i) = {o + y : y \in 0 .. l - 1}
    BY <1>1, <1>2, <1>3
  <2> HIDE DEF o, l
  <2>2. k \in {o + y : y \in 0 .. l - 1} <=> k - o \in 0 .. l - 1
    <3>1. k - o \in 0 .. l - 1 => k = o + (k - o)
      BY <2>1
    <3>2. ASSUME NEW y \in 0 .. l - 1, k = o + y PROVE k - o = y
      BY <2>1, <3>2
    <3>3. QED
      BY <3>1, <3>2
  <2>3. QED
    BY <2>1, <2>2 DEF o, l
<1>5. QED
  BY <1>1, <1>2, <1>3, <1>4

\* No two pieces share a byte.
LEMMA PositionsApart ==
    ASSUME torrent \in Torrents, NEW i \in Pieces, NEW j \in Pieces, i # j
    PROVE  Positions(i) \cap Positions(j) = {}
<1>1. ASSUME NEW a \in Pieces, NEW b \in Pieces, a < b, NEW k, k \in Positions(a), k \in Positions(b)
      PROVE  FALSE
  <2> DEFINE P == torrent.piece_len
  <2>1. /\ a \in Nat /\ b \in Nat /\ P * a \in Nat /\ P * b \in Nat /\ P \in Nat
        /\ PieceLen(a) \in 1 .. P /\ PieceLen(b) \in 1 .. P
    BY PieceFacts, TorrentFacts
  <2>2. P * a + P <= P * b
    BY <1>1, <2>1, PartsApart
  <2>3. PICK x \in 0 .. PieceLen(a) - 1 : k = P * a + x
    BY <1>1 DEF Positions
  <2>4. PICK y \in 0 .. PieceLen(b) - 1 : k = P * b + y
    BY <1>1 DEF Positions
  <2> HIDE DEF P
  <2>5. QED
    BY <2>1, <2>2, <2>3, <2>4
<1>2. i \in Nat /\ j \in Nat
  BY PieceFacts
<1>3. QED
  BY <1>1, <1>2

\* How write_err and failures move when a piece is written, and when its write
\* leaves it whole.
LEMMA SavePiece ==
    ASSUME torrent \in Torrents, torrent' = torrent, FilesOnDisk, NEW i \in Pieces,
           WritePiece(PieceOffset(i), TorrentBytes(i, 0, PieceLen(i)))
    PROVE  /\ FilesOnDisk'
           /\ \A k \in (0 .. TotalLen - 1) \ Positions(i) : ByteAt(k)' = ByteAt(k)
           /\ \E refused \in SUBSET write_err, failed \in SUBSET (1 .. NumFiles) :
                 /\ write_err' = (write_err \ refused) \cup failed
                 /\ failures' = failures + Cardinality(failed) /\ failures' <= MaxFailures
                 /\ refused = {} /\ failed = {} => \A k \in Positions(i) : ByteAt(k)' = k + 1
<1> DEFINE o == PieceOffset(i)
           l == PieceLen(i)
           bytes == TorrentBytes(i, 0, l)
           p == Parts(o, l)
           touched == {f \in 1 .. NumFiles : p[f].length > 0}
           refused == touched \cap write_err
           X == Bytes \cup {Hole}
<1>1. o = torrent.piece_len * i /\ o \in Nat /\ l \in Nat \ {0} /\ o + l <= TotalLen
  BY PositionsAre
<1>2. /\ bytes \in Seq(X) /\ Len(bytes) = l
      /\ \A y \in 0 .. l - 1 : bytes[y + 1] = o + y + 1
  <2> HIDE DEF o, l
  <2>1. \A k \in 1 .. l : o + 0 + k \in Bytes
    BY <1>1, TotalPositive DEF Bytes
  <2>2. bytes = [k \in 1 .. l |-> o + 0 + k]
    BY <1>1 DEF TorrentBytes
  <2>3. \A y \in 0 .. l - 1 : y + 1 \in 1 .. l /\ o + 0 + (y + 1) = o + y + 1
    BY <1>1
  <2> HIDE DEF bytes, X
  <2>4. \A k \in 1 .. l : o + 0 + k \in X
    BY <2>1 DEF X
  <2>5. bytes \in Seq(X) /\ Len(bytes) = l
    BY <1>1, <2>2, <2>4
  <2>6. QED
    BY <2>2, <2>3, <2>5
<1> HIDE DEF o, l, bytes
<1>3. PICK failed \in SUBSET (touched \ refused) : \E count \in [1 .. NumFiles -> 0 .. l] :
        /\ failures + Cardinality(failed) <= MaxFailures
        /\ \A f \in 1 .. NumFiles :
              IF f \in refused THEN count[f] = 0
              ELSE IF f \in failed THEN count[f] < p[f].length
              ELSE count[f] = p[f].length
        /\ disk' = Written(p, bytes, count)
        /\ write_err' = (write_err \ refused) \cup failed
        /\ failures' = failures + Cardinality(failed)
  BY <1>2 DEF WritePiece, o, l, bytes
<1>4. PICK count \in [1 .. NumFiles -> 0 .. l] :
        /\ failures + Cardinality(failed) <= MaxFailures
        /\ \A f \in 1 .. NumFiles :
              IF f \in refused THEN count[f] = 0
              ELSE IF f \in failed THEN count[f] < p[f].length
              ELSE count[f] = p[f].length
        /\ disk' = Written(p, bytes, count)
        /\ write_err' = (write_err \ refused) \cup failed
        /\ failures' = failures + Cardinality(failed)
  BY <1>3
<1> HIDE DEF X, refused, touched
<1>5. ASSUME NEW f \in 1 .. NumFiles
      PROVE  /\ p[f].at \in Nat /\ p[f].length \in Nat /\ p[f].done \in Nat
             /\ p[f].at + p[f].length <= torrent.files[f]
             /\ p[f].length > 0 => FileStarts[f] + p[f].at = o + p[f].done
             /\ p[f].done + p[f].length <= l
  <2>1. /\ p[f].at \in Nat /\ p[f].length \in Nat /\ p[f].at + p[f].length <= torrent.files[f]
        /\ p[f].done = Done(o, l, f) /\ Done(o, l, f + 1) = Done(o, l, f) + p[f].length
        /\ p[f].length > 0 => FileStarts[f] + p[f].at = o + p[f].done
    BY <1>1, PartsAre
  <2>2. f \in 1 .. NumFiles + 1 /\ f + 1 \in 1 .. NumFiles + 1
    BY TorrentFacts
  <2>3. Done(o, l, f) \in 0 .. l /\ Done(o, l, f + 1) \in 0 .. l
    BY <1>1, <2>2, DoneFacts
  <2> HIDE DEF p
  <2>4. QED
    BY <2>1, <2>3
<1>6. ASSUME NEW f \in 1 .. NumFiles PROVE count[f] \in Nat /\ count[f] <= p[f].length
  <2>1. count[f] \in Nat /\ p[f].length \in Nat
    BY <1>1, <1>5
  <2> HIDE DEF p
  <2>2. QED
    BY <1>4, <2>1
<1>7. ASSUME NEW f \in 1 .. NumFiles
      PROVE  /\ disk'[f] \in Seq(X) /\ Len(disk'[f]) <= torrent.files[f]
             /\ \A k \in Nat \ {0} :
                   Content(disk'[f], k) =
                       IF k - p[f].at \in 1 .. count[f] THEN bytes[p[f].done + (k - p[f].at)]
                       ELSE Content(disk[f], k)
  <2>1. count[f] \in Nat /\ count[f] <= Parts(o, l)[f].length
    BY <1>6
  <2>2. bytes \in Seq(Bytes \cup {Hole})
    BY <1>2 DEF X
  <2> DEFINE new == Written(Parts(o, l), bytes, count)[f]
  <2>3. FileWritten(o, l, bytes, count, f)
    BY <1>1, <1>2, <2>1, <2>2, WrittenIs
  <2>4. disk'[f] = new
    BY <1>4
  <2> HIDE DEF new
  <2>5. QED
    BY <2>3, <2>4 DEF X, new, FileWritten
<1>8. /\ NumFiles' = NumFiles /\ FileStarts' = FileStarts /\ TotalLen' = TotalLen
      /\ \A k : FileOf(k)' = FileOf(k)
  BY DEF NumFiles, FileStarts, TotalLen, FileOf
<1>9. FilesOnDisk'
  <2>1. X' = X
    BY <1>8 DEF X, Bytes
  <2>2. disk' \in [1 .. NumFiles -> Seq(X)]
    <3>1. disk' = [f \in 1 .. NumFiles |-> disk'[f]]
      BY <1>4 DEF Written
    <3>2. QED
      BY <1>7, <3>1
  <2>3. QED
    BY <1>7, <1>8, <2>1, <2>2 DEF FilesOnDisk, X
<1>10. ASSUME NEW k \in 0 .. TotalLen - 1
       PROVE  LET f == FileOf(k)
                  x == k - FileStarts[f]
              IN  /\ f \in 1 .. NumFiles /\ x \in Nat
                  /\ ByteAt(k) = Content(disk[f], x + 1)
                  /\ ByteAt(k)' = Content(disk'[f], x + 1)
  <2>1. /\ FileOf(k) \in 1 .. NumFiles /\ FileStarts[FileOf(k)] <= k
    BY FileHolds
  <2>2. FileStarts[FileOf(k)] \in Nat /\ TotalLen \in Nat
    <3>1. FileOf(k) \in 1 .. NumFiles + 1
      BY <2>1, TorrentFacts
    <3>2. QED
      BY <3>1, FileStartsAre, TotalPositive
  <2>3. ByteAt(k) = Content(disk[FileOf(k)], k - FileStarts[FileOf(k)] + 1)
    BY ByteAtIs
  <2>4. ByteAt(k)' = Content(disk'[FileOf(k)], k - FileStarts[FileOf(k)] + 1)
    BY <1>8 DEF ByteAt, Content
  <2>5. QED
    BY <2>1, <2>2, <2>3, <2>4
<1>11. ASSUME NEW k \in (0 .. TotalLen - 1) \ Positions(i) PROVE ByteAt(k)' = ByteAt(k)
  <2> DEFINE f == FileOf(k)
             x == k - FileStarts[f]
  <2>1. /\ f \in 1 .. NumFiles /\ x \in Nat
        /\ ByteAt(k) = Content(disk[f], x + 1) /\ ByteAt(k)' = Content(disk'[f], x + 1)
    BY <1>10
  <2>2. k \in Nat /\ FileStarts[f] \in Nat /\ k = FileStarts[f] + x
    <3>1. f \in 1 .. NumFiles + 1 /\ k \in Nat
      BY <2>1, TorrentFacts, TotalPositive
    <3>2. FileStarts[f] \in Nat
      BY <3>1, FileStartsAre
    <3> HIDE DEF f
    <3>3. QED
      BY <3>1, <3>2
  <2>3. k - o \notin 0 .. l - 1
    BY <2>2, PositionsAre DEF o, l
  <2> HIDE DEF f, x
  <2>4. ASSUME (x + 1) - p[f].at \in 1 .. count[f] PROVE FALSE
    <3> DEFINE at == p[f].at
               n == p[f].length
               d == p[f].done
    <3>1. /\ at \in Nat /\ n \in Nat /\ d \in Nat /\ d + n <= l
          /\ n > 0 => FileStarts[f] + at = o + d
          /\ count[f] \in Nat /\ count[f] <= n
      BY <1>5, <1>6, <2>1
    <3> HIDE DEF at, n, d, p
    <3>2. (x + 1) - at \in 1 .. count[f]
      BY <2>4 DEF at
    <3> DEFINE s == FileStarts[f]
    <3>3. s \in Nat /\ k = s + x
      BY <2>2
    <3>4. n > 0 => s + at = o + d
      BY <3>1
    <3> HIDE DEF s
    <3>5. n > 0
      BY <2>1, <3>1, <3>2
    <3>6. s + at = o + d /\ x - at \in 0 .. n - 1
      BY <2>1, <3>1, <3>2, <3>4, <3>5
    <3>7. x \in Nat /\ at \in Nat /\ n \in Nat /\ d \in Nat /\ d + n <= l /\ o \in Nat /\ l \in Nat
      BY <1>1, <2>1, <3>1
    <3>8. k - o = d + (x - at)
      BY ONLY <3>3, <3>6, <3>7
    <3>9. d + (x - at) \in 0 .. l - 1
      BY ONLY <3>6, <3>7
    <3>10. QED
      BY <2>3, <3>8, <3>9
  <2>5. x + 1 \in Nat \ {0}
    BY <2>1
  <2>6. Content(disk'[f], x + 1) = Content(disk[f], x + 1)
    BY <1>7, <2>1, <2>4, <2>5
  <2>7. QED
    BY <2>1, <2>6
<1>12. ASSUME refused = {}, failed = {}, NEW k \in Positions(i) PROVE ByteAt(k)' = k + 1
  <2>1. PICK y \in 0 .. l - 1 : k = o + y
    BY PositionsAre DEF o, l
  <2>2. k \in 0 .. TotalLen - 1 /\ TotalLen \in Nat
    BY <1>1, <2>1, TotalPositive
  <2> DEFINE f == FileOf(k)
             x == k - FileStarts[f]
  <2>3. f \in 1 .. NumFiles /\ x \in Nat /\ ByteAt(k)' = Content(disk'[f], x + 1)
    BY <1>10, <2>2
  <2>4. y - p[f].done \in 0 .. p[f].length - 1 /\ x = p[f].at + (y - p[f].done)
    <3> DEFINE g == FileOf(o + y)
               q == Parts(o, l)[g]
    <3>0. torrent \in Torrents /\ o \in Nat /\ l \in Nat \ {0} /\ o + l <= TotalLen
      BY <1>1
    <3> HIDE DEF o, l
    <3>1. y - q.done \in 0 .. q.length - 1 /\ (o + y) - FileStarts[g] = q.at + (y - q.done)
      BY ONLY <3>0, PartHolding, y \in 0 .. l - 1
    <3>2. QED
      BY ONLY <2>1, <3>1 DEF f, x, p
  <2> HIDE DEF f, x
  <2>5. count[f] = p[f].length
    BY <1>4, <1>12, <2>3
  <2>6. p[f].at \in Nat /\ p[f].length \in Nat /\ p[f].done \in Nat
    BY <1>5, <2>3
  <2>7. Content(disk'[f], x + 1) = bytes[y + 1]
    <3> DEFINE at == p[f].at
               n == p[f].length
               d == p[f].done
    <3> HIDE DEF at, n, d
    <3>1. y - d \in 0 .. n - 1 /\ x = at + (y - d) /\ at \in Nat /\ n \in Nat /\ d \in Nat /\ count[f] = n
      BY <2>4, <2>5, <2>6 DEF at, n, d
    <3>2. (x + 1) - at \in 1 .. count[f] /\ d + ((x + 1) - at) = y + 1 /\ x + 1 \in Nat \ {0}
      BY <2>3, <3>1
    <3>3. Content(disk'[f], x + 1) = IF (x + 1) - at \in 1 .. count[f]
                                     THEN bytes[d + ((x + 1) - at)] ELSE Content(disk[f], x + 1)
      BY <1>7, <2>3, <3>2 DEF at, d
    <3>4. QED
      BY <3>2, <3>3
  <2>8. bytes[y + 1] = o + y + 1
    BY <1>2
  <2>9. QED
    BY <2>1, <2>3, <2>7, <2>8
<1>13. refused \in SUBSET write_err /\ failed \in SUBSET (1 .. NumFiles)
  BY DEF refused, touched
<1>14. /\ \A k \in (0 .. TotalLen - 1) \ Positions(i) : ByteAt(k)' = ByteAt(k)
       /\ refused = {} /\ failed = {} => \A k \in Positions(i) : ByteAt(k)' = k + 1
  BY <1>11, <1>12
<1>15. /\ write_err' = (write_err \ refused) \cup failed
       /\ failures' = failures + Cardinality(failed) /\ failures' <= MaxFailures
  BY <1>4
<1>16. QED
  BY <1>9, <1>13, <1>14, <1>15

-----------------------------------------------------------------------------
(* The buffer of a piece *)

BufferBytes == Bytes \cup {Bad}

\* What the info of a block says when its last copy was `copy`.
BlockKept(i, b, info, buf, copy) ==
    IF copy = "none" THEN info = NoBlock
    ELSE /\ info.offset = torrent.block_size * b
         /\ info.size = BlockLen(i, b)
         /\ info.at \in Nat /\ info.at + info.size <= Len(buf)
         /\ Slice(buf, info) = Copy(i, RequestOf(i, b), copy)

LEMMA CopyIs ==
    ASSUME torrent \in Torrents, NEW i \in Pieces, NEW b \in 0 .. NumBlocks(i) - 1, NEW copy
    PROVE  LET data == Copy(i, RequestOf(i, b), copy) IN
           /\ data \in Seq(BufferBytes) /\ Len(data) = BlockLen(i, b)
           /\ \A x \in 1 .. BlockLen(i, b) :
                 data[x] = IF copy = "good"
                           THEN torrent.piece_len * i + torrent.block_size * b + x ELSE Bad
<1> DEFINE n == BlockLen(i, b)
           o == torrent.piece_len * i + torrent.block_size * b
           data == Copy(i, RequestOf(i, b), copy)
<1>1. o \in Nat /\ n \in Nat \ {0} /\ o + n <= TotalLen
  <2>1. RequestOf(i, b) \in Requests(i)
    BY RequestsAre
  <2>2. RequestOf(i, b).offset = torrent.block_size * b /\ RequestOf(i, b).length = n
    BY DEF RequestOf
  <2>3. QED
    BY <2>1, <2>2, RequestsInside
<1>2. data = [x \in 1 .. n |-> IF copy = "good" THEN o + x ELSE Bad]
  BY DEF Copy, TorrentBytes, RequestOf
<1>3. \A x \in 1 .. n : o + x \in Bytes
  <2> HIDE DEF o, n
  <2>1. QED
    BY <1>1, TotalPositive DEF Bytes
<1> HIDE DEF n, o, data
<1>4. \A x \in 1 .. n : (IF copy = "good" THEN o + x ELSE Bad) \in BufferBytes
  BY <1>3 DEF BufferBytes
<1> HIDE DEF n, o, data
<1>5. data \in Seq(BufferBytes) /\ Len(data) = n
  BY <1>1, <1>2, <1>4
<1>6. \A x \in 1 .. n : data[x] = IF copy = "good" THEN o + x ELSE Bad
  BY <1>2
<1>7. QED
  BY <1>5, <1>6 DEF n, o, data

LEMMA SliceIs ==
    ASSUME NEW Y, NEW buf \in Seq(Y), NEW info, info.at \in Nat, info.size \in Nat,
           info.at + info.size <= Len(buf)
    PROVE  /\ Slice(buf, info) \in Seq(Y) /\ Len(Slice(buf, info)) = info.size
           /\ \A x \in 1 .. info.size : Slice(buf, info)[x] = buf[info.at + x]
<1> DEFINE a == info.at
           n == info.size
           r == SubSeq(buf, a + 1, a + n)
<1>1. Slice(buf, info) = r
  BY DEF Slice
<1>2. a \in Nat /\ n \in Nat /\ a + n <= Len(buf)
  OBVIOUS
<1> HIDE DEF a, n
<1>3. r \in Seq(Y) /\ Len(r) = n /\ \A x \in 1 .. n : r[x] = buf[a + x]
  BY <1>2, StretchOf
<1> HIDE DEF r
<1>4. QED
  BY <1>1, <1>3 DEF a, n

\* Buffering one more copy keeps the others.
LEMMA BufferBlock ==
    ASSUME torrent \in Torrents, NEW i \in Pieces, NEW b \in 0 .. NumBlocks(i) - 1,
           NEW copy \in {"good", "bad"},
           DOMAIN buffered[i] = 0 .. NumBlocks(i) - 1,
           received[i] \in [0 .. NumBlocks(i) - 1 -> {"none", "good", "bad"}],
           pbuf[i] \in Seq(BufferBytes),
           \A c \in 0 .. NumBlocks(i) - 1 :
              BlockKept(i, c, buffered[i][c], pbuf[i], received[i][c])
    PROVE  LET data == Copy(i, RequestOf(i, b), copy)
               infos == WithBlock(i, torrent.block_size * b, data)
               buf == pbuf[i] \o data
               got == [received[i] EXCEPT ![b] = copy]
           IN  /\ DOMAIN infos = 0 .. NumBlocks(i) - 1
               /\ buf \in Seq(BufferBytes)
               /\ \A c \in 0 .. NumBlocks(i) - 1 : BlockKept(i, c, infos[c], buf, got[c])
<1> DEFINE data == Copy(i, RequestOf(i, b), copy)
           infos == WithBlock(i, torrent.block_size * b, data)
           old == pbuf[i]
           buf == old \o data
           got == [received[i] EXCEPT ![b] = copy]
           n == Len(data)
           l == Len(old)
<1>1. data \in Seq(BufferBytes) /\ n = BlockLen(i, b) /\ n \in Nat
  BY CopyIs
<1>2. l \in Nat /\ old \in Seq(BufferBytes)
  OBVIOUS
<1>3. infos = [buffered[i] EXCEPT ![b] = [at |-> l, offset |-> torrent.block_size * b, size |-> n]]
  <2>1. BlockIndex(i, torrent.block_size * b) = b
    BY BlockIndexes DEF BlockIndex
  <2>2. QED
    BY <2>1 DEF WithBlock, AppendOffset
<1>4. /\ DOMAIN infos = 0 .. NumBlocks(i) - 1
      /\ infos[b] = [at |-> l, offset |-> torrent.block_size * b, size |-> n]
      /\ \A c \in 0 .. NumBlocks(i) - 1 : c # b => infos[c] = buffered[i][c]
  <2> HIDE DEF infos
  <2>1. QED
    BY <1>3
<1>5. got[b] = copy /\ \A c \in 0 .. NumBlocks(i) - 1 : c # b => got[c] = received[i][c]
  OBVIOUS
<1> HIDE DEF data, infos, got, n, l, old
<1>6. /\ buf \in Seq(BufferBytes) /\ Len(buf) = l + n
      /\ \A k \in 1 .. l + n : buf[k] = IF k <= l THEN old[k] ELSE data[k - l]
  <2>1. /\ old \o data \in Seq(BufferBytes)
        /\ Len(old \o data) = Len(old) + Len(data)
        /\ \A k \in 1 .. Len(old) + Len(data) :
              (old \o data)[k] = IF k <= Len(old) THEN old[k] ELSE data[k - Len(old)]
    BY <1>1, <1>2, ConcatProperties
  <2>2. QED
    BY <2>1 DEF n, l
<1> HIDE DEF buf
<1>7. BlockKept(i, b, infos[b], buf, got[b])
  <2> DEFINE info == infos[b]
  <2>1. info.at = l /\ info.size = n /\ info.offset = torrent.block_size * b
    BY <1>4
  <2> HIDE DEF info
  <2>2. info.at + info.size <= Len(buf) /\ info.at \in Nat /\ info.size \in Nat
    BY <1>1, <1>2, <1>6, <2>1
  <2>3. /\ Slice(buf, info) \in Seq(BufferBytes) /\ Len(Slice(buf, info)) = n
        /\ \A x \in 1 .. n : Slice(buf, info)[x] = buf[l + x]
    BY <1>6, <2>1, <2>2, SliceIs
  <2>4. Slice(buf, info) = data
    <3>1. ASSUME NEW x \in 1 .. n PROVE Slice(buf, info)[x] = data[x]
      <4>1. l + x \in 1 .. l + n /\ ~(l + x <= l) /\ (l + x) - l = x
        BY <1>1, <1>2
      <4>2. buf[l + x] = data[x]
        BY ONLY <1>6, <4>1
      <4>3. QED
        BY <2>3, <4>2
    <3>2. Len(data) = n
      BY DEF n
    <3>3. QED
      BY <1>1, <2>3, <3>1, <3>2, SeqEqual
  <2>5. got[b] # "none"
    BY <1>5
  <2>6. QED
    BY <1>1, <1>5, <2>1, <2>2, <2>4, <2>5 DEF BlockKept, info, data
<1>8. ASSUME NEW c \in 0 .. NumBlocks(i) - 1, c # b PROVE BlockKept(i, c, infos[c], buf, got[c])
  <2> DEFINE info == buffered[i][c]
             last == received[i][c]
  <2>1. BlockKept(i, c, info, old, last)
    BY DEF old
  <2>2. infos[c] = info /\ got[c] = last
    BY <1>4, <1>5, <1>8
  <2> HIDE DEF info, last
  <2>3. CASE last = "none"
    BY <2>1, <2>2, <2>3 DEF BlockKept
  <2>4. CASE last # "none"
    <3>1. /\ info.offset = torrent.block_size * c /\ info.size = BlockLen(i, c)
          /\ info.at \in Nat /\ info.at + info.size <= l
          /\ Slice(old, info) = Copy(i, RequestOf(i, c), last)
      BY <2>1, <2>4 DEF BlockKept, l
    <3>2. info.size \in Nat
      <4>1. BlockLen(i, c) \in 1 .. torrent.block_size
        BY BlockFacts
      <4>2. QED
        BY <3>1, <4>1
    <3>3. info.at + info.size <= Len(buf)
      BY <1>1, <1>2, <1>6, <3>1, <3>2
    <3>4. /\ Slice(old, info) \in Seq(BufferBytes) /\ Len(Slice(old, info)) = info.size
          /\ \A x \in 1 .. info.size : Slice(old, info)[x] = old[info.at + x]
      BY <1>2, <3>1, <3>2, SliceIs DEF l
    <3>5. /\ Slice(buf, info) \in Seq(BufferBytes) /\ Len(Slice(buf, info)) = info.size
          /\ \A x \in 1 .. info.size : Slice(buf, info)[x] = buf[info.at + x]
      BY <1>6, <3>1, <3>2, <3>3, SliceIs
    <3>6. ASSUME NEW x \in 1 .. info.size PROVE Slice(buf, info)[x] = Slice(old, info)[x]
      <4> DEFINE at == info.at
                 size == info.size
      <4>a. at \in Nat /\ size \in Nat /\ at + size <= l /\ x \in 1 .. size
        BY <3>1, <3>2
      <4> HIDE DEF at, size
      <4>b. at + x \in 1 .. l + n /\ at + x <= l
        BY ONLY <1>1, <1>2, <4>a
      <4>1. info.at + x \in 1 .. l + n /\ info.at + x <= l
        BY <4>b DEF at
      <4>2. buf[info.at + x] = old[info.at + x]
        BY ONLY <1>6, <4>1
      <4>3. QED
        BY <3>4, <3>5, <4>2
    <3>7. Slice(buf, info) = Slice(old, info)
      BY <3>4, <3>5, <3>6, SeqEqual
    <3>8. QED
      BY <2>2, <2>4, <3>1, <3>3, <3>7 DEF BlockKept
  <2>5. QED
    BY <2>3, <2>4
<1>9. QED
  BY <1>4, <1>6, <1>7, <1>8 DEF data, infos, got, buf, old

\* A complete piece: its blocks follow each other in order, as ordered_piece
\* asserts, and it is the piece the torrent holds if every block is.
LEMMA Assembled ==
    ASSUME torrent \in Torrents, NEW i \in Pieces,
           NEW infos, DOMAIN infos = 0 .. NumBlocks(i) - 1, NEW buf \in Seq(BufferBytes),
           NEW got \in [0 .. NumBlocks(i) - 1 -> {"good", "bad"}],
           \A c \in 0 .. NumBlocks(i) - 1 : BlockKept(i, c, infos[c], buf, got[c])
    PROVE  /\ InOrder(infos, buf)
           /\ OrderedPiece(infos, buf, i) = TorrentBytes(i, 0, PieceLen(i))
                 <=> \A c \in 0 .. NumBlocks(i) - 1 : got[c] = "good"
<1> DEFINE B == torrent.block_size
           P == torrent.piece_len
           N == NumBlocks(i)
           L == PieceLen(i)
           F == [k \in 1 .. N |-> Slice(buf, infos[k - 1])]
           S == [k \in 1 .. N + 1 |-> IF k = N + 1 THEN L ELSE B * (k - 1)]
<1>1. B \in Nat \ {0} /\ P \in Nat \ {0} /\ N \in Nat \ {0} /\ L \in Nat \ {0} /\ P * i \in Nat
  <2>1. P * i \in Nat /\ L \in Nat \ {0}
    BY PieceFacts, PositionsAre
  <2>2. QED
    BY <2>1, TorrentFacts, BlockFacts
<1>2. ASSUME NEW c \in 0 .. N - 1
      PROVE  /\ infos[c].offset = B * c
             /\ Slice(buf, infos[c]) \in Seq(BufferBytes)
             /\ Len(Slice(buf, infos[c])) = BlockLen(i, c)
             /\ \A x \in 1 .. BlockLen(i, c) :
                   Slice(buf, infos[c])[x] = IF got[c] = "good" THEN P * i + B * c + x ELSE Bad
  <2>1. got[c] # "none"
    OBVIOUS
  <2>2. infos[c].offset = B * c /\ Slice(buf, infos[c]) = Copy(i, RequestOf(i, c), got[c])
    BY <2>1 DEF BlockKept
  <2>3. QED
    BY <2>2, CopyIs
<1>3. ASSUME NEW c \in 0 .. N - 1
      PROVE  /\ BlockLen(i, c) \in Nat \ {0} /\ B * c \in Nat /\ B * c + BlockLen(i, c) <= L
             /\ c # N - 1 => BlockLen(i, c) = B
             /\ c = N - 1 => B * c + BlockLen(i, c) = L
  <2>1. BlockLen(i, c) \in 1 .. B
    BY BlockFacts
  <2>2. QED
    BY <1>1, <2>1, BlockFacts
<1> HIDE DEF B, P, N, L
<1>4. F \in [1 .. N -> Seq(BufferBytes)]
  <2>1. ASSUME NEW k \in 1 .. N PROVE Slice(buf, infos[k - 1]) \in Seq(BufferBytes)
    <3>1. k - 1 \in 0 .. N - 1
      BY <1>1
    <3>2. QED
      BY <1>2, <3>1
  <2>2. QED
    BY <2>1
<1>5. ASSUME NEW c \in 0 .. N - 1
      PROVE  S[c + 1] = B * c /\ F[c + 1] = Slice(buf, infos[c])
             /\ S[(c + 1) + 1] = S[c + 1] + Len(F[c + 1])
  <2>1. c + 1 \in 1 .. N /\ (c + 1) - 1 = c /\ c + 1 \in 1 .. N + 1 /\ c + 1 # N + 1
        /\ (c + 1) + 1 \in 1 .. N + 1 /\ ((c + 1) + 1) - 1 = c + 1
    BY <1>1
  <2>2. S[c + 1] = B * c /\ F[c + 1] = Slice(buf, infos[c])
    BY <2>1
  <2>3. Len(F[c + 1]) = BlockLen(i, c)
    BY <1>2, <2>2
  <2>4. CASE c = N - 1
    <3>1. (c + 1) + 1 = N + 1
      BY <1>1, <2>4
    <3>2. S[(c + 1) + 1] = L
      BY <2>1, <3>1
    <3>3. L = B * c + BlockLen(i, c)
      BY <1>3, <2>4
    <3>4. QED
      BY <2>2, <2>3, <3>2, <3>3
  <2>5. CASE c # N - 1
    <3>1. (c + 1) + 1 # N + 1
      BY <1>1, <2>5
    <3>2. S[(c + 1) + 1] = B * (c + 1)
      BY <2>1, <3>1
    <3>3. BlockLen(i, c) = B /\ B * (c + 1) = B * c + B
      BY <1>1, <1>3, <2>5
    <3>4. QED
      BY <2>2, <2>3, <3>2, <3>3
  <2>6. QED
    BY <2>2, <2>4, <2>5
<1>6. S[1] = 0
  <2>1. 0 \in 0 .. N - 1 /\ 0 + 1 = 1 /\ B * 0 = 0
    BY <1>1
  <2> HIDE DEF S, F
  <2>2. S[0 + 1] = B * 0
    BY <1>5, <2>1
  <2>3. QED
    BY <2>1, <2>2
<1>7. S[N + 1] = L
  BY <1>1
<1>8. ASSUME NEW b \in 0 .. N
      PROVE  Ordered(infos, buf, b) = Seqs!FlattenSeq([k \in 1 .. b |-> F[k]])
  <2>1. \A k \in 1 .. b : k \in 1 .. N
    BY <1>1
  <2>2. [k \in 1 .. b |-> Slice(buf, infos[k - 1])] = [k \in 1 .. b |-> F[k]]
    BY <2>1
  <2>3. QED
    BY <2>2 DEF Ordered
<1> HIDE DEF S, F
<1>9. \A c \in 1 .. N : S[c] \in Nat /\ S[c + 1] = S[c] + Len(F[c])
  <2>1. ASSUME NEW k \in 1 .. N PROVE S[k] \in Nat /\ S[k + 1] = S[k] + Len(F[k])
    <3>1. k - 1 \in 0 .. N - 1 /\ (k - 1) + 1 = k
      BY <1>1
    <3>2. S[k] = B * (k - 1) /\ S[k + 1] = S[k] + Len(F[k])
      BY <1>5, <3>1
    <3>3. B * (k - 1) \in Nat
      BY <1>3, <3>1
    <3>4. QED
      BY <3>2, <3>3
  <2>2. QED
    BY <2>1
<1>10. PutTogether(BufferBytes, F, S, N)
  <2>1. N \in Nat
    BY <1>1
  <2>2. QED
    BY <1>4, <1>6, <1>9, <2>1, Flattened
<1>11. ASSUME NEW b \in 0 .. N
       PROVE  /\ Ordered(infos, buf, b) \in Seq(BufferBytes) /\ Len(Ordered(infos, buf, b)) = S[b + 1]
              /\ \A c \in 0 .. b - 1 : \A x \in 1 .. BlockLen(i, c) :
                    Ordered(infos, buf, b)[B * c + x] =
                        IF got[c] = "good" THEN P * i + B * c + x ELSE Bad
  <2> DEFINE s == Ordered(infos, buf, b)
  <2>1. s = Seqs!FlattenSeq([k \in 1 .. b |-> F[k]])
    BY <1>8
  <2> HIDE DEF s
  <2>2. /\ s \in Seq(BufferBytes) /\ Len(s) = S[b + 1]
        /\ \A c \in 1 .. b : \A x \in 1 .. Len(F[c]) : s[S[c] + x] = F[c][x]
    BY <1>10, <2>1 DEF PutTogether
  <2>3. ASSUME NEW c \in 0 .. b - 1, NEW x \in 1 .. BlockLen(i, c)
        PROVE  s[B * c + x] = IF got[c] = "good" THEN P * i + B * c + x ELSE Bad
    <3>1. c \in 0 .. N - 1 /\ c + 1 \in 1 .. b
      BY <1>1
    <3>2. S[c + 1] = B * c /\ F[c + 1] = Slice(buf, infos[c])
      BY <1>5, <3>1
    <3>3. Len(F[c + 1]) = BlockLen(i, c)
      BY <1>2, <3>1, <3>2
    <3>4. s[S[c + 1] + x] = F[c + 1][x]
      BY <2>2, <3>1, <3>3
    <3>5. F[c + 1][x] = IF got[c] = "good" THEN P * i + B * c + x ELSE Bad
      BY <1>2, <3>1, <3>2
    <3>6. QED
      BY <3>2, <3>4, <3>5
  <2>4. QED
    BY <2>2, <2>3 DEF s
<1>12. InOrder(infos, buf)
  <2>1. ASSUME NEW b \in 0 .. N - 1 PROVE infos[b].offset = Len(Ordered(infos, buf, b))
    <3>1. b \in 0 .. N
      BY <1>1
    <3>2. QED
      BY <1>2, <1>5, <1>11, <3>1
  <2>2. QED
    BY <2>1 DEF InOrder, N
<1> DEFINE piece == OrderedPiece(infos, buf, i)
           whole == TorrentBytes(i, 0, L)
<1>13. /\ piece \in Seq(BufferBytes) /\ Len(piece) = L
       /\ \A c \in 0 .. N - 1 : \A x \in 1 .. BlockLen(i, c) :
             piece[B * c + x] = IF got[c] = "good" THEN P * i + B * c + x ELSE Bad
  <2>1. N \in 0 .. N /\ piece = Ordered(infos, buf, N)
    BY <1>1 DEF OrderedPiece, N
  <2>2. QED
    BY <1>7, <1>11, <2>1
<1>14. /\ whole \in Seq(Int) /\ Len(whole) = L /\ \A k \in 1 .. L : whole[k] = P * i + k
  <2>1. whole = [k \in 1 .. L |-> P * i + 0 + k]
    BY DEF TorrentBytes, P
  <2>2. \A k \in 1 .. L : P * i + 0 + k = P * i + k /\ P * i + k \in Int
    BY <1>1
  <2>3. whole = [k \in 1 .. L |-> P * i + k]
    BY <2>1, <2>2
  <2> HIDE DEF whole
  <2>4. QED
    BY <1>1, <2>2, <2>3
<1> HIDE DEF piece, whole
<1>15. ASSUME NEW c \in 0 .. N - 1, piece = whole PROVE got[c] = "good"
  <2>1. BlockLen(i, c) \in Nat \ {0} /\ B * c \in Nat /\ B * c + BlockLen(i, c) <= L
    BY <1>3
  <2>2. 1 \in 1 .. BlockLen(i, c) /\ B * c + 1 \in 1 .. L
    BY <1>1, <2>1
  <2>3. whole[B * c + 1] = P * i + (B * c + 1)
    BY <1>14, <2>2
  <2>4. piece[B * c + 1] = IF got[c] = "good" THEN P * i + B * c + 1 ELSE Bad
    BY <1>13, <2>2
  <2>5. P * i + (B * c + 1) # Bad
    BY <1>1, <2>1 DEF Bad
  <2>6. QED
    BY <1>15, <2>3, <2>4, <2>5
<1>16. ASSUME \A c \in 0 .. N - 1 : got[c] = "good" PROVE piece = whole
  <2>1. ASSUME NEW k \in 1 .. L PROVE piece[k] = whole[k]
    <3> DEFINE y == k - 1
               c == y \div B
               x == y % B
    <3>1. y \in Nat /\ y < L
      BY <1>1
    <3>2. c \in Nat /\ x \in 0 .. B - 1 /\ y = B * c + x
      <4> HIDE DEF y
      <4>1. QED
        BY <1>1, <3>1, Division
    <3> HIDE DEF c, x
    <3>3. B * c \in Nat /\ B * c < L
      BY <1>1, <3>1, <3>2
    <3>4. c \in 0 .. N - 1
      <4>1. c <= N - 1
        BY <3>2, <3>3, BlockFacts DEF B, N, L
      <4>2. QED
        BY <1>1, <3>2, <4>1
    <3>5. /\ BlockLen(i, c) \in Nat
          /\ c # N - 1 => BlockLen(i, c) = B
          /\ c = N - 1 => B * c + BlockLen(i, c) = L
      BY <1>3, <3>4
    <3>6. x < BlockLen(i, c)
      <4>1. CASE c = N - 1
        BY <1>1, <3>1, <3>2, <3>3, <3>5, <4>1
      <4>2. CASE c # N - 1
        BY <1>1, <3>2, <3>5, <4>2
      <4>3. QED
        BY <4>1, <4>2
    <3>7. x + 1 \in 1 .. BlockLen(i, c) /\ k = B * c + (x + 1)
      BY <1>1, <3>2, <3>3, <3>5, <3>6
    <3>8. piece[k] = P * i + B * c + (x + 1)
      BY <1>13, <1>16, <3>4, <3>7
    <3>9. whole[k] = P * i + k
      BY <1>14
    <3>10. P * i + B * c + (x + 1) = P * i + k
      BY <1>1, <3>2, <3>3, <3>7
    <3>11. QED
      BY <3>8, <3>9, <3>10
  <2>2. Bytes \subseteq Int /\ Bad \in Int
    BY TotalPositive DEF Bytes, Bad
  <2>3. piece \in Seq(Int)
    <3>1. BufferBytes \subseteq Int
      BY <2>2 DEF BufferBytes
    <3>2. QED
      BY <1>13, <3>1, SeqMonotonic
  <2>4. QED
    BY <1>13, <1>14, <2>1, <2>3, SeqEqual
<1>17. QED
  BY <1>12, <1>15, <1>16 DEF piece, whole, L, N

-----------------------------------------------------------------------------
(* The inductive invariant *)

StoreTypes ==
    /\ torrent \in Torrents
    /\ have \subseteq Pieces
    /\ DOMAIN pbuf = Pieces /\ DOMAIN buffered = Pieces /\ DOMAIN received = Pieces
    /\ \A i \in Pieces :
        /\ pbuf[i] \in Seq(BufferBytes)
        /\ DOMAIN buffered[i] = 0 .. NumBlocks(i) - 1
        /\ received[i] \in [0 .. NumBlocks(i) - 1 -> {"none", "good", "bad"}]
    /\ write_err \subseteq 1 .. NumFiles
    /\ failures \in 0 .. MaxFailures

\* Every info points at the bytes of the last copy of its block.
BlocksKept ==
    \A i \in Pieces : \A b \in 0 .. NumBlocks(i) - 1 :
        BlockKept(i, b, buffered[i][b], pbuf[i], received[i][b])

Lost == {i \in have : ~Intact(i)}

\* A failed write can still cost a second piece as long as nobody was told of it.
LossesCounted == Cardinality(Lost) + Cardinality(write_err) <= 2 * failures

StoreInv ==
    /\ StoreTypes
    /\ BlocksKept
    /\ FilesOnDisk
    /\ LossesCounted
    /\ peer_com = "running"

\* The three things that the copy of a block can do.  `got` are the last copies
\* with this one.
Keeps(i, infos, got) ==
    /\ buffered' = [buffered EXCEPT ![i] = infos]
    /\ received' = [received EXCEPT ![i] = got]
    /\ UNCHANGED <<have, disk, write_err, failures>>

Saves(i) ==
    /\ buffered' = [buffered EXCEPT ![i] = NoBlocks(i)]
    /\ received' = [received EXCEPT ![i] = NothingReceived(i)]
    /\ have' = have \cup {i}
    /\ WritePiece(PieceOffset(i), TorrentBytes(i, 0, PieceLen(i)))

BlockStep(i, b, copy) ==
    LET data == Copy(i, RequestOf(i, b), copy)
        infos == WithBlock(i, torrent.block_size * b, data)
        buf == pbuf[i] \o data
        got == [received[i] EXCEPT ![b] = copy]
    IN  /\ i \notin have
        /\ pbuf' = [pbuf EXCEPT ![i] = buf]
        /\ DOMAIN infos = 0 .. NumBlocks(i) - 1
        /\ buf \in Seq(BufferBytes)
        /\ \A c \in 0 .. NumBlocks(i) - 1 : BlockKept(i, c, infos[c], buf, got[c])
        /\ IF \A c \in 0 .. NumBlocks(i) - 1 : got[c] = "good" THEN Saves(i) ELSE Keeps(i, infos, got)
        /\ peer_com' = "running" /\ torrent' = torrent

\* A step: the piece is saved when the last copies of all its blocks are good.
LEMMA StepIs ==
    ASSUME StoreInv, Next
    PROVE  \E i \in Pieces : \E b \in 0 .. NumBlocks(i) - 1 : \E copy \in {"good", "bad"} :
              BlockStep(i, b, copy)
<1>1. torrent \in Torrents
  BY DEF StoreInv, StoreTypes
<1>2. PICK i \in Pieces : \E r \in Requests(i), copy \in {"good", "bad"} : HandleBlock(i, r, copy)
  BY DEF Next
<1>3. PICK r \in Requests(i), copy \in {"good", "bad"} : HandleBlock(i, r, copy)
  BY <1>2
<1>4. PICK b \in 0 .. NumBlocks(i) - 1 : r = RequestOf(i, b)
  BY <1>1, RequestsAre
<1>5. r.offset = torrent.block_size * b /\ r.offset \div torrent.block_size = b
  BY <1>1, <1>4, BlockIndexes DEF RequestOf
<1> DEFINE data == Copy(i, r, copy)
           infos == WithBlock(i, r.offset, data)
           buf == pbuf[i] \o data
           got == [received[i] EXCEPT ![b] = copy]
           N == NumBlocks(i)
<1>6. /\ DOMAIN received = Pieces
      /\ received[i] \in [0 .. N - 1 -> {"none", "good", "bad"}]
      /\ DOMAIN buffered[i] = 0 .. N - 1 /\ pbuf[i] \in Seq(BufferBytes)
      /\ \A c \in 0 .. N - 1 : BlockKept(i, c, buffered[i][c], pbuf[i], received[i][c])
      /\ peer_com = "running"
  BY DEF StoreInv, StoreTypes, BlocksKept
<1>7. /\ DOMAIN infos = 0 .. N - 1
      /\ buf \in Seq(BufferBytes)
      /\ \A c \in 0 .. N - 1 : BlockKept(i, c, infos[c], buf, got[c])
  BY <1>1, <1>4, <1>5, <1>6, BufferBlock
<1>8. got \in [0 .. N - 1 -> {"none", "good", "bad"}]
  BY <1>6
<1>9. /\ i \notin have /\ pbuf' = [pbuf EXCEPT ![i] = buf] /\ torrent' = torrent
      /\ IF AllBuffered(infos)
         THEN OnPieceCompleted(i, infos, buf)
         ELSE /\ buffered' = [buffered EXCEPT ![i] = infos]
              /\ UNCHANGED <<have, disk, write_err, failures, peer_com>>
      /\ received' = [received EXCEPT ![i] =
              IF i \in have' THEN NothingReceived(i) ELSE got]
  BY <1>3, <1>5, <1>6 DEF HandleBlock
<1> HIDE DEF infos, buf, got
<1>10. AllBuffered(infos) <=> \A c \in 0 .. N - 1 : got[c] # "none"
  <2>1. ASSUME NEW c \in 0 .. N - 1 PROVE infos[c] # NoBlock <=> got[c] # "none"
    <3>1. CASE got[c] = "none"
      BY <1>7, <3>1 DEF BlockKept
    <3>2. CASE got[c] # "none"
      <4>1. infos[c].size = BlockLen(i, c)
        BY <1>7, <3>2 DEF BlockKept
      <4>2. BlockLen(i, c) \in 1 .. torrent.block_size
        BY <1>1, BlockFacts
      <4>3. infos[c].size # 0
        BY <4>1, <4>2
      <4>4. QED
        BY <3>2, <4>3 DEF NoBlock
    <3>3. QED
      BY <3>1, <3>2
  <2>2. QED
    BY <1>7, <2>1 DEF AllBuffered
<1>11. CASE \A c \in 0 .. N - 1 : got[c] = "good"
  <2>1. got \in [0 .. N - 1 -> {"good", "bad"}] /\ AllBuffered(infos)
    BY <1>8, <1>10, <1>11
  <2>2. /\ InOrder(infos, buf)
        /\ OrderedPiece(infos, buf, i) = TorrentBytes(i, 0, PieceLen(i))
    BY <1>1, <1>7, <1>11, <2>1, Assembled
  <2>3. VerifyPieceHash(i, OrderedPiece(infos, buf, i))
    BY <2>2 DEF VerifyPieceHash
  <2>4. /\ buffered' = [buffered EXCEPT ![i] = NoBlocks(i)]
        /\ have' = have \cup {i}
        /\ WritePiece(PieceOffset(i), TorrentBytes(i, 0, PieceLen(i)))
        /\ peer_com' = peer_com
    BY <1>9, <2>1, <2>2, <2>3 DEF OnPieceCompleted
  <2>5. received' = [received EXCEPT ![i] = NothingReceived(i)]
    BY <1>9, <2>4
  <2>6. Saves(i)
    BY <2>4, <2>5 DEF Saves
  <2>7. BlockStep(i, b, copy)
    BY <1>4, <1>5, <1>6, <1>7, <1>9, <1>11, <2>4, <2>6 DEF BlockStep, infos, buf, got
  <2>8. QED
    BY <2>7
<1>12. CASE ~(\A c \in 0 .. N - 1 : got[c] = "good")
  <2>1. /\ buffered' = [buffered EXCEPT ![i] = infos]
        /\ UNCHANGED <<have, disk, write_err, failures, peer_com>>
    <3>1. CASE AllBuffered(infos)
      <4>1. got \in [0 .. N - 1 -> {"good", "bad"}]
        BY <1>8, <1>10, <3>1
      <4>2. /\ InOrder(infos, buf)
            /\ OrderedPiece(infos, buf, i) # TorrentBytes(i, 0, PieceLen(i))
        BY <1>1, <1>7, <1>12, <4>1, Assembled
      <4>3. ~VerifyPieceHash(i, OrderedPiece(infos, buf, i))
        BY <4>2 DEF VerifyPieceHash
      <4>4. QED
        BY <1>9, <3>1, <4>2, <4>3 DEF OnPieceCompleted
    <3>2. CASE ~AllBuffered(infos)
      BY <1>9, <3>2
    <3>3. QED
      BY <3>1, <3>2
  <2>2. received' = [received EXCEPT ![i] = got]
    BY <1>9, <2>1
  <2>3. Keeps(i, infos, got)
    BY <2>1, <2>2 DEF Keeps
  <2>4. BlockStep(i, b, copy)
    BY <1>4, <1>5, <1>6, <1>7, <1>9, <1>12, <2>1, <2>3 DEF BlockStep, infos, buf, got
  <2>5. QED
    BY <2>4
<1>13. QED
  BY <1>11, <1>12

LEMMA SameTorrent ==
    ASSUME torrent' = torrent
    PROVE  /\ NumFiles' = NumFiles /\ TotalLen' = TotalLen /\ NumPieces' = NumPieces
           /\ Pieces' = Pieces /\ Bytes' = Bytes /\ BufferBytes' = BufferBytes
           /\ \A i : PieceLen(i)' = PieceLen(i) /\ NumBlocks(i)' = NumBlocks(i)
           /\ \A i : Positions(i)' = Positions(i)
           /\ \A i, b : BlockLen(i, b)' = BlockLen(i, b)
<1>1. NumFiles' = NumFiles /\ TotalLen' = TotalLen
  BY DEF NumFiles, TotalLen, FileStarts
<1>2. NumPieces' = NumPieces
  BY <1>1 DEF NumPieces
<1>3. Pieces' = Pieces /\ Bytes' = Bytes
  BY <1>1, <1>2 DEF Pieces, Bytes
<1>4. BufferBytes' = BufferBytes
  BY <1>3 DEF BufferBytes
<1>5. \A i : PieceLen(i)' = PieceLen(i)
  BY <1>1, <1>2 DEF PieceLen, LastPieceLen
<1>6. \A i : NumBlocks(i)' = NumBlocks(i)
  BY <1>5 DEF NumBlocks
<1>7. \A i : Positions(i)' = Positions(i)
  BY <1>5 DEF Positions
<1>8. \A i, b : BlockLen(i, b)' = BlockLen(i, b)
  BY <1>5 DEF BlockLen
<1>9. QED
  BY <1>1, <1>2, <1>3, <1>4, <1>5, <1>6, <1>7, <1>8

LEMMA KeptStays ==
    ASSUME torrent' = torrent, NEW i, NEW b, DOMAIN pbuf' = DOMAIN pbuf,
           BlockKept(i, b, buffered'[i][b], pbuf'[i], received'[i][b])
    PROVE  BlockKept(i, b, buffered[i][b], pbuf[i], received[i][b])'
  BY SameTorrent DEF BlockKept, Slice, Copy, TorrentBytes, RequestOf, NoBlock

LEMMA StoreStart == ASSUME Init PROVE StoreInv
<1>1. torrent \in Torrents
  BY DEF Init
<1>2. FilesOnDisk
  <2>1. \A f \in 1 .. NumFiles : torrent.files[f] \in Nat
    BY <1>1, TorrentFacts
  <2>2. \A f \in 1 .. NumFiles : disk[f] = <<>>
    BY DEF Init
  <2>3. disk \in [1 .. NumFiles -> Seq(Bytes \cup {Hole})]
    BY DEF Init
  <2>4. Len(<<>>) = 0
    OBVIOUS
  <2>5. QED
    BY <2>1, <2>2, <2>3, <2>4 DEF FilesOnDisk
<1>3. StoreTypes
  <2>1. MaxFailures \in Nat
    BY PieceStoreAssumption
  <2>2. ASSUME NEW i \in Pieces
        PROVE  /\ pbuf[i] \in Seq(BufferBytes)
               /\ DOMAIN buffered[i] = 0 .. NumBlocks(i) - 1
               /\ received[i] \in [0 .. NumBlocks(i) - 1 -> {"none", "good", "bad"}]
    BY DEF Init, NoBlocks, NothingReceived
  <2>3. DOMAIN pbuf = Pieces /\ DOMAIN buffered = Pieces /\ DOMAIN received = Pieces
    BY DEF Init
  <2>4. have = {} /\ write_err = {} /\ failures = 0
    BY DEF Init
  <2>5. QED
    BY <1>1, <2>1, <2>2, <2>3, <2>4 DEF StoreTypes
<1>4. BlocksKept
  <2>1. ASSUME NEW i \in Pieces, NEW b \in 0 .. NumBlocks(i) - 1
        PROVE  BlockKept(i, b, buffered[i][b], pbuf[i], received[i][b])
    BY DEF Init, NoBlocks, NothingReceived, BlockKept
  <2>2. QED
    BY <2>1 DEF BlocksKept
<1>5. LossesCounted
  <2>1. Lost = {} /\ write_err = {} /\ failures = 0
    BY DEF Init, Lost
  <2>2. QED
    BY <2>1, FS_EmptySet DEF LossesCounted
<1>6. QED
  BY <1>2, <1>3, <1>4, <1>5 DEF StoreInv, Init

\* Types and buffers after a step.
LEMMA StepKeeps ==
    ASSUME StoreInv, NEW i \in Pieces, NEW b \in 0 .. NumBlocks(i) - 1,
           NEW copy \in {"good", "bad"}, BlockStep(i, b, copy)
    PROVE  /\ DOMAIN pbuf' = Pieces /\ DOMAIN buffered' = Pieces /\ DOMAIN received' = Pieces
           /\ \A j \in Pieces :
                 /\ pbuf'[j] \in Seq(BufferBytes)
                 /\ DOMAIN buffered'[j] = 0 .. NumBlocks(j) - 1
                 /\ received'[j] \in [0 .. NumBlocks(j) - 1 -> {"none", "good", "bad"}]
                 /\ \A c \in 0 .. NumBlocks(j) - 1 :
                       BlockKept(j, c, buffered'[j][c], pbuf'[j], received'[j][c])
<1> DEFINE data == Copy(i, RequestOf(i, b), copy)
           infos == WithBlock(i, torrent.block_size * b, data)
           buf == pbuf[i] \o data
           got == [received[i] EXCEPT ![b] = copy]
           saved == \A c \in 0 .. NumBlocks(i) - 1 : got[c] = "good"
<1>1. /\ pbuf' = [pbuf EXCEPT ![i] = buf]
      /\ DOMAIN infos = 0 .. NumBlocks(i) - 1
      /\ buf \in Seq(BufferBytes)
      /\ \A c \in 0 .. NumBlocks(i) - 1 : BlockKept(i, c, infos[c], buf, got[c])
      /\ IF saved THEN Saves(i) ELSE Keeps(i, infos, got)
  BY DEF BlockStep
<1>2. /\ DOMAIN pbuf = Pieces /\ DOMAIN buffered = Pieces /\ DOMAIN received = Pieces
      /\ \A j \in Pieces :
            /\ pbuf[j] \in Seq(BufferBytes)
            /\ DOMAIN buffered[j] = 0 .. NumBlocks(j) - 1
            /\ received[j] \in [0 .. NumBlocks(j) - 1 -> {"none", "good", "bad"}]
            /\ \A c \in 0 .. NumBlocks(j) - 1 :
                  BlockKept(j, c, buffered[j][c], pbuf[j], received[j][c])
  BY DEF StoreInv, StoreTypes, BlocksKept
<1>3. got \in [0 .. NumBlocks(i) - 1 -> {"none", "good", "bad"}]
  BY <1>2
<1> HIDE DEF data, infos, buf, got, saved
<1>4. \E infos1, got1 :
          /\ buffered' = [buffered EXCEPT ![i] = infos1]
          /\ received' = [received EXCEPT ![i] = got1]
          /\ DOMAIN infos1 = 0 .. NumBlocks(i) - 1
          /\ got1 \in [0 .. NumBlocks(i) - 1 -> {"none", "good", "bad"}]
          /\ \A c \in 0 .. NumBlocks(i) - 1 : BlockKept(i, c, infos1[c], buf, got1[c])
  <2>1. CASE saved
    <3>1. /\ buffered' = [buffered EXCEPT ![i] = NoBlocks(i)]
          /\ received' = [received EXCEPT ![i] = NothingReceived(i)]
      BY <1>1, <2>1 DEF Saves
    <3>2. /\ DOMAIN NoBlocks(i) = 0 .. NumBlocks(i) - 1
          /\ NothingReceived(i) \in [0 .. NumBlocks(i) - 1 -> {"none", "good", "bad"}]
          /\ \A c \in 0 .. NumBlocks(i) - 1 :
                NoBlocks(i)[c] = NoBlock /\ NothingReceived(i)[c] = "none"
      BY DEF NoBlocks, NothingReceived
    <3>3. \A c \in 0 .. NumBlocks(i) - 1 :
              BlockKept(i, c, NoBlocks(i)[c], buf, NothingReceived(i)[c])
      BY <3>2 DEF BlockKept
    <3>4. QED
      BY <3>1, <3>2, <3>3
  <2>2. CASE ~saved
    <3>1. /\ buffered' = [buffered EXCEPT ![i] = infos]
          /\ received' = [received EXCEPT ![i] = got]
      BY <1>1, <2>2 DEF Keeps
    <3>2. QED
      BY <1>1, <1>3, <3>1
  <2>3. QED
    BY <2>1, <2>2
<1>5. PICK infos1, got1 :
          /\ buffered' = [buffered EXCEPT ![i] = infos1]
          /\ received' = [received EXCEPT ![i] = got1]
          /\ DOMAIN infos1 = 0 .. NumBlocks(i) - 1
          /\ got1 \in [0 .. NumBlocks(i) - 1 -> {"none", "good", "bad"}]
          /\ \A c \in 0 .. NumBlocks(i) - 1 : BlockKept(i, c, infos1[c], buf, got1[c])
  BY <1>4
<1>6. DOMAIN pbuf' = Pieces /\ DOMAIN buffered' = Pieces /\ DOMAIN received' = Pieces
  BY <1>1, <1>2, <1>5
<1>7. ASSUME NEW j \in Pieces
      PROVE  /\ pbuf'[j] \in Seq(BufferBytes)
             /\ DOMAIN buffered'[j] = 0 .. NumBlocks(j) - 1
             /\ received'[j] \in [0 .. NumBlocks(j) - 1 -> {"none", "good", "bad"}]
             /\ \A c \in 0 .. NumBlocks(j) - 1 :
                   BlockKept(j, c, buffered'[j][c], pbuf'[j], received'[j][c])
  <2>1. CASE j = i
    <3>1. pbuf'[i] = buf /\ buffered'[i] = infos1 /\ received'[i] = got1
      BY <1>1, <1>2, <1>5
    <3>2. QED
      BY <1>1, <1>5, <2>1, <3>1
  <2>2. CASE j # i
    <3>1. pbuf'[j] = pbuf[j] /\ buffered'[j] = buffered[j] /\ received'[j] = received[j]
      BY <1>1, <1>2, <1>5, <2>2
    <3>2. QED
      BY <1>2, <3>1
  <2>3. QED
    BY <2>1, <2>2
<1>8. QED
  BY <1>6, <1>7

LEMMA SameBytes ==
    ASSUME torrent' = torrent, disk' = disk
    PROVE  (FilesOnDisk => FilesOnDisk') /\ \A k : ByteAt(k)' = ByteAt(k)
<1>1. FileStarts' = FileStarts /\ NumFiles' = NumFiles
  BY DEF NumFiles, FileStarts
<1>2. \A k : FileOf(k)' = FileOf(k)
  BY <1>1 DEF FileOf
<1>3. \A k : ByteAt(k)' = ByteAt(k)
  BY <1>1, <1>2 DEF ByteAt
<1>4. Bytes' = Bytes
  BY SameTorrent
<1>5. FilesOnDisk => FilesOnDisk'
  BY <1>1, <1>4 DEF FilesOnDisk
<1>6. QED
  BY <1>3, <1>5

\* Saving a piece loses no other.
LEMMA LostGrows ==
    ASSUME StoreInv, torrent' = torrent, NEW i \in Pieces, have' = have \cup {i},
           \A k \in (0 .. TotalLen - 1) \ Positions(i) : ByteAt(k)' = ByteAt(k)
    PROVE  /\ Lost' \subseteq Lost \cup {i}
           /\ (\A k \in Positions(i) : ByteAt(k)' = k + 1) => Lost' \subseteq Lost
<1>1. torrent \in Torrents /\ have \subseteq Pieces
  BY DEF StoreInv, StoreTypes
<1>2. \A j : Positions(j)' = Positions(j)
  BY SameTorrent
<1>3. ASSUME NEW j \in Pieces, j # i PROVE Intact(j)' <=> Intact(j)
  <2>1. ASSUME NEW k \in Positions(j) PROVE ByteAt(k)' = ByteAt(k)
    <3>1. k \notin Positions(i)
      BY <1>1, <1>3, PositionsApart
    <3>2. PICK y \in 0 .. PieceLen(j) - 1 : k = PieceOffset(j) + y
      BY <1>1, PositionsAre
    <3>3. /\ PieceOffset(j) \in Nat /\ PieceLen(j) \in Nat
          /\ PieceOffset(j) + PieceLen(j) <= TotalLen /\ TotalLen \in Nat
      BY <1>1, PositionsAre, TotalPositive
    <3>4. k \in 0 .. TotalLen - 1
      BY <3>2, <3>3
    <3>5. QED
      BY <3>1, <3>4
  <2>2. QED
    BY <1>2, <2>1 DEF Intact
<1>4. Lost' = {j \in have \cup {i} : ~Intact(j)'}
  BY DEF Lost
<1>5. Lost' \subseteq Lost \cup {i}
  BY <1>1, <1>3, <1>4 DEF Lost
<1>6. ASSUME \A k \in Positions(i) : ByteAt(k)' = k + 1 PROVE i \notin Lost'
  <2>1. Intact(i)'
    BY <1>2, <1>6 DEF Intact
  <2>2. QED
    BY <1>4, <2>1
<1>7. QED
  BY <1>5, <1>6

LEMMA CountLosses ==
    ASSUME NEW lost, NEW lost1, NEW w, NEW w1, NEW refused \in SUBSET w, NEW failed,
           NEW f \in Nat, NEW i,
           IsFiniteSet(lost), IsFiniteSet(w), IsFiniteSet(failed),
           lost1 \subseteq lost \cup {i}, refused = {} /\ failed = {} => lost1 \subseteq lost,
           w1 = (w \ refused) \cup failed,
           Cardinality(lost) + Cardinality(w) <= 2 * f
    PROVE  Cardinality(lost1) + Cardinality(w1) <= 2 * (f + Cardinality(failed))
<1> DEFINE a == Cardinality(lost)
           a1 == Cardinality(lost1)
           c == Cardinality(w)
           c1 == Cardinality(w1)
           r == Cardinality(refused)
           n == Cardinality(failed)
<1>1. a \in Nat /\ c \in Nat /\ n \in Nat
  BY FS_CardinalityType
<1>2. IsFiniteSet(refused) /\ r \in Nat /\ (r = 0 <=> refused = {}) /\ (n = 0 <=> failed = {})
  BY FS_Subset, FS_CardinalityType, FS_EmptySet
<1>3. a1 \in Nat /\ a1 <= a + 1 /\ (refused = {} /\ failed = {} => a1 <= a)
  <2>1. IsFiniteSet(lost \cup {i}) /\ Cardinality(lost \cup {i}) <= a + 1
        /\ Cardinality(lost \cup {i}) \in Nat
    <3>1. /\ IsFiniteSet(lost \cup {i})
          /\ Cardinality(lost \cup {i}) = IF i \in lost THEN a ELSE a + 1
      BY FS_AddElement
    <3> HIDE DEF a
    <3>2. QED
      BY <1>1, <3>1
  <2>2. IsFiniteSet(lost1) /\ a1 <= Cardinality(lost \cup {i})
    BY <2>1, FS_Subset
  <2>3. a1 \in Nat
    BY <2>2, FS_CardinalityType
  <2>4. lost1 \subseteq lost => a1 <= a
    BY FS_Subset
  <2> HIDE DEF a, a1
  <2>5. QED
    BY <1>1, <2>1, <2>2, <2>3, <2>4
<1>4. c1 \in Nat /\ c1 <= c - r + n
  <2> DEFINE d == w \ refused
  <2>1. IsFiniteSet(d) /\ Cardinality(d) = c - Cardinality(w \cap refused)
    BY FS_Difference
  <2>2. w \cap refused = refused
    OBVIOUS
  <2>3. Cardinality(d) = c - r
    BY <2>1, <2>2
  <2>4. /\ IsFiniteSet(d \cup failed)
        /\ Cardinality(d \cup failed) = Cardinality(d) + n - Cardinality(d \cap failed)
    BY <2>1, FS_Union
  <2>5. Cardinality(d \cap failed) \in Nat
    <3>1. IsFiniteSet(d \cap failed)
      BY <2>1, FS_Intersection
    <3>2. QED
      BY <3>1, FS_CardinalityType
  <2>6. c1 = Cardinality(d \cup failed) /\ c1 \in Nat
    BY <2>4, FS_CardinalityType
  <2> HIDE DEF d, c, c1, r, n
  <2>7. QED
    BY <1>1, <1>2, <2>3, <2>4, <2>5, <2>6
<1>5. a + c <= 2 * f
  OBVIOUS
<1> HIDE DEF a, a1, c, c1, r, n
<1>6. a1 + c1 <= 2 * (f + n)
  <2>1. CASE r = 0 /\ n = 0
    <3>1. a1 <= a /\ c1 <= c
      BY <1>1, <1>2, <1>3, <1>4, <2>1
    <3>2. QED
      BY <1>1, <1>3, <1>4, <1>5, <2>1, <3>1
  <2>2. CASE ~(r = 0 /\ n = 0)
    BY <1>1, <1>2, <1>3, <1>4, <1>5, <2>2
  <2>3. QED
    BY <2>1, <2>2
<1>7. QED
  BY <1>6 DEF a1, c1, n

\* Disk, losses and the rest after a step.
LEMMA StepSaves ==
    ASSUME StoreInv, NEW i \in Pieces, NEW b \in 0 .. NumBlocks(i) - 1,
           NEW copy \in {"good", "bad"}, BlockStep(i, b, copy)
    PROVE  /\ FilesOnDisk' /\ LossesCounted'
           /\ have' \subseteq Pieces /\ write_err' \subseteq 1 .. NumFiles
           /\ failures' \in 0 .. MaxFailures
           /\ \A k \in 0 .. TotalLen - 1 :
                 ByteAt(k)' # ByteAt(k) => \E j \in have' \ have : k \in Positions(j)
<1> DEFINE got == [received[i] EXCEPT ![b] = copy]
           saved == \A c \in 0 .. NumBlocks(i) - 1 : got[c] = "good"
<1>1. /\ torrent \in Torrents /\ have \subseteq Pieces /\ write_err \subseteq 1 .. NumFiles
      /\ failures \in 0 .. MaxFailures /\ FilesOnDisk /\ LossesCounted
  BY DEF StoreInv, StoreTypes
<1>2. i \notin have /\ torrent' = torrent
  BY DEF BlockStep
<1> HIDE DEF saved
<1>3. CASE ~saved
  <2>1. UNCHANGED <<have, disk, write_err, failures>>
    BY <1>3 DEF BlockStep, Keeps, saved
  <2>2. FilesOnDisk' /\ \A k : ByteAt(k)' = ByteAt(k)
    BY <1>1, <1>2, <2>1, SameBytes
  <2>3. \A j : Intact(j)' <=> Intact(j)
    <3>1. \A j : Positions(j)' = Positions(j)
      BY <1>2, SameTorrent
    <3>2. QED
      BY <2>2, <3>1 DEF Intact
  <2>4. LossesCounted'
    <3>1. Lost' = Lost
      BY <2>1, <2>3 DEF Lost
    <3>2. QED
      BY <1>1, <2>1, <3>1 DEF LossesCounted
  <2>5. QED
    BY <1>1, <2>1, <2>2, <2>4
<1>4. CASE saved
  <2>1. have' = have \cup {i} /\ WritePiece(PieceOffset(i), TorrentBytes(i, 0, PieceLen(i)))
    BY <1>4 DEF BlockStep, Saves, saved
  <2>2. /\ FilesOnDisk'
        /\ \A k \in (0 .. TotalLen - 1) \ Positions(i) : ByteAt(k)' = ByteAt(k)
        /\ \E refused \in SUBSET write_err, failed \in SUBSET (1 .. NumFiles) :
              /\ write_err' = (write_err \ refused) \cup failed
              /\ failures' = failures + Cardinality(failed) /\ failures' <= MaxFailures
              /\ refused = {} /\ failed = {} => \A k \in Positions(i) : ByteAt(k)' = k + 1
    BY <1>1, <1>2, <2>1, SavePiece
  <2>3. PICK refused \in SUBSET write_err, failed \in SUBSET (1 .. NumFiles) :
              /\ write_err' = (write_err \ refused) \cup failed
              /\ failures' = failures + Cardinality(failed) /\ failures' <= MaxFailures
              /\ refused = {} /\ failed = {} => \A k \in Positions(i) : ByteAt(k)' = k + 1
    BY <2>2
  <2>4. IsFiniteSet(1 .. NumFiles) /\ IsFiniteSet(Pieces)
    <3>1. NumFiles \in Int /\ NumPieces - 1 \in Int
      BY <1>1, TorrentFacts, PieceFacts
    <3>2. QED
      BY <3>1, FS_Interval DEF Pieces
  <2>5. IsFiniteSet(write_err) /\ IsFiniteSet(failed) /\ IsFiniteSet(Lost)
    <3>1. Lost \subseteq Pieces
      BY <1>1 DEF Lost
    <3>2. QED
      BY <1>1, <2>4, <3>1, FS_Subset
  <2>6. Lost' \subseteq Lost \cup {i} /\ (refused = {} /\ failed = {} => Lost' \subseteq Lost)
    BY <1>2, <2>1, <2>2, <2>3, LostGrows
  <2>7. failures \in Nat /\ Cardinality(Lost) + Cardinality(write_err) <= 2 * failures
    BY <1>1 DEF LossesCounted
  <2>8. Cardinality(Lost') + Cardinality(write_err') <= 2 * (failures + Cardinality(failed))
    BY <2>3, <2>5, <2>6, <2>7, CountLosses
  <2>9. LossesCounted'
    BY <2>3, <2>8 DEF LossesCounted
  <2>10. failures' \in 0 .. MaxFailures
    <3>1. Cardinality(failed) \in Nat /\ MaxFailures \in Nat
      BY <2>5, FS_CardinalityType, PieceStoreAssumption
    <3>2. QED
      BY <2>3, <2>7, <3>1
  <2>11. ASSUME NEW k \in 0 .. TotalLen - 1, ByteAt(k)' # ByteAt(k)
         PROVE  \E j \in have' \ have : k \in Positions(j)
    BY <1>2, <2>1, <2>2, <2>11
  <2>12. have' \subseteq Pieces /\ write_err' \subseteq 1 .. NumFiles
    BY <1>1, <2>1, <2>3
  <2>13. QED
    BY <2>2, <2>9, <2>10, <2>11, <2>12
<1>5. QED
  BY <1>3, <1>4

LEMMA StoreStays == ASSUME StoreInv, [Next]_vars PROVE StoreInv'
<1>1. CASE Next
  <2>1. PICK i \in Pieces : \E b \in 0 .. NumBlocks(i) - 1 : \E copy \in {"good", "bad"} :
            BlockStep(i, b, copy)
    BY <1>1, StepIs
  <2>2. PICK b \in 0 .. NumBlocks(i) - 1, copy \in {"good", "bad"} : BlockStep(i, b, copy)
    BY <2>1
  <2>3. torrent' = torrent /\ peer_com' = "running" /\ torrent \in Torrents
    BY <2>2 DEF BlockStep, StoreInv, StoreTypes
  <2>4. /\ DOMAIN pbuf' = Pieces /\ DOMAIN buffered' = Pieces /\ DOMAIN received' = Pieces
        /\ \A j \in Pieces :
              /\ pbuf'[j] \in Seq(BufferBytes)
              /\ DOMAIN buffered'[j] = 0 .. NumBlocks(j) - 1
              /\ received'[j] \in [0 .. NumBlocks(j) - 1 -> {"none", "good", "bad"}]
              /\ \A c \in 0 .. NumBlocks(j) - 1 :
                    BlockKept(j, c, buffered'[j][c], pbuf'[j], received'[j][c])
    BY <2>2, StepKeeps
  <2>5. /\ FilesOnDisk' /\ LossesCounted'
        /\ have' \subseteq Pieces /\ write_err' \subseteq 1 .. NumFiles
        /\ failures' \in 0 .. MaxFailures
    BY <2>2, StepSaves
  <2>6. /\ NumFiles' = NumFiles /\ Pieces' = Pieces /\ BufferBytes' = BufferBytes
        /\ \A j : NumBlocks(j)' = NumBlocks(j)
    BY <2>3, SameTorrent
  <2>7. StoreTypes'
    BY <2>3, <2>4, <2>5, <2>6 DEF StoreTypes
  <2>8. BlocksKept'
    <3>1. DOMAIN pbuf' = DOMAIN pbuf
      BY <2>4 DEF StoreInv, StoreTypes
    <3>2. \A j \in Pieces : \A c \in 0 .. NumBlocks(j) - 1 :
              BlockKept(j, c, buffered[j][c], pbuf[j], received[j][c])'
      BY <2>3, <2>4, <3>1, KeptStays
    <3>3. QED
      BY <2>6, <3>2 DEF BlocksKept
  <2>9. QED
    BY <2>3, <2>5, <2>7, <2>8 DEF StoreInv
<1>2. CASE UNCHANGED vars
  <2>1. torrent' = torrent /\ disk' = disk /\ UNCHANGED <<pbuf, buffered, have, write_err, peer_com, received, failures>>
    BY <1>2 DEF vars
  <2>2. FilesOnDisk' /\ \A k : ByteAt(k)' = ByteAt(k)
    BY <2>1, SameBytes DEF StoreInv
  <2>3. /\ NumFiles' = NumFiles /\ Pieces' = Pieces /\ BufferBytes' = BufferBytes
        /\ \A j : NumBlocks(j)' = NumBlocks(j) /\ Positions(j)' = Positions(j)
    BY <2>1, SameTorrent
  <2>4. StoreTypes'
    BY <2>1, <2>3 DEF StoreInv, StoreTypes
  <2>5. BlocksKept'
    <3>1. \A j \in Pieces : \A c \in 0 .. NumBlocks(j) - 1 :
              BlockKept(j, c, buffered'[j][c], pbuf'[j], received'[j][c])
      BY <2>1 DEF StoreInv, BlocksKept
    <3>2. \A j \in Pieces : \A c \in 0 .. NumBlocks(j) - 1 :
              BlockKept(j, c, buffered[j][c], pbuf[j], received[j][c])'
      BY <2>1, <3>1, KeptStays
    <3>3. QED
      BY <2>3, <3>2 DEF BlocksKept
  <2>6. LossesCounted'
    <3>1. \A j : Intact(j)' <=> Intact(j)
      BY <2>2, <2>3 DEF Intact
    <3>2. Lost' = Lost
      BY <2>1, <3>1 DEF Lost
    <3>3. QED
      BY <2>1, <3>2 DEF StoreInv, LossesCounted
  <2>7. QED
    BY <2>1, <2>2, <2>4, <2>5, <2>6 DEF StoreInv
<1>3. QED
  BY <1>1, <1>2

LEMMA StoreAlways == Spec => []StoreInv
<1>1. Init => StoreInv
  BY StoreStart
<1>2. StoreInv /\ [Next]_vars => StoreInv'
  BY StoreStays
<1>3. QED
  BY <1>1, <1>2, PTL DEF Spec

-----------------------------------------------------------------------------
(* The theorems *)

\* Whatever FileManager writes stays inside its file, and every BlockInfo inside
\* the PieceBuffer it points into.
THEOREM StoreTyped == Spec => []TypeOK
<1>1. StoreInv => TypeOK
  <2> SUFFICES ASSUME StoreInv PROVE TypeOK
    OBVIOUS
  <2>1. torrent \in Torrents
    BY DEF StoreInv, StoreTypes
  <2>2. ASSUME NEW i \in Pieces
        PROVE  /\ pbuf[i] \in Seq(Bytes \cup {Bad})
               /\ \A b \in 0 .. NumBlocks(i) - 1 :
                     buffered[i][b].at + buffered[i][b].size <= Len(pbuf[i])
    <3>1. pbuf[i] \in Seq(Bytes \cup {Bad}) /\ Len(pbuf[i]) \in Nat
      BY DEF StoreInv, StoreTypes, BufferBytes
    <3>2. ASSUME NEW b \in 0 .. NumBlocks(i) - 1
          PROVE  buffered[i][b].at + buffered[i][b].size <= Len(pbuf[i])
      <4>1. BlockKept(i, b, buffered[i][b], pbuf[i], received[i][b])
        BY DEF StoreInv, BlocksKept
      <4>2. CASE received[i][b] = "none"
        <5>1. buffered[i][b].at = 0 /\ buffered[i][b].size = 0
          BY <4>1, <4>2 DEF BlockKept, NoBlock
        <5>2. QED
          BY <3>1, <5>1
      <4>3. CASE received[i][b] # "none"
        BY <4>1, <4>3 DEF BlockKept
      <4>4. QED
        BY <4>2, <4>3
    <3>3. QED
      BY <3>1, <3>2
  <2>3. /\ DOMAIN disk = 1 .. NumFiles
        /\ \A f \in 1 .. NumFiles :
              disk[f] \in Seq(Bytes \cup {Hole}) /\ Len(disk[f]) <= torrent.files[f]
    BY DEF StoreInv, FilesOnDisk
  <2>4. QED
    BY <2>1, <2>2, <2>3 DEF StoreInv, StoreTypes, TypeOK
<1>2. QED
  BY <1>1, StoreAlways, PTL

\* request_piece asks for every byte of the torrent once, and for as many blocks
\* as on_block_buffered counts.
THEOREM RequestsTile == Spec => []RequestsTileTorrent
<1>1. StoreInv => RequestsTileTorrent
  BY Tiled DEF StoreInv, StoreTypes
<1>2. QED
  BY <1>1, StoreAlways, PTL

\* The assertion of ordered_piece never fails, in whatever order and how often
\* blocks arrive.
THEOREM OrderNeverFails == Spec => []AssertionsHold
<1>1. StoreInv => AssertionsHold
  BY DEF StoreInv, AssertionsHold
<1>2. QED
  BY <1>1, StoreAlways, PTL

\* What read_block answers to a peer is, after its zeros, what is on disk.
THEOREM AnswersFromDisk == Spec => []ServedFromDisk
<1>1. StoreInv => ServedFromDisk
  BY Served DEF StoreInv, StoreTypes
<1>2. QED
  BY <1>1, StoreAlways, PTL

\* A saved piece is on disk to the last byte, but for two pieces at most for every
\* write that failed: write_to_file ignores the error, and so does the next write.
THEOREM PiecesOnDisk == Spec => []SavedOnDisk
<1>1. StoreInv => SavedOnDisk
  <2> SUFFICES ASSUME StoreInv PROVE SavedOnDisk
    OBVIOUS
  <2>1. /\ torrent \in Torrents /\ have \subseteq Pieces /\ write_err \subseteq 1 .. NumFiles
        /\ failures \in 0 .. MaxFailures
        /\ Cardinality(Lost) + Cardinality(write_err) <= 2 * failures
    BY DEF StoreInv, StoreTypes, LossesCounted
  <2>2. NumFiles \in Int /\ NumPieces - 1 \in Int
    BY <2>1, TorrentFacts, PieceFacts
  <2>3. IsFiniteSet(1 .. NumFiles) /\ IsFiniteSet(Pieces) /\ Lost \subseteq Pieces
    <3>1. IsFiniteSet(1 .. NumFiles) /\ IsFiniteSet(Pieces)
      BY <2>2, FS_Interval DEF Pieces
    <3>2. Lost \subseteq Pieces
      BY <2>1 DEF Lost
    <3>3. QED
      BY <3>1, <3>2
  <2>4. IsFiniteSet(write_err) /\ IsFiniteSet(Lost)
    BY <2>1, <2>3, FS_Subset
  <2>5. Cardinality(write_err) \in Nat /\ Cardinality(Lost) \in Nat
    BY <2>4, FS_CardinalityType
  <2>6. failures \in Nat
    BY <2>1
  <2>7. Cardinality(Lost) <= 2 * failures
    BY <2>1, <2>5, <2>6
  <2>8. QED
    BY <2>7 DEF SavedOnDisk, Lost
<1>2. QED
  BY <1>1, StoreAlways, PTL

\* Writing a piece changes no byte of another.
THEOREM OthersKeptOnDisk == Spec => OthersUntouched
<1>1. ASSUME StoreInv, [Next]_vars
      PROVE  [\A k \in 0 .. TotalLen - 1 :
                ByteAt(k)' # ByteAt(k) => \E i \in have' \ have : k \in Positions(i)]_vars
  <2>1. CASE Next
    <3>1. PICK i \in Pieces : \E b \in 0 .. NumBlocks(i) - 1 : \E copy \in {"good", "bad"} :
              BlockStep(i, b, copy)
      BY <1>1, <2>1, StepIs
    <3>2. PICK b \in 0 .. NumBlocks(i) - 1, copy \in {"good", "bad"} : BlockStep(i, b, copy)
      BY <3>1
    <3>3. QED
      BY <1>1, <3>2, StepSaves
  <2>2. CASE UNCHANGED vars
    BY <2>2
  <2>3. QED
    BY <1>1, <2>1, <2>2
<1>2. QED
  BY <1>1, StoreAlways, PTL DEF Spec, OthersUntouched

\* Buffer, infos and ordered_piece do what PieceAssembly promises: a piece is saved
\* by the step that makes the last copies of all its blocks good, and by no other.
THEOREM StoreAssembles == Spec => ImplementsAssembly
<1>1. Init => Assembly!Init
  <2> SUFFICES ASSUME Init PROVE Assembly!Init
    OBVIOUS
  <2>1. received = [i \in Pieces |-> NothingReceived(i)] /\ have = {}
    BY DEF Init
  <2>2. QED
    BY <2>1 DEF Assembly!Init, NothingReceived
<1>2. ASSUME StoreInv, [Next]_vars PROVE [Assembly!Next]_Assembly!vars
  <2>1. CASE Next
    <3>1. PICK i \in Pieces : \E b \in 0 .. NumBlocks(i) - 1 : \E copy \in {"good", "bad"} :
              BlockStep(i, b, copy)
      BY <1>2, <2>1, StepIs
    <3>2. PICK b \in 0 .. NumBlocks(i) - 1, copy \in {"good", "bad"} : BlockStep(i, b, copy)
      BY <3>1
    <3> DEFINE got == [received[i] EXCEPT ![b] = copy]
               saved == \A c \in 0 .. NumBlocks(i) - 1 : got[c] = "good"
    <3>3. /\ DOMAIN received = Pieces
          /\ received[i] \in [0 .. NumBlocks(i) - 1 -> {"none", "good", "bad"}]
      BY <1>2 DEF StoreInv, StoreTypes
    <3>4. DOMAIN received[i] = 0 .. NumBlocks(i) - 1 /\ DOMAIN got = 0 .. NumBlocks(i) - 1
      BY <3>3
    <3>5. Assembly!AllGood(got) <=> saved
      BY <3>4 DEF Assembly!AllGood
    <3>6. i \notin have
      BY <3>2 DEF BlockStep
    <3> HIDE DEF saved
    <3>7. CASE saved
      <4>1. /\ have' = have \cup {i}
            /\ received' = [received EXCEPT ![i] = NothingReceived(i)]
        BY <3>2, <3>7 DEF BlockStep, Saves, saved
      <4>2. NothingReceived(i) = [c \in DOMAIN got |-> "none"]
        BY <3>4 DEF NothingReceived
      <4> HIDE DEF got
      <4>3. Assembly!Receive(i, b, copy)
        BY <3>5, <3>6, <3>7, <4>1, <4>2 DEF Assembly!Receive, got
      <4>4. QED
        BY <3>3, <3>4, <4>3 DEF Assembly!Next
    <3>8. CASE ~saved
      <4>1. UNCHANGED have /\ received' = [received EXCEPT ![i] = got]
        BY <3>2, <3>8 DEF BlockStep, Keeps, saved
      <4>2. Assembly!Receive(i, b, copy)
        BY <3>5, <3>6, <3>8, <4>1 DEF Assembly!Receive
      <4>3. QED
        BY <3>3, <3>4, <4>2 DEF Assembly!Next
    <3>9. QED
      BY <3>7, <3>8
  <2>2. CASE UNCHANGED vars
    BY <2>2 DEF vars, Assembly!vars
  <2>3. QED
    BY <1>2, <2>1, <2>2
<1>3. QED
  BY <1>1, <1>2, StoreAlways, PTL DEF Spec, ImplementsAssembly, Assembly!Spec

=============================================================================
