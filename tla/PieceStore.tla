----------------------------- MODULE PieceStore -----------------------------
(***************************************************************************)
(* From the requests for a piece to its bytes on disk:                     *)
(*                                                                         *)
(*   - the geometry of the torrent (Metadata in piece.rs) and the blocks   *)
(*     request_piece asks for (requests.rs),                               *)
(*   - PieceBuffer, which appends every block of a piece as it arrives,    *)
(*     and BlockInfo, which remembers where in the buffer it went,         *)
(*   - ordered_piece, which puts the piece together and asserts its order, *)
(*   - FileManager, which spreads a piece over the files of the torrent    *)
(*     and reads blocks back from them (fops.rs).                          *)
(*                                                                         *)
(* All of it belongs to peer_com alone.  A byte of the torrent is its      *)
(* position, counted from 1; a Hole is what was never written, and a block *)
(* that is bad consists of Bad bytes.  A torrent is chosen at the start.   *)
(***************************************************************************)
EXTENDS Integers, Sequences, FiniteSets

Seqs == INSTANCE SequencesExt
Sets == INSTANCE FiniteSetsExt

CONSTANTS
    Torrents,     \* [piece_len, block_size, files]: files are their lengths
    MaxBuffer,    \* bound: bytes in the buffer of one piece
    MaxFailures   \* bound: writes that fail

ASSUME PieceStoreAssumption ==
    /\ \A t \in Torrents :
        /\ t.piece_len \in Nat \ {0}
        /\ t.block_size \in Nat \ {0}
        /\ t.files \in Seq(Nat)
        /\ \E f \in DOMAIN t.files : t.files[f] > 0
    /\ MaxBuffer \in Nat /\ MaxFailures \in Nat

Hole == 0
Bad == -1

VARIABLES
    torrent,     \* the metadata, which does not change
    pbuf,        \* PieceBuffer
    buffered,    \* PieceTracker.buffered
    have,        \* PieceTracker.have
    disk,        \* the contents of each file
    write_err,   \* files with the error of a write that nobody has been told of
    peer_com,    \* "running", or "dead" once an assertion has failed
    received,    \* history: what the last copy of each block was
    failures     \* history: how many writes have failed

vars == <<torrent, pbuf, buffered, have, disk, write_err, peer_com, received, failures>>

-----------------------------------------------------------------------------
(* Metadata, and the blocks a piece is asked for in *)

NumFiles == Len(torrent.files)

\* Where the files start in the torrent; after the last one, where it ends.
FileStarts ==
    LET start[f \in 1 .. NumFiles + 1] ==
            IF f = 1 THEN 0 ELSE start[f - 1] + torrent.files[f - 1]
    IN  start

TotalLen == FileStarts[NumFiles + 1]

NumPieces == (TotalLen + torrent.piece_len - 1) \div torrent.piece_len

Pieces == 0 .. NumPieces - 1

\* Mutant: a torrent of whole pieces has an empty last piece.
LastPieceLen_Remainder == TotalLen % torrent.piece_len

LastPieceLen ==
    LET rem == TotalLen % torrent.piece_len IN IF rem = 0 THEN torrent.piece_len ELSE rem

PieceLen(i) == IF i = NumPieces - 1 THEN LastPieceLen ELSE torrent.piece_len

NumBlocks(i) == (PieceLen(i) + torrent.block_size - 1) \div torrent.block_size

\* Mutant: the length of the piece itself, which differs for the last one.
PieceOffset_ByItsLen(i) == PieceLen(i) * i

PieceOffset(i) == torrent.piece_len * i

\* request_piece: one block after the other until the piece is covered.
Requests(i) ==
    LET from[offset \in 0 .. PieceLen(i)] ==
            IF offset = PieceLen(i) THEN {}
            ELSE LET length == Sets!Min({torrent.block_size, PieceLen(i) - offset})
                 IN  {[offset |-> offset, length |-> length]} \cup from[offset + length]
    IN  from[0]

-----------------------------------------------------------------------------
(* PieceBuffer and the block infos *)

NoBlock == [at |-> 0, offset |-> 0, size |-> 0]

NoBlocks(i) == [b \in 0 .. NumBlocks(i) - 1 |-> NoBlock]

AllBuffered(infos) == \A b \in DOMAIN infos : infos[b] # NoBlock

\* Mutant: blocks are kept in the order they arrive in.
BlockIndex_Arrival(i, offset) ==
    LET free == {b \in DOMAIN buffered[i] : buffered[i][b] = NoBlock}
    IN  IF free = {} THEN 0 ELSE Sets!Min(free)

BlockIndex(i, offset) == offset \div torrent.block_size

\* Mutant: the block starts where the buffer does.
AppendOffset_Start(i) == 0

\* append returns where in the buffer the block starts.
AppendOffset(i) == Len(pbuf[i])

\* on_block_buffered: a later copy of a block replaces the info of an earlier
\* one, not its bytes.
WithBlock(i, offset, data) ==
    [buffered[i] EXCEPT ![BlockIndex(i, offset)] =
        [at |-> AppendOffset(i), offset |-> offset, size |-> Len(data)]]

Slice(buf, info) == SubSeq(buf, info.at + 1, info.at + info.size)

\* The bytes of blocks 0 .. b - 1.
Ordered(infos, buf, b) ==
    Seqs!FlattenSeq([k \in 1 .. b |-> Slice(buf, infos[k - 1])])

\* The assertion of ordered_piece: every block starts where the last one ended.
InOrder(infos, buf) ==
    \A b \in DOMAIN infos : infos[b].offset = Len(Ordered(infos, buf, b))

OrderedPiece(infos, buf, i) == Ordered(infos, buf, NumBlocks(i))

-----------------------------------------------------------------------------
(* FileManager *)

\* get_relative_offset
FileAt(offset) ==
    LET holding == {f \in 1 .. NumFiles : FileStarts[f] + torrent.files[f] > offset}
        file == IF holding # {} THEN Sets!Min(holding) ELSE NumFiles
    IN  [file |-> file, at |-> offset - FileStarts[file]]

\* Mutant: the rest goes into the file it starts in.
LengthToAdd_Rest(f, at, length) == length

LengthToAdd(f, at, length) == Sets!Min({torrent.files[f] - at, length})

\* The loop of write_piece and read_block: how much of `length` bytes from
\* `offset` on lies in each file and where, once `done` bytes lie in earlier
\* ones.  When nothing is left the loop ends; until then it visits every file.
Parts(offset, length) ==
    LET first == FileAt(offset)
        Start(f) == IF f = first.file THEN first.at ELSE 0
        Part(f, done) == IF f < first.file THEN 0 ELSE LengthToAdd(f, Start(f), length - done)
        done[f \in 1 .. NumFiles + 1] ==
            IF f = 1 THEN 0 ELSE done[f - 1] + Part(f - 1, done[f - 1])
    IN  [f \in 1 .. NumFiles |->
            [at |-> Start(f), done |-> done[f], length |-> Part(f, done[f])]]

\* A write past the end of a file leaves a hole.
WriteToFile(file, at, bytes) ==
    [k \in 1 .. Sets!Max({Len(file), IF bytes = <<>> THEN 0 ELSE at + Len(bytes)}) |->
        IF k - at \in DOMAIN bytes THEN bytes[k - at]
        ELSE IF k \in DOMAIN file THEN file[k] ELSE Hole]

\* Each part goes to its file, and count[f] of its bytes are written.
Written(parts, bytes, count) ==
    [f \in 1 .. NumFiles |->
        WriteToFile(disk[f], parts[f].at,
                    SubSeq(bytes, parts[f].done + 1, parts[f].done + count[f]))]

\* A write may fail on the way.  tokio has reported success by then and tells the
\* next write to the file, which it does not attempt; write_to_file ignores both.
WritePiece(offset, bytes) ==
    LET parts == Parts(offset, Len(bytes))
        touched == {f \in 1 .. NumFiles : parts[f].length > 0}
        refused == touched \cap write_err
    IN
    \E failed \in SUBSET (touched \ refused) : \E count \in [1 .. NumFiles -> 0 .. Len(bytes)] :
        /\ failures + Cardinality(failed) <= MaxFailures
        /\ \A f \in 1 .. NumFiles :
              IF f \in refused THEN count[f] = 0
              ELSE IF f \in failed THEN count[f] < parts[f].length
              ELSE count[f] = parts[f].length
        /\ disk' = Written(parts, bytes, count)
        /\ write_err' = (write_err \ refused) \cup failed
        /\ failures' = failures + Cardinality(failed)

\* What read_exact cannot fill stays zero, like a hole.
ReadFromFile(f, at, length) ==
    [k \in 1 .. length |-> IF at + k \in DOMAIN disk[f] THEN disk[f][at + k] ELSE Hole]

\* read_block appends what it reads to a buffer that starts with `length` zeros.
ReadBlock(offset, length) ==
    LET parts == Parts(offset, length)
    IN  [k \in 1 .. length |-> Hole]
            \o Seqs!FlattenSeq([f \in 1 .. NumFiles |->
                    ReadFromFile(f, parts[f].at, parts[f].length)])

-----------------------------------------------------------------------------
(* peer_com *)

\* What the torrent holds there; SHA-1 tells a piece from every other.
TorrentBytes(i, offset, length) ==
    [k \in 1 .. length |-> torrent.piece_len * i + offset + k]

\* A copy of a block that a peer sends.
Copy(i, r, copy) ==
    IF copy = "good" THEN TorrentBytes(i, r.offset, r.length)
                     ELSE [k \in 1 .. r.length |-> Bad]

NothingReceived(i) == [b \in 0 .. NumBlocks(i) - 1 |-> "none"]

VerifyPieceHash(i, piece) == piece = TorrentBytes(i, 0, PieceLen(i))

Init ==
    /\ torrent \in Torrents
    /\ pbuf = [i \in Pieces |-> <<>>]
    /\ buffered = [i \in Pieces |-> NoBlocks(i)]
    /\ have = {}
    /\ disk = [f \in 1 .. NumFiles |-> <<>>]
    /\ write_err = {}
    /\ peer_com = "running"
    /\ received = [i \in Pieces |-> NothingReceived(i)]
    /\ failures = 0

\* The piece is complete: its order is asserted, its hash compared; it is written
\* or keeps its blocks.
OnPieceCompleted(i, infos, buf) ==
    LET piece == OrderedPiece(infos, buf, i) IN
    IF InOrder(infos, buf) /\ VerifyPieceHash(i, piece)
    THEN /\ buffered' = [buffered EXCEPT ![i] = NoBlocks(i)]
         /\ have' = have \cup {i}
         /\ WritePiece(PieceOffset(i), piece)
         /\ UNCHANGED peer_com
    ELSE /\ buffered' = [buffered EXCEPT ![i] = infos]
         /\ peer_com' = IF InOrder(infos, buf) THEN peer_com ELSE "dead"
         /\ UNCHANGED <<have, disk, write_err, failures>>

\* A block of a piece we miss is buffered, and the piece completed with it.
HandleBlock(i, r, copy) ==
    LET data == Copy(i, r, copy)
        infos == WithBlock(i, r.offset, data)
        buf == pbuf[i] \o data
    IN
    /\ peer_com = "running"
    /\ i \notin have
    /\ Len(buf) <= MaxBuffer
    /\ pbuf' = [pbuf EXCEPT ![i] = buf]
    /\ IF AllBuffered(infos)
       THEN OnPieceCompleted(i, infos, buf)
       ELSE /\ buffered' = [buffered EXCEPT ![i] = infos]
            /\ UNCHANGED <<have, disk, write_err, failures, peer_com>>
    /\ received' = [received EXCEPT ![i] =
            IF i \in have' THEN NothingReceived(i)
            ELSE [@ EXCEPT ![r.offset \div torrent.block_size] = copy]]
    /\ UNCHANGED torrent

Next ==
    \E i \in Pieces : \E r \in Requests(i), copy \in {"good", "bad"} : HandleBlock(i, r, copy)

Spec == Init /\ [][Next]_vars

-----------------------------------------------------------------------------
(* Properties *)

Bytes == 1 .. TotalLen

\* Files are no longer than the torrent says, and a block info stays inside the
\* buffer it points into.
TypeOK ==
    /\ torrent \in Torrents
    /\ have \subseteq Pieces
    /\ DOMAIN pbuf = Pieces /\ DOMAIN buffered = Pieces
    /\ \A i \in Pieces :
        /\ pbuf[i] \in Seq(Bytes \cup {Bad})
        /\ \A b \in 0 .. NumBlocks(i) - 1 :
              buffered[i][b].at + buffered[i][b].size <= Len(pbuf[i])
    /\ DOMAIN disk = 1 .. NumFiles
    /\ \A f \in 1 .. NumFiles :
        /\ disk[f] \in Seq(Bytes \cup {Hole})
        /\ Len(disk[f]) <= torrent.files[f]
    /\ write_err \subseteq 1 .. NumFiles
    /\ failures \in 0 .. MaxFailures
    /\ peer_com \in {"running", "dead"}
    /\ \A i \in Pieces : received[i] \in [0 .. NumBlocks(i) - 1 -> {"none", "good", "bad"}]

FileOf(position) ==
    CHOOSE f \in 1 .. NumFiles :
        FileStarts[f] <= position /\ position < FileStarts[f] + torrent.files[f]

\* The byte on disk at a position of the torrent, counted from 0.
ByteAt(position) ==
    LET f == FileOf(position)
        k == position - FileStarts[f] + 1
    IN  IF k \in DOMAIN disk[f] THEN disk[f][k] ELSE Hole

Positions(i) == {torrent.piece_len * i + k : k \in 0 .. PieceLen(i) - 1}

Intact(i) == \A k \in Positions(i) : ByteAt(k) = k + 1

\* Every byte of a saved piece is on disk, in the file and at the place where it
\* belongs, wherever pieces and files begin and end and whatever was saved since.
\* Nobody notices a write that fails, and it costs no more than two pieces: its
\* own and the next one in that file.
SavedOnDisk == Cardinality({i \in have : ~Intact(i)}) <= 2 * failures

\* Writing a piece changes no byte outside it.
OthersUntouched ==
    [][\A k \in 0 .. TotalLen - 1 :
          ByteAt(k)' # ByteAt(k) => \E i \in have' \ have : k \in Positions(i)]_vars

AllRequests == UNION {{<<i, r>> : r \in Requests(i)} : i \in Pieces}

BytesAsked(i, r) == {torrent.piece_len * i + r.offset + k : k \in 0 .. r.length - 1}

\* The requests for all pieces ask for every byte of the torrent once, one
\* request for each block that on_block_buffered counts.
RequestsTileTorrent ==
    /\ UNION {BytesAsked(a[1], a[2]) : a \in AllRequests} = 0 .. TotalLen - 1
    /\ \A a, b \in AllRequests :
          a # b => BytesAsked(a[1], a[2]) \cap BytesAsked(b[1], b[2]) = {}
    /\ \A i \in Pieces :
          {r.offset \div torrent.block_size : r \in Requests(i)} = 0 .. NumBlocks(i) - 1

\* ordered_piece finds every block where the last one ended, in whatever order
\* and how often the blocks arrived that we asked for: at their offset and of
\* their length.
AssertionsHold == peer_com = "running"

\* What is read back for a request, after the leading zeros, is what is on disk
\* there, across the files it touches.
ServedFromDisk ==
    \A i \in Pieces : \A r \in Requests(i) :
        LET position == torrent.piece_len * i + r.offset
            answer == ReadBlock(position, r.length)
        IN  /\ Len(answer) = 2 * r.length
            /\ \A k \in 1 .. r.length : answer[r.length + k] = ByteAt(position + k - 1)

Assembly == INSTANCE PieceAssembly WITH saved <- have

\* Buffers, offsets and infos amount to the last copy of every block: a piece is
\* saved by the very step that makes all of them good, and by no other.
ImplementsAssembly == Assembly!Spec

=============================================================================
