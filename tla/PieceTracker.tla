---------------------------- MODULE PieceTracker ----------------------------
(***************************************************************************)
(* The bookkeeping of src/peer_protocol/piece.rs: which pieces are wanted, *)
(* reserved, buffered and saved.  PieceTracker is a plain struct behind an *)
(* RwLock, so each method is an operator from a tracker to a tracker, and  *)
(* the modules that hold the lock compose them inside one step.            *)
(*                                                                         *)
(* Bytes are abstracted to what SHA-1 tells apart: a buffered block is     *)
(* "good" (what the torrent holds there) or "bad".  All pieces have the    *)
(* same set of Blocks; lengths and offsets belong to the geometry.         *)
(***************************************************************************)
EXTENDS Integers

CONSTANTS
    Pieces,        \* piece indices, 0 .. num_pieces() - 1
    Blocks,        \* block indices of one piece, 0 .. num_blocks() - 1
    AvailModulus   \* 2^8 in the code (Vec<u8>); 1 abstracts the counters away

ASSUME TrackerAssumption == Blocks # {} /\ AvailModulus \in Nat \ {0}

BlockData == {"none", "good", "bad"}

NothingBuffered == [b \in Blocks |-> "none"]

PieceTrackers ==
    [needed    : SUBSET Pieces,                      \* wanted and not asked for
     requested : SUBSET Pieces,                      \* reserved by some peer's task
     have      : SUBSET Pieces,                      \* verified and written
     available : [Pieces -> 0 .. AvailModulus - 1],
     buffered  : [Pieces -> [Blocks -> BlockData]]]

NewTracker ==
    [needed    |-> {},
     requested |-> {},
     have      |-> {},
     available |-> [i \in Pieces |-> 0],
     buffered  |-> [i \in Pieces |-> NothingBuffered]]

-----------------------------------------------------------------------------
(* update_single and update_multiple *)

\* Mutant: the reservation is not looked at before a piece becomes needed.
MayNeed_IgnoresReservation(pt, i) == i \notin pt.have

\* Mutant: a piece on disk may become needed again.
MayNeed_IgnoresHave(pt, i) == i \notin pt.requested

MayNeed(pt, i) == i \notin pt.have /\ i \notin pt.requested

Insert(pt, S) ==
    [pt EXCEPT !.needed = @ \cup {i \in S : MayNeed(pt, i)}]

\* Mutant: only pieces that become needed are counted as available.
Count_OnlyNeeded(pt, S) ==
    [pt EXCEPT !.available =
        [i \in Pieces |-> IF i \in S \cap pt.needed
                          THEN (@[i] + 1) % AvailModulus ELSE @[i]]]

\* available[i] += 1 on a u8: wraps when overflow checks are compiled out.
Count(pt, S) ==
    [pt EXCEPT !.available =
        [i \in Pieces |-> IF i \in S THEN (@[i] + 1) % AvailModulus ELSE @[i]]]

\* The addition that panics when overflow checks are compiled in.
CountOverflows(pt, S) == \E i \in S : pt.available[i] = AvailModulus - 1

\* min_availability + 1 in availability(), the same.
AvailabilityOverflows(pt) == \A i \in Pieces : pt.available[i] = AvailModulus - 1

UpdateMultiple(pt, S) == Count(Insert(pt, S), S)

UpdateSingle(pt, i) == UpdateMultiple(pt, {i})

-----------------------------------------------------------------------------
(* reserve_piece and unreserve_piece *)

ReservePiece(pt, i) == [pt EXCEPT !.requested = @ \cup {i}]

UnreservePiece(pt, i) == [pt EXCEPT !.requested = @ \ {i}]

-----------------------------------------------------------------------------
(* Buffering, assembling and saving a piece *)

OnBlockBuffered(pt, i, b, data) == [pt EXCEPT !.buffered[i][b] = data]

\* on_block_buffered returned rem = 0.
AllBuffered(pt, i) == \A b \in Blocks : pt.buffered[i][b] # "none"

\* The digest of ordered_piece() equals the torrent's hash for the piece.
VerifyPieceHash(pt, i) == \A b \in Blocks : pt.buffered[i][b] = "good"

OnPieceSaved(pt, i) ==
    [pt EXCEPT !.have = @ \cup {i}, !.buffered[i] = NothingBuffered]

=============================================================================
