---------------------------- MODULE PieceAssembly ----------------------------
(***************************************************************************)
(* What buffering, assembling and verifying promise, with no buffer, no    *)
(* offset and no file in it: of every block the last copy received counts, *)
(* and a piece is saved by the very step that makes the last copies of all *)
(* its blocks good.  PieceTracker keeps blocks in these terms.             *)
(***************************************************************************)
EXTENDS Integers

VARIABLES
    received,    \* the last copy of each block of each piece
    saved        \* pieces on disk

vars == <<received, saved>>

Init ==
    /\ \A i \in DOMAIN received : \A b \in DOMAIN received[i] : received[i][b] = "none"
    /\ saved = {}

AllGood(blocks) == \A b \in DOMAIN blocks : blocks[b] = "good"

Receive(i, b, data) ==
    LET blocks == [received[i] EXCEPT ![b] = data] IN
    /\ i \notin saved
    /\ IF AllGood(blocks)
       THEN /\ saved' = saved \cup {i}
            /\ received' = [received EXCEPT ![i] = [c \in DOMAIN blocks |-> "none"]]
       ELSE /\ received' = [received EXCEPT ![i] = blocks]
            /\ UNCHANGED saved

Next ==
    \E i \in DOMAIN received : \E b \in DOMAIN received[i] : \E data \in {"good", "bad"} :
        Receive(i, b, data)

Spec == Init /\ [][Next]_vars

=============================================================================
