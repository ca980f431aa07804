------------------------------- MODULE PeerView -------------------------------
(***************************************************************************)
(* What the download engine relies on when it hears of a peer's pieces,    *)
(* with no byte in it: the pieces the peer is known to have are those it   *)
(* announced, and each of them is on offer to the request tasks from the   *)
(* moment the peer lets us ask.  Download keeps peer_have in these terms.  *)
(***************************************************************************)

VARIABLES
    pieces,     \* of the torrent; does not change
    known,      \* pieces next_piece finds at the peer
    choked,     \* the peer does not let us ask
    offered     \* pieces that have been passed to update_single

vars == <<pieces, known, choked, offered>>

Init ==
    /\ known = {}
    /\ choked = TRUE
    /\ offered = {}

Offer(S) == offered' = IF choked THEN offered ELSE offered \cup S

Have(i) ==
    /\ known' = known \cup {i}
    /\ Offer({i})
    /\ UNCHANGED <<pieces, choked>>

Bitfield(S) ==
    /\ known' = S
    /\ Offer(S)
    /\ UNCHANGED <<pieces, choked>>

Choke ==
    /\ choked' = TRUE
    /\ UNCHANGED <<pieces, known, offered>>

Unchoke ==
    /\ choked
    /\ choked' = FALSE
    /\ offered' = offered \cup known
    /\ UNCHANGED <<pieces, known>>

Next ==
    \/ \E i \in pieces : Have(i)
    \/ \E S \in SUBSET pieces : Bitfield(S)
    \/ Choke
    \/ Unchoke

Spec == Init /\ [][Next]_vars

=============================================================================
