--------------------------- MODULE MCPeerSession ---------------------------
(***************************************************************************)
(* Small instances of PeerSession for TLC: two addresses, of two peers or  *)
(* of the same one, and a single address.                                  *)
(***************************************************************************)
EXTENDS PeerSession

CONSTANTS a1, a2, n1, n2

TwoAddrs == {a1, a2}
TwoIds == {n1, n2}

\* Of two peers, or of one.
OneOrTwoPeers == {[a \in TwoAddrs |-> n1], [a \in TwoAddrs |-> IF a = a1 THEN n1 ELSE n2]}

OneAddr == {a1}
OneId == {n1}

OnePeer == [OneAddr -> OneId]

=============================================================================
