----------------------------- MODULE MCPeerWire -----------------------------
(***************************************************************************)
(* Small instances of PeerWire for TLC.                                    *)
(***************************************************************************)
EXTENDS PeerWire

\* With two bits to a byte: pieces that leave a spare bit, and that do not.
SpareOrFull == {2, 3}

=============================================================================
