---------------------------- MODULE MCLockOrder ----------------------------
(***************************************************************************)
(* Small instances of LockOrder for TLC.                                   *)
(***************************************************************************)
EXTENDS LockOrder

\* Peers that send every kind of message, or nothing but blocks.
AllOrBlocks == {Kinds, {"Piece"}}

AllKinds == {Kinds}

=============================================================================
