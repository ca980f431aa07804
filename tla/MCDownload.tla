---------------------------- MODULE MCDownload ----------------------------
(***************************************************************************)
(* Small instances of Download for TLC.                                    *)
(***************************************************************************)
EXTENDS Download, TLC

\* Peers and pieces are interchangeable when none of them is singled out.
PieceSymmetry == Permutations(Pieces)
PeerSymmetry == Permutations(Peers)
Symmetry == PieceSymmetry \cup PeerSymmetry

=============================================================================
