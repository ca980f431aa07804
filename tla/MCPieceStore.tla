---------------------------- MODULE MCPieceStore ----------------------------
(***************************************************************************)
(* Torrents for TLC.  In the small ones up to three files, empty ones      *)
(* among them, begin and end anywhere in pieces of two or three bytes and  *)
(* blocks of two.  In the last one a piece has three blocks, which may     *)
(* arrive in any order and again.                                          *)
(***************************************************************************)
EXTENDS PieceStore

CONSTANTS MaxFiles, MaxFileLen, MaxTotal

FileLists == UNION {[1 .. n -> 0 .. MaxFileLen] : n \in 1 .. MaxFiles}

SumOf(files) ==
    LET sum[n \in 0 .. Len(files)] == IF n = 0 THEN 0 ELSE sum[n - 1] + files[n]
    IN  sum[Len(files)]

SmallTorrents ==
    {[piece_len |-> p, block_size |-> 2, files |-> f] :
        p \in {2, 3}, f \in {l \in FileLists : SumOf(l) \in 1 .. MaxTotal}}

ThreeBlocks == [piece_len |-> 3, block_size |-> 1, files |-> <<1, 2>>]

MCTorrents == SmallTorrents \cup {ThreeBlocks}

=============================================================================
