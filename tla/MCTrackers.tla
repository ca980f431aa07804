----------------------------- MODULE MCTrackers -----------------------------
(***************************************************************************)
(* A small instance of Trackers.  The main tracker of a torrent usually    *)
(* stands twice in the full announce list: here after a tracker that is    *)
(* listed once and before an HTTP tracker that knows of the same peer.     *)
(***************************************************************************)
EXTENDS Trackers

CONSTANTS x, y, z, p, q

FourEntries ==
    <<[protocol |-> "udp", addr |-> x],
      [protocol |-> "udp", addr |-> y],
      [protocol |-> "udp", addr |-> y],
      [protocol |-> "http", addr |-> z]>>

TwoPeers == {p, q}

KnownPeers ==
    [a \in {x, y, z} |-> CASE a = x -> <<p, q>> [] a = y -> <<>> [] a = z -> <<q, p>>]

=============================================================================
