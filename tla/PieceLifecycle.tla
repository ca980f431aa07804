--------------------------- MODULE PieceLifecycle ---------------------------
(***************************************************************************)
(* What the download promises for each piece, whatever the peers do and    *)
(* however the tasks interleave: a piece is unknown until some peer that   *)
(* may be asked has it, then it is wanted or reserved until it is saved.   *)
(* It is never forgotten, never saved twice and counted exactly when it is *)
(* saved.  A wanted piece may be saved directly: the answer to an earlier  *)
(* request can arrive after its reservation was given up.                  *)
(***************************************************************************)
EXTENDS Integers

CONSTANT Pieces

VARIABLES
    status,    \* the stage each piece has reached
    counted    \* pieces the statistics have been told of

vars == <<status, counted>>

Stages == {"unknown", "wanted", "reserved", "saved"}

Init ==
    /\ status = [i \in Pieces |-> "unknown"]
    /\ counted = 0

Announce(S) ==
    /\ \A i \in S : status[i] = "unknown"
    /\ status' = [i \in Pieces |-> IF i \in S THEN "wanted" ELSE status[i]]
    /\ UNCHANGED counted

Reserve(i) ==
    /\ status[i] = "wanted"
    /\ status' = [status EXCEPT ![i] = "reserved"]
    /\ UNCHANGED counted

GiveUp(i) ==
    /\ status[i] = "reserved"
    /\ status' = [status EXCEPT ![i] = "wanted"]
    /\ UNCHANGED counted

Save(i) ==
    /\ status[i] \in {"wanted", "reserved"}
    /\ status' = [status EXCEPT ![i] = "saved"]
    /\ counted' = counted + 1

Next ==
    \/ \E S \in SUBSET Pieces : Announce(S)
    \/ \E i \in Pieces : Reserve(i) \/ GiveUp(i) \/ Save(i)

Spec == Init /\ [][Next]_vars

=============================================================================
