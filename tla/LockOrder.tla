------------------------------ MODULE LockOrder ------------------------------
(***************************************************************************)
(* The locks of pikabit and the tasks that take them.  Download treats what *)
(* a task does under pc_tracker as one step; this module looks inside that *)
(* step at nothing but the guards: which are taken, in which order, which  *)
(* are still alive when the next is awaited.                               *)
(*                                                                         *)
(* SharedRw is a tokio RwLock and SharedMut a tokio Mutex (conc.rs).  Both *)
(* serve their waiters in order: a reader queues behind a waiting writer.  *)
(* A task's work is a script of lock and unlock steps; Reading and Writing *)
(* give a guard the scope it has in the Rust source.  Arguments of debug!  *)
(* and info! take guards too: log_config.yml sets the level to debug.      *)
(***************************************************************************)
EXTENDS Integers, Sequences

CONSTANTS
    Peers,
    NoPeer,        \* "no peer", for what there is one of
    Sessions,      \* sets of kinds of messages; one of them is what peers send
    MaxLooks       \* how often next_piece and its caller read the PeerTracker

Kinds == {"Have", "Bitfield", "Request", "Unchoke", "Flag", "Piece"}

ASSUME LockOrderAssumption ==
    /\ NoPeer \notin Peers
    /\ Sessions \subseteq SUBSET Kinds
    /\ MaxLooks \in Nat

\* The locks.
pr_map        == <<"pr_map", NoPeer>>
pc_tracker    == <<"pc_tracker", NoPeer>>
stats_tracker == <<"stats_tracker", NoPeer>>
peers         == <<"peers", NoPeer>>
pr_tracker(p) == <<"pr_tracker", p>>

Locks == {pr_map, pc_tracker, stats_tracker, peers}
            \cup {pr_tracker(p) : p \in Peers}

\* The tasks.  One delayed check stands for all of them.
peer_com == <<"peer_com", NoPeer>>
stats    == <<"stats", NoPeer>>
check    == <<"check", NoPeer>>
join(p)  == <<"join", p>>
reqh(p)  == <<"reqh", p>>

Tasks == {peer_com, stats, check} \cup {join(p) : p \in Peers} \cup {reqh(p) : p \in Peers}

VARIABLES
    todo,     \* the steps left of each task's script
    held,     \* <<task, mode>> for each guard alive on a lock
    queue,    \* the tasks waiting for a lock, in order
    phase,    \* how far the task that connects to a peer has come
    kinds     \* the kinds of messages peers send, which does not change

vars == <<todo, held, queue, phase, kinds>>

-----------------------------------------------------------------------------
(* Scripts *)

Nothing == <<>>

Scoped(mode, l, body) ==
    <<[mode |-> mode, on |-> l]>> \o body \o <<[mode |-> "drop", on |-> l]>>

Reading(l, body) == Scoped("read", l, body)

Writing(l, body) == Scoped("write", l, body)

\* The tracker is only updated when the peer lets us ask.
MaybeUpdate == {Nothing, Writing(pc_tracker, Nothing)}

\* The second and later branches of handle_peer_com keep both guards.
OfPeer(p, body) == Writing(pr_map, Writing(pr_tracker(p), body))

UpdateAvailability == Writing(stats_tracker, Reading(pc_tracker, Nothing))

HaveScripts(p) == {OfPeer(p, u \o UpdateAvailability) : u \in MaybeUpdate}

BitfieldScripts(p) ==
    {OfPeer(p, u \o UpdateAvailability
                 \o Reading(pc_tracker, Nothing) \o Reading(pc_tracker, Nothing)) :
        u \in MaybeUpdate}

RequestScripts(p) == {OfPeer(p, Reading(pc_tracker, Nothing))}

UnchokeScripts(p) == {OfPeer(p, u) : u \in MaybeUpdate}

\* Choke, Interested, NotInterested, Cancel.
FlagScripts(p) == {OfPeer(p, Nothing)}

\* on_piece_completed: the hash does not match, or the piece is written.
CompletedScripts ==
    {Writing(pc_tracker, Nothing), Writing(pc_tracker, Writing(stats_tracker, Nothing))}

\* The permit is returned, the piece completed, the remaining pieces logged.
LastBlockScripts(p) ==
    {Reading(pr_map, Reading(pr_tracker(p), Nothing)) \o c \o Reading(pc_tracker, Nothing) :
        c \in CompletedScripts}

\* Mutant: the guard of has_piece lives as long as the block it guards.
PieceScripts_GuardKept(p) ==
    {Reading(pc_tracker, OfPeer(p, Nothing))}
        \cup {Reading(pc_tracker, Writing(pc_tracker, Nothing) \o rest) :
                 rest \in {Nothing} \cup LastBlockScripts(p)}

\* A block of a piece on disk falls through to the second branch.
PieceScripts(p) ==
    {Reading(pc_tracker, Nothing) \o OfPeer(p, Nothing)}
        \cup {Reading(pc_tracker, Nothing) \o Writing(pc_tracker, Nothing) \o rest :
                 rest \in {Nothing} \cup LastBlockScripts(p)}

HandlerScripts(p, kind) ==
    CASE kind = "Have"     -> HaveScripts(p)
      [] kind = "Bitfield" -> BitfieldScripts(p)
      [] kind = "Request"  -> RequestScripts(p)
      [] kind = "Unchoke"  -> UnchokeScripts(p)
      [] kind = "Flag"     -> FlagScripts(p)
      [] kind = "Piece"    -> PieceScripts(p)

\* The PeerTracker of p is read n times.
Looks(p, n) ==
    [k \in 1 .. 2 * n |->
        [mode |-> IF k % 2 = 1 THEN "read" ELSE "drop", on |-> pr_tracker(p)]]

\* Which pieces the peer has, its id for the log and its msg_tx are read under
\* the guard of the piece tracker.
RequestLoopScripts(p) == {Writing(pc_tracker, Looks(p, n)) : n \in 0 .. MaxLooks}

JoinScript == Writing(peers, Nothing) \o Writing(pr_map, Nothing)

\* The number of peers is read under the guard of the statistics.
ListScript(p) ==
    Writing(stats_tracker, Reading(pr_map, Nothing)) \o Reading(pr_tracker(p), Nothing)

-----------------------------------------------------------------------------
(* The locks *)

WaitsAt(t, l) == \E k \in DOMAIN queue[l] : queue[l][k] = t

Waiting(t) == \E l \in Locks : WaitsAt(t, l)

\* Mutant: a writer is let in beside readers.
Compatible_Readers(l, mode) == \A g \in held[l] : g[2] = "read"

Compatible(l, mode) ==
    IF mode = "write" THEN held[l] = {} ELSE \A g \in held[l] : g[2] = "read"

\* The first step of the script takes its lock, or queues for it.
Acquire(t, script) ==
    LET l == Head(script).on IN
    IF queue[l] = <<>> /\ Compatible(l, Head(script).mode)
    THEN /\ held' = [held EXCEPT ![l] = @ \cup {<<t, Head(script).mode>>}]
         /\ todo' = [todo EXCEPT ![t] = Tail(script)]
         /\ UNCHANGED queue
    ELSE /\ queue' = [queue EXCEPT ![l] = Append(@, t)]
         /\ todo' = [todo EXCEPT ![t] = script]
         /\ UNCHANGED held

Lock(t) ==
    /\ todo[t] # Nothing
    /\ Head(todo[t]).mode # "drop"
    /\ ~Waiting(t)
    /\ Acquire(t, todo[t])
    /\ UNCHANGED <<phase, kinds>>

Grant(l) ==
    /\ queue[l] # <<>>
    /\ LET t == Head(queue[l]) IN
       /\ Compatible(l, Head(todo[t]).mode)
       /\ held' = [held EXCEPT ![l] = @ \cup {<<t, Head(todo[t]).mode>>}]
       /\ todo' = [todo EXCEPT ![t] = Tail(@)]
    /\ queue' = [queue EXCEPT ![l] = Tail(@)]
    /\ UNCHANGED <<phase, kinds>>

Drop(t) ==
    /\ todo[t] # Nothing
    /\ Head(todo[t]).mode = "drop"
    /\ LET l == Head(todo[t]).on IN held' = [held EXCEPT ![l] = {g \in @ : g[1] # t}]
    /\ todo' = [todo EXCEPT ![t] = Tail(@)]
    /\ UNCHANGED <<queue, phase, kinds>>

-----------------------------------------------------------------------------
(* The tasks *)

\* What a task does before it first asks for a lock no other task can see.
Begin(t, script) ==
    /\ todo[t] = Nothing
    /\ Acquire(t, script)
    /\ UNCHANGED kinds

\* peer_com handles a message of a peer that is in the map.
Handle(p, kind) ==
    /\ kind \in kinds
    /\ phase[p] = "listed"
    /\ \E s \in HandlerScripts(p, kind) : Begin(peer_com, s)
    /\ UNCHANGED phase

\* The task that connected to p claims its id and enters it in the map ...
Join(p) ==
    /\ phase[p] = "absent"
    /\ phase' = [phase EXCEPT ![p] = "joining"]
    /\ Begin(join(p), JoinScript)

\* ... then updates the statistics and starts the request task.
List(p) ==
    /\ phase[p] = "joining"
    /\ phase' = [phase EXCEPT ![p] = "listed"]
    /\ Begin(join(p), ListScript(p))

RequestLoop(p) ==
    /\ phase[p] = "listed"
    /\ todo[join(p)] = Nothing
    /\ \E s \in RequestLoopScripts(p) : Begin(reqh(p), s)
    /\ UNCHANGED phase

Check == Begin(check, Writing(pc_tracker, Nothing)) /\ UNCHANGED phase

PrintStats == Begin(stats, Writing(stats_tracker, Nothing)) /\ UNCHANGED phase

Init ==
    /\ todo  = [t \in Tasks |-> Nothing]
    /\ held  = [l \in Locks |-> {}]
    /\ queue = [l \in Locks |-> <<>>]
    /\ phase = [p \in Peers |-> "absent"]
    /\ kinds \in Sessions

Next ==
    \/ \E p \in Peers : \/ \E kind \in Kinds : Handle(p, kind)
                        \/ Join(p)
                        \/ List(p)
                        \/ RequestLoop(p)
    \/ Check
    \/ PrintStats
    \/ \E t \in Tasks : Lock(t) \/ Drop(t)
    \/ \E l \in Locks : Grant(l)

Spec == Init /\ [][Next]_vars

-----------------------------------------------------------------------------
(* Properties *)

Modes == {"read", "write", "drop"}

\* Every guard is exclusive or shared as its mode says, no task waits twice, and
\* whoever waits for a lock is about to take it.
TypeOK ==
    /\ \A t \in Tasks : \A k \in DOMAIN todo[t] :
          todo[t][k].mode \in Modes /\ todo[t][k].on \in Locks
    /\ \A l \in Locks :
          /\ held[l] \subseteq Tasks \X {"read", "write"}
          /\ \A g, h \in held[l] : g # h => g[2] = "read" /\ h[2] = "read"
          /\ \A k \in DOMAIN queue[l] : Head(todo[queue[l][k]]).on = l
          /\ \A j, k \in DOMAIN queue[l] : j # k => queue[l][j] # queue[l][k]
    /\ phase \in [Peers -> {"absent", "joining", "listed"}]
    /\ kinds \in Sessions

\* u has to go before t can.
WaitsFor(t, u) ==
    \E l \in Locks : \E k \in DOMAIN queue[l] :
        /\ queue[l][k] = t
        /\ \/ \E mode \in {"read", "write"} :
                /\ <<u, mode>> \in held[l]
                /\ "write" \in {mode, Head(todo[t]).mode}
           \/ \E j \in 1 .. k - 1 :
                /\ queue[l][j] = u
                /\ "write" \in {Head(todo[u]).mode, Head(todo[t]).mode}

\* Tasks each of which waits for another of them: none of them ever goes on.
Circular(S) == S # {} /\ \A t \in S : \E u \in S : WaitsFor(t, u)

Circles == {S \in SUBSET {t \in Tasks : Waiting(t)} : Circular(S)}

\* While peers send nothing but blocks no set of tasks waits for itself.
NoCircularWait == kinds = {"Piece"} => Circles = {}

Holds(t, l) == \E g \in held[l] : g[1] = t

\* peer_com has the tracker of p and awaits the piece tracker, which the request
\* task of p has while it awaits the tracker of p.
AgainstRequests(p) ==
    /\ Holds(peer_com, pr_tracker(p)) /\ WaitsAt(peer_com, pc_tracker)
    /\ Holds(reqh(p), pc_tracker) /\ WaitsAt(reqh(p), pr_tracker(p))

\* peer_com has the map and awaits the statistics, which the task that lists p
\* has while it awaits the map.
AgainstListing(p) ==
    /\ Holds(peer_com, pr_map) /\ WaitsAt(peer_com, stats_tracker)
    /\ Holds(join(p), stats_tracker) /\ WaitsAt(join(p), pr_map)

\* Whenever tasks wait in a circle, peer_com and one task of a peer have taken
\* the same two locks in opposite order, in one of two ways: no circle closes
\* unless one of these two is there.
CirclesAreThese ==
    Circles # {} => \E p \in Peers : AgainstRequests(p) \/ AgainstListing(p)

\* The request task never faces peer_com.
RequestsNeverFaceHandlers == \A p \in Peers : ~AgainstRequests(p)

\* The listing of a peer never faces peer_com.
ListingsNeverFaceHandlers == \A p \in Peers : ~AgainstListing(p)

\* Tasks take the locks they may have; messages and wake-ups are up to others.
Fairness ==
    /\ \A t \in Tasks : WF_vars(Lock(t) \/ Drop(t))
    /\ \A l \in Locks : WF_vars(Grant(l))

FairSpec == Spec /\ Fairness

\* While peers send nothing but blocks, a delayed check that wakes up gets the
\* piece tracker, although the request tasks and peer_com take it over and over.
ChecksServed ==
    kinds = {"Piece"} /\ todo[check] # Nothing ~> todo[check] = Nothing

=============================================================================
