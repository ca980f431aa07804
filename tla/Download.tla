------------------------------ MODULE Download ------------------------------
(***************************************************************************)
(* The download engine of pikabit: the state shared by                     *)
(*                                                                         *)
(*   - peer_com, the one task that handles every message relayed from      *)
(*     every peer (client.rs, handle_peer_com),                            *)
(*   - reqh(p), one task per peer that takes a permit and a needed piece   *)
(*     and asks p for its blocks (requests.rs, spawn_reqh),                *)
(*   - one delayed-check task per piece request, which gives the           *)
(*     reservation up when it wakes and the piece is still missing         *)
(*     (requests.rs, spawn_delayed_check),                                 *)
(*   - the statistics task (client.rs, handle_stats).                      *)
(*                                                                         *)
(* A step is what one task does while it holds the pc_tracker lock, with   *)
(* the steps on state no other task reads folded into it.  The locks       *)
(* themselves, and the deadlocks they allow, are the subject of LockOrder. *)
(*                                                                         *)
(* Peers follow the protocol: they answer only what they were asked, in    *)
(* any order, late or never; Corrupters may answer with wrong bytes.  A    *)
(* message is chosen when it is handled, so the channel needs no variable. *)
(***************************************************************************)
EXTENDS PieceTracker, FiniteSets

CONSTANTS
    Peers,
    NoPiece,         \* "no piece", for the tasks that may be between pieces
    Cap,             \* REQUESTS_CAPACITY
    OverflowChecks,  \* TRUE in a debug build: u32 and u8 overflow panics

    \* the environment
    Chokers,         \* peers that may choke us again
    Corrupters,      \* peers that may answer with wrong bytes
    TimelyPeers,     \* peers whose answers are handled before any check wakes
    DeadPeers,       \* peers whose connection ends before they answer anything
    SlowReaders,     \* peers that may stay connected and not read what we send

    \* bounds of the state space
    MaxPermits,      \* permits a peer's semaphore may accumulate
    MaxAsked,        \* unanswered requests for one block at one peer
    MaxChecks        \* sleeping checks on one piece

ASSUME DownloadAssumption ==
    /\ IsFiniteSet(Pieces)
    /\ NoPiece \notin Pieces
    /\ Cap \in Nat \ {0}
    /\ OverflowChecks \in BOOLEAN
    /\ Chokers \subseteq Peers
    /\ Corrupters \subseteq Peers
    /\ TimelyPeers \subseteq Peers
    /\ DeadPeers \subseteq Peers \ TimelyPeers
    /\ SlowReaders \subseteq Peers \ (TimelyPeers \cup DeadPeers)
    /\ MaxPermits \in Nat /\ MaxAsked \in Nat /\ MaxChecks \in Nat

VARIABLES
    pc_tracker,      \* the PieceTracker
    pr_map,          \* peers registered in the PeerMap
    am_choked,       \* PeerTracker.state.am_choked
    peer_have,       \* PeerTracker.have
    permits,         \* PeerTracker.reqs_sem.available_permits()

    reqh,            \* state of each peer's request task
    sending,         \* piece whose requests the task is sending
    checks,          \* how many delayed checks sleep on each piece
    completing,      \* piece peer_com has completed but not yet verified
    exited,          \* peer_com has panicked and run() has returned

    asked,           \* block requests a peer has not answered
    latent,          \* StatsTracker.latent, in pieces
    downloaded       \* StatsTracker.downloaded, in pieces

peerVars == <<pr_map, am_choked, peer_have, permits>>
taskVars == <<reqh, sending, checks, completing, exited>>
statVars == <<latent, downloaded>>
vars == <<pc_tracker, peerVars, taskVars, asked, statVars>>

-----------------------------------------------------------------------------

Init ==
    /\ pc_tracker = NewTracker
    /\ pr_map     = {}
    /\ am_choked  = [p \in Peers |-> TRUE]
    /\ peer_have  = [p \in Peers |-> {}]
    /\ permits    = [p \in Peers |-> 0]
    /\ reqh       = [p \in Peers |-> "off"]
    /\ sending    = [p \in Peers |-> NoPiece]
    /\ checks     = [i \in Pieces |-> 0]
    /\ completing = NoPiece
    /\ exited     = FALSE
    /\ asked      = [p \in Peers |-> [i \in Pieces |-> [b \in Blocks |-> 0]]]
    /\ latent     = 0
    /\ downloaded = 0

\* The peer task publishes the PeerTracker in pr_map and starts reqh(p).
Register(p) ==
    /\ p \notin pr_map
    /\ pr_map' = pr_map \cup {p}
    /\ reqh' = [reqh EXCEPT ![p] = "running"]
    /\ UNCHANGED <<pc_tracker, am_choked, peer_have, permits, sending, checks,
                   completing, exited, asked, statVars>>

-----------------------------------------------------------------------------
(* peer_com: announcements and chokes *)

\* peer_com is ready for the next message of a registered peer.
Receives(p) == p \in pr_map /\ completing = NoPiece

Panics(S) == OverflowChecks /\ CountOverflows(pc_tracker, S)

\* The pieces S that p says it has become needed only if p may be asked.
Announced(p, S) == IF am_choked[p] THEN {} ELSE S

\* Counting S, or working the availability out afterwards, overflows.
AnnouncePanics(p, S) ==
    \/ Panics(Announced(p, S))
    \/ /\ OverflowChecks
       /\ AvailabilityOverflows(UpdateMultiple(pc_tracker, Announced(p, S)))

HandleHave(p, i) ==
    /\ Receives(p)
    /\ ~AnnouncePanics(p, {i})
    /\ pc_tracker' = UpdateMultiple(pc_tracker, Announced(p, {i}))
    /\ peer_have' = [peer_have EXCEPT ![p] = @ \cup {i}]
    /\ UNCHANGED <<pr_map, am_choked, permits, taskVars, asked, statVars>>

\* A peer's pieces only grow, so S holds what it announced before.
HandleBitfield(p, S) ==
    /\ Receives(p)
    /\ peer_have[p] \subseteq S
    /\ ~AnnouncePanics(p, S)
    /\ pc_tracker' = UpdateMultiple(pc_tracker, Announced(p, S))
    /\ peer_have' = [peer_have EXCEPT ![p] = S]
    /\ UNCHANGED <<pr_map, am_choked, permits, taskVars, asked, statVars>>

\* The permits granted by an earlier Unchoke stay in the semaphore.
HandleChoke(p) ==
    /\ p \in Chokers
    /\ Receives(p)
    /\ am_choked' = [am_choked EXCEPT ![p] = TRUE]
    /\ UNCHANGED <<pc_tracker, pr_map, peer_have, permits, taskVars, asked,
                   statVars>>

\* Mutant: what was announced while we were choked is not looked at again.
HeldBack_Dropped(p) == {}

\* What p announced while we were choked.
HeldBack(p) == peer_have[p]

HandleUnchoke(p) ==
    /\ Receives(p)
    /\ am_choked[p]
    /\ permits[p] + Cap <= MaxPermits
    /\ ~Panics(HeldBack(p))
    /\ am_choked' = [am_choked EXCEPT ![p] = FALSE]
    /\ permits' = [permits EXCEPT ![p] = @ + Cap]
    /\ pc_tracker' = UpdateMultiple(pc_tracker, HeldBack(p))
    /\ UNCHANGED <<pr_map, peer_have, taskVars, asked, statVars>>

-----------------------------------------------------------------------------
(* peer_com: blocks and completed pieces *)

\* Mutant: a permit comes back with every block.
PermitsBack_EveryBlock(pt, i) == 1

\* Mutant: the permit of a completed piece is not returned.
PermitsBack_Never(pt, i) == 0

\* One permit per completion, to the peer that sent the last block.
PermitsBack(pt, i) == IF AllBuffered(pt, i) THEN 1 ELSE 0

\* Mutant: a block of a piece on disk is buffered like any other.
Misses_Everything(pt, i) == TRUE

\* has_piece is false: the block is worth buffering.
Misses(pt, i) == i \notin pt.have

\* A block of a piece we miss is buffered; a later copy replaces an earlier
\* one.  When no block is missing any more the piece is up for verification.
HandleBlock(p, i, b, data) ==
    LET pt == OnBlockBuffered(pc_tracker, i, b, data) IN
    /\ Receives(p)
    /\ p \notin DeadPeers
    /\ asked[p][i][b] > 0
    /\ asked' = [asked EXCEPT ![p][i][b] = @ - 1]
    /\ IF Misses(pc_tracker, i)
       THEN /\ permits[p] + PermitsBack(pt, i) <= MaxPermits
            /\ pc_tracker' = pt
            /\ permits' = [permits EXCEPT ![p] = @ + PermitsBack(pt, i)]
            /\ completing' = IF AllBuffered(pt, i) THEN i ELSE NoPiece
       ELSE UNCHANGED <<pc_tracker, permits, completing>>
    /\ UNCHANGED <<pr_map, am_choked, peer_have, reqh, sending, checks, exited,
                   statVars>>

\* Mutant: a piece whose hash does not match is not put back.
Completed_NotPutBack(pt, i) ==
    IF VerifyPieceHash(pt, i) THEN OnPieceSaved(UnreservePiece(pt, i), i)
                              ELSE UnreservePiece(pt, i)

\* The buffered blocks of a piece that fails verification are kept.
Completed(pt, i) ==
    IF VerifyPieceHash(pt, i) THEN OnPieceSaved(UnreservePiece(pt, i), i)
                              ELSE UpdateSingle(UnreservePiece(pt, i), i)

CompletePiece(i) ==
    /\ completing = i
    /\ VerifyPieceHash(pc_tracker, i) \/ ~Panics({i})
    /\ pc_tracker' = Completed(pc_tracker, i)
    /\ latent' = IF VerifyPieceHash(pc_tracker, i) THEN latent + 1 ELSE latent
    /\ completing' = NoPiece
    /\ UNCHANGED <<peerVars, reqh, sending, checks, exited, asked, downloaded>>

\* A debug build: counting an announcement overflows a u8, peer_com panics and
\* run() returns, which ends the process.
PeerComPanics ==
    /\ \/ \E p \in pr_map, i \in Pieces : Receives(p) /\ AnnouncePanics(p, {i})
       \/ \E p \in pr_map : \E S \in SUBSET Pieces :
             Receives(p) /\ peer_have[p] \subseteq S /\ AnnouncePanics(p, S)
       \/ \E p \in pr_map : Receives(p) /\ am_choked[p] /\ Panics(HeldBack(p))
       \/ \E i \in Pieces : /\ completing = i
                            /\ ~VerifyPieceHash(pc_tracker, i)
                            /\ Panics({i})
    /\ exited' = TRUE
    /\ UNCHANGED <<pc_tracker, peerVars, reqh, sending, checks, completing,
                   asked, statVars>>

-----------------------------------------------------------------------------
(* reqh(p) and the delayed checks *)

\* Mutant: a piece is requested without a permit.
HasPermit_Ignored(p) == TRUE

\* sem.acquire() returns.
HasPermit(p) == permits[p] > 0

\* The permit is forgotten, the piece moves from needed to requested and every
\* block of it is asked for.  am_choked is not looked at.  The requests are queued
\* one by one, and the task may have to wait for room before each: p is allowed to
\* answer all of them from the start.
RequestPiece(p, i) ==
    /\ reqh[p] = "running"
    /\ sending[p] = NoPiece
    /\ HasPermit(p)
    /\ i \in pc_tracker.needed \cap peer_have[p]
    /\ \A b \in Blocks : asked[p][i][b] < MaxAsked
    /\ permits' = [permits EXCEPT ![p] = @ - 1]
    /\ pc_tracker' = [ReservePiece(pc_tracker, i) EXCEPT !.needed = @ \ {i}]
    /\ sending' = [sending EXCEPT ![p] = i]
    /\ asked' = [asked EXCEPT ![p][i] = [b \in Blocks |-> @[b] + 1]]
    /\ UNCHANGED <<pr_map, am_choked, peer_have, reqh, checks, completing,
                   exited, statVars>>

\* cap - available_permits(), on u32.
TimeoutUnderflows(p) == permits[p] > Cap

\* The check is started once the requests are queued, which may never happen if p
\* does not read (see Fairness).  With more permits than
\* cap the timeout underflows: a debug build panics and reqh(p) ends, a release
\* build sleeps for 2^32 * 10 seconds.
SpawnDelayedCheck(p) ==
    LET i == sending[p] IN
    /\ i # NoPiece
    /\ sending' = [sending EXCEPT ![p] = NoPiece]
    /\ IF TimeoutUnderflows(p)
       THEN /\ reqh' = IF OverflowChecks THEN [reqh EXCEPT ![p] = "panicked"]
                                         ELSE reqh
            /\ UNCHANGED checks
       ELSE /\ checks[i] < MaxChecks
            /\ checks' = [checks EXCEPT ![i] = @ + 1]
            /\ UNCHANGED reqh
    /\ UNCHANGED <<pc_tracker, peerVars, completing, exited, asked, statVars>>

\* Timely peers are answered, and the answers handled, before a check wakes.
MayWake(i) ==
    TimelyPeers # {} =>
        /\ completing # i
        /\ \A p \in TimelyPeers : \A b \in Blocks : asked[p][i][b] = 0

\* Mutant: the piece becomes needed again but its reservation stays.
GiveUp_KeepsReservation(pt, i) == UpdateSingle(pt, i)

\* In a debug build the check's own count may overflow; the piece is needed
\* again by then, and the task ends either way.
GiveUp(pt, i) ==
    IF OverflowChecks /\ CountOverflows(pt, {i})
    THEN Insert(UnreservePiece(pt, i), {i})
    ELSE UpdateSingle(UnreservePiece(pt, i), i)

DelayedCheck(i) ==
    /\ checks[i] > 0
    /\ MayWake(i)
    /\ checks' = [checks EXCEPT ![i] = @ - 1]
    /\ pc_tracker' = IF i \in pc_tracker.requested /\ i \notin pc_tracker.have
                     THEN GiveUp(pc_tracker, i) ELSE pc_tracker
    /\ UNCHANGED <<peerVars, reqh, sending, completing, exited, asked, statVars>>

-----------------------------------------------------------------------------
(* The statistics task, and the peers *)

PrintStats ==
    /\ latent > 0
    /\ downloaded' = downloaded + latent
    /\ latent' = 0
    /\ UNCHANGED <<pc_tracker, peerVars, taskVars, asked>>

\* A peer that chokes us, or goes away, discards a request.
DropRequest(p, i, b) ==
    /\ p \notin TimelyPeers
    /\ asked[p][i][b] > 0
    /\ asked' = [asked EXCEPT ![p][i][b] = @ - 1]
    /\ UNCHANGED <<pc_tracker, peerVars, taskVars, statVars>>

Answers(p) == IF p \in Corrupters THEN {"good", "bad"} ELSE {"good"}

PeerComNext ==
    \/ \E p \in Peers :
          \/ \E i \in Pieces : HandleHave(p, i)
          \/ \E S \in SUBSET Pieces : HandleBitfield(p, S)
          \/ HandleChoke(p)
          \/ HandleUnchoke(p)
          \/ \E i \in Pieces, b \in Blocks : \E data \in Answers(p) :
                HandleBlock(p, i, b, data)
    \/ \E i \in Pieces : CompletePiece(i)
    \/ PeerComPanics

RequestsNext ==
    \/ \E p \in Peers : \/ Register(p)
                        \/ \E i \in Pieces : RequestPiece(p, i)
                        \/ SpawnDelayedCheck(p)
    \/ \E i \in Pieces : DelayedCheck(i)

Next ==
    /\ ~exited
    /\ \/ PeerComNext
       \/ RequestsNext
       \/ PrintStats
       \/ \E p \in Peers, i \in Pieces, b \in Blocks : DropRequest(p, i, b)

Spec == Init /\ [][Next]_vars

-----------------------------------------------------------------------------
(* Invariants *)

TypeOK ==
    /\ pc_tracker \in PieceTrackers
    /\ pr_map \subseteq Peers
    /\ am_choked \in [Peers -> BOOLEAN]
    /\ peer_have \in [Peers -> SUBSET Pieces]
    /\ permits \in [Peers -> 0 .. MaxPermits]
    /\ reqh \in [Peers -> {"off", "running", "panicked"}]
    /\ sending \in [Peers -> Pieces \cup {NoPiece}]
    /\ checks \in [Pieces -> 0 .. MaxChecks]
    /\ completing \in Pieces \cup {NoPiece}
    /\ exited \in BOOLEAN
    /\ asked \in [Peers -> [Pieces -> [Blocks -> 0 .. MaxAsked]]]
    /\ latent \in Nat
    /\ downloaded \in Nat

\* Pieces the tracker knows some peer could give us.
Tracked == pc_tracker.needed \cup pc_tracker.requested \cup pc_tracker.have

\* A piece announced by a peer that lets us ask is on disk, reserved or waiting
\* to be asked for, however its announcement, the unchoke, failed
\* verifications and delayed checks are ordered.
NoPieceForgotten == \A p \in Peers : ~am_choked[p] => peer_have[p] \subseteq Tracked

\* Two request tasks never have the same reservation: a reserved piece is not
\* offered to next_piece, although a Have, a failed hash or a delayed check may
\* name it at any moment.
NeededNotReserved == pc_tracker.needed \cap pc_tracker.requested = {}

\* An answer still to come, however late, is for a piece the tracker knows.
AnswersTracked ==
    \A p \in Peers, i \in Pieces, b \in Blocks : asked[p][i][b] > 0 => i \in Tracked

\* The piece up for verification is missing, although the lock is released
\* between its last block and its verification.
CompletingMissing == completing # NoPiece => completing \in Tracked \ pc_tracker.have

\* What the tasks hold in hand - answers on their way, a piece about to be
\* verified - agrees with the stages the tracker has the pieces in.
StagesAgree == AnswersTracked /\ CompletingMissing

\* A piece is counted once, although late and repeated answers deliver it
\* several times: print() asserts downloaded <= total.
CountedOnce == latent + downloaded = Cardinality(pc_tracker.have)

\* A missing piece that is reserved has a delayed check asleep on it, or a
\* request task that starts one as soon as it has queued its requests: nothing
\* else gives a reservation up when no answer comes.
ReservedIsWatched ==
    \A i \in pc_tracker.requested \ pc_tracker.have :
        \/ checks[i] > 0
        \/ \E p \in Peers : sending[p] = i

\* cap - available_permits() does not underflow, although the permit of a piece
\* goes to the peer that sends its last block and not to the one it was taken
\* from, and is lost when the request times out.
PermitsWithinCap == \A p \in Peers : permits[p] <= Cap

\* When whoever answers is timely, no piece on disk is requested again.
NeverRefetched == pc_tracker.needed \cap pc_tracker.have = {}

InFlight(p) == {i \in Pieces : \E b \in Blocks : asked[p][i][b] > 0}

\* The permits of a timely peer that unchoked us are exactly those of its cap
\* that no piece in flight holds, whatever is requested of dead peers meanwhile.
PermitsConserved ==
    \A p \in TimelyPeers :
        permits[p] + Cardinality(InFlight(p)) = IF am_choked[p] THEN 0 ELSE Cap

\* The availability of a piece never falls below the number of peers that may
\* be asked for it, whether they announced it before or after they unchoked us.
AvailabilityNotUnderCounted ==
    \A i \in Pieces :
        Cardinality({p \in Peers : ~am_choked[p] /\ i \in peer_have[p]})
            <= pc_tracker.available[i]

-----------------------------------------------------------------------------
(* The promise of PieceLifecycle *)

StatusOf(i) ==
    IF i \in pc_tracker.have THEN "saved"
    ELSE IF i \in pc_tracker.requested THEN "reserved"
    ELSE IF i \in pc_tracker.needed THEN "wanted" ELSE "unknown"

Status == [i \in Pieces |-> StatusOf(i)]

Lifecycle == INSTANCE PieceLifecycle
                WITH status <- Status, counted <- latent + downloaded

\* The three tasks together take every piece through the life cycle.
RefinesLifecycle == Lifecycle!Spec

-----------------------------------------------------------------------------
(* Liveness *)

\* The tasks run when they can and timely peers answer; nobody has to announce,
\* choke, unchoke or register anything.  A request task gets all its requests into
\* the queue of a peer that reads, but perhaps never into that of a slow reader.
\* All this holds only as long as peer_com and the request tasks are not kept
\* waiting by the locks they hold: where no circle of LockOrder closes and where
\* peer_com does not wait to answer a slow reader (PeerSession).
Fairness ==
    /\ \A p \in Peers : WF_vars(\E i \in Pieces : RequestPiece(p, i))
    /\ \A p \in Peers \ SlowReaders : WF_vars(SpawnDelayedCheck(p))
    /\ \A p \in TimelyPeers : \A i \in Pieces, b \in Blocks :
        WF_vars(HandleBlock(p, i, b, "good"))
    /\ \A i \in Pieces : WF_vars(CompletePiece(i)) /\ WF_vars(DelayedCheck(i))

LiveSpec == Spec /\ Fairness

\* The request task of a slow reader has reserved i and waits for room to ask for it.
\* No check has been started, so nothing gives the piece up.
Withheld(i) == \E p \in SlowReaders : sending[p] = i

\* A reservation is resolved: the piece arrives or may be asked for again, unless the
\* peer it was reserved for does not read.
ReservationResolved ==
    \A i \in Pieces :
        i \in pc_tracker.requested \ pc_tracker.have
            ~> i \notin pc_tracker.requested \ pc_tracker.have \/ Withheld(i)

\* A piece that a timely peer which lets us ask has is eventually on disk, even
\* if the request tasks of dead peers keep reserving it; that of a slow reader can
\* withhold it.
EventuallySaved ==
    \A p \in TimelyPeers : \A i \in Pieces :
        ~am_choked[p] /\ i \in peer_have[p] ~> i \in pc_tracker.have \/ Withheld(i)

=============================================================================
