# pikabit in TLA+

pikabit is a BitTorrent client in asynchronous Rust (tokio). This directory
models the parts of it that can go wrong in ways a test hardly reaches, checks
them with TLC on small instances, and proves the main results about every part of it
with TLAPS: for any number of peers, pieces and blocks, any trackers, and any files.

All paths below are relative to `src/src/`.

## 1. The system

| part | code | state | operations | talks to |
|---|---|---|---|---|
| tch, udp_rh, tracker entries | `tracker_protocol/mod.rs`, `udp.rs`, `http.rs` | `tracker_map`, `peers_map`, one UDP socket | connect and announce per entry, hand datagrams out by sender, report new peers | tracker_com, over a channel of 40 addresses |
| tracker_com | `client.rs:206-283` | `peers` (ids), task handles | start a task per address, wait for all of them | peer connections |
| peer connection | `client.rs:234-276`, `peer_protocol/mod.rs`, `msg.rs`, `peer.rs` | a socket, `msg_tx` | connect, handshake, claim the id, enter `pr_map`, start rh, sh, reqh | peer_com, over a channel of 40 messages |
| rh, sh | `msg.rs:100-178` | the halves of the socket | rh reads a message and relays it; sh writes what is queued, or a keep-alive | peer_com; everybody who sends to the peer, over a queue of 40 messages |
| peer_com | `client.rs:83-204` | `PieceBuffer`, `FileManager` | one handler per message of any peer; verify and save completed pieces | `pr_map`, `pr_tracker`s, `pc_tracker`, `stats_tracker` |
| reqh(p) | `peer_protocol/requests.rs` | `reqs_sem` of the peer | take a permit, pick a needed piece the peer has, reserve it, ask for its blocks, start a delayed check | `pc_tracker`, `pr_tracker(p)` |
| delayed checks | `requests.rs:80-95` | none | after a timeout, give a reservation up if the piece is still missing | `pc_tracker` |
| piece tracker | `peer_protocol/piece.rs` | needed, requested, have, available, buffered | see `PieceTracker.tla` | behind an RwLock |
| files | `peer_protocol/fops.rs` | open files and their lengths | write a piece, read a block, across files | owned by peer_com |
| statistics | `stats.rs` | latent, downloaded, availability | print every 1.2 s | behind a Mutex |
| wire format | `msg.rs:16-97`, `constants.rs` | none | serialize, deserialize | rh, sh |
| bitfields | `bitfield.rs` | bytes, a length, a count of marked bits | get, set, a view of bytes | one per peer, in its tracker |
| metadata, start-up, ids, errors, logging | `metadata.rs`, `main.rs`, `common.rs`, `error.rs` | none | parsing, conversion, output | |

What is hard here, and what makes each part correct:

* **Download.** Five kinds of tasks change the piece tracker. Announcements,
  chokes, answers, failed verifications and timeouts arrive in any order; an
  answer may come after its request was given up and made again to someone else.
  No piece may be forgotten, reserved twice or counted twice; a reservation must
  end; a window must neither shrink to nothing nor grow beyond its cap.
* **Locks.** Handlers hold guards across awaits of other locks. No two tasks may
  wait for each other.
* **Connections.** Three tasks per connection, two tables, one channel in and one
  queue out per peer, and peer_com waits for other things with the map of all peers in
  its hand. One session per peer id; no message may bring peer_com down; a peer that
  does not read should harm nobody else; the program must end when there is nobody left.
* **Wire.** Lengths, ids and bit orders on both sides of a byte stream. A message must
  be read as it was said; a count kept beside the bits must agree with them.
* **Storage.** Blocks arrive in any order and repeatedly, pieces and files are not
  aligned, writes fail. What is saved must be on disk, in its place, for good.
* **Trackers.** Datagrams are lost, duplicated, late; entries share a socket. Each
  address is reported once, the search ends, reliable trackers contribute.

## 2. The modules

```
PieceTracker            operators: one per method of the struct
  Download              the tasks around it             --implements-->  PieceLifecycle
    MCDownload          instances for TLC
    Download_proofs     theorems for any peers
                        ... and one for a build with overflow checks
      DownloadWindow_proofs   ... for peers that choke nobody and send right bytes,
                        and for those of them that answer in time or never
LockOrder               the guards the same tasks take
    MCLockOrder         instances for TLC
    LockOrder_proofs    theorems
PeerSession             connections, queues and run()
    MCPeerSession       instances for TLC
    PeerSession_proofs  theorems
Bitfield                operators: one per method of the struct
  PeerWire              one connection in bytes          --implements-->  PeerView
    MCPeerWire          instances for TLC
    PeerWire_proofs     theorems
Trackers                entries, socket, reporting
    MCTrackers          instances for TLC
    Trackers_proofs     theorems
PieceStore              geometry, buffer, files          --implements-->  PieceAssembly
    MCPieceStore        instances for TLC
    PieceStore_proofs   theorems
NatRecursion            lemmas: induction and recursion over the naturals
```

`PeerView` is what Download takes for granted when it hears of a peer's pieces, so the
two refinements meet there: bytes implement sets, and with sets the tasks implement
the life cycle of a piece.

A `Mutant` operator next to a definition is the definition with a plausible bug;
no specification uses it. It serves to see that a property would notice the bug.

### PieceTracker and Download

`pc_tracker` is the struct of `piece.rs` as a record. Bitfields and hash sets are
sets of pieces. A buffered block is `none`, `good` or `bad`, which is all that
SHA-1 sees of it (PieceStore justifies this, section 2, PieceStore). All pieces
have the same blocks.

One step of Download is what one task does under the lock of the piece tracker:

| action | code |
|---|---|
| `Register` | the peer enters `pr_map` and its reqh starts, `client.rs:253-269` |
| `HandleHave`, `HandleBitfield`, `HandleChoke`, `HandleUnchoke` | branches of handle_peer_com, `client.rs:144-199` |
| `HandleBlock` | `client.rs:119-138` up to the release of the lock, with the permit that a complete piece returns |
| `CompletePiece` | `on_piece_completed`, `client.rs:83-108`, under its own lock: other tasks may run between the two |
| `RequestPiece` | permit, `next_piece`, `request_piece`, `requests.rs:107-126` |
| `SpawnDelayedCheck` | `requests.rs:74-95`, only after all requests are queued, which a peer that does not read can prevent |
| `DelayedCheck` | the spawned task when it wakes, `requests.rs:84-94` |
| `PrintStats` | `stats.rs:100-114` |
| `PeerComPanics` | overflow of `available` in a debug build; `run()` returns |
| `DropRequest` | a remote peer that chokes us or goes away discards a request |

Peers follow the protocol: they answer only what was asked of them, and their
pieces only grow. `asked` counts unanswered requests. `am_interested` is set before
a peer is registered and never cleared, so it has no variable; `peer_choked` and
`peer_interested` are written and never read. A message is chosen when it is
handled. Time is abstracted to the order in which checks wake.

The environment is a set of constants: who may choke us again (`Chokers`), who may
send wrong bytes (`Corrupters`), whose answers are handled before any check wakes
(`TimelyPeers`), whose connection ends before it answers anything (`DeadPeers`), who may
stay connected and read nothing (`SlowReaders`).

`PieceLifecycle` is the promise: a piece is unknown, wanted, reserved or saved; it
is never forgotten, never saved twice, and counted exactly when it is saved.

### LockOrder

The guards of the same tasks, one script of lock and unlock steps per path through
a handler. `Reading(l, body)` and `Writing(l, body)` give a guard the scope it has
in the source: a temporary lives to the end of its statement, a binding to the end
of its block or its `drop`. Guards taken in the arguments of log macros count,
because `log_config.yml` sets the level to debug. Locks are tokio's: exclusive
or shared, waiters served in order. A Mutex is a lock that is only written. Which kinds
of messages peers send is chosen once (`kinds`), so one run answers for sessions with
every kind and for sessions with blocks alone.

### PeerSession

One task per address (`session`), the halves `rh` and `sh` of its connection, its
request task, the ids in `peer_ids`, the entries of `pr_map`, the channel to peer_com, the
queue to each sh (`outbox`) and the end of `run()`. Which id the peer at an address gives
is chosen at the start (`id_of`). A peer may speak from the handshake on.

| action | code |
|---|---|
| `Discover`, `Handshake` | `client.rs:227-242`, `spawn_prch`, `mod.rs:25-47` |
| `Claim` | `client.rs:244-253`: the first with an id goes on and queues Interested, another is turned away |
| `Insert`, `CountPeers`, `List` | `client.rs:259-262`, `263` (locks the statistics), `264-269` (waits for the map with the statistics locked, then starts the request task) |
| `End` | `client.rs:271-276`: one half of the connection has ended, or the request task has panicked |
| `LockPieces`, `UnlockPieces`, `Ask`, `RequestTaskPanics` | the request task: `requests.rs:116` to `63` (the piece tracker locked while the peer's tracker is awaited), `65-71`, `76` |
| `Relay`, `ReaderEnds`, `Write` | rh and sh, `msg.rs:126-147`, `153-174` |
| `HandleBlock`, `HandleMessage` | peer_com takes a message, `client.rs:118-146` |
| `GetPieces`, `GetStats`, `SendAnswer` | what it awaits with the map and a peer's tracker locked: `client.rs:150-190` |
| `TrackerComReturns`, `PeerComLost`, `PeerComPanics`, `StatsPanic` | the arms of run()'s select, `client.rs:295-303`; the process ends and nothing is left |

Of a message only that matters for which peer_com waits (`WaitsAfter`), and what it is
shows when it is handled. A lock is modelled as far as its holder awaits something else:
the piece tracker by `requesting`, the statistics by `counting` and `availability`, map and
peer's tracker by `serving`. So both circles of finding 2 can close here (`Circle`), beside
a peer in `SlowReaders`, which may keep the connection open and read nothing. Each message
carries whether its sender was in the map when it was relayed, as history.

### Bitfield, PeerWire and PeerView

`Bitfield` is `bitfield.rs`: a byte is the set of its one bits, the count is kept and
not computed. `PeerWire` is one connection from bytes to beliefs: what the remote peer
says, framed as BEP 3 says; `ReadMessage`, which is recv_msg, deserialize and the relay;
the branches of handle_peer_com as far as they concern `have`, `am_choked` and what is
offered to update_single; the answer to a Request; and sh, with `write` calls that may
take less than all. `Heard` is what a peer makes of the bytes we wrote. A panic of
rh or of peer_com is a state, not an error of the model.

`PeerView` says the same without bytes: known pieces, choked or not, pieces on offer.

### PieceStore

The arithmetic of `piece.rs` (pieces, blocks, the short last ones), the requests
of `request_piece`, the append-only `PieceBuffer` with its block infos,
`ordered_piece` with its assertion, and `FileManager` over any list of files.
Bytes are positions in the torrent, so a misplaced byte shows. `HandleBlock` is
the whole handler of a block, verification and writing included: no other task sees
these variables. `FileStarts` are the offsets at which the files of the torrent begin, and
`Parts(offset, length)` is the loop of `write_piece` and of `read_block` as one
function: for each file where in it the loop starts, for how long, and what it has done
before. A failing write costs more than its own bytes: tokio's `File` writes
in the background and reports the error at the next write to the file, which is not
done, and `write_to_file` drops both results (`Written`, `write_err`). The history variable `received` keeps what the last copy of each
block was, independently of buffers and offsets. `PieceAssembly` is the promise, in the terms PieceTracker uses:
the last copy of each block counts, and a piece is saved by the step that makes
all of them good.

### Trackers

One task per entry of the announce list, udp_rh, the network, the reporting of
peers under the lock of `peers_map`, and the end of tch. `full_announce_list`
appends the main tracker to a list that usually has it already, so two entries
with one address are the normal case: the second takes the first one's place in
`tracker_map`, the first ends at once, and the second is handed the answers to both.
A transaction id is taken to be unique. An entry owns the receiver of its channel until its
task ends, so datagrams queue for it also while it reports its peers, and udp_rh, which
waits for room, may hold up the answers to all others for longer than their timeout
(`HeldUp`). udp_rh reads 512 bytes of a datagram, which is 82 peers (`MaxPeers`, `Cut`).

## 3. The runs

| run | instance | shows |
|---|---|---|
| `download_adverse` | 2 pieces, 2 peers, one may choke us again, one may lie, 2 checks per piece, overflow checks, counters modulo 4 | `TypeOK`, `NoPieceForgotten`, `NeededNotReserved`, `StagesAgree`, `CountedOnce`, `AvailabilityNotUnderCounted`, `RefinesLifecycle` |
| `download_window` | 2 pieces of 2 blocks, two honest peers that never choke us again, one of which may not read | `ReservedIsWatched`, `PermitsWithinCap`, `ReservationResolved` |
| `download_timely` | 2 pieces of 2 blocks, two timely peers and a dead one | `NeverRefetched`, `PermitsConserved`, `EventuallySaved` |
| `locks_all` | 2 peers, every kind of message or blocks alone | `TypeOK`, `CirclesAreThese`, `NoCircularWait`, `ChecksServed` |
| `session_lives` | 2 addresses of two peers or of one, one of which may not read | `TypeOK`, `OneSessionPerId`, `LostBeforeEntry`, `EntersUnlessHeld`, `RunEnds` |
| `wire_link` | 2 or 3 pieces in bytes of 2 bits, up to 3 messages from the peer and 4 in all, one short write | `TypeOK`, `CountExact`, `LearnsMirrored`, `ReadAsSaid`, `HeardAsSent`, `ImplementsPeerView` |
| `store_files` | all lists of up to 3 files with up to 5 bytes, pieces of 2 or 3 bytes, a piece of 3 blocks, one failing write | `TypeOK`, `SavedOnDisk`, `OthersUntouched`, `RequestsTileTorrent`, `AssertionsHold`, `ServedFromDisk`, `ImplementsAssembly` |
| `trackers_lossy` | 4 entries: one reliable, two for one address, one HTTP; 2 peers, of which one fits into a datagram | `TypeOK`, `ReportedOnce`, `ConnectionIdsOwn`, `SearchEnds`, `ReliableServed` |
| `download_rechoked` | 1 piece, 1 peer that may choke us again | finding 1 |
| `locks_requests` | 1 peer, every kind of message | finding 2 |
| `session_early` | 1 peer | finding 3 |
| `wire_answers` | a peer that asks for a block | finding 4 |

Properties that hold only for some peers say so by the run that checks them:
`PermitsWithinCap` and `ReservedIsWatched` need peers that never choke us again and
never lie, and so does `ReservationResolved`, which takes a reservation at a peer that does
not read for one that may last; `NeverRefetched` and `PermitsConserved` need the answers to
be timely. These
are the conditions under which the code works as intended; without them TLC finds
the behaviours of the hazards list. Some properties describe what the code does
where that is not what one would wish, as exactly as they can: `LearnsMirrored` (the
bit order), `SavedOnDisk` (up to two pieces lost per failing write), `HeardAsSent`
(up to the first answer or short write), `LostBeforeEntry` (messages relayed before their
sender is in the map), `EntersUnlessHeld` (unless peer_com waits for a peer that does not
read, or in a circle), `RunEnds` (unless a circle has closed), `CirclesAreThese` (two pairs
of tasks), `ReliableServed` (unless the socket fails or udp_rh is held up, and as much as
fits into the buffer). In each of these the exception does occur in the run.

### Bounds

* Two peers make every race between tasks of different peers, two pieces every
  choice of `next_piece`, two blocks every partial piece. Where one of the three
  does not matter to a property it is one.
* `MaxPermits` is at least `Cap` plus what a single extra unchoke or completion adds,
  so that growth beyond the cap is visible. With `MaxAsked` 1 a peer may answer an
  earlier request after the piece was given up and asked of the other peer; the
  theorems of section 5 cover any number. `MaxChecks` 2 allows an old check to meet
  a newer reservation.
* `AvailModulus` is 256 in the code. 4 makes both overflows reachable with two peers;
  1 takes the counters out where nothing depends on them.
* `Capacity` and `OutCapacity` of channels are 40 in the code; 1 or 2 make them full. With
  `Capacity` 1 in `trackers_lossy` an entry that waits to send its peer while its own
  channel is full holds udp_rh up.
* `MaxPeers` is 82 in the code. With 1 the answer of the reliable tracker, which knows two
  peers, is cut.
* `ByteBits` is 8 in the code. With 2, three pieces leave a spare bit and need a second
  byte, two pieces fill one byte exactly, and BitfieldOwned then has a byte too many.
  Integers of the protocol keep their four bytes of eight bits.
* `MaxSaid`, `MaxMessages` and `MaxShort` bound the length of a conversation. Three messages
  are a Bitfield, a Have and an Unchoke in any order, or a Choke between; no handler
  remembers more. All six
  properties of `wire_link` are proved without these bounds (section 5).
* `MaxFailures` 1: a failing write shows its whole effect, which is delayed by one write.
* `MaxLooks` bounds how often `next_piece` reads the peer's tracker. Each look has
  the same form, so one or three cover all.
* `MaxBuffer` is the bytes that a piece's buffer may accumulate: enough for each
  piece to fail verification and be completed by another copy of a block.
* Deadlock is checked in `download_window`, `download_timely`, `download_rechoked` and
  `locks_requests`. Elsewhere the system may stop: `download_adverse` ends in a panic,
  `store_files` when all is saved, `session_*` and `trackers_lossy` when the program
  or the search ends, `wire_*` when the conversation reaches its bound, and in
  `locks_all` the deadlock is the subject.

### Fairness

* `Download`: request tasks, checks, and peer_com's second half run when they can
  (tokio polls what is ready), and answers of timely peers are handled. Nothing is
  assumed of announcements, chokes or unchokes. `SpawnDelayedCheck` is fair for a peer
  that reads, because only then is there always room again for the requests that come
  before it (`requests.rs:67-69`); for one in `SlowReaders` it may never happen. The
  locks are taken to be free again: where a circle of finding 2 has closed, or peer_com
  waits to answer a peer that does not read, nothing else goes on either, which
  LockOrder and PeerSession are about.
* `LockOrder`: a task takes a free lock, a lock is handed to the first waiter, a
  guard is dropped. No message and no wake-up is assumed.
* `PeerSession`: a handshake and a reader are only sure to end once the peer has
  closed, because neither has a timeout. sh writes when the peer reads or has closed;
  nothing is assumed of a peer that keeps the connection open and does not read.
  The steps of an address's task (`GoesOn`), of peer_com and `UnlockPieces` have strong
  fairness: tokio serves the waiters of a lock and of a queue in order, so other handlers
  and other senders may go first, but not for ever. Strong fairness demands nothing where
  what is awaited never becomes free: once a circle has closed, neither of its tasks is
  ever enabled again. The search for trackers ends as below.
* `Trackers`: the tasks run and the five-second timers fire. Answers of reliable
  entries are read eventually (strong fairness: other datagrams may always come
  first), and in time unless udp_rh is held up. HTTP requests have no timeout; the server
  is assumed to answer or close.

## 4. Findings

1. **`download_rechoked`**, `requests.rs:76`. Permits granted by an unchoke survive
   a choke, so choke and unchoke leave more than `cap`; `cap - available_permits()`
   underflows. A debug build ends the request task, a release build sleeps for
   centuries. The reservation is then never checked.
2. **`locks_requests`**, `client.rs:150`. peer_com holds a peer's tracker and awaits
   the piece tracker, that peer's request task holds the piece tracker and awaits
   the peer's tracker. Both stop, and everything else behind them. `locks_all` shows
   that this and one other pair, peer_com against the task that lists a new peer
   (`client.rs:145`, `153` against `263-266`), are the circles there are: whenever tasks
   wait in a circle, one of the two has closed. `session_lives` shows what they cost:
   where neither closes the program ends once all peers have gone, and a peer with an id
   of its own gets into the map unless another does not read.
3. **`session_early`**, `client.rs:146`. A message that is handled before its sender
   is in `pr_map`, or whose sender was turned away as a duplicate, makes peer_com
   panic, which ends the program. A peer need not speak before we do: Interested is queued
   at line 253, the insert is at 259-262, and the answer may be handled in between.
   `LostBeforeEntry` shows that this unwrap fails in no other case, such as that of a
   message that waits in the channel while its connection ends. peer_com has other panics
   (the overflow in Download, an index out of range in PeerWire); they are steps of
   PeerSession too.

4. **`wire_answers`**, `msg.rs:48`. The length of a Piece message is computed from the
   block after `append` has moved it out (line 46), so it is always 9
   (`constants.rs:22`), while the block follows, twice as long as asked for. The peer
   reads the block as messages. `HeardAsSent` shows that up to the first answer or the
   first short write it hears everything as it was sent.

Seen while modelling, without a statement in the repository to hold them
against:

* A late answer to a request that was given up leaves the piece in `needed`
  and `have` together and it is fetched again (`requests.rs:87`).
* Bit 0 of a bitfield is taken to be the lowest of its byte (`bitfield.rs:11`), so the
  pieces of a byte are believed in mirrored order, and a peer that has all pieces is
  believed not to have some of the last byte (`LearnsMirrored`).
* An answer to a Request is sent under `pr_map` (`client.rs:176`): a peer that asks
  and does not read keeps every other peer out (`EntersUnlessHeld`).
* The check of a reservation is started after the last request is queued
  (`requests.rs:126`). A peer that unchokes us and reads nothing, with more blocks in a
  piece than the queue has room for, keeps the piece reserved as long as it stays connected
  (`Withheld`).
* Of an answer to an announce 512 bytes are read (`udp.rs:114`): the peers after the first
  82 are lost, though we ask for all (`numwant` -1).
* udp_rh waits for room in the channel of an entry that takes nothing any more because it
  reports its peers; meanwhile other entries time out (`HeldUp`).
* A check that wakes may give up a newer reservation than its own (`requests.rs:87`).
* A failing write loses its piece and the one written next (`fops.rs:88`).
* sh uses `write` and drops its result (`msg.rs:169`): a short write shifts the stream.
* Receiving a keep-alive panics the reader (`msg.rs:71`), `Have` and `Cancel` would be
  sent as keep-alives (`msg.rs:55`), `Interested` and `NotInterested` are read as
  keep-alives (`msg.rs:90-95`).
* The answer to a Request starts with as many zeros as it has bytes (`fops.rs:123`).
* An HTTP tracker that never answers keeps the program alive (`http.rs`).

## 5. Proofs

### Download

`Download_proofs` proves, from `TrackerAssumption` and `DownloadAssumption` alone
(pieces are finitely many, there is a block, the cap is positive), for every value of
the constants:

| theorem | states |
|---|---|
| `TypeCorrect` | `Spec => []TypeOK` |
| `ReservationsRespected` | `Spec => []NeededNotReserved` |
| `HandsAgreeWithTracker` | `Spec => []StagesAgree` |
| `NothingForgotten` | `Spec => []NoPieceForgotten` |
| `EachPieceCountedOnce` | `Spec => []CountedOnce` |
| `ImplementsLifecycle` | `Spec => Lifecycle!Spec` |

The inductive invariant is

    StagesInv == TypeOK /\ NeededNotReserved /\ StagesAgree

None of its parts is inductive alone. A completed piece is counted once because it
is missing when it is verified (`CompletingMissing`), although the lock is released
between its last block and its verification; that holds because only peer_com saves
pieces and only a block of a tracked piece starts a completion, and every answer is
for a tracked piece (`AnswersTracked`), because a request reserves what it asks for and
a check that gives it up makes it needed again. `NeededNotReserved` is what makes a
`RequestPiece` a step from wanted to reserved.

The lemmas go from the tracker's operators (`UpdateMultipleResult`, `GiveUpResult`,
`CompletedResult`) to the stages of a piece: `StageStepResult` states the only ways in
which needed, requested and have change together (announce, reserve, give up, save,
stutter), one lemma per action shows that it is one of them, and the invariants and the
refinement are consequences of that. `NothingForgotten` and `EachPieceCountedOnce`
use `StagesInv` and are not part of it.

Five theorems go further for the environments in which the other invariants hold; the
runs in which they fail, or the reason, are named in section 4 and in the modules.

| theorem | module | assumes of the environment | states |
|---|---|---|---|
| `PermitsBounded` | `DownloadWindow_proofs` | `Chokers = {}`, `Corrupters = {}` | `Spec => []PermitsWithinCap` |
| `ReservationsWatched` | `DownloadWindow_proofs` | the same | `Spec => []ReservedIsWatched` |
| `NothingRefetched` | `DownloadWindow_proofs` | also some timely peer, all others dead | `Spec => []NeverRefetched` |
| `PermitsAccounted` | `DownloadWindow_proofs` | the same | `Spec => []PermitsConserved` |
| `NeverUnderCounted` | `Download_proofs` | `OverflowChecks`, finitely many peers | `Spec => []AvailabilityNotUnderCounted` |

* `WindowInv`: permits are bounded because each permit that is out is matched by a piece
  of the peer's `Window`, one it may still complete. A piece leaves the window with the
  block that completes it, before its permit comes back, and never returns to
  it, because what completes verifies (`BufferedGood`, `CompletingVerifies`). The
  window counts too few permits as out when requests time out, never too many. Without
  an underflow every request task starts the check it owes, which is
  `ReservationsWatched`.
* `PromptInv`: with timely peers the count is exact. A piece in flight is owed by one
  timely peer, which owes exactly the blocks its buffer misses (`OwesTheMissing`), so the
  last block it owes is the block that completes the piece; a check that wakes finds a
  piece that nobody owes (`CheckPrompt`), so no reservation is given up too early and
  nothing is fetched twice.
* `CountInv`: a peer becomes askable for a piece only in a step that counts the piece
  (`MoreAskable`), and no step takes a count back (`CountsKept`).

### PeerSession

`PeerSession_proofs` proves, from `PeerSessionAssumption`, for any addresses, any
assignment of ids, any capacities and any set of slow readers:

| theorem | states | inductive invariant |
|---|---|---|
| `TypeCorrect` | `Spec => []TypeOK` | itself |
| `SessionsApart` | `Spec => []OneSessionPerId` | `ClaimInv` |
| `LostOnlyBeforeEntry` | `Spec => LostBeforeEntry` | `SenderInv` |

`OneSessionPerId` speaks of `pr_map` alone, which a task enters two steps after it
looked its id up. `ClaimInv` therefore speaks of all `Claimants`, the tasks between
the two and the entries that outlive theirs: each one's id is in `peer_ids`, no two
share it, and an address in the map is never back before its claim. `SenderInv` says
that whoever was in the map when a message was relayed is in it as long as the message
waits; it is kept because the map loses no entry, whatever else has ended.

### PeerWire

`PeerWire_proofs` proves, from `BitfieldAssumption`, `PeerWireAssumption` and `FourBytes`
(the number of pieces is a u32, and so is the length of a Bitfield message), for bytes of
any size, any such number of pieces, channels of any capacity and conversations of any
length:

| theorem | states |
|---|---|
| `CountStaysExact` | `Spec => []CountExact` |
| `BytesImplementSets` | `Spec => ImplementsPeerView` |
| `MessagesReadAsSaid` | `Spec => ReadAsSaid` |
| `BeliefsMirrored` | `Spec => []LearnsMirrored` |
| `MessagesHeard` | `Spec => []HeardAsSent` |
| `WireTyped` | `Spec => []TypeOK` |

The inductive invariant of the last is

    LinkInv /\ HaveInv /\ BeliefInv /\ OutInv /\ RoomInv

and the others use the parts they need. The first two rest on `HaveInv`: the bitfield
is `Sound`, it has a byte for every bit and a count that is exact. `SetSound` shows that set marks the bit it is given and no other, because
a bit is determined by its byte and its offset (`BitsApart`); `RefNewSound` and
`OwnedNewSound` that both constructors make sound bitfields. The refinement needs the
count: Unchoke looks at it before it looks at the bits, and `HeldBackIsKnown` shows
that this loses no piece. `StepLearns` sorts the steps into the five kinds that
matter to our view of the peer.

`LinkInv` says that the bytes under way are the frames of the messages not read, one after
the other. `Joined` states this by the positions of the cuts instead of a recursive
concatenation, so that one more part at the end (`JoinedAppend`) and one less at the front
(`JoinedHead`) can be proved by arithmetic. A stream that starts with a framed message is cut
exactly after it (`FrameRead`), because read_u32 reads what write_u32 wrote (`ReadBack`, which
needs the number to fit four bytes); the lemmas `...Frame` then read each field of each kind of
message back from where deserialize looks for it.

`BeliefInv` is what makes `LearnsMirrored` inductive: at any time what we know, together with what
the messages waiting in the stream or the channel announce, is what the peer announced; and a
Bitfield still waiting is the first of them and finds nothing known, which matters because it
replaces all that was known before. `BytesOfIs` shows that a byte with the wanted
bits exists (`BitsFree`, by induction over the bits), `BitfieldMirrored` that a reader which takes
the lowest bit first sees the mirrored pieces and finds a byte for every bit.

`OutInv` says that what was written is joined from one part per write, and a part is the
whole message if the write was whole. `CutMore` follows the peer that cuts this stream from one
frame to the next, by induction on the number of writes; `FramesAre` first shows that `Frames`,
which recurs on the rest of a stream, is the function its definition asks for.
`RoomInv` has the capacities and the bounds of the instance.

### Trackers

`Trackers_proofs` proves, from `TrackersAssumption`, for any entries, addresses, capacities and answers, and whatever
the network loses, repeats or delays:

| theorem | states | inductive invariant |
|---|---|---|
| `AddressesReportedOnce` | `Spec => []ReportedOnce` | `ReportInv` |
| `IdsStayOwn` | `Spec => []ConnectionIdsOwn` | `NetInv` |
| `TypeCorrect` | `Spec => []TypeOK` | `TypeInv` |

`ReportedOnce` speaks of the channel and of what tracker_com received; `ReportInv` adds
that all of it, and the peer about to be sent, is in `peers_map`, which is what an
entry looks at under the lock. An id may reach an entry by an answer that was handed to
another one, or that is late; `NetInv` says of every datagram on the network, in the
hand of udp_rh and in the channels that it brings an id only if it was issued to the
transaction it names (`Own`). `TypeInv` needs both, and `LockInv`: the lock
is held exactly while somebody reports.

### LockOrder

`LockOrder_proofs` proves, from `LockOrderAssumption`, for any peers, any kinds of
messages and any number of reads of a peer's tracker:

| theorem | states |
|---|---|
| `GuardsExclude` | `Spec => []TypeOK` |
| `CirclesKnown` | `Spec => []CirclesAreThese` |
| `BlocksNeverCircle` | `Spec => []NoCircularWait` |

All rest on

    GuardInv == GuardTypes /\ Exclusive /\ ScriptInv /\ QueueInv

`ScriptInv` ties the guards a task has to what is left of its script: it has the guard of
a lock exactly while the script still drops it (`Owes`), a lock is never taken
twice nor dropped twice (`Bracketed`), and whenever a lock is taken while the guard of
another is alive, the pair is one that this task may take in that order (`Ordered`,
`OrderOf`). `QueueInv` says that who waits is about to take that lock, and waits once.
The lemmas `...Block` and `...Work` show the same of the scripts, from `Reading` and
`Writing` up to whole handlers.

The circles follow without an induction over the set of tasks. In a circle each task
waits for a lock that another one of the circle has (`HolderInCircle`), so each has some
lock while it takes another. The pairs of `OrderOf` leave nobody but peer_com between
a request task or a listing task and the next of them (`PeerComInCircle`), and peer_com
has either the tracker of a peer or the map (`CircleFaces`): these are the two circles,
and neither pair is taken by the handler of a block.

### PieceStore

`PieceStore_proofs` proves, from `PieceStoreAssumption`, for any list of files, any
lengths of pieces and blocks, any order and number of copies, and any number of failing
writes:

| theorem | states |
|---|---|
| `StoreTyped` | `Spec => []TypeOK` |
| `RequestsTile` | `Spec => []RequestsTileTorrent` |
| `OrderNeverFails` | `Spec => []AssertionsHold` |
| `AnswersFromDisk` | `Spec => []ServedFromDisk` |
| `PiecesOnDisk` | `Spec => []SavedOnDisk` |
| `OthersKeptOnDisk` | `Spec => OthersUntouched` |
| `StoreAssembles` | `Spec => ImplementsAssembly` |

The inductive invariant is

    StoreInv == StoreTypes /\ BlocksKept /\ FilesOnDisk /\ LossesCounted
                           /\ peer_com = "running"

`BlocksKept` says that every `BlockInfo` points at the bytes of the last copy of its block,
although the buffer only grows and keeps older copies. `SavedOnDisk` is not inductive:
whether a failed write will cost another piece is in `write_err`, so `LossesCounted`
bounds the pieces that are lost and the files that still hold an error together.

The arithmetic comes first: the requests of a piece follow each other without a gap
(`RequestsAre`, `Tiled`), and a position of the torrent is in one file (`FileHolds`,
`FileUnique`). `PartsAre` says how far the loop over the files has come before each file,
by induction, and `PartHolding` which file gets a byte; with them `ReadBlockIs` and
`SavePiece` say what the loops read and write, position by position. `Assembled` says
what `ordered_piece` returns when the infos are the last copies, and `StepIs` sorts the
handler into keeping a copy, failing verification and saving; the theorems follow
from these.

### NatRecursion

A function that is defined by recursion is a CHOOSE to the provers, and the library's
induction theorems take an operator as a parameter. `NatRecursion` states the
induction for sets instead of operators (`Induct`, `InductTo`), from the well-foundedness
of the order (`NatOrder`), and proves that a recursive function over the
naturals exists (`Recursion`). `Flattened` in `PieceStore_proofs` is an instance: it
says what `FlattenSeq` of the community modules computes; `Pow2Is` and `FramesAre` in
`PeerWire_proofs` are others.

### Only model-checked

The properties under fairness, with ENABLED, which are out of the reach of the proof system:
`ReservationResolved`, `EventuallySaved`, `ChecksServed`, `EntersUnlessHeld`, `RunEnds`,
`SearchEnds` and `ReliableServed`. Every invariant, action property and refinement that a
passing run checks is also proved.

## 6. Plan

Done: all modules, with the proofs of section 5; in `PeerSession` the queue to sh, the
two circles and the end of the program together.

Next, in this order:

1. The fairness of `Download` conditional on the locks: its liveness properties hold
   where no circle closes, which `LockOrder` says of blocks alone.
2. The handshake's bytes and the layouts of the UDP tracker protocol.

## 7. Not modelled

Parsing of torrent files, URLs and bencode, terminal output, logging, creation of
directories and files, and main are input and output or library calls. The handshake
succeeds or fails and yields an id; what it compares is left out. The offset and length
of a remote peer's Request are those of a block of the torrent; indices of its Haves
are pieces. pikabit keeps nothing across restarts, so there is no
recovery to model.
