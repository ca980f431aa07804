------------------------------- MODULE PeerWire -------------------------------
(***************************************************************************)
(* One connection, in bytes.                                               *)
(*                                                                         *)
(*   remote --to_us--> rh: recv_msg, deserialize --channel--> peer_com     *)
(*   remote <--to_remote-- sh: serialize, write <--outbox-- our tasks      *)
(*                                                                         *)
(* rh, sh and Message are msg.rs; what peer_com does with a message is     *)
(* client.rs.  Of its effects this module keeps those on the connection:   *)
(* what we believe the peer has, which of its pieces were put on offer,    *)
(* and the answers to its requests.  Blocks and files are PieceStore's,    *)
(* the offers of several peers Download's, and when the peer is in pr_map, *)
(* as it is here throughout, PeerSession's.                                *)
(*                                                                         *)
(* The remote peer is the protocol of BEP 3: every message is a four-byte  *)
(* length, an id and a payload; the first message may be a Bitfield; in a  *)
(* byte of a bitfield the highest bit comes first.                         *)
(***************************************************************************)
EXTENDS Bitfield

CONSTANTS
    Lengths,       \* numbers of pieces; a torrent has one of them
    Capacity,      \* of the channel to peer_com and of the outbox, 40 in the code

    \* bounds of the state space
    MaxSaid,       \* messages of the remote peer
    MaxMessages,   \* messages of the remote peer and of sh, together
    MaxShort       \* writes that take only part of a message

ASSUME PeerWireAssumption ==
    /\ Lengths \subseteq Nat \ {0}
    /\ Capacity \in Nat \ {0}
    /\ MaxSaid \in Nat /\ MaxMessages \in Nat /\ MaxShort \in Nat

\* Numbers of the protocol are unsigned and have four bytes.
FitsU32(n) == n \div 16777216 < 256

\* A bitfield of n pieces on the wire.
BytesFor(n) == (n + ByteBits - 1) \div ByteBits

\* num_pieces() is a u32, and the announced length of a Bitfield message is one.
ASSUME FourBytes == \A n \in Lengths : FitsU32(n) /\ FitsU32(1 + BytesFor(n))

VARIABLES
    num_pieces,   \* of the torrent, which does not change

    \* from the remote peer to us
    to_us,        \* bytes under way
    rh,           \* "reading", or "panicked"
    channel,      \* messages relayed to peer_com
    peer_com,     \* "running", or "panicked"
    have,         \* PeerTracker.have
    am_choked,    \* PeerTracker.state.am_choked
    offered,      \* pieces of this peer that were passed to update_single

    \* from us to the remote peer
    outbox,       \* messages in the channel behind msg_tx
    to_remote,    \* all bytes written
    sent,         \* history: [msg, whole], what sh wrote and whether all of it

    \* history of the remote peer
    said,         \* how many messages it has sent
    unread,       \* those rh has not read
    bitfield,     \* the pieces of its Bitfield
    haves         \* the pieces of its Haves

inVars == <<to_us, rh, channel, peer_com, have, am_choked, offered>>
outVars == <<outbox, to_remote, sent>>
remoteVars == <<said, unread, bitfield, haves>>
vars == <<num_pieces, inVars, outVars, remoteVars>>

Pieces == 0 .. num_pieces - 1

-----------------------------------------------------------------------------
(* Messages and their bytes *)

MsgId ==
    [Choke |-> 0, Unchoke |-> 1, Interested |-> 2, NotInterested |-> 3, Have |-> 4,
     Bitfield |-> 5, Request |-> 6, Piece |-> 7, Cancel |-> 8]

Plain(type) == [type |-> type]

KeepAlive == Plain("KeepAlive")

Block(type, index, begin, length) ==
    [type |-> type, index |-> index, begin |-> begin, length |-> length]

Piece(index, begin, block) ==
    [type |-> "Piece", index |-> index, begin |-> begin, block |-> block]

\* write_u32 and read_u32, big-endian
U32(n) == <<(n \div 16777216) % 256, (n \div 65536) % 256, (n \div 256) % 256, n % 256>>

ReadU32(buf, at) ==
    256 * (256 * (256 * buf[at] + buf[at + 1]) + buf[at + 2]) + buf[at + 3]

Payload(m) ==
    CASE m.type = "Have"                 -> U32(m.index)
      [] m.type = "Bitfield"             -> m.bytes
      [] m.type \in {"Request", "Cancel"} -> U32(m.index) \o U32(m.begin) \o U32(m.length)
      [] m.type = "Piece"                -> U32(m.index) \o U32(m.begin) \o m.block
      [] OTHER                           -> <<>>

\* Mutant: the id is not counted.
LengthPrefix_NoId(m) ==
    CASE m.type = "Request"    -> 12
      [] m.type = "Piece"      -> 9
      [] m.type = "Interested" -> 1
      [] OTHER                 -> 0

\* PIECE_PREAMBLE + block.len(), but the block has been moved out by then.
LengthPrefix(m) ==
    CASE m.type = "Request"    -> 13
      [] m.type = "Piece"      -> 9
      [] m.type = "Interested" -> 1
      [] OTHER                 -> 0

Serialize(m) ==
    IF LengthPrefix(m) = 0 THEN U32(0)
    ELSE U32(LengthPrefix(m)) \o <<MsgId[m.type]>> \o Payload(m)

\* Mutant: the offset is read where the index is.
Deserialize_IndexTwice(buf) ==
    CASE buf[5] = 0 -> Plain("Choke")
      [] buf[5] = 1 -> Plain("Unchoke")
      [] buf[5] = 4 -> [type |-> "Have", index |-> ReadU32(buf, 6)]
      [] buf[5] = 5 -> [type |-> "Bitfield", bytes |-> SubSeq(buf, 6, Len(buf))]
      [] buf[5] = 6 -> Block("Request", ReadU32(buf, 6), ReadU32(buf, 6), ReadU32(buf, 14))
      [] buf[5] = 7 -> Piece(ReadU32(buf, 6), ReadU32(buf, 10), SubSeq(buf, 14, Len(buf)))
      [] buf[5] = 8 -> Block("Cancel", ReadU32(buf, 6), ReadU32(buf, 10), ReadU32(buf, 14))
      [] OTHER      -> KeepAlive

\* Interested and NotInterested have no case of their own.
Deserialize(buf) ==
    CASE buf[5] = 0 -> Plain("Choke")
      [] buf[5] = 1 -> Plain("Unchoke")
      [] buf[5] = 4 -> [type |-> "Have", index |-> ReadU32(buf, 6)]
      [] buf[5] = 5 -> [type |-> "Bitfield", bytes |-> SubSeq(buf, 6, Len(buf))]
      [] buf[5] = 6 -> Block("Request", ReadU32(buf, 6), ReadU32(buf, 10), ReadU32(buf, 14))
      [] buf[5] = 7 -> Piece(ReadU32(buf, 6), ReadU32(buf, 10), SubSeq(buf, 14, Len(buf)))
      [] buf[5] = 8 -> Block("Cancel", ReadU32(buf, 6), ReadU32(buf, 10), ReadU32(buf, 14))
      [] OTHER      -> KeepAlive

\* A keep-alive has no fifth byte.
DeserializePanics(buf) == Len(buf) < 5

\* read_exact of the length, then of the rest: a whole message has arrived.
Arrived(stream) == Len(stream) >= 4 /\ Len(stream) - 4 >= ReadU32(stream, 1)

FirstFrame(stream) == SubSeq(stream, 1, 4 + ReadU32(stream, 1))

AfterFrame(stream) == SubSeq(stream, 5 + ReadU32(stream, 1), Len(stream))

-----------------------------------------------------------------------------
(* The remote peer *)

\* The layout of BEP 3.
Frame(m) ==
    IF m.type = "KeepAlive" THEN U32(0)
    ELSE LET body == <<MsgId[m.type]>> \o Payload(m) IN U32(Len(body)) \o body

\* Powers of two, as a recursive function.
Pow2[n \in Nat] == IF n = 0 THEN 1 ELSE 2 * Pow2[n - 1]

\* A byte on the wire as the set of its one bits.
BitsOf(byte) == {k \in Offsets : (byte \div Pow2[k]) % 2 = 1}

\* The bytes of a bitfield that marks S, the highest bit first.
BytesOf(S) ==
    [k \in 1 .. BytesFor(num_pieces) |->
        CHOOSE byte \in 0 .. Pow2[ByteBits] - 1 :
            BitsOf(byte) = {ByteBits - 1 - OffsetOf(i) : i \in {j \in S : ByteOf(j) = k}}]

\* It says nothing more when nobody reads.
Say(m) ==
    /\ said < MaxSaid
    /\ said + Len(sent) < MaxMessages
    /\ rh = "reading"
    /\ said' = said + 1
    /\ unread' = Append(unread, m)
    /\ to_us' = to_us \o Frame(m)
    /\ UNCHANGED <<num_pieces, rh, channel, peer_com, have, am_choked, offered, outVars>>

SayBitfield(S) ==
    /\ said = 0
    /\ Say([type |-> "Bitfield", bytes |-> BytesOf(S)])
    /\ bitfield' = S
    /\ UNCHANGED haves

SayHave(i) ==
    /\ Say([type |-> "Have", index |-> i])
    /\ haves' = haves \cup {i}
    /\ UNCHANGED bitfield

\* What else a peer may say; a block has one byte.
OtherMessages ==
    {Plain(type) : type \in {"KeepAlive", "Choke", "Unchoke", "Interested", "NotInterested"}}
        \cup {Block(type, num_pieces - 1, 2, 1) : type \in {"Request", "Cancel"}}
        \cup {Piece(num_pieces - 1, 2, <<1>>)}

SayOther(m) == Say(m) /\ UNCHANGED <<bitfield, haves>>

\* It cuts the bytes it receives into the frames their lengths announce.
Frames[stream \in Seq(Nat)] ==
    IF Arrived(stream) THEN <<FirstFrame(stream)>> \o Frames[AfterFrame(stream)] ELSE <<>>

Heard == Frames[to_remote]

-----------------------------------------------------------------------------
(* rh *)

\* Mutant: an unbounded channel.
HasRoom_Always(queue) == TRUE

HasRoom(queue) == Len(queue) < Capacity

\* spawn_rh: read a message and relay it, unless it is taken for a keep-alive.
ReadMessage ==
    LET buf == FirstFrame(to_us) IN
    /\ rh = "reading"
    /\ Arrived(to_us)
    /\ to_us' = AfterFrame(to_us)
    /\ unread' = Tail(unread)
    /\ IF DeserializePanics(buf)
       THEN rh' = "panicked" /\ UNCHANGED channel
       ELSE /\ UNCHANGED rh
            /\ \/ Deserialize(buf) = KeepAlive /\ UNCHANGED channel
               \/ /\ Deserialize(buf) # KeepAlive
                  /\ HasRoom(channel)
                  /\ channel' = Append(channel, Deserialize(buf))
    /\ UNCHANGED <<num_pieces, peer_com, have, am_choked, offered, outVars, said, bitfield, haves>>

-----------------------------------------------------------------------------
(* peer_com, the branches that concern the connection *)

Takes(type) ==
    /\ peer_com = "running"
    /\ channel # <<>>
    /\ Head(channel).type = type
    /\ channel' = Tail(channel)
    /\ UNCHANGED <<num_pieces, to_us, rh, to_remote, sent, remoteVars>>

\* update_single and update_multiple, seen from the peer.
Offer(S) == offered' = IF am_choked THEN offered ELSE offered \cup S

\* Mutant: a piece is learnt only when it can be asked for.
Learnt_WhenUnchoked(i) == IF am_choked THEN have ELSE Set(have, i, TRUE)

Learnt(i) == Set(have, i, TRUE)

HandleHave ==
    LET i == Head(channel).index IN
    /\ Takes("Have")
    /\ IF SetPanics(have, i)
       THEN peer_com' = "panicked" /\ UNCHANGED <<have, offered>>
       ELSE /\ have' = Learnt(i)
            /\ Offer({i})
            /\ UNCHANGED peer_com
    /\ UNCHANGED <<am_choked, outbox>>

\* The bytes are viewed twice, and kept as they came.
HandleBitfield ==
    LET bytes == [k \in DOMAIN Head(channel).bytes |-> BitsOf(Head(channel).bytes[k])] IN
    /\ Takes("Bitfield")
    /\ IF ~Readable(bytes, num_pieces)
       THEN peer_com' = "panicked" /\ UNCHANGED <<have, offered>>
       ELSE /\ have' = RefNew(bytes, num_pieces)
            /\ Offer(Marked(RefNew(bytes, num_pieces)))
            /\ UNCHANGED peer_com
    /\ UNCHANGED <<am_choked, outbox>>

HandleChoke ==
    /\ Takes("Choke")
    /\ am_choked' = TRUE
    /\ UNCHANGED <<peer_com, have, offered, outbox>>

\* Mutant: what was announced before the Unchoke is not offered.
HeldBack_Nothing == {}

\* The bytes of have are viewed again, if the cached count says they mark any.
HeldBack == IF have.cnt_marked > 0 THEN Marked(RefNew(have.bytes, num_pieces)) ELSE {}

HandleUnchoke ==
    /\ Takes("Unchoke")
    /\ am_choked' = FALSE
    /\ offered' = IF am_choked THEN offered \cup HeldBack ELSE offered
    /\ UNCHANGED <<peer_com, have, outbox>>

\* read_block's answer has twice the length asked for.
Answer(m) == Piece(m.index, m.begin, [k \in 1 .. 2 * m.length |-> IF k > m.length THEN 1 ELSE 0])

HandleRequest ==
    /\ Takes("Request")
    /\ HasRoom(outbox)
    /\ outbox' = Append(outbox, Answer(Head(channel)))
    /\ UNCHANGED <<peer_com, have, am_choked, offered>>

\* A block, and a Cancel that is only logged.
HandleOther ==
    /\ Takes("Piece") \/ Takes("Cancel")
    /\ UNCHANGED <<peer_com, have, am_choked, offered, outbox>>

-----------------------------------------------------------------------------
(* Our tasks and sh *)

OurMessages == {Plain("Interested"), Block("Request", num_pieces - 1, 2, 1)}

\* The task of the address is interested, reqh asks for a block.
Queue(m) ==
    /\ HasRoom(outbox)
    /\ outbox' = Append(outbox, m)
    /\ UNCHANGED <<num_pieces, inVars, to_remote, sent, remoteVars>>

ShortWrites == {k \in DOMAIN sent : ~sent[k].whole}

\* write() may take only the first bytes; what it returns is dropped.
WriteMessage(m) ==
    /\ said + Len(sent) < MaxMessages
    /\ LET buf == Serialize(m) IN \E n \in 1 .. Len(buf) :
        /\ n < Len(buf) => Cardinality(ShortWrites) < MaxShort
        /\ to_remote' = to_remote \o SubSeq(buf, 1, n)
        /\ sent' = Append(sent, [msg |-> m, whole |-> n = Len(buf)])
    /\ UNCHANGED <<num_pieces, inVars, remoteVars>>

Write ==
    /\ outbox # <<>>
    /\ WriteMessage(Head(outbox))
    /\ outbox' = Tail(outbox)

\* Nothing was queued for KEEP_ALIVE seconds.
WriteKeepAlive ==
    /\ outbox = <<>>
    /\ WriteMessage(KeepAlive)
    /\ UNCHANGED outbox

-----------------------------------------------------------------------------

Init ==
    /\ num_pieces \in Lengths
    /\ to_us = <<>>
    /\ rh = "reading"
    /\ channel = <<>>
    /\ peer_com = "running"
    /\ have = OwnedNew(num_pieces)
    /\ am_choked = TRUE
    /\ offered = {}
    /\ outbox = <<>>
    /\ to_remote = <<>>
    /\ sent = <<>>
    /\ said = 0
    /\ unread = <<>>
    /\ bitfield = {}
    /\ haves = {}

RemoteNext ==
    \/ \E S \in SUBSET Pieces : SayBitfield(S)
    \/ \E i \in Pieces : SayHave(i)
    \/ \E m \in OtherMessages : SayOther(m)

PeerComNext ==
    HandleHave \/ HandleBitfield \/ HandleChoke \/ HandleUnchoke \/ HandleRequest \/ HandleOther

Next ==
    \/ RemoteNext
    \/ ReadMessage
    \/ PeerComNext
    \/ \E m \in OurMessages : Queue(m)
    \/ Write
    \/ WriteKeepAlive

Spec == Init /\ [][Next]_vars

-----------------------------------------------------------------------------
(* Properties *)

TypeOK ==
    /\ num_pieces \in Lengths
    /\ to_us \in Seq(Nat)
    /\ rh \in {"reading", "panicked"}
    /\ Len(channel) <= Capacity
    /\ peer_com \in {"running", "panicked"}
    /\ have \in Bitfields
    /\ have.length = num_pieces
    /\ Readable(have.bytes, num_pieces)
    /\ am_choked \in BOOLEAN
    /\ offered \subseteq Pieces
    /\ Len(outbox) <= Capacity
    /\ to_remote \in Seq(Nat)
    /\ said \in 0 .. MaxSaid
    /\ said + Len(sent) <= MaxMessages
    /\ bitfield \subseteq Pieces /\ haves \subseteq Pieces

\* The cached count of a peer's bitfield is the number of bits next_piece would
\* find, spare bits and bytes left over notwithstanding: Unchoke decides by it
\* whether there is anything to ask for.
CountExact == have.cnt_marked = Cardinality(Marked(have))

\* Every message is read as it was said, however many are in the stream.  The
\* exceptions: a remote peer's interest is dropped unread, and its keep-alive
\* panics the reader.
ReadAsSaid ==
    [][unread # <<>> /\ unread' = Tail(unread) =>
        LET m == Head(unread) IN
        IF m.type = "KeepAlive" THEN rh' = "panicked"
        ELSE /\ rh' = rh
             /\ channel' = IF m.type \in {"Interested", "NotInterested"} THEN channel
                           ELSE Append(channel, m)]_vars

\* Pieces that a bitfield with the highest bit first marks for a reader that
\* takes the lowest for the first.
AsRead(S) ==
    {i \in Pieces : \E j \in S : ByteOf(i) = ByteOf(j) /\ OffsetOf(i) + OffsetOf(j) = ByteBits - 1}

\* With everything read and handled we know of the pieces announced by Haves and,
\* byte by byte mirrored, of those in the Bitfield; marking and viewing the bits that
\* a peer of this kind announces never panics peer_com, as counting them may: see
\* Download.  A peer that has every piece is known to have them all only if they
\* fill their bytes.
LearnsMirrored ==
    rh = "reading" /\ unread = <<>> /\ channel = <<>> =>
        /\ peer_com = "running"
        /\ Marked(have) = AsRead(bitfield) \cup haves

\* Up to here every write took all of its message, and none was an answer.
Clean(k) == \A j \in 1 .. k : sent[j].whole /\ sent[j].msg.type # "Piece"

\* The remote peer hears what was sent, message by message, until a write was cut
\* short or a block was sent.
HeardAsSent ==
    LET heard == Heard IN
    /\ \A k \in DOMAIN heard : k \in DOMAIN sent /\ Clean(k) => heard[k] = Frame(sent[k].msg)
    /\ Clean(Len(sent)) => Len(heard) = Len(sent)

\* The remote peer hears every message as it was sent, answers included.
AnswersHeard ==
    LET heard == Heard IN
    \A k \in DOMAIN heard : k \in DOMAIN sent /\ heard[k] = Frame(sent[k].msg)

View == INSTANCE PeerView
            WITH pieces <- Pieces, known <- Marked(have), choked <- am_choked

\* Bytes, spare bits and the cached count amount to the sets that Download keeps:
\* what a peer announced is on offer as soon as the peer lets us ask.
ImplementsPeerView == View!Spec

=============================================================================
