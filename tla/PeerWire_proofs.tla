---------------------------- MODULE PeerWire_proofs ----------------------------
(***************************************************************************)
(* Proofs about bitfields and PeerWire, for bytes of any size, any number  *)
(* of pieces and any bounds.                                               *)
(***************************************************************************)
EXTENDS PeerWire, NatRecursion, SequenceTheorems, FiniteSetTheorems, TLAPS

-----------------------------------------------------------------------------
(* Bitfields *)

\* A bit has a byte and an offset of its own.
LEMMA BitsApart ==
    ASSUME NEW i \in Nat, NEW j \in Nat, ByteOf(i) = ByteOf(j), OffsetOf(i) = OffsetOf(j)
    PROVE  i = j
<1>1. ByteBits \in Nat \ {0}
  BY BitfieldAssumption
<1>2. /\ i = (ByteBits * (i \div ByteBits)) + (i % ByteBits)
      /\ j = (ByteBits * (j \div ByteBits)) + (j % ByteBits)
  BY <1>1
<1>3. i \div ByteBits = j \div ByteBits /\ i % ByteBits = j % ByteBits
  BY <1>1 DEF ByteOf, OffsetOf
<1>4. QED
  BY <1>2, <1>3

LEMMA OffsetInByte == ASSUME NEW i \in Nat PROVE OffsetOf(i) \in Offsets /\ ByteOf(i) \in Nat \ {0}
  BY BitfieldAssumption DEF OffsetOf, Offsets, ByteOf

\* A bitfield with a byte for every bit and a count that is exact.
Sound(bf, n) ==
    /\ bf \in [bytes : [DOMAIN bf.bytes -> SUBSET Offsets], cnt_marked : Nat, length : {n}]
    /\ Readable(bf.bytes, n)
    /\ bf.cnt_marked = Cardinality(Marked(bf))

LEMMA MarkedFinite ==
    ASSUME NEW bf, bf.length \in Nat
    PROVE  IsFiniteSet(Marked(bf)) /\ Cardinality(Marked(bf)) \in Nat
<1>1. IsFiniteSet(0 .. bf.length - 1)
  BY FS_Interval
<1>2. Marked(bf) \subseteq 0 .. bf.length - 1
  BY DEF Marked, MarkedIn
<1>3. QED
  BY <1>1, <1>2, FS_Subset, FS_CardinalityType

LEMMA OwnedNewSound ==
    ASSUME NEW n \in Nat
    PROVE  Sound(OwnedNew(n), n) /\ Marked(OwnedNew(n)) = {}
<1> DEFINE bf == OwnedNew(n)
<1>1. /\ bf \in [bytes : [DOMAIN bf.bytes -> SUBSET Offsets], cnt_marked : Nat, length : {n}]
      /\ DOMAIN bf.bytes = 1 .. ByteOf(n)
      /\ \A k \in 1 .. ByteOf(n) : bf.bytes[k] = {}
      /\ bf.length = n /\ bf.cnt_marked = 0
  BY DEF OwnedNew
<1>2. ASSUME NEW i \in 0 .. n - 1 PROVE ByteOf(i) \in 1 .. ByteOf(n)
  <2>1. ByteBits \in Nat \ {0} /\ i \in Nat /\ i < n
    BY BitfieldAssumption
  <2>2. i \div ByteBits <= n \div ByteBits /\ i \div ByteBits \in Nat /\ n \div ByteBits \in Nat
    BY <2>1
  <2>3. QED
    BY <2>2 DEF ByteOf
<1>3. Readable(bf.bytes, n)
  BY <1>1, <1>2 DEF Readable, Holds
<1>4. Marked(bf) = {}
  BY <1>1, <1>2 DEF Marked, MarkedIn, Get
<1>5. QED
  BY <1>1, <1>3, <1>4, FS_EmptySet DEF Sound

LEMMA RefNewSound ==
    ASSUME NEW n \in Nat, NEW b, b \in [DOMAIN b -> SUBSET Offsets], Readable(b, n)
    PROVE  Sound(RefNew(b, n), n)
<1> DEFINE bf == RefNew(b, n)
<1>1. /\ bf.bytes = b /\ bf.length = n
      /\ bf \in [bytes : {b}, cnt_marked : {bf.cnt_marked}, length : {n}]
  BY DEF RefNew
<1>2. bf.cnt_marked = Cardinality(MarkedIn(b, n))
  BY DEF RefNew
<1> HIDE DEF bf
<1>3. Marked(bf) = MarkedIn(b, n)
  BY <1>1 DEF Marked
<1>4. bf.cnt_marked \in Nat
  BY <1>1, <1>2, <1>3, MarkedFinite
<1>5. bf \in [bytes : [DOMAIN bf.bytes -> SUBSET Offsets], cnt_marked : Nat, length : {n}]
  BY <1>1, <1>4
<1>6. QED
  BY <1>1, <1>2, <1>3, <1>5 DEF Sound, bf

\* Viewing the bytes again changes nothing.
LEMMA ViewedAgain ==
    ASSUME NEW n \in Nat, NEW bf, Sound(bf, n)
    PROVE  Marked(RefNew(bf.bytes, n)) = Marked(bf)
<1>1. bf.length = n
  BY DEF Sound
<1>2. RefNew(bf.bytes, n).bytes = bf.bytes /\ RefNew(bf.bytes, n).length = n
  BY DEF RefNew
<1>3. QED
  BY <1>1, <1>2 DEF Marked, MarkedIn, Get

\* set marks the bit it is given and no other, in its byte and in the count.
LEMMA SetSound ==
    ASSUME NEW n \in Nat, NEW bf, Sound(bf, n), NEW i, ~SetPanics(bf, i)
    PROVE  Sound(Set(bf, i, TRUE), n) /\ Marked(Set(bf, i, TRUE)) = Marked(bf) \cup {i}
<1> DEFINE new == Set(bf, i, TRUE)
<1>1. /\ bf.length = n /\ bf.cnt_marked \in Nat
      /\ bf.bytes \in [DOMAIN bf.bytes -> SUBSET Offsets]
      /\ bf.cnt_marked = Cardinality(Marked(bf))
  BY DEF Sound
<1>2. i \in 0 .. n - 1 /\ i \in Nat /\ ByteOf(i) \in DOMAIN bf.bytes /\ OffsetOf(i) \in Offsets
  BY <1>1, OffsetInByte DEF SetPanics, Holds
<1>3. CASE Get(bf, i)
  <2>1. new = bf
    BY <1>3 DEF Set
  <2>2. i \in Marked(bf)
    BY <1>1, <1>2, <1>3 DEF Marked, MarkedIn, Get
  <2>3. QED
    BY <2>1, <2>2
<1>4. CASE ~Get(bf, i)
  <2>1. new = [bf EXCEPT !.bytes = Flip(bf, i), !.cnt_marked = @ + 1]
    BY <1>4 DEF Set, Get
  <2>2. Flip(bf, i) = [bf.bytes EXCEPT ![ByteOf(i)] = @ \cup {OffsetOf(i)}]
    BY <1>2, <1>4 DEF Flip, Get
  <2>3. /\ Flip(bf, i) \in [DOMAIN bf.bytes -> SUBSET Offsets]
        /\ DOMAIN Flip(bf, i) = DOMAIN bf.bytes
    BY <1>1, <1>2, <2>2
  <2>4. /\ new.bytes = Flip(bf, i) /\ new.length = n /\ new.cnt_marked = bf.cnt_marked + 1
        /\ new \in [bytes : [DOMAIN bf.bytes -> SUBSET Offsets], cnt_marked : Nat, length : {n}]
    <3> DEFINE f == Flip(bf, i)
               D == DOMAIN bf.bytes
    <3>1. f \in [D -> SUBSET Offsets]
      BY <2>3
    <3>2. bf \in [bytes : [D -> SUBSET Offsets], cnt_marked : Nat, length : {n}]
      BY DEF Sound
    <3>3. new = [bf EXCEPT !.bytes = f, !.cnt_marked = @ + 1]
      BY <2>1
    <3> HIDE DEF f, D, new
    <3>4. new.bytes = f /\ new.length = n /\ new.cnt_marked = bf.cnt_marked + 1
      BY <1>1, <3>2, <3>3
    <3> DEFINE F == [D -> SUBSET Offsets]
    <3> HIDE DEF F
    <3>5. new \in [bytes : F, cnt_marked : Nat, length : {n}]
      <4>1. f \in F /\ bf \in [bytes : F, cnt_marked : Nat, length : {n}]
        BY <3>1, <3>2 DEF F
      <4>2. bf.cnt_marked + 1 \in Nat
        BY <1>1
      <4>3. QED
        BY <3>3, <4>1, <4>2
    <3>6. QED
      BY <3>4, <3>5 DEF f, D, F
  <2>5. Readable(new.bytes, n)
    BY <2>3, <2>4 DEF Sound, Readable, Holds
  <2>6. ASSUME NEW j \in 0 .. n - 1 PROVE Get(new, j) <=> Get(bf, j) \/ j = i
    <3>1. j \in Nat /\ ByteOf(j) \in DOMAIN bf.bytes
      BY DEF Sound, Readable, Holds
    <3>2. CASE ByteOf(j) = ByteOf(i)
      <4>1. new.bytes[ByteOf(j)] = bf.bytes[ByteOf(j)] \cup {OffsetOf(i)}
        BY <1>1, <1>2, <2>2, <2>4, <3>2
      <4>2. OffsetOf(j) = OffsetOf(i) <=> j = i
        BY <1>2, <3>1, <3>2, BitsApart
      <4>3. QED
        BY <4>1, <4>2 DEF Get
    <3>3. CASE ByteOf(j) # ByteOf(i)
      BY <1>1, <2>2, <2>4, <3>1, <3>3 DEF Get
    <3>4. QED
      BY <3>2, <3>3
  <2> HIDE DEF new
  <2>7. Marked(new) = Marked(bf) \cup {i} /\ i \notin Marked(bf)
    BY <1>1, <1>2, <1>4, <2>4, <2>6 DEF Marked, MarkedIn, Get
  <2>8. Cardinality(Marked(new)) = Cardinality(Marked(bf)) + 1
    BY <1>1, <2>7, MarkedFinite, FS_AddElement
  <2>9. QED
    BY <1>1, <2>3, <2>4, <2>5, <2>7, <2>8 DEF Sound, new
<1>5. QED
  BY <1>3, <1>4

-----------------------------------------------------------------------------
(* The invariant of the connection *)

HaveInv ==
    /\ num_pieces \in Nat
    /\ Sound(have, num_pieces)
    /\ am_choked \in BOOLEAN

LEMMA InitHave == ASSUME Init PROVE HaveInv /\ Marked(have) = {}
  BY PeerWireAssumption, OwnedNewSound DEF Init, HaveInv

\* What a step of PeerWire does to our view of the peer.
LearnsHave(i) ==
    /\ i \in Pieces
    /\ have' = Set(have, i, TRUE) /\ ~SetPanics(have, i)
    /\ Offer({i})
    /\ UNCHANGED am_choked

LearnsBitfield(bytes) ==
    /\ have' = RefNew(bytes, num_pieces)
    /\ bytes \in [DOMAIN bytes -> SUBSET Offsets] /\ Readable(bytes, num_pieces)
    /\ Offer(Marked(RefNew(bytes, num_pieces)))
    /\ UNCHANGED am_choked

IsChoked == am_choked' = TRUE /\ UNCHANGED <<have, offered>>

IsUnchoked ==
    /\ am_choked' = FALSE
    /\ offered' = IF am_choked THEN offered \cup HeldBack ELSE offered
    /\ UNCHANGED have

LearnsNothing == UNCHANGED <<have, am_choked, offered>>

\* Nothing but Have, Bitfield, Choke and Unchoke changes what we believe.
LEMMA StepLearns ==
    ASSUME HaveInv, [Next]_vars
    PROVE  /\ num_pieces' = num_pieces
           /\ \/ \E i \in Pieces : LearnsHave(i)
              \/ \E bytes : LearnsBitfield(bytes)
              \/ IsChoked
              \/ IsUnchoked
              \/ LearnsNothing
<1>1. CASE HandleHave
  <2>1. CASE SetPanics(have, Head(channel).index)
    BY <1>1, <2>1 DEF HandleHave, Takes, LearnsNothing
  <2>2. CASE ~SetPanics(have, Head(channel).index)
    <3>1. Head(channel).index \in Pieces
      BY <2>2 DEF SetPanics, HaveInv, Sound, Pieces
    <3>2. QED
      BY <1>1, <2>2, <3>1 DEF HandleHave, Takes, Learnt, LearnsHave
  <2>3. QED
    BY <2>1, <2>2
<1>2. CASE HandleBitfield
  <2> DEFINE bytes == [k \in DOMAIN Head(channel).bytes |-> BitsOf(Head(channel).bytes[k])]
  <2>1. bytes \in [DOMAIN bytes -> SUBSET Offsets]
    BY DEF BitsOf
  <2>2. CASE ~Readable(bytes, num_pieces)
    BY <1>2, <2>2 DEF HandleBitfield, Takes, LearnsNothing
  <2>3. CASE Readable(bytes, num_pieces)
    BY <1>2, <2>1, <2>3 DEF HandleBitfield, Takes, LearnsBitfield
  <2>4. QED
    BY <2>2, <2>3
<1>3. CASE HandleChoke
  BY <1>3 DEF HandleChoke, Takes, IsChoked
<1>4. CASE HandleUnchoke
  BY <1>4 DEF HandleUnchoke, Takes, IsUnchoked
<1>5. CASE HandleRequest \/ HandleOther
  BY <1>5 DEF HandleRequest, HandleOther, Takes, LearnsNothing
<1>6. CASE RemoteNext
  BY <1>6 DEF RemoteNext, SayBitfield, SayHave, SayOther, Say, LearnsNothing
<1>7. CASE ReadMessage
  BY <1>7 DEF ReadMessage, LearnsNothing
<1>8. CASE Write \/ WriteKeepAlive \/ \E m \in OurMessages : Queue(m)
  BY <1>8 DEF Write, WriteKeepAlive, WriteMessage, Queue, inVars, LearnsNothing
<1>9. CASE UNCHANGED vars
  BY <1>9 DEF vars, inVars, LearnsNothing
<1>10. QED
  BY <1>1, <1>2, <1>3, <1>4, <1>5, <1>6, <1>7, <1>8, <1>9 DEF Next, PeerComNext

LEMMA NextHave == ASSUME HaveInv, [Next]_vars PROVE HaveInv'
<1>1. num_pieces' = num_pieces
  BY StepLearns
<1>2. CASE \E i \in Pieces : LearnsHave(i)
  BY <1>1, <1>2, SetSound DEF LearnsHave, HaveInv
<1>3. CASE \E bytes : LearnsBitfield(bytes)
  BY <1>1, <1>3, RefNewSound DEF LearnsBitfield, HaveInv
<1>4. CASE IsChoked \/ IsUnchoked \/ LearnsNothing
  BY <1>1, <1>4 DEF IsChoked, IsUnchoked, LearnsNothing, HaveInv
<1>5. QED
  BY <1>2, <1>3, <1>4, StepLearns

\* The count that Unchoke decides by is exact, for bytes of any size, spare bits
\* and bytes, Haves of pieces a Bitfield had announced, and Bitfields that come late.
THEOREM CountStaysExact == Spec => []CountExact
<1>1. Init => HaveInv
  BY InitHave
<1>2. HaveInv /\ [Next]_vars => HaveInv'
  BY NextHave
<1>3. HaveInv => CountExact
  BY DEF HaveInv, Sound, CountExact
<1>4. QED
  BY <1>1, <1>2, <1>3, PTL DEF Spec

-----------------------------------------------------------------------------
(* PeerWire implements PeerView *)

\* The test of the cached count loses no piece.
LEMMA HeldBackIsKnown == ASSUME HaveInv PROVE HeldBack = Marked(have)
<1>1. /\ IsFiniteSet(Marked(have))
      /\ have.cnt_marked = Cardinality(Marked(have))
      /\ Cardinality(Marked(have)) \in Nat
  BY MarkedFinite DEF HaveInv, Sound
<1>2. CASE have.cnt_marked > 0
  BY <1>2, ViewedAgain DEF HeldBack, HaveInv
<1>3. CASE ~(have.cnt_marked > 0)
  <2>1. Marked(have) = {}
    BY <1>1, <1>3, FS_EmptySet
  <2>2. QED
    BY <1>3, <2>1 DEF HeldBack
<1>4. QED
  BY <1>2, <1>3

LEMMA StepOfView == ASSUME HaveInv, [Next]_vars PROVE [View!Next]_View!vars
<1>1. num_pieces' = num_pieces /\ Pieces' = Pieces
  BY StepLearns DEF Pieces
<1>2. ASSUME NEW i \in Pieces, LearnsHave(i) PROVE View!Have(i)
  <2>1. Marked(have)' = Marked(have) \cup {i}
    BY <1>2, SetSound DEF LearnsHave, HaveInv
  <2>2. QED
    BY <1>1, <1>2, <2>1 DEF LearnsHave, Offer, View!Have, View!Offer
<1>3. ASSUME NEW bytes, LearnsBitfield(bytes) PROVE \E S \in SUBSET Pieces : View!Bitfield(S)
  <2> DEFINE S == Marked(RefNew(bytes, num_pieces))
  <2>1. S \subseteq Pieces
    BY DEF Marked, MarkedIn, RefNew, Pieces
  <2>2. Marked(have)' = S
    BY <1>3 DEF LearnsBitfield
  <2> HIDE DEF S
  <2>3. View!Bitfield(S)
    BY <1>1, <1>3, <2>2 DEF LearnsBitfield, Offer, View!Bitfield, View!Offer, S
  <2>4. QED
    BY <2>1, <2>3
<1>4. ASSUME IsChoked PROVE View!Choke
  BY <1>1, <1>4 DEF IsChoked, View!Choke
<1>5. ASSUME IsUnchoked PROVE View!Unchoke \/ UNCHANGED View!vars
  <2>1. CASE am_choked
    BY <1>1, <1>5, <2>1, HeldBackIsKnown DEF IsUnchoked, View!Unchoke
  <2>2. CASE ~am_choked
    BY <1>1, <1>5, <2>2 DEF IsUnchoked, HaveInv, View!vars
  <2>3. QED
    BY <2>1, <2>2
<1>6. ASSUME LearnsNothing PROVE UNCHANGED View!vars
  BY <1>1, <1>6 DEF LearnsNothing, View!vars
<1>7. QED
  BY <1>2, <1>3, <1>4, <1>5, <1>6, StepLearns DEF View!Next

\* The bytes of a connection implement the sets the download engine relies on.
THEOREM BytesImplementSets == Spec => ImplementsPeerView
<1>1. Init => HaveInv /\ View!Init
  BY InitHave DEF Init, View!Init
<1>2. HaveInv /\ [Next]_vars => HaveInv' /\ [View!Next]_View!vars
  BY NextHave, StepOfView
<1>3. QED
  BY <1>1, <1>2, PTL DEF Spec, View!Spec, ImplementsPeerView

-----------------------------------------------------------------------------
(* Numbers of four bytes *)

LEMMA U32Bytes ==
    ASSUME NEW n \in Nat
    PROVE  /\ U32(n) \in Seq(Nat) /\ Len(U32(n)) = 4
           /\ FitsU32(n) => n = 256 * (256 * (256 * U32(n)[1] + U32(n)[2]) + U32(n)[3]) + U32(n)[4]
<1>1. /\ (n \div 16777216) % 256 \in Nat /\ (n \div 65536) % 256 \in Nat
      /\ (n \div 256) % 256 \in Nat /\ n % 256 \in Nat
  OBVIOUS
<1>2. ASSUME FitsU32(n)
      PROVE  n = 256 * (256 * (256 * ((n \div 16777216) % 256) + ((n \div 65536) % 256))
                          + ((n \div 256) % 256)) + (n % 256)
  BY <1>2 DEF FitsU32
<1>3. QED
  BY <1>1, <1>2 DEF U32

\* What write_u32 wrote read_u32 reads, wherever it is in the buffer.
LEMMA ReadBack ==
    ASSUME NEW n \in Nat, FitsU32(n), NEW buf, NEW at \in Nat,
           \A j \in 0 .. 3 : buf[at + j] = U32(n)[j + 1]
    PROVE  ReadU32(buf, at) = n
<1>1. /\ buf[at] = U32(n)[1] /\ buf[at + 1] = U32(n)[2]
      /\ buf[at + 2] = U32(n)[3] /\ buf[at + 3] = U32(n)[4]
  <2>1. buf[at + 0] = U32(n)[0 + 1] /\ buf[at + 1] = U32(n)[1 + 1]
        /\ buf[at + 2] = U32(n)[2 + 1] /\ buf[at + 3] = U32(n)[3 + 1]
    OBVIOUS
  <2>2. at + 0 = at
    OBVIOUS
  <2>3. QED
    BY <2>1, <2>2
<1>2. QED
  BY <1>1, U32Bytes DEF ReadU32

-----------------------------------------------------------------------------
(* Bytes as sets of bits *)

LEMMA Pow2Is ==
    /\ Pow2[0] = 1
    /\ \A n \in Nat : Pow2[n] \in Nat \ {0} /\ Pow2[n + 1] = 2 * Pow2[n]
<1> DEFINE V == Nat \ {0}
           D == [x \in Nat \X V |-> 2 * x[2]]
           P(g) == g = [n \in Nat |-> IF n = 0 THEN 1 ELSE 2 * g[n - 1]]
<1>1. D \in [Nat \X V -> V] /\ 1 \in V /\ \A n \in Nat, v \in V : D[<<n, v>>] = 2 * v
  OBVIOUS
<1> HIDE DEF D
<1>2. PICK f \in [Nat -> V] : Unfolds(f, 1, D)
  <2> HIDE DEF V
  <2>1. QED
    BY <1>1, Recursion
<1>3. f[0] = 1 /\ \A n \in Nat : f[n] \in V /\ f[n + 1] = 2 * f[n]
  BY <1>1, <1>2 DEF Unfolds
<1>4. P(f)
  <2>1. ASSUME NEW n \in Nat PROVE f[n] = IF n = 0 THEN 1 ELSE 2 * f[n - 1]
    <3>1. CASE n = 0
      BY <1>3, <3>1
    <3>2. CASE n # 0
      <4>1. n - 1 \in Nat /\ (n - 1) + 1 = n
        BY <3>2
      <4>2. QED
        BY <1>3, <3>2, <4>1
    <3>3. QED
      BY <3>1, <3>2
  <2>2. QED
    BY <2>1
<1>5. P(Pow2)
  <2>1. Pow2 = CHOOSE g : P(g)
    BY DEF Pow2
  <2>2. QED
    BY <1>4, <2>1
<1>6. \A n \in Nat : Pow2[n] = IF n = 0 THEN 1 ELSE 2 * Pow2[n - 1]
  BY <1>5
<1> HIDE DEF P
<1> DEFINE T == {n \in Nat : Pow2[n] = f[n]}
<1>7. 0 \in T
  BY <1>3, <1>6
<1>8. ASSUME NEW n \in T PROVE n + 1 \in T
  <2>1. n \in Nat /\ n + 1 \in Nat /\ n + 1 # 0 /\ (n + 1) - 1 = n /\ Pow2[n] = f[n]
    OBVIOUS
  <2>2. Pow2[n + 1] = 2 * Pow2[n]
    BY <1>6, <2>1
  <2>3. QED
    BY <1>3, <2>1, <2>2
<1>9. T = Nat
  <2>1. T \in SUBSET Nat
    OBVIOUS
  <2> HIDE DEF T
  <2>2. QED
    BY <1>7, <1>8, <2>1, Induct
<1>10. \A n \in Nat : Pow2[n] = f[n] /\ n + 1 \in Nat
  BY <1>9
<1>11. QED
  BY <1>3, <1>10

\* Any set of bits is that of some byte.
LEMMA BitsFree ==
    ASSUME NEW B \in Nat, NEW S \in SUBSET (0 .. B - 1)
    PROVE  \E b \in 0 .. Pow2[B] - 1 : \A k \in 0 .. B - 1 : (b \div Pow2[k]) % 2 = 1 <=> k \in S
<1> DEFINE Marks(b, n, X) == \A k \in 0 .. n - 1 : (b \div Pow2[k]) % 2 = 1 <=> k \in X
           T == {n \in Nat : \A X \in SUBSET (0 .. n - 1) :
                                \E b \in 0 .. Pow2[n] - 1 : Marks(b, n, X)}
<1>1. 0 \in T
  <2>1. \A X : Marks(0, 0, X)
    OBVIOUS
  <2>2. 0 \in 0 .. Pow2[0] - 1
    BY Pow2Is
  <2>3. QED
    BY <2>1, <2>2
<1>2. ASSUME NEW n \in T PROVE n + 1 \in T
  <2> SUFFICES ASSUME NEW X \in SUBSET (0 .. n)
               PROVE  \E b \in 0 .. Pow2[n + 1] - 1 : Marks(b, n + 1, X)
    OBVIOUS
  <2> DEFINE Y == {k \in 0 .. n - 1 : k + 1 \in X}
  <2>1. n \in Nat /\ Y \in SUBSET (0 .. n - 1)
    OBVIOUS
  <2>2. PICK c \in 0 .. Pow2[n] - 1 : Marks(c, n, Y)
    BY <2>1
  <2>3. PICK r \in {0, 1} : r = 1 <=> 0 \in X
    OBVIOUS
  <2> DEFINE b == 2 * c + r
  <2>4. c \in Nat /\ b \in Nat /\ b \in 0 .. Pow2[n + 1] - 1
    BY <2>1, Pow2Is
  <2>5. (b \div Pow2[0]) % 2 = 1 <=> 0 \in X
    <3>1. b % 2 = r
      BY <2>4
    <3>2. b \div 1 = b
      BY <2>4
    <3>3. QED
      BY <2>3, <3>1, <3>2, Pow2Is
  <2>6. ASSUME NEW j \in 0 .. n - 1 PROVE b \div Pow2[j + 1] = c \div Pow2[j]
    <3> DEFINE p == Pow2[j]
               q == c \div p
               m == c % p
    <3>1. j \in Nat /\ p \in Nat \ {0} /\ Pow2[j + 1] = 2 * p
      BY <2>1, Pow2Is
    <3>2. q \in Nat /\ m \in 0 .. p - 1 /\ c = p * q + m
      BY <2>4, <3>1, Division
    <3> HIDE DEF p, q, m
    <3>3. 2 * p \in Nat \ {0} /\ 2 * m + r \in 0 .. 2 * p - 1
      BY <3>1, <3>2
    <3>4. b = (2 * p) * q + (2 * m + r)
      <4>1. 2 * (p * q + m) = (2 * p) * q + 2 * m
        BY <3>1, <3>2
      <4>2. QED
        BY <3>1, <3>2, <4>1
    <3> DEFINE d == 2 * p
               e == 2 * m + r
    <3>5. b \div (2 * p) = q
      <4>1. d \in Nat \ {0} /\ e \in 0 .. d - 1 /\ b = d * q + e /\ q \in Nat
        BY <3>2, <3>3, <3>4
      <4> HIDE DEF d, e, b
      <4>2. b \div d = q
        BY ONLY <4>1, DivisionUnique
      <4>3. QED
        BY <4>2 DEF d
    <3>6. QED
      BY <3>1, <3>5 DEF p, q
  <2>7. ASSUME NEW k \in 0 .. (n + 1) - 1 PROVE (b \div Pow2[k]) % 2 = 1 <=> k \in X
    <3>1. CASE k = 0
      BY <2>5, <3>1
    <3>2. CASE k # 0
      <4>1. k - 1 \in 0 .. n - 1 /\ (k - 1) + 1 = k
        BY <2>1, <3>2
      <4>2. b \div Pow2[k] = c \div Pow2[k - 1]
        BY <2>6, <4>1
      <4>3. (c \div Pow2[k - 1]) % 2 = 1 <=> k - 1 \in Y
        BY <2>2, <4>1
      <4>4. k - 1 \in Y <=> k \in X
        BY <4>1
      <4> HIDE DEF b, Y
      <4>5. QED
        BY <4>2, <4>3, <4>4
    <3>3. QED
      BY <3>1, <3>2
  <2>8. QED
    BY <2>4, <2>7
<1>3. T = Nat
  <2>1. T \in SUBSET Nat
    OBVIOUS
  <2> HIDE DEF T
  <2>2. QED
    BY <1>1, <1>2, <2>1, Induct
<1>4. QED
  BY <1>3

-----------------------------------------------------------------------------
(* A stream and the messages in it *)

\* The parts, one after the other, are the stream; part k ends at cuts[k].
CutInto(stream, parts, cuts) ==
    /\ cuts \in [0 .. Len(parts) -> Nat]
    /\ cuts[0] = 0 /\ cuts[Len(parts)] = Len(stream)
    /\ \A k \in 0 .. Len(parts) : \A j \in 0 .. k : cuts[j] <= cuts[k]
    /\ \A k \in 0 .. Len(parts) - 1 :
        /\ cuts[k + 1] = cuts[k] + Len(parts[k + 1])
        /\ \A j \in 1 .. Len(parts[k + 1]) : stream[cuts[k] + j] = parts[k + 1][j]

Joined(stream, parts) == \E cuts : CutInto(stream, parts, cuts)

LEMMA JoinedNone == Joined(<<>>, <<>>)
<1> DEFINE cuts == [k \in 0 .. 0 |-> 0]
<1>1. CutInto(<<>>, <<>>, cuts)
  BY DEF CutInto
<1>2. QED
  BY <1>1 DEF Joined

LEMMA JoinedAppend ==
    ASSUME NEW s \in Seq(Nat), NEW ps \in Seq(Seq(Nat)), Joined(s, ps), NEW p \in Seq(Nat)
    PROVE  Joined(s \o p, Append(ps, p))
<1> DEFINE n == Len(ps)
           t == s \o p
           qs == Append(ps, p)
<1>1. PICK cuts : CutInto(s, ps, cuts)
  BY DEF Joined
<1>2. /\ n \in Nat /\ Len(s) \in Nat /\ Len(p) \in Nat
      /\ Len(t) = Len(s) + Len(p)
      /\ \A j \in 1 .. Len(s) : t[j] = s[j]
      /\ \A j \in 1 .. Len(p) : t[Len(s) + j] = p[j]
      /\ Len(qs) = n + 1 /\ qs[n + 1] = p /\ \A k \in 1 .. n : qs[k] = ps[k] /\ Len(ps[k]) \in Nat
  OBVIOUS
<1>3. /\ cuts \in [0 .. n -> Nat] /\ cuts[0] = 0 /\ cuts[n] = Len(s)
      /\ \A k \in 0 .. n : \A j \in 0 .. k : cuts[j] <= cuts[k]
      /\ \A k \in 0 .. n - 1 :
          /\ cuts[k + 1] = cuts[k] + Len(ps[k + 1])
          /\ \A j \in 1 .. Len(ps[k + 1]) : s[cuts[k] + j] = ps[k + 1][j]
  BY <1>1 DEF CutInto
<1> HIDE DEF n, t, qs
<1> DEFINE new == [k \in 0 .. n + 1 |-> IF k = n + 1 THEN Len(t) ELSE cuts[k]]
<1>4. /\ new \in [0 .. n + 1 -> Nat] /\ new[n + 1] = Len(t)
      /\ \A k \in 0 .. n : new[k] = cuts[k]
  BY <1>2, <1>3
<1> HIDE DEF new
<1>5. \A k \in 0 .. n + 1 : \A j \in 0 .. k : new[j] <= new[k]
  <2>1. \A j \in 0 .. n : cuts[j] <= Len(s) /\ cuts[j] \in Nat
    BY <1>2, <1>3
  <2>2. ASSUME NEW k \in 0 .. n + 1, NEW j \in 0 .. k PROVE new[j] <= new[k]
    <3>1. CASE k \in 0 .. n
      <4>1. j \in 0 .. n /\ new[j] = cuts[j] /\ new[k] = cuts[k]
        BY <1>2, <1>4, <3>1
      <4>2. cuts[j] <= cuts[k]
        BY <1>3, <3>1
      <4>3. QED
        BY <4>1, <4>2
    <3>2. CASE k = n + 1 /\ j = n + 1
      BY <1>4, <3>2, <1>2
    <3>3. CASE k = n + 1 /\ j \in 0 .. n
      <4>1. new[j] = cuts[j] /\ new[k] = Len(t)
        BY <1>4, <3>3
      <4>2. QED
        BY <1>2, <2>1, <3>3, <4>1
    <3>4. QED
      BY <1>2, <3>1, <3>2, <3>3
  <2>3. QED
    BY <2>2
<1>6. ASSUME NEW k \in 0 .. n
      PROVE  /\ new[k + 1] = new[k] + Len(qs[k + 1])
             /\ \A j \in 1 .. Len(qs[k + 1]) : t[new[k] + j] = qs[k + 1][j]
  <2>1. CASE k = n
    <3>1. n \in 0 .. n
      BY <1>2
    <3>2. new[k] = Len(s) /\ new[k + 1] = Len(t) /\ qs[k + 1] = p
      BY <1>2, <1>3, <1>4, <2>1, <3>1
    <3>3. QED
      BY <1>2, <3>2
  <2>2. CASE k # n
    <3>1. /\ k \in 0 .. n - 1 /\ k + 1 \in 1 .. n /\ k + 1 \in 0 .. n
          /\ new[k] = cuts[k] /\ new[k + 1] = cuts[k + 1] /\ qs[k + 1] = ps[k + 1]
      BY <1>2, <1>4, <2>2
    <3>2. cuts[k + 1] <= Len(s) /\ cuts[k] \in Nat /\ Len(ps[k + 1]) \in Nat
      BY <1>2, <1>3, <3>1
    <3>3. cuts[k + 1] = cuts[k] + Len(ps[k + 1])
      BY <1>3, <3>1
    <3>4. ASSUME NEW j \in 1 .. Len(ps[k + 1]) PROVE t[cuts[k] + j] = ps[k + 1][j]
      <4>1. s[cuts[k] + j] = ps[k + 1][j]
        BY <1>3, <3>1
      <4>2. cuts[k] + j \in 1 .. Len(s)
        <5> DEFINE c == cuts[k]
                   l == Len(ps[k + 1])
        <5>1. c \in Nat /\ l \in Nat /\ c + l <= Len(s) /\ Len(s) \in Nat /\ j \in 1 .. l
          BY <1>2, <3>2, <3>3
        <5> HIDE DEF c, l
        <5>2. c + j \in 1 .. Len(s)
          BY ONLY <5>1
        <5>3. QED
          BY <5>2 DEF c
      <4>3. QED
        BY <1>2, <4>1, <4>2
    <3>5. QED
      BY <3>1, <3>3, <3>4
  <2>3. QED
    BY <2>1, <2>2
<1>7. CutInto(t, qs, new)
  BY <1>2, <1>3, <1>4, <1>5, <1>6 DEF CutInto
<1>8. QED
  BY <1>7 DEF Joined, t, qs

LEMMA JoinedHead ==
    ASSUME NEW s \in Seq(Nat), NEW ps \in Seq(Seq(Nat)), Joined(s, ps), ps # <<>>
    PROVE  LET p == ps[1] IN
           /\ p \in Seq(Nat) /\ Len(p) <= Len(s)
           /\ \A j \in 1 .. Len(p) : s[j] = p[j]
           /\ Joined(SubSeq(s, Len(p) + 1, Len(s)), Tail(ps))
<1> DEFINE n == Len(ps)
           p == ps[1]
           m == Len(p)
           t == SubSeq(s, m + 1, Len(s))
           qs == Tail(ps)
<1>1. PICK cuts : CutInto(s, ps, cuts)
  BY DEF Joined
<1>2. /\ n \in Nat \ {0} /\ p \in Seq(Nat) /\ Len(s) \in Nat /\ m \in Nat
      /\ \A k \in 1 .. n : Len(ps[k]) \in Nat
      /\ Len(qs) = n - 1 /\ \A k \in 1 .. n - 1 : qs[k] = ps[k + 1]
  OBVIOUS
<1>3. /\ cuts \in [0 .. n -> Nat] /\ cuts[0] = 0 /\ cuts[n] = Len(s)
      /\ \A k \in 0 .. n : \A j \in 0 .. k : cuts[j] <= cuts[k]
      /\ \A k \in 0 .. n - 1 :
          /\ cuts[k + 1] = cuts[k] + Len(ps[k + 1])
          /\ \A j \in 1 .. Len(ps[k + 1]) : s[cuts[k] + j] = ps[k + 1][j]
  BY <1>1 DEF CutInto
<1>4. cuts[1] = m /\ m <= Len(s) /\ \A j \in 1 .. m : s[j] = p[j]
  <2>1. 0 \in 0 .. n - 1 /\ 1 \in 0 .. n /\ 0 + 1 = 1 /\ n \in 0 .. n /\ 1 \in 0 .. n
    BY <1>2
  <2>2. cuts[0 + 1] = cuts[0] + Len(ps[0 + 1])
        /\ \A j \in 1 .. Len(ps[0 + 1]) : s[cuts[0] + j] = ps[0 + 1][j]
    BY <1>3, <2>1
  <2>3. cuts[1] <= cuts[n]
    BY <1>2, <1>3, <2>1
  <2>4. QED
    BY <1>2, <1>3, <2>1, <2>2, <2>3
<1>5. /\ Len(t) = Len(s) - m
      /\ \A j \in 1 .. Len(s) - m : t[j] = s[m + j]
  <2> DEFINE l == Len(s)
  <2>1. m \in Nat /\ l \in Nat /\ m <= l
    BY <1>2, <1>4
  <2> HIDE DEF m
  <2>2. /\ Len(t) = IF m + 1 <= l THEN l - (m + 1) + 1 ELSE 0
        /\ \A j \in 1 .. l - (m + 1) + 1 : t[j] = s[(m + 1) + j - 1]
    BY <2>1
  <2>3. \A j \in 1 .. l - m : j \in 1 .. l - (m + 1) + 1 /\ (m + 1) + j - 1 = m + j
    BY <2>1
  <2> HIDE DEF t
  <2>4. ASSUME NEW j \in 1 .. l - m PROVE t[j] = s[m + j]
    <3>1. j \in 1 .. l - (m + 1) + 1 /\ (m + 1) + j - 1 = m + j
      BY <2>3
    <3>2. t[j] = s[(m + 1) + j - 1]
      BY <2>2, <3>1
    <3>3. QED
      BY <3>1, <3>2
  <2>5. Len(t) = l - m
    BY <2>1, <2>2
  <2>6. QED
    BY <2>4, <2>5
<1> HIDE DEF n, m, t, qs
<1> DEFINE new == [k \in 0 .. n - 1 |-> cuts[k + 1] - m]
<1>6. ASSUME NEW k \in 0 .. n - 1
      PROVE  /\ new[k] = cuts[k + 1] - m /\ new[k] \in Nat /\ k + 1 \in 0 .. n
             /\ cuts[k + 1] \in Nat
  BY <1>2, <1>3, <1>4
<1>7. new \in [0 .. n - 1 -> Nat] /\ new[0] = 0 /\ new[n - 1] = Len(t)
  <2>1. 0 \in 0 .. n - 1 /\ n - 1 \in 0 .. n - 1 /\ (n - 1) + 1 = n /\ 0 + 1 = 1
    BY <1>2
  <2>2. new[0] = cuts[1] - m /\ new[n - 1] = cuts[n] - m
    BY <1>6, <2>1
  <2>3. new[0] = 0 /\ new[n - 1] = Len(t)
    BY <1>2, <1>3, <1>4, <1>5, <2>2
  <2>4. new = [k \in 0 .. n - 1 |-> new[k]]
    OBVIOUS
  <2> HIDE DEF new
  <2>5. QED
    BY <1>6, <2>3, <2>4
<1> HIDE DEF new
<1>8. ASSUME NEW k \in 0 .. n - 1, NEW j \in 0 .. k PROVE new[j] <= new[k]
  <2>1. j \in 0 .. n - 1 /\ j + 1 \in 0 .. k + 1 /\ k + 1 \in 0 .. n
    BY <1>2
  <2>2. cuts[j + 1] <= cuts[k + 1]
    BY <1>3, <2>1
  <2>3. QED
    BY <1>2, <1>6, <2>1, <2>2
<1>9. ASSUME NEW k \in 0 .. n - 2
      PROVE  /\ new[k + 1] = new[k] + Len(qs[k + 1])
             /\ \A j \in 1 .. Len(qs[k + 1]) : t[new[k] + j] = qs[k + 1][j]
  <2> DEFINE i == k + 1
             q == ps[i + 1]
  <2>1. /\ i \in 0 .. n - 1 /\ i \in 1 .. n - 1 /\ i + 1 \in 1 .. n /\ i + 1 \in 0 .. n
        /\ k \in 0 .. n - 1 /\ n \in 0 .. n
        /\ qs[i] = q /\ Len(q) \in Nat
    BY <1>2
  <2>2. cuts[i + 1] = cuts[i] + Len(q) /\ \A j \in 1 .. Len(q) : s[cuts[i] + j] = q[j]
    BY <1>3, <2>1
  <2>3. new[k] = cuts[i] - m /\ new[i] = cuts[i + 1] - m
    BY <1>6, <2>1
  <2>4. cuts[i] \in Nat /\ cuts[i + 1] \in Nat /\ cuts[i + 1] <= Len(s) /\ m <= cuts[i]
    <3>1. i + 1 \in 0 .. n /\ 1 \in 0 .. i /\ i \in 0 .. n
      BY <1>2, <2>1
    <3>2. cuts[i + 1] <= cuts[n] /\ cuts[1] <= cuts[i]
      BY <1>3, <2>1, <3>1
    <3>3. cuts[i] \in Nat /\ cuts[i + 1] \in Nat
      BY <1>3, <3>1
    <3>4. QED
      BY <1>3, <1>4, <3>2, <3>3
  <2> HIDE DEF q
  <2>5. ASSUME NEW j \in 1 .. Len(q) PROVE t[new[k] + j] = q[j]
    <3>1. new[k] + j \in 1 .. Len(s) - m /\ m + (new[k] + j) = cuts[i] + j
      <4> DEFINE a == cuts[i]
                 l == Len(q)
      <4>1. /\ a \in Nat /\ l \in Nat /\ m \in Nat /\ Len(s) \in Nat /\ j \in 1 .. l
            /\ a + l <= Len(s) /\ m <= a /\ new[k] = a - m
        BY <1>2, <2>1, <2>2, <2>3, <2>4
      <4> HIDE DEF a, l
      <4>2. new[k] + j \in 1 .. Len(s) - m /\ m + (new[k] + j) = a + j
        BY ONLY <4>1
      <4>3. QED
        BY <4>2 DEF a
    <3>2. t[new[k] + j] = s[m + (new[k] + j)]
      BY <1>5, <3>1
    <3>3. QED
      BY <2>2, <3>1, <3>2
  <2>6. new[i] = new[k] + Len(q)
    BY <1>2, <2>1, <2>2, <2>3, <2>4
  <2>7. QED
    BY <2>1, <2>5, <2>6
<1>10. CutInto(t, qs, new)
  <2>1. Len(qs) = n - 1 /\ (n - 1) - 1 = n - 2
    BY <1>2
  <2>2. QED
    BY <1>7, <1>8, <1>9, <2>1 DEF CutInto
<1>11. QED
  BY <1>2, <1>4, <1>10 DEF Joined, t, qs, m

LEMMA ConcatIs ==
    ASSUME NEW s \in Seq(Nat), NEW t \in Seq(Nat)
    PROVE  /\ s \o t \in Seq(Nat) /\ Len(s \o t) = Len(s) + Len(t)
           /\ \A j \in 1 .. Len(s) : (s \o t)[j] = s[j]
           /\ \A j \in 1 .. Len(t) : (s \o t)[Len(s) + j] = t[j]
<1>1. Len(s) \in Nat /\ Len(t) \in Nat
  OBVIOUS
<1>2. QED
  BY <1>1

\* A stream that starts with a message is cut after it.
LEMMA FrameRead ==
    ASSUME NEW stream \in Seq(Nat), NEW body \in Seq(Nat), FitsU32(Len(body)),
           NEW frame, frame = U32(Len(body)) \o body, Len(frame) <= Len(stream),
           \A j \in 1 .. Len(frame) : stream[j] = frame[j]
    PROVE  /\ Arrived(stream)
           /\ FirstFrame(stream) = frame
           /\ AfterFrame(stream) = SubSeq(stream, Len(frame) + 1, Len(stream))
<1> DEFINE l == Len(body)
           u == U32(l)
<1>1. l \in Nat /\ u \in Seq(Nat) /\ Len(u) = 4 /\ Len(stream) \in Nat
  <2>1. l \in Nat /\ Len(stream) \in Nat
    OBVIOUS
  <2> HIDE DEF l
  <2>2. QED
    BY <2>1, U32Bytes
<1>0. FitsU32(l) /\ frame = u \o body
  OBVIOUS
<1> HIDE DEF u
<1>2. /\ frame \in Seq(Nat) /\ Len(frame) = 4 + l
      /\ \A j \in 1 .. 4 : frame[j] = u[j]
  <2>1. u \in Seq(Nat) /\ body \in Seq(Nat) /\ frame = u \o body /\ Len(u) = 4
    BY <1>0, <1>1
  <2> HIDE DEF u, l
  <2>2. /\ u \o body \in Seq(Nat) /\ Len(u \o body) = Len(u) + Len(body)
        /\ \A j \in 1 .. Len(u) : (u \o body)[j] = u[j]
    BY <2>1, ConcatIs
  <2>3. QED
    BY <2>1, <2>2 DEF l
<1> HIDE DEF l
<1>3. ASSUME NEW j \in 0 .. 3 PROVE stream[1 + j] = u[j + 1]
  <2>1. 1 + j \in 1 .. 4 /\ 1 + j = j + 1
    OBVIOUS
  <2>2. 1 + j \in 1 .. Len(frame)
    <3> DEFINE n == Len(frame)
    <3>1. n = 4 + l /\ l \in Nat
      BY <1>1, <1>2
    <3> HIDE DEF n
    <3>2. 1 + j \in 1 .. n
      BY ONLY <3>1
    <3>3. QED
      BY <3>2 DEF n
  <2>3. QED
    BY <1>2, <2>1, <2>2
<1>4. ReadU32(stream, 1) = l
  <2>1. \A j \in 0 .. 3 : stream[1 + j] = U32(l)[j + 1]
    BY <1>3 DEF u
  <2>2. QED
    BY <1>0, <1>1, <2>1, ReadBack
<1>5. Arrived(stream)
  <2>1. Len(stream) >= 4 /\ Len(stream) - 4 >= l
    BY <1>1, <1>2
  <2>2. QED
    BY <1>4, <2>1 DEF Arrived
<1>6. AfterFrame(stream) = SubSeq(stream, Len(frame) + 1, Len(stream))
  <2>1. 5 + l = Len(frame) + 1
    BY <1>1, <1>2
  <2>2. QED
    BY <1>4, <2>1 DEF AfterFrame
<1>7. FirstFrame(stream) = frame
  <2>1. FirstFrame(stream) = SubSeq(stream, 1, Len(frame))
    BY <1>2, <1>4 DEF FirstFrame
  <2>2. Len(frame) \in 0 .. Len(stream)
    BY <1>1, <1>2
  <2> DEFINE first == SubSeq(stream, 1, Len(frame))
  <2>3. /\ first \in Seq(Nat) /\ Len(first) = Len(frame)
        /\ \A j \in 1 .. Len(frame) : first[j] = stream[j]
    <3> DEFINE n == Len(frame)
    <3>1. n \in 0 .. Len(stream)
      BY <2>2
    <3> HIDE DEF n
    <3>2. /\ SubSeq(stream, 1, n) \in Seq(Nat) /\ Len(SubSeq(stream, 1, n)) = n
          /\ \A j \in 1 .. n : SubSeq(stream, 1, n)[j] = stream[j]
      BY <1>1, <3>1
    <3>3. QED
      BY <3>2 DEF n
  <2>4. ASSUME NEW j \in 1 .. Len(frame) PROVE first[j] = frame[j]
    BY <2>3
  <2> HIDE DEF first
  <2>5. first = frame
    BY <1>2, <2>3, <2>4, SeqEqual
  <2>6. QED
    BY <2>1, <2>5 DEF first
<1>8. QED
  BY <1>5, <1>6, <1>7

\* The rest of a stream is shorter.
LEMMA RestShorter ==
    ASSUME NEW stream \in Seq(Nat), Arrived(stream)
    PROVE  /\ FirstFrame(stream) \in Seq(Nat)
           /\ AfterFrame(stream) \in Seq(Nat) /\ Len(AfterFrame(stream)) < Len(stream)
<1> DEFINE n == Len(stream)
           l == ReadU32(stream, 1)
<1>1. n \in Nat /\ n >= 4
  BY DEF Arrived
<1>2. stream[1] \in Nat /\ stream[2] \in Nat /\ stream[3] \in Nat /\ stream[4] \in Nat
  BY <1>1
<1>3. l \in Nat
  <2>1. l = 256 * (256 * (256 * stream[1] + stream[2]) + stream[3]) + stream[4]
    BY DEF ReadU32
  <2> HIDE DEF l
  <2> DEFINE a == stream[1]
             b == stream[2]
             c == stream[3]
             d == stream[4]
  <2>2. l = 256 * (256 * (256 * a + b) + c) + d /\ a \in Nat /\ b \in Nat /\ c \in Nat /\ d \in Nat
    BY <1>2, <2>1
  <2> HIDE DEF a, b, c, d
  <2>3. QED
    BY ONLY <2>2
<1>4. n - 4 >= l
  BY DEF Arrived
<1> HIDE DEF l
<1>5. FirstFrame(stream) \in Seq(Nat)
  <2>1. 4 + l \in 0 .. n
    BY <1>1, <1>3, <1>4
  <2>2. SubSeq(stream, 1, 4 + l) \in Seq(Nat)
    BY <2>1
  <2>3. QED
    BY <2>2 DEF FirstFrame, l
<1>6. SubSeq(stream, 5 + l, n) \in Seq(Nat) /\ Len(SubSeq(stream, 5 + l, n)) = n - (4 + l)
  BY <1>1, <1>3, <1>4
<1>7. n - (4 + l) < n
  BY <1>1, <1>3
<1>8. QED
  BY <1>5, <1>6, <1>7 DEF AfterFrame, l

\* Frames is the function its definition asks for.
LEMMA FramesAre ==
    ASSUME NEW stream \in Seq(Nat)
    PROVE  /\ Frames[stream] \in Seq(Seq(Nat))
           /\ Frames[stream] = IF Arrived(stream)
                               THEN <<FirstFrame(stream)>> \o Frames[AfterFrame(stream)] ELSE <<>>
<1> DEFINE S == Seq(Nat)
           R == Seq(Seq(Nat))
           V == [S -> R]
           G(g, s) == IF Arrived(s) THEN <<FirstFrame(s)>> \o g[AfterFrame(s)] ELSE <<>>
           P(g) == g = [s \in S |-> G(g, s)]
           none == [s \in S |-> <<>>]
           D == [x \in Nat \X V |-> [s \in S |-> G(x[2], s)]]
<1>1. ASSUME NEW s \in S, NEW g, Arrived(s) => g[AfterFrame(s)] \in R PROVE G(g, s) \in R
  <2>1. CASE Arrived(s)
    <3>1. FirstFrame(s) \in Seq(Nat) /\ g[AfterFrame(s)] \in R
      BY <1>1, <2>1, RestShorter
    <3>2. QED
      BY <2>1, <3>1
  <2>2. CASE ~Arrived(s)
    BY <2>2
  <2>3. QED
    BY <2>1, <2>2
<1>2. none \in V
  OBVIOUS
<1>3. /\ D \in [Nat \X V -> V]
      /\ \A n \in Nat, g \in V : D[<<n, g>>] = [s \in S |-> G(g, s)]
  <2>1. ASSUME NEW g \in V, NEW s \in S PROVE G(g, s) \in R
    <3>1. Arrived(s) => g[AfterFrame(s)] \in R
      BY RestShorter
    <3> HIDE DEF G, R, S
    <3>2. QED
      BY <1>1, <3>1
  <2> HIDE DEF G
  <2>2. QED
    BY <2>1
<1> HIDE DEF D, none
<1>4. PICK f \in [Nat -> V] : Unfolds(f, none, D)
  <2> HIDE DEF V
  <2>1. QED
    BY <1>2, <1>3, Recursion
<1>5. ASSUME NEW n \in Nat, NEW s \in S PROVE f[n + 1][s] = G(f[n], s)
  <2>1. f[n] \in V /\ f[n + 1] = D[<<n, f[n]>>]
    BY <1>4 DEF Unfolds
  <2>2. D[<<n, f[n]>>] = [t \in S |-> G(f[n], t)]
    <3> HIDE DEF G, V
    <3>1. QED
      BY <1>3, <2>1
  <2> HIDE DEF G
  <2>3. QED
    BY <2>1, <2>2
<1> DEFINE h == [s \in S |-> f[Len(s) + 1][s]]
           A == {n \in Nat : \A s \in S : Len(s) < n => f[n + 1][s] = f[n][s]}
           B == {n \in Nat : \A s \in S : Len(s) < n => f[n][s] = h[s]}
<1>6. A = Nat
  <2>1. A \in SUBSET Nat /\ 0 \in A
    <3>1. \A s \in S : Len(s) \in Nat
      OBVIOUS
    <3>2. QED
      BY <3>1
  <2>2. ASSUME NEW n \in A PROVE n + 1 \in A
    <3>1. ASSUME NEW s \in S, Len(s) < n + 1 PROVE f[(n + 1) + 1][s] = f[n + 1][s]
      <4>1. n \in Nat /\ n + 1 \in Nat /\ Len(s) \in Nat
        OBVIOUS
      <4>2. Arrived(s) => f[n + 1][AfterFrame(s)] = f[n][AfterFrame(s)]
        <5>1. Arrived(s) => AfterFrame(s) \in S /\ Len(AfterFrame(s)) \in Nat
                              /\ Len(AfterFrame(s)) < Len(s)
          BY RestShorter
        <5>2. QED
          BY <3>1, <4>1, <5>1
      <4>3. G(f[n + 1], s) = G(f[n], s)
        BY <4>2
      <4> HIDE DEF G
      <4>4. QED
        BY <1>5, <4>1, <4>3
    <3>2. QED
      BY <3>1
  <2> HIDE DEF A
  <2>3. QED
    BY <2>1, <2>2, Induct
<1>7. B = Nat
  <2>1. B \in SUBSET Nat /\ 0 \in B
    <3>1. \A s \in S : Len(s) \in Nat
      OBVIOUS
    <3>2. QED
      BY <3>1
  <2>2. ASSUME NEW n \in B PROVE n + 1 \in B
    <3>1. ASSUME NEW s \in S, Len(s) < n + 1 PROVE f[n + 1][s] = h[s]
      <4>1. n \in Nat /\ n \in A /\ Len(s) \in Nat
        <5>1. n \in Nat /\ Len(s) \in Nat
          OBVIOUS
        <5> HIDE DEF A
        <5>2. QED
          BY <1>6, <5>1
      <4>2. CASE Len(s) = n
        BY <4>2
      <4>3. CASE Len(s) # n
        <5>1. Len(s) < n
          BY <3>1, <4>1, <4>3
        <5>2. f[n][s] = h[s]
          BY <5>1
        <5>3. f[n + 1][s] = f[n][s]
          BY <4>1, <5>1
        <5>4. QED
          BY <5>2, <5>3
      <4>4. QED
        BY <4>2, <4>3
    <3>2. QED
      BY <3>1
  <2> HIDE DEF B
  <2>3. QED
    BY <2>1, <2>2, Induct
<1>8. P(h)
  <2>1. ASSUME NEW s \in S PROVE h[s] = G(h, s)
    <3>1. Len(s) \in Nat /\ h[s] = f[Len(s) + 1][s]
      OBVIOUS
    <3>2. h[s] = G(f[Len(s)], s)
      <4> HIDE DEF G, h
      <4>1. QED
        BY <1>5, <3>1
    <3>3. Arrived(s) => f[Len(s)][AfterFrame(s)] = h[AfterFrame(s)]
      <4>1. Arrived(s) => AfterFrame(s) \in S /\ Len(AfterFrame(s)) < Len(s)
        BY RestShorter
      <4>2. Len(s) \in B
        BY <1>7, <3>1
      <4> HIDE DEF h
      <4>3. QED
        BY <4>1, <4>2
    <3> HIDE DEF h
    <3>4. QED
      BY <3>2, <3>3
  <2> HIDE DEF G
  <2>2. QED
    BY <2>1
<1>9. P(Frames)
  <2>1. Frames = CHOOSE g : P(g)
    BY DEF Frames
  <2> HIDE DEF P
  <2>2. QED
    BY <1>8, <2>1
<1>10. ASSUME NEW s \in S PROVE Frames[s] = G(Frames, s)
  <2> HIDE DEF G
  <2>1. QED
    BY <1>9
<1> DEFINE C == {n \in Nat : \A s \in S : Len(s) < n => Frames[s] \in R}
<1>11. C = Nat
  <2>1. C \in SUBSET Nat /\ 0 \in C
    <3>1. \A s \in S : Len(s) \in Nat
      OBVIOUS
    <3>2. QED
      BY <3>1
  <2>2. ASSUME NEW n \in C PROVE n + 1 \in C
    <3>1. ASSUME NEW s \in S, Len(s) < n + 1 PROVE Frames[s] \in R
      <4>1. Arrived(s) => AfterFrame(s) \in S /\ Len(AfterFrame(s)) \in Nat
                            /\ Len(AfterFrame(s)) < Len(s)
        BY RestShorter
      <4>2. n \in Nat /\ Len(s) \in Nat
        OBVIOUS
      <4>3. Arrived(s) => Frames[AfterFrame(s)] \in R
        BY <3>1, <4>1, <4>2
      <4> HIDE DEF G, R, S
      <4>4. QED
        BY <1>1, <1>10, <4>3
    <3>2. QED
      BY <3>1
  <2> HIDE DEF C
  <2>3. QED
    BY <2>1, <2>2, Induct
<1>12. Frames[stream] \in R
  <2>1. Len(stream) \in Nat /\ Len(stream) + 1 \in C /\ Len(stream) < Len(stream) + 1
    <3>1. Len(stream) \in Nat
      OBVIOUS
    <3> HIDE DEF C
    <3>2. QED
      BY <1>11, <3>1
  <2>2. QED
    BY <2>1
<1>13. QED
  BY <1>10, <1>12

-----------------------------------------------------------------------------
(* The messages of the remote peer *)

LEMMA SmallFits == FitsU32(0) /\ FitsU32(1) /\ FitsU32(2) /\ FitsU32(5) /\ FitsU32(10) /\ FitsU32(13)
  BY DEF FitsU32

LEMMA LessFits == ASSUME NEW n \in Nat, FitsU32(n), NEW i \in 0 .. n PROVE FitsU32(i)
  BY DEF FitsU32

LEMMA IdsAre ==
    /\ MsgId["Choke"] = 0 /\ MsgId["Unchoke"] = 1 /\ MsgId["Interested"] = 2
    /\ MsgId["NotInterested"] = 3 /\ MsgId["Have"] = 4 /\ MsgId["Bitfield"] = 5
    /\ MsgId["Request"] = 6 /\ MsgId["Piece"] = 7 /\ MsgId["Cancel"] = 8
  BY DEF MsgId

\* A message of length, id and payload.
Headed(id, pay) == <<id>> \o pay

Laid(id, pay) == U32(Len(Headed(id, pay))) \o Headed(id, pay)

LEMMA Layout ==
    ASSUME NEW id \in Nat, NEW pay \in Seq(Nat)
    PROVE  /\ Headed(id, pay) \in Seq(Nat) /\ Len(Headed(id, pay)) = 1 + Len(pay)
           /\ Laid(id, pay) \in Seq(Nat) /\ Len(Laid(id, pay)) = 5 + Len(pay)
           /\ Laid(id, pay)[5] = id
           /\ \A j \in 1 .. Len(pay) : Laid(id, pay)[5 + j] = pay[j]
<1> DEFINE body == Headed(id, pay)
           buf == Laid(id, pay)
           n == Len(pay)
           first == <<id>>
<1>1. n \in Nat /\ first \in Seq(Nat) /\ Len(first) = 1 /\ first[1] = id
  OBVIOUS
<1>2. body = first \o pay
  BY DEF Headed
<1> HIDE DEF body, first
<1>3. /\ body \in Seq(Nat) /\ Len(body) = 1 + n
      /\ body[1] = id /\ \A j \in 1 .. n : body[1 + j] = pay[j]
  <2> DEFINE cat == first \o pay
  <2>0. first \in Seq(Nat)
    BY <1>1
  <2>1. /\ cat \in Seq(Nat) /\ Len(cat) = Len(first) + Len(pay)
        /\ \A j \in 1 .. Len(first) : cat[j] = first[j]
        /\ \A j \in 1 .. Len(pay) : cat[Len(first) + j] = pay[j]
    BY ONLY <2>0, pay \in Seq(Nat), ConcatIs
  <2>2. body = cat
    BY <1>2
  <2> HIDE DEF cat
  <2>3. QED
    BY <1>1, <2>1, <2>2
<1> DEFINE l == Len(body)
           u == U32(l)
<1>4. u \in Seq(Nat) /\ Len(u) = 4 /\ buf = u \o body
  <2>1. l \in Nat /\ buf = u \o body
    BY <1>1, <1>3 DEF Laid, body
  <2> HIDE DEF l
  <2>2. QED
    BY <2>1, U32Bytes
<1> HIDE DEF u, buf, l
<1>5. /\ buf \in Seq(Nat) /\ Len(buf) = 4 + Len(body)
      /\ \A j \in 1 .. Len(body) : buf[4 + j] = body[j]
  <2> DEFINE cat == u \o body
             k == Len(body)
  <2>1. u \in Seq(Nat) /\ Len(u) = 4 /\ body \in Seq(Nat) /\ k \in Nat
    BY <1>1, <1>3, <1>4
  <2>0. u \in Seq(Nat) /\ body \in Seq(Nat)
    BY <2>1
  <2>2. /\ cat \in Seq(Nat) /\ Len(cat) = Len(u) + Len(body)
        /\ \A j \in 1 .. Len(body) : cat[Len(u) + j] = body[j]
    BY ONLY <2>0, ConcatIs
  <2>3. buf = cat
    BY <1>4
  <2> HIDE DEF cat
  <2>4. QED
    BY <2>1, <2>2, <2>3
<1>6. buf[5] = id
  <2>1. 1 \in 1 .. 1 + n /\ 4 + 1 = 5
    BY <1>1
  <2>2. QED
    BY <1>3, <1>5, <2>1
<1>7. ASSUME NEW j \in 1 .. n PROVE buf[5 + j] = pay[j]
  <2>1. 1 + j \in 1 .. 1 + n /\ 4 + (1 + j) = 5 + j
    BY <1>1
  <2>2. QED
    BY <1>3, <1>5, <2>1
<1>8. Len(buf) = 5 + n
  BY <1>1, <1>3, <1>5
<1>9. QED
  BY <1>3, <1>5, <1>6, <1>7, <1>8 DEF body, buf

\* Payloads that start with one or two numbers.
LEMMA PayloadOne ==
    ASSUME NEW id \in Nat, NEW a \in Nat, FitsU32(a)
    PROVE  U32(a) \in Seq(Nat) /\ Len(U32(a)) = 4 /\ ReadU32(Laid(id, U32(a)), 6) = a
<1> DEFINE u == U32(a)
           buf == Laid(id, u)
<1>1. u \in Seq(Nat) /\ Len(u) = 4
  BY U32Bytes
<1> HIDE DEF u
<1>2. \A j \in 1 .. 4 : buf[5 + j] = u[j]
  <2>1. \A j \in 1 .. Len(u) : Laid(id, u)[5 + j] = u[j]
    BY <1>1, Layout
  <2>2. QED
    BY <1>1, <2>1
<1> HIDE DEF buf
<1>3. ASSUME NEW j \in 0 .. 3 PROVE buf[6 + j] = u[j + 1]
  <2>1. j + 1 \in 1 .. 4 /\ 5 + (j + 1) = 6 + j
    OBVIOUS
  <2>2. QED
    BY <1>2, <2>1
<1>4. QED
  BY <1>1, <1>3, ReadBack DEF buf, u

Numbered(a, b, rest) == U32(a) \o U32(b) \o rest

\* Where a reader finds the two numbers and the rest.
ReadsTwo(id, a, b, rest) ==
    LET pay == Numbered(a, b, rest)
        buf == Laid(id, pay)
    IN  /\ pay \in Seq(Nat) /\ Len(pay) = 8 + Len(rest)
        /\ ReadU32(buf, 6) = a /\ ReadU32(buf, 10) = b
        /\ \A j \in 1 .. Len(rest) : buf[13 + j] = rest[j]

LEMMA PayloadTwo ==
    ASSUME NEW id \in Nat, NEW a \in Nat, FitsU32(a), NEW b \in Nat, FitsU32(b),
           NEW rest \in Seq(Nat)
    PROVE  ReadsTwo(id, a, b, rest)
<1> DEFINE u == U32(a)
           v == U32(b)
           w == u \o v
           pay == Numbered(a, b, rest)
           buf == Laid(id, pay)
           n == Len(rest)
<1>0. pay = w \o rest
  BY DEF Numbered
<1> HIDE DEF pay
<1>1. u \in Seq(Nat) /\ Len(u) = 4 /\ v \in Seq(Nat) /\ Len(v) = 4 /\ n \in Nat
  BY U32Bytes
<1> HIDE DEF u, v
<1>2. /\ w \in Seq(Nat) /\ Len(w) = 8
      /\ \A j \in 1 .. 4 : w[j] = u[j] /\ w[4 + j] = v[j]
  <2>0. u \in Seq(Nat) /\ v \in Seq(Nat)
    BY <1>1
  <2>1. /\ w \in Seq(Nat) /\ Len(w) = Len(u) + Len(v)
        /\ \A j \in 1 .. Len(u) : w[j] = u[j]
        /\ \A j \in 1 .. Len(v) : w[Len(u) + j] = v[j]
    BY ONLY <2>0, ConcatIs
  <2> HIDE DEF w
  <2>2. QED
    BY <1>1, <2>1
<1> HIDE DEF w
<1>3. /\ pay \in Seq(Nat) /\ Len(pay) = 8 + n
      /\ \A j \in 1 .. 8 : pay[j] = w[j]
      /\ \A j \in 1 .. n : pay[8 + j] = rest[j]
  <2>1. /\ w \o rest \in Seq(Nat) /\ Len(w \o rest) = Len(w) + n
        /\ \A j \in 1 .. Len(w) : (w \o rest)[j] = w[j]
        /\ \A j \in 1 .. n : (w \o rest)[Len(w) + j] = rest[j]
    BY <1>2, ConcatIs
  <2>2. QED
    BY <1>0, <1>2, <2>1
<1>4. \A j \in 1 .. 8 + n : buf[5 + j] = pay[j]
  <2>1. \A j \in 1 .. Len(pay) : Laid(id, pay)[5 + j] = pay[j]
    BY <1>3, Layout
  <2>2. QED
    BY <1>3, <2>1
<1> HIDE DEF buf
<1>5. ASSUME NEW j \in 0 .. 3 PROVE buf[6 + j] = u[j + 1] /\ buf[10 + j] = v[j + 1]
  <2>1. /\ j + 1 \in 1 .. 4 /\ j + 1 \in 1 .. 8 /\ 4 + (j + 1) \in 1 .. 8
        /\ j + 1 \in 1 .. 8 + n /\ 4 + (j + 1) \in 1 .. 8 + n
        /\ 5 + (j + 1) = 6 + j /\ 5 + (4 + (j + 1)) = 10 + j
    BY <1>1
  <2>2. w[j + 1] = u[j + 1] /\ w[4 + (j + 1)] = v[j + 1]
    BY <1>2, <2>1
  <2>3. pay[j + 1] = w[j + 1] /\ pay[4 + (j + 1)] = w[4 + (j + 1)]
    BY <1>3, <2>1
  <2>4. buf[6 + j] = pay[j + 1] /\ buf[10 + j] = pay[4 + (j + 1)]
    BY <1>4, <2>1
  <2>5. QED
    BY <2>2, <2>3, <2>4
<1>6. ReadU32(buf, 6) = a /\ ReadU32(buf, 10) = b
  <2>1. \A j \in 0 .. 3 : buf[6 + j] = U32(a)[j + 1]
    BY <1>5 DEF u
  <2>2. \A j \in 0 .. 3 : buf[10 + j] = U32(b)[j + 1]
    BY <1>5 DEF v
  <2>3. ReadU32(buf, 6) = a
    BY ONLY <2>1, ReadBack, a \in Nat, FitsU32(a)
  <2>4. ReadU32(buf, 10) = b
    BY ONLY <2>2, ReadBack, b \in Nat, FitsU32(b)
  <2>5. QED
    BY <2>3, <2>4
<1>7. ASSUME NEW j \in 1 .. n PROVE buf[13 + j] = rest[j]
  <2>1. 8 + j \in 1 .. 8 + n /\ 5 + (8 + j) = 13 + j
    BY <1>1
  <2>2. buf[13 + j] = pay[8 + j]
    BY <1>4, <2>1
  <2>3. QED
    BY <1>3, <2>2
<1>8. QED
  BY <1>3, <1>6, <1>7 DEF pay, buf, ReadsTwo

LEMMA SubSeqIs ==
    ASSUME NEW buf \in Seq(Nat), NEW n \in Nat, NEW rest \in Seq(Nat), Len(buf) = n + Len(rest),
           \A j \in 1 .. Len(rest) : buf[n + j] = rest[j]
    PROVE  SubSeq(buf, n + 1, Len(buf)) = rest
<1> DEFINE s == SubSeq(buf, n + 1, Len(buf))
           l == Len(rest)
           k == Len(buf)
<1>1. l \in Nat /\ k \in Nat /\ k = n + l
  OBVIOUS
<1>2. s \in Seq(Nat) /\ Len(s) = k - n /\ \A j \in 1 .. k - n : s[j] = buf[(n + 1) + j - 1]
  <2>1. n + 1 \in 1 .. k + 1
    BY <1>1
  <2>2. n + 1 <= k => /\ s \in Seq(Nat) /\ Len(s) = k - (n + 1) + 1
                      /\ \A j \in 1 .. k - (n + 1) + 1 : s[j] = buf[(n + 1) + j - 1]
    BY <1>1, <2>1
  <2>3. n + 1 > k => s = <<>>
    BY <1>1
  <2>4. k - (n + 1) + 1 = k - n
    BY <1>1
  <2> HIDE DEF s, k
  <2>5. CASE n + 1 <= k
    BY <2>2, <2>4, <2>5
  <2>6. CASE n + 1 > k
    BY <1>1, <2>3, <2>6
  <2>7. QED
    BY <1>1, <2>5, <2>6
<1> HIDE DEF s, k
<1>3. ASSUME NEW j \in 1 .. l PROVE s[j] = rest[j]
  <2>1. j \in 1 .. k - n /\ (n + 1) + j - 1 = n + j
    BY <1>1
  <2>2. s[j] = buf[n + j]
    BY <1>2, <2>1
  <2>3. QED
    BY <2>2
<1>4. Len(s) = l
  BY <1>1, <1>2
<1> HIDE DEF l
<1>5. s = rest
  <2>1. s \in Seq(Nat) /\ rest \in Seq(Nat) /\ Len(s) = Len(rest)
    BY <1>2, <1>4 DEF l
  <2>2. \A j \in 1 .. Len(s) : s[j] = rest[j]
    BY <1>3, <1>4
  <2>3. QED
    BY <2>1, <2>2, SeqEqual
<1>6. QED
  BY <1>5 DEF s, k

\* What rh makes of a message: our peer's interest is taken for a keep-alive.
ReadsAs(m) == IF m.type \in {"Interested", "NotInterested"} THEN KeepAlive ELSE m

LEMMA PlainFrame ==
    ASSUME NEW type \in {"Choke", "Unchoke", "Interested", "NotInterested"}, NEW m, m = Plain(type)
    PROVE  /\ Payload(m) = <<>> /\ MsgId[type] \in 0 .. 3
           /\ Frame(m) = Laid(MsgId[type], <<>>)
           /\ Deserialize(Frame(m)) = ReadsAs(m)
<1> DEFINE buf == Laid(MsgId[type], <<>>)
<1>1. m.type = type /\ Payload(m) = <<>>
  BY DEF Plain, Payload
<1>2. MsgId[type] \in 0 .. 3
  BY IdsAre
<1>3. Frame(m) = buf
  BY <1>1 DEF Frame, Laid, Headed
<1> DEFINE id == MsgId[type]
           none == <<>>
<1>4. buf[5] = id
  <2>1. id \in Nat /\ none \in Seq(Nat)
    BY <1>2
  <2> HIDE DEF id, none
  <2>2. Laid(id, none)[5] = id
    BY <2>1, Layout
  <2>3. QED
    BY <2>2 DEF id, none
<1> HIDE DEF buf
<1>5. Deserialize(buf) = ReadsAs(m)
  BY <1>1, <1>4, IdsAre DEF Deserialize, ReadsAs, Plain
<1>6. QED
  BY <1>1, <1>2, <1>3, <1>5 DEF buf

LEMMA HaveFrame ==
    ASSUME NEW i \in Nat, FitsU32(i), NEW m, m = [type |-> "Have", index |-> i]
    PROVE  /\ Payload(m) = U32(i)
           /\ Frame(m) = Laid(4, U32(i))
           /\ Deserialize(Frame(m)) = ReadsAs(m)
<1> DEFINE buf == Laid(4, U32(i))
<1>1. m.type = "Have" /\ m.index = i /\ Payload(m) = U32(i)
  BY DEF Payload
<1>2. Frame(m) = buf
  BY <1>1, IdsAre DEF Frame, Laid, Headed
<1>3. buf[5] = 4
  BY Layout, PayloadOne
<1>4. ReadU32(buf, 6) = i
  BY PayloadOne
<1> HIDE DEF buf
<1>5. Deserialize(buf) = ReadsAs(m)
  BY <1>1, <1>3, <1>4 DEF Deserialize, ReadsAs
<1>6. QED
  BY <1>1, <1>2, <1>5 DEF buf

LEMMA BitfieldFrame ==
    ASSUME NEW bytes \in Seq(Nat), NEW m, m = [type |-> "Bitfield", bytes |-> bytes]
    PROVE  /\ Payload(m) = bytes
           /\ Frame(m) = Laid(5, bytes)
           /\ Deserialize(Frame(m)) = ReadsAs(m)
<1> DEFINE buf == Laid(5, bytes)
<1>1. m.type = "Bitfield" /\ m.bytes = bytes /\ Payload(m) = bytes
  BY DEF Payload
<1>2. Frame(m) = buf
  BY <1>1, IdsAre DEF Frame, Laid, Headed
<1>3. /\ buf \in Seq(Nat) /\ Len(buf) = 5 + Len(bytes) /\ buf[5] = 5
      /\ \A j \in 1 .. Len(bytes) : buf[5 + j] = bytes[j]
  BY Layout
<1> HIDE DEF buf
<1>4. SubSeq(buf, 5 + 1, Len(buf)) = bytes
  BY <1>3, SubSeqIs
<1>5. SubSeq(buf, 6, Len(buf)) = bytes
  BY <1>4
<1>6. Deserialize(buf) = [type |-> "Bitfield", bytes |-> SubSeq(buf, 6, Len(buf))]
  <2>1. buf[5] = 5
    BY <1>3
  <2>2. QED
    BY ONLY <2>1 DEF Deserialize
<1>7. Deserialize(buf) = ReadsAs(m)
  BY <1>1, <1>5, <1>6 DEF ReadsAs
<1>8. QED
  BY <1>1, <1>2, <1>7 DEF buf

LEMMA BlockFrame ==
    ASSUME NEW type \in {"Request", "Cancel"},
           NEW a \in Nat, FitsU32(a), NEW b \in Nat, FitsU32(b), NEW c \in Nat, FitsU32(c),
           NEW m, m = Block(type, a, b, c)
    PROVE  /\ Payload(m) = Numbered(a, b, U32(c)) /\ MsgId[type] \in {6, 8}
           /\ Frame(m) = Laid(MsgId[type], Numbered(a, b, U32(c)))
           /\ Deserialize(Frame(m)) = ReadsAs(m)
<1> DEFINE u == U32(c)
           pay == Numbered(a, b, u)
           buf == Laid(MsgId[type], pay)
<1>1. /\ m.type = type /\ m.index = a /\ m.begin = b /\ m.length = c
      /\ m = [type |-> type, index |-> a, begin |-> b, length |-> c]
  BY DEF Block
<1>2. Payload(m) = pay
  BY <1>1 DEF Payload, Numbered
<1>3. MsgId[type] \in {6, 8} /\ (type = "Request" <=> MsgId[type] = 6)
  BY IdsAre
<1>4. u \in Seq(Nat) /\ Len(u) = 4
  BY U32Bytes
<1>5. Frame(m) = buf
  BY <1>1, <1>2 DEF Frame, Laid, Headed
<1>6. MsgId[type] \in Nat
  BY <1>3
<1> DEFINE id == MsgId[type]
<1> HIDE DEF u, id
<1>7. /\ pay \in Seq(Nat) /\ ReadU32(buf, 6) = a /\ ReadU32(buf, 10) = b
      /\ \A j \in 1 .. Len(u) : buf[13 + j] = u[j]
  <2>1. ReadsTwo(id, a, b, u)
    BY <1>4, <1>6, PayloadTwo DEF id
  <2>2. QED
    BY <2>1 DEF ReadsTwo, id
<1>8. buf[5] = id
  BY <1>6, <1>7, Layout DEF id
<1> HIDE DEF buf
<1>9. ReadU32(buf, 14) = c
  <2>1. ASSUME NEW j \in 0 .. 3 PROVE buf[14 + j] = u[j + 1]
    <3>1. j + 1 \in 1 .. 4 /\ 13 + (j + 1) = 14 + j
      OBVIOUS
    <3>2. QED
      BY <1>4, <1>7, <3>1
  <2>2. \A j \in 0 .. 3 : buf[14 + j] = U32(c)[j + 1]
    BY <2>1 DEF u
  <2>3. QED
    BY ONLY <2>2, ReadBack, c \in Nat, FitsU32(c)
<1>10. Deserialize(buf) = ReadsAs(m)
  <2>1. CASE type = "Request"
    <3>1. buf[5] = 6
      BY <1>3, <1>8, <2>1 DEF id
    <3>2. Deserialize(buf) = Block("Request", a, b, c)
      BY <1>7, <1>9, <3>1 DEF Deserialize
    <3>3. QED
      BY <1>1, <2>1, <3>2 DEF ReadsAs
  <2>2. CASE type = "Cancel"
    <3>1. buf[5] = 8
      BY <1>8, <2>2, IdsAre DEF id
    <3>2. Deserialize(buf) = Block("Cancel", a, b, c)
      BY <1>7, <1>9, <3>1 DEF Deserialize
    <3>3. QED
      BY <1>1, <2>2, <3>2 DEF ReadsAs
  <2>3. QED
    BY <2>1, <2>2
<1>11. QED
  BY <1>2, <1>3, <1>5, <1>10 DEF buf, u

LEMMA PieceFrame ==
    ASSUME NEW a \in Nat, FitsU32(a), NEW b \in Nat, FitsU32(b), NEW block \in Seq(Nat),
           NEW m, m = Piece(a, b, block)
    PROVE  /\ Payload(m) = Numbered(a, b, block)
           /\ Frame(m) = Laid(7, Numbered(a, b, block))
           /\ Deserialize(Frame(m)) = ReadsAs(m)
<1> DEFINE pay == Numbered(a, b, block)
           buf == Laid(7, pay)
<1>1. /\ m.type = "Piece" /\ m.index = a /\ m.begin = b /\ m.block = block
      /\ m = [type |-> "Piece", index |-> a, begin |-> b, block |-> block]
  BY DEF Piece
<1>2. Payload(m) = pay
  BY <1>1 DEF Payload, Numbered
<1>3. Frame(m) = buf
  BY <1>1, <1>2, IdsAre DEF Frame, Laid, Headed
<1>4. /\ pay \in Seq(Nat) /\ Len(pay) = 8 + Len(block)
      /\ ReadU32(buf, 6) = a /\ ReadU32(buf, 10) = b
      /\ \A j \in 1 .. Len(block) : buf[13 + j] = block[j]
  <2>1. ReadsTwo(7, a, b, block)
    BY PayloadTwo
  <2>2. QED
    BY <2>1 DEF ReadsTwo
<1> HIDE DEF pay
<1>5. buf \in Seq(Nat) /\ Len(buf) = 5 + Len(pay) /\ buf[5] = 7
  BY <1>4, Layout
<1> HIDE DEF buf
<1>6. SubSeq(buf, 13 + 1, Len(buf)) = block
  <2>1. Len(buf) = 13 + Len(block)
    BY <1>4, <1>5
  <2>2. QED
    BY <1>4, <1>5, <2>1, SubSeqIs
<1>7. SubSeq(buf, 14, Len(buf)) = block
  BY <1>6
<1>8. Deserialize(buf) = Piece(a, b, block)
  <2>1. buf[5] = 7
    BY <1>5
  <2>2. Deserialize(buf) = Piece(ReadU32(buf, 6), ReadU32(buf, 10), SubSeq(buf, 14, Len(buf)))
    BY ONLY <2>1 DEF Deserialize
  <2>3. QED
    BY <1>4, <1>7, <2>2
<1>9. QED
  BY <1>1, <1>2, <1>3, <1>8 DEF buf, pay, ReadsAs

\* The bytes of a Bitfield mark its pieces and no others, the highest bit first.
LEMMA BytesOfIs ==
    ASSUME num_pieces \in Nat \ {0}, NEW S, S \subseteq Pieces
    PROVE  /\ BytesFor(num_pieces) \in Nat
           /\ BytesOf(S) \in Seq(Nat) /\ Len(BytesOf(S)) = BytesFor(num_pieces)
           /\ \A k \in 1 .. BytesFor(num_pieces) :
                 BitsOf(BytesOf(S)[k])
                    = {ByteBits - 1 - OffsetOf(i) : i \in {j \in S : ByteOf(j) = k}}
<1> DEFINE n == BytesFor(num_pieces)
           Bits(k) == {ByteBits - 1 - OffsetOf(i) : i \in {j \in S : ByteOf(j) = k}}
           byte(k) == CHOOSE b \in 0 .. Pow2[ByteBits] - 1 : BitsOf(b) = Bits(k)
<1>1. ByteBits \in Nat \ {0}
  BY BitfieldAssumption
<1>2. n \in Nat
  BY <1>1 DEF BytesFor
<1>3. ASSUME NEW k PROVE byte(k) \in Nat /\ BitsOf(byte(k)) = Bits(k)
  <2>1. Bits(k) \in SUBSET (0 .. ByteBits - 1)
    <3>1. ASSUME NEW i \in S PROVE ByteBits - 1 - OffsetOf(i) \in 0 .. ByteBits - 1
      <4>1. i \in Nat
        BY DEF Pieces
      <4>2. OffsetOf(i) \in 0 .. ByteBits - 1
        BY <4>1, OffsetInByte DEF Offsets
      <4>3. QED
        BY <1>1, <4>2
    <3>2. QED
      BY <3>1
  <2> HIDE DEF Bits
  <2>2. PICK b \in 0 .. Pow2[ByteBits] - 1 :
           \A j \in 0 .. ByteBits - 1 : (b \div Pow2[j]) % 2 = 1 <=> j \in Bits(k)
    BY <1>1, <2>1, BitsFree
  <2>3. BitsOf(b) = Bits(k)
    BY <2>1, <2>2 DEF BitsOf, Offsets
  <2>4. byte(k) \in 0 .. Pow2[ByteBits] - 1 /\ BitsOf(byte(k)) = Bits(k)
    BY <2>3
  <2>5. QED
    BY <1>1, <2>4, Pow2Is
<1>4. BytesOf(S) = [k \in 1 .. n |-> byte(k)]
  BY DEF BytesOf
<1> HIDE DEF byte, n
<1>5. QED
  BY <1>2, <1>3, <1>4 DEF n

\* What the peer may have said, given the pieces of its Bitfield.
Announcement == [type |-> "Bitfield", bytes |-> BytesOf(bitfield)]

HaveMessages == {[type |-> "Have", index |-> i] : i \in Pieces}

SaidMessages == OtherMessages \cup HaveMessages \cup {Announcement}

\* A message without its length.
Body(m) == IF m.type = "KeepAlive" THEN <<>> ELSE Headed(MsgId[m.type], Payload(m))

FrameIs(m) ==
    /\ Body(m) \in Seq(Nat) /\ FitsU32(Len(Body(m)))
    /\ Frame(m) = U32(Len(Body(m))) \o Body(m)
    /\ Frame(m) \in Seq(Nat) /\ Len(Frame(m)) = 4 + Len(Body(m))
    /\ m.type # "KeepAlive" => Len(Body(m)) > 0

LEMMA KeepAliveFrame == FrameIs(KeepAlive)
<1> DEFINE none == <<>>
<1>1. KeepAlive.type = "KeepAlive" /\ Body(KeepAlive) = none /\ Frame(KeepAlive) = U32(0)
  BY DEF KeepAlive, Plain, Body, Frame
<1>2. U32(0) \in Seq(Nat) /\ Len(U32(0)) = 4
  BY U32Bytes
<1>3. none \in Seq(Nat) /\ Len(none) = 0
  OBVIOUS
<1>4. U32(0) \o none = U32(0)
  BY <1>2
<1>5. QED
  BY <1>1, <1>2, <1>3, <1>4, SmallFits DEF FrameIs

LEMMA FrameOfPayload ==
    ASSUME NEW m, m.type # "KeepAlive", MsgId[m.type] \in Nat,
           Payload(m) \in Seq(Nat), FitsU32(1 + Len(Payload(m)))
    PROVE  FrameIs(m)
<1> DEFINE id == MsgId[m.type]
           pay == Payload(m)
           n == Len(pay)
<1>1. Body(m) = Headed(id, pay)
  BY DEF Body
<1>2. Frame(m) = Laid(id, pay)
  BY DEF Frame, Laid, Headed
<1>3. n \in Nat /\ id \in Nat /\ pay \in Seq(Nat) /\ FitsU32(1 + n)
  OBVIOUS
<1> HIDE DEF id, pay
<1>4. /\ Headed(id, pay) \in Seq(Nat) /\ Len(Headed(id, pay)) = 1 + n
      /\ Laid(id, pay) \in Seq(Nat) /\ Len(Laid(id, pay)) = 5 + n
  BY <1>3, Layout
<1> HIDE DEF n
<1>5. 5 + n = 4 + (1 + n) /\ 1 + n > 0
  BY <1>3
<1>6. Frame(m) = U32(Len(Body(m))) \o Body(m)
  BY <1>1, <1>2 DEF Laid
<1>7. QED
  BY <1>1, <1>2, <1>3, <1>4, <1>5, <1>6 DEF FrameIs

LEMMA OthersSaid ==
    ASSUME num_pieces \in Lengths, NEW m \in OtherMessages
    PROVE  FrameIs(m) /\ (m.type # "KeepAlive" => Deserialize(Frame(m)) = ReadsAs(m))
<1> DEFINE last == num_pieces - 1
<1>1. last \in Nat /\ FitsU32(last)
  BY PeerWireAssumption, FourBytes, LessFits
<1> HIDE DEF last
<1>2. CASE m = Plain("KeepAlive")
  BY <1>2, KeepAliveFrame DEF KeepAlive, Plain
<1>3. ASSUME NEW type \in {"Choke", "Unchoke", "Interested", "NotInterested"}, m = Plain(type)
      PROVE  FrameIs(m) /\ Deserialize(Frame(m)) = ReadsAs(m)
  <2>1. m.type = type /\ m.type # "KeepAlive"
    BY <1>3 DEF Plain
  <2>2. /\ Payload(m) = <<>> /\ MsgId[type] \in 0 .. 3
        /\ Deserialize(Frame(m)) = ReadsAs(m)
    BY <1>3, PlainFrame
  <2>3. Payload(m) \in Seq(Nat) /\ 1 + Len(Payload(m)) = 1 /\ MsgId[type] \in Nat
    BY <2>2
  <2>4. QED
    BY <2>1, <2>2, <2>3, SmallFits, FrameOfPayload
<1>4. ASSUME NEW type \in {"Request", "Cancel"}, m = Block(type, last, 2, 1)
      PROVE  FrameIs(m) /\ Deserialize(Frame(m)) = ReadsAs(m)
  <2>1. m.type = type /\ m.type # "KeepAlive"
    BY <1>4 DEF Block
  <2>2. /\ Payload(m) = Numbered(last, 2, U32(1)) /\ MsgId[type] \in {6, 8}
        /\ Deserialize(Frame(m)) = ReadsAs(m)
    BY <1>1, <1>4, SmallFits, BlockFrame
  <2>3. U32(1) \in Seq(Nat) /\ Len(U32(1)) = 4
    BY U32Bytes
  <2>4. ReadsTwo(MsgId[type], last, 2, U32(1))
    BY <1>1, <2>2, <2>3, SmallFits, PayloadTwo
  <2>5. Payload(m) \in Seq(Nat) /\ 1 + Len(Payload(m)) = 13 /\ MsgId[type] \in Nat
    <3> DEFINE pay == Numbered(last, 2, U32(1))
           l == Len(U32(1))
    <3>1. pay \in Seq(Nat) /\ Len(pay) = 8 + l
      BY <2>4 DEF ReadsTwo
    <3>2. Payload(m) = pay
      BY <2>2
    <3>3. l = 4
      BY <2>3
    <3> HIDE DEF pay, l
    <3>4. 1 + Len(pay) = 13
      BY ONLY <3>1, <3>3
    <3>5. Payload(m) \in Seq(Nat) /\ 1 + Len(Payload(m)) = 13
      BY ONLY <3>1, <3>2, <3>4, Zenon
    <3>6. MsgId[type] \in Nat
      BY ONLY <2>2
    <3>7. QED
      BY ONLY <3>5, <3>6
  <2>6. QED
    BY <2>1, <2>2, <2>5, SmallFits, FrameOfPayload
<1>5. ASSUME m = Piece(last, 2, << 1 >>)
      PROVE  FrameIs(m) /\ Deserialize(Frame(m)) = ReadsAs(m)
  <2>1. m.type = "Piece" /\ m.type # "KeepAlive"
    BY <1>5 DEF Piece
  <2> DEFINE block == <<1>>
  <2>2. block \in Seq(Nat) /\ Len(block) = 1
    OBVIOUS
  <2>3. m = Piece(last, 2, block)
    BY <1>5
  <2> HIDE DEF block
  <2>4. /\ Payload(m) = Numbered(last, 2, block)
        /\ Deserialize(Frame(m)) = ReadsAs(m)
    BY <1>1, <2>2, <2>3, SmallFits, PieceFrame
  <2>5. ReadsTwo(7, last, 2, block)
    BY <1>1, <2>2, SmallFits, PayloadTwo
  <2>6. Payload(m) \in Seq(Nat) /\ 1 + Len(Payload(m)) = 10 /\ MsgId[m.type] \in Nat
    <3> DEFINE pay == Numbered(last, 2, block)
           l == Len(block)
    <3>1. pay \in Seq(Nat) /\ Len(pay) = 8 + l
      BY <2>5 DEF ReadsTwo
    <3>2. Payload(m) = pay
      BY <2>4
    <3>3. l = 1
      BY <2>2
    <3> HIDE DEF pay, l
    <3>4. 1 + Len(pay) = 10
      BY ONLY <3>1, <3>3
    <3>5. Payload(m) \in Seq(Nat) /\ 1 + Len(Payload(m)) = 10
      BY ONLY <3>1, <3>2, <3>4, Zenon
    <3>6. MsgId[m.type] = 7 /\ 7 \in Nat
      BY <2>1, IdsAre
    <3>7. QED
      BY ONLY <3>5, <3>6
  <2>7. QED
    BY <2>1, <2>4, <2>6, SmallFits, FrameOfPayload
<1>6. QED
  BY <1>2, <1>3, <1>4, <1>5 DEF OtherMessages, last, KeepAlive, Plain

LEMMA BitfieldSaid ==
    ASSUME num_pieces \in Lengths, NEW S, S \subseteq Pieces,
           NEW m, m = [type |-> "Bitfield", bytes |-> BytesOf(S)]
    PROVE  FrameIs(m) /\ Deserialize(Frame(m)) = ReadsAs(m)
<1> DEFINE bytes == BytesOf(S)
<1>1. num_pieces \in Nat \ {0} /\ FitsU32(1 + BytesFor(num_pieces))
  BY PeerWireAssumption, FourBytes
<1>2. bytes \in Seq(Nat) /\ Len(bytes) = BytesFor(num_pieces)
  BY <1>1, BytesOfIs
<1>3. m = [type |-> "Bitfield", bytes |-> bytes] /\ m.type = "Bitfield" /\ m.type # "KeepAlive"
  OBVIOUS
<1> HIDE DEF bytes
<1>4. Payload(m) = bytes /\ Deserialize(Frame(m)) = ReadsAs(m)
  BY <1>2, <1>3, BitfieldFrame
<1>5. Payload(m) \in Seq(Nat) /\ FitsU32(1 + Len(Payload(m))) /\ MsgId[m.type] \in Nat
  BY <1>1, <1>2, <1>3, <1>4, IdsAre
<1>6. QED
  BY <1>3, <1>4, <1>5, FrameOfPayload

\* Every message of the peer is framed, and read as it was said.
LEMMA SaidFrames ==
    ASSUME num_pieces \in Lengths, bitfield \subseteq Pieces, NEW m \in SaidMessages
    PROVE  FrameIs(m) /\ (m.type # "KeepAlive" => Deserialize(Frame(m)) = ReadsAs(m))
<1>1. num_pieces \in Nat \ {0} /\ FitsU32(num_pieces) /\ FitsU32(1 + BytesFor(num_pieces))
  BY PeerWireAssumption, FourBytes
<1>2. CASE m \in OtherMessages
  BY <1>2, OthersSaid
<1>3. ASSUME NEW i \in Pieces, m = [type |-> "Have", index |-> i]
      PROVE  FrameIs(m) /\ Deserialize(Frame(m)) = ReadsAs(m)
  <2>1. m.type = "Have" /\ m.type # "KeepAlive"
    BY <1>3
  <2>2. i \in Nat /\ FitsU32(i)
    BY <1>1, LessFits DEF Pieces
  <2>3. Payload(m) = U32(i) /\ Deserialize(Frame(m)) = ReadsAs(m)
    BY <1>3, <2>2, HaveFrame
  <2>4. Payload(m) \in Seq(Nat) /\ 1 + Len(Payload(m)) = 5 /\ MsgId[m.type] \in Nat
    <3>1. U32(i) \in Seq(Nat) /\ Len(U32(i)) = 4
      BY <2>2, U32Bytes
    <3>2. QED
      BY <2>1, <2>3, <3>1, IdsAre
  <2>5. QED
    BY <2>1, <2>3, <2>4, SmallFits, FrameOfPayload
<1>4. CASE m = Announcement
  BY <1>4, BitfieldSaid DEF Announcement
<1>5. QED
  BY <1>2, <1>3, <1>4 DEF SaidMessages, HaveMessages

-----------------------------------------------------------------------------
(* From the remote peer to peer_com *)

FramesOf(ms) == [k \in 1 .. Len(ms) |-> Frame(ms[k])]

LEMMA FramesOfIs ==
    ASSUME NEW M, \A m \in M : Frame(m) \in Seq(Nat), NEW ms \in Seq(M)
    PROVE  /\ FramesOf(ms) \in Seq(Seq(Nat)) /\ Len(FramesOf(ms)) = Len(ms)
           /\ \A k \in 1 .. Len(ms) : FramesOf(ms)[k] = Frame(ms[k])
           /\ \A m \in M : FramesOf(Append(ms, m)) = Append(FramesOf(ms), Frame(m))
           /\ ms # <<>> => FramesOf(Tail(ms)) = Tail(FramesOf(ms))
<1> DEFINE N == Seq(Nat)
           n == Len(ms)
           fs == FramesOf(ms)
<1>1. n \in Nat /\ \A k \in 1 .. n : ms[k] \in M /\ Frame(ms[k]) \in N
  OBVIOUS
<1>2. fs = [k \in 1 .. n |-> Frame(ms[k])]
  BY DEF FramesOf
<1> HIDE DEF N, fs
<1>3. fs \in Seq(N) /\ Len(fs) = n /\ \A k \in 1 .. n : fs[k] = Frame(ms[k])
  BY <1>1, <1>2
<1>4. ASSUME NEW m \in M PROVE FramesOf(Append(ms, m)) = Append(fs, Frame(m))
  <2> DEFINE long == Append(ms, m)
             last == Frame(m)
             app == Append(fs, last)
  <2>1. /\ long \in Seq(M) /\ Len(long) = n + 1 /\ long[n + 1] = m
        /\ \A k \in 1 .. n : long[k] = ms[k]
    OBVIOUS
  <2>2. last \in N
    BY DEF N
  <2> HIDE DEF last
  <2>3. /\ app \in Seq(N) /\ Len(app) = n + 1
        /\ app[n + 1] = last /\ \A k \in 1 .. n : app[k] = fs[k]
    BY <1>3, <2>2
  <2> HIDE DEF app
  <2>4. app = [k \in 1 .. n + 1 |-> app[k]]
    <3>1. app \in [1 .. n + 1 -> N]
      BY <2>3
    <3>2. QED
      BY ONLY <3>1
  <2> HIDE DEF long
  <2>5. FramesOf(long) = [k \in 1 .. n + 1 |-> Frame(long[k])]
    BY <2>1 DEF FramesOf
  <2>6. ASSUME NEW k \in 1 .. n + 1 PROVE Frame(long[k]) = app[k]
    <3>1. CASE k = n + 1
      BY <2>1, <2>3, <3>1 DEF last
    <3>2. CASE k \in 1 .. n
      BY <1>3, <2>1, <2>3, <3>2
    <3>3. QED
      BY <1>1, <3>1, <3>2
  <2>7. QED
    BY <2>4, <2>5, <2>6 DEF long, last, app
<1>5. ASSUME ms # <<>> PROVE FramesOf(Tail(ms)) = Tail(fs)
  <2> DEFINE rest == Tail(ms)
  <2>1. n > 0 /\ rest \in Seq(M) /\ Len(rest) = n - 1 /\ \A k \in 1 .. n - 1 : rest[k] = ms[k + 1]
    BY <1>5
  <2>2. fs # <<>>
    BY <1>3, <2>1
  <2> DEFINE app == Tail(fs)
  <2>3. app \in Seq(N) /\ Len(app) = n - 1 /\ \A k \in 1 .. n - 1 : app[k] = fs[k + 1]
    BY <1>3, <2>2
  <2> HIDE DEF app
  <2>4. app = [k \in 1 .. n - 1 |-> app[k]]
    <3>1. app \in [1 .. n - 1 -> N]
      BY <1>1, <2>1, <2>3
    <3>2. QED
      BY ONLY <3>1
  <2> HIDE DEF rest
  <2>5. FramesOf(rest) = [k \in 1 .. n - 1 |-> Frame(rest[k])]
    BY <2>1 DEF FramesOf
  <2>6. ASSUME NEW k \in 1 .. n - 1 PROVE Frame(rest[k]) = app[k]
    <3>1. k + 1 \in 1 .. n
      BY <1>1
    <3>2. QED
      BY <1>3, <2>1, <2>3, <3>1
  <2>7. QED
    BY <2>4, <2>5, <2>6 DEF rest, app
<1>6. QED
  BY <1>3, <1>4, <1>5 DEF fs, N

\* What is under way is what was said and not read, and peer_com is sent nothing else.
LinkInv ==
    /\ num_pieces \in Lengths
    /\ bitfield \subseteq Pieces /\ haves \subseteq Pieces
    /\ unread \in Seq(SaidMessages)
    /\ to_us \in Seq(Nat) /\ Joined(to_us, FramesOf(unread))
    /\ channel \in Seq(SaidMessages)
    /\ said \in Nat
    /\ said = 0 => unread = <<>> /\ channel = <<>>

\* A message that has arrived is the first of those not read.
LEMMA ReadsHead ==
    ASSUME LinkInv, Arrived(to_us)
    PROVE  /\ unread # <<>> /\ Head(unread) \in SaidMessages
           /\ FirstFrame(to_us) = Frame(Head(unread))
           /\ AfterFrame(to_us) \in Seq(Nat) /\ Joined(AfterFrame(to_us), FramesOf(Tail(unread)))
<1> DEFINE M == SaidMessages
           fs == FramesOf(unread)
<1>1. \A m \in M : FrameIs(m)
  BY SaidFrames DEF LinkInv
<1>2. /\ to_us \in Seq(Nat) /\ Joined(to_us, fs) /\ unread \in Seq(M)
      /\ fs \in Seq(Seq(Nat)) /\ Len(fs) = Len(unread)
      /\ \A k \in 1 .. Len(unread) : fs[k] = Frame(unread[k])
      /\ unread # <<>> => FramesOf(Tail(unread)) = Tail(fs)
  BY <1>1, FramesOfIs DEF LinkInv, FrameIs
<1> HIDE DEF fs, M
<1>3. unread # <<>>
  <2> SUFFICES ASSUME unread = <<>> PROVE FALSE
    OBVIOUS
  <2>1. Len(fs) = 0
    BY <1>2
  <2>2. PICK cuts : CutInto(to_us, fs, cuts)
    BY <1>2 DEF Joined
  <2>3. Len(to_us) = 0
    BY <2>1, <2>2 DEF CutInto
  <2>4. QED
    BY <2>3 DEF Arrived
<1> DEFINE m == Head(unread)
<1>4. m \in M /\ m = unread[1] /\ Len(unread) >= 1 /\ 1 \in 1 .. Len(unread)
  BY <1>2, <1>3
<1> HIDE DEF m
<1>5. fs # <<>> /\ fs[1] = Frame(m)
  BY <1>2, <1>4
<1> DEFINE frame == Frame(m)
           rest == SubSeq(to_us, Len(frame) + 1, Len(to_us))
<1>6. /\ frame \in Seq(Nat) /\ Len(frame) <= Len(to_us)
      /\ \A j \in 1 .. Len(frame) : to_us[j] = frame[j]
      /\ Joined(rest, Tail(fs))
  BY <1>2, <1>5, JoinedHead
<1>7. Body(m) \in Seq(Nat) /\ FitsU32(Len(Body(m))) /\ frame = U32(Len(Body(m))) \o Body(m)
  BY <1>1, <1>4 DEF FrameIs
<1> DEFINE body == Body(m)
<1>8. /\ body \in Seq(Nat) /\ FitsU32(Len(body)) /\ frame = U32(Len(body)) \o body
      /\ Len(frame) <= Len(to_us) /\ \A j \in 1 .. Len(frame) : to_us[j] = frame[j]
  BY <1>6, <1>7
<1> HIDE DEF frame, rest, body
<1>9. FirstFrame(to_us) = frame /\ AfterFrame(to_us) = SubSeq(to_us, Len(frame) + 1, Len(to_us))
  BY <1>2, <1>8, FrameRead
<1>10. AfterFrame(to_us) \in Seq(Nat)
  BY <1>2, RestShorter
<1>11. AfterFrame(to_us) = rest
  BY <1>9 DEF rest
<1>12. QED
  BY <1>2, <1>3, <1>4, <1>6, <1>9, <1>10, <1>11 DEF frame, m, M

\* What rh does with the first message: it panics at a keep-alive and drops interest.
ReadsFirst ==
    LET m == Head(unread) IN
    /\ unread # <<>> /\ unread' = Tail(unread) /\ m \in SaidMessages
    /\ to_us' \in Seq(Nat) /\ Joined(to_us', FramesOf(Tail(unread)))
    /\ \/ m.type = "KeepAlive" /\ rh' = "panicked" /\ channel' = channel
       \/ m.type \in {"Interested", "NotInterested"} /\ rh' = rh /\ channel' = channel
       \/ /\ m.type \notin {"KeepAlive", "Interested", "NotInterested"}
          /\ rh' = rh /\ HasRoom(channel) /\ channel' = Append(channel, m)

LEMMA ReadStep == ASSUME LinkInv, ReadMessage PROVE ReadsFirst
<1> DEFINE m == Head(unread)
           buf == FirstFrame(to_us)
<1>1. /\ unread # <<>> /\ m \in SaidMessages /\ buf = Frame(m)
      /\ AfterFrame(to_us) \in Seq(Nat) /\ Joined(AfterFrame(to_us), FramesOf(Tail(unread)))
  BY ReadsHead DEF ReadMessage
<1>2. FrameIs(m) /\ (m.type # "KeepAlive" => Deserialize(Frame(m)) = ReadsAs(m))
  BY <1>1, SaidFrames DEF LinkInv
<1>3. /\ unread' = Tail(unread) /\ to_us' = AfterFrame(to_us)
      /\ IF DeserializePanics(buf)
         THEN rh' = "panicked" /\ UNCHANGED channel
         ELSE /\ UNCHANGED rh
              /\ \/ Deserialize(buf) = KeepAlive /\ UNCHANGED channel
                 \/ /\ Deserialize(buf) # KeepAlive /\ HasRoom(channel)
                    /\ channel' = Append(channel, Deserialize(buf))
  BY DEF ReadMessage
<1> HIDE DEF m, buf
<1>4. Len(buf) = 4 + Len(Body(m)) /\ Len(Body(m)) \in Nat
  BY <1>1, <1>2 DEF FrameIs
<1>5. CASE m.type = "KeepAlive"
  <2>1. Len(Body(m)) = 0
    BY <1>5 DEF Body
  <2>2. DeserializePanics(buf)
    BY <1>4, <2>1 DEF DeserializePanics
  <2>3. QED
    BY <1>1, <1>3, <1>5, <2>2 DEF ReadsFirst, m
<1>6. CASE m.type # "KeepAlive"
  <2>1. Len(Body(m)) > 0
    BY <1>2, <1>6 DEF FrameIs
  <2>2. ~DeserializePanics(buf)
    BY <1>4, <2>1 DEF DeserializePanics
  <2>3. Deserialize(buf) = ReadsAs(m)
    BY <1>1, <1>2, <1>6
  <2>4. m # KeepAlive
    BY <1>6 DEF KeepAlive, Plain
  <2>5. CASE m.type \in {"Interested", "NotInterested"}
    BY <1>1, <1>3, <2>2, <2>3, <2>5 DEF ReadsFirst, ReadsAs, m
  <2>6. CASE m.type \notin {"Interested", "NotInterested"}
    BY <1>1, <1>3, <1>6, <2>2, <2>3, <2>4, <2>6 DEF ReadsFirst, ReadsAs, m
  <2>7. QED
    BY <2>5, <2>6
<1>7. QED
  BY <1>5, <1>6

\* Another message is said.
LEMMA SayStep ==
    ASSUME NEW M, \A x \in M : FrameIs(x), unread \in Seq(M),
           to_us \in Seq(Nat), Joined(to_us, FramesOf(unread)), NEW m \in M, Say(m)
    PROVE  /\ unread' \in Seq(M) /\ unread' # <<>>
           /\ to_us' \in Seq(Nat) /\ Joined(to_us', FramesOf(unread'))
<1> DEFINE fs == FramesOf(unread)
           p == Frame(m)
<1>1. fs \in Seq(Seq(Nat)) /\ FramesOf(Append(unread, m)) = Append(fs, p) /\ p \in Seq(Nat)
  BY FramesOfIs DEF FrameIs
<1>2. unread' = Append(unread, m) /\ to_us' = to_us \o p
  BY DEF Say
<1> HIDE DEF fs, p
<1>3. Joined(to_us \o p, Append(fs, p))
  BY <1>1, JoinedAppend DEF fs
<1>4. to_us \o p \in Seq(Nat)
  BY <1>1, ConcatIs
<1>5. Append(unread, m) \in Seq(M) /\ Append(unread, m) # <<>>
  OBVIOUS
<1>6. QED
  BY <1>1, <1>2, <1>3, <1>4, <1>5

LEMMA SaidSame == ASSUME UNCHANGED <<num_pieces, bitfield>> PROVE SaidMessages' = SaidMessages
<1>1. Pieces' = Pieces
  BY DEF Pieces
<1>2. OtherMessages' = OtherMessages
  BY DEF OtherMessages
<1>3. HaveMessages' = HaveMessages
  BY <1>1 DEF HaveMessages
<1>4. Announcement' = Announcement
  BY DEF Announcement, BytesOf
<1>5. QED
  BY <1>2, <1>3, <1>4 DEF SaidMessages

LEMMA InitLink == ASSUME Init PROVE LinkInv
<1>1. FramesOf(<<>>) = <<>>
  BY DEF FramesOf
<1>2. QED
  BY <1>1, JoinedNone DEF Init, LinkInv

LEMMA NextLink == ASSUME LinkInv, [Next]_vars PROVE LinkInv'
<1>1. ASSUME NEW S \in SUBSET Pieces, SayBitfield(S) PROVE LinkInv'
  <2> DEFINE m == [type |-> "Bitfield", bytes |-> BytesOf(S)]
             M == {m}
  <2>1. said = 0 /\ unread = <<>> /\ channel = <<>> /\ Say(m) /\ bitfield' = S /\ haves' = haves
    BY <1>1 DEF SayBitfield, LinkInv
  <2>2. num_pieces' = num_pieces /\ channel' = channel /\ said' = said + 1
    BY <2>1 DEF Say
  <2>3. FrameIs(m)
    BY BitfieldSaid DEF LinkInv
  <2>4. m \in SaidMessages'
    BY <2>1, <2>2 DEF SaidMessages, Announcement, BytesOf
  <2> HIDE DEF m
  <2>5. unread \in Seq(M) /\ to_us \in Seq(Nat) /\ Joined(to_us, FramesOf(unread))
    BY <2>1 DEF LinkInv
  <2>6. /\ unread' \in Seq(M) /\ unread' # <<>>
        /\ to_us' \in Seq(Nat) /\ Joined(to_us', FramesOf(unread'))
    BY <2>1, <2>3, <2>5, SayStep
  <2>7. unread' \in Seq(SaidMessages')
    BY <2>4, <2>6
  <2>8. Pieces' = Pieces /\ channel' \in Seq(SaidMessages')
    BY <2>1, <2>2 DEF Pieces
  <2>9. said' \in Nat /\ said' # 0
    BY <2>1, <2>2
  <2>10. QED
    BY <2>1, <2>2, <2>6, <2>7, <2>8, <2>9 DEF LinkInv
<1>2. ASSUME NEW m \in SaidMessages, Say(m), bitfield' = bitfield,
             haves' = haves \/ \E i \in Pieces : haves' = haves \cup {i}
      PROVE  LinkInv'
  <2> DEFINE M == SaidMessages
  <2>1. num_pieces' = num_pieces /\ channel' = channel /\ said' = said + 1
    BY <1>2 DEF Say
  <2>2. M' = M /\ Pieces' = Pieces
    BY <1>2, <2>1, SaidSame DEF Pieces
  <2>3. \A x \in M : FrameIs(x)
    BY SaidFrames DEF LinkInv
  <2>4. unread \in Seq(M) /\ to_us \in Seq(Nat) /\ Joined(to_us, FramesOf(unread))
    BY DEF LinkInv
  <2> HIDE DEF M
  <2>5. /\ unread' \in Seq(M) /\ unread' # <<>>
        /\ to_us' \in Seq(Nat) /\ Joined(to_us', FramesOf(unread'))
    BY <1>2, <2>3, <2>4, SayStep DEF M
  <2>6. said' \in Nat /\ said' # 0
    BY <2>1 DEF LinkInv
  <2>7. QED
    BY <1>2, <2>1, <2>2, <2>5, <2>6 DEF LinkInv, M
<1>3. CASE ReadMessage
  <2> DEFINE M == SaidMessages
  <2>1. UNCHANGED <<num_pieces, bitfield, haves, said>>
    BY <1>3 DEF ReadMessage
  <2>2. M' = M /\ Pieces' = Pieces
    BY <2>1, SaidSame DEF Pieces
  <2>3. ReadsFirst /\ unread \in Seq(M) /\ channel \in Seq(M) /\ said # 0
    BY <1>3, ReadStep DEF LinkInv, ReadsFirst
  <2>4. unread' \in Seq(M) /\ to_us' \in Seq(Nat) /\ Joined(to_us', FramesOf(unread'))
    BY <2>3 DEF ReadsFirst
  <2> DEFINE m == Head(unread)
  <2>5. m \in M /\ (channel' = channel \/ channel' = Append(channel, m))
    BY <2>3 DEF ReadsFirst
  <2> HIDE DEF M, m
  <2>6. channel' \in Seq(M)
    BY <2>3, <2>5
  <2>7. QED
    BY <2>1, <2>2, <2>3, <2>4, <2>6 DEF LinkInv, M
<1>4. CASE PeerComNext
  <2> DEFINE M == SaidMessages
  <2>1. /\ UNCHANGED <<num_pieces, to_us, said, unread, bitfield, haves>>
        /\ channel # <<>> /\ channel' = Tail(channel)
    BY <1>4 DEF PeerComNext, HandleHave, HandleBitfield, HandleChoke, HandleUnchoke, HandleRequest,
                HandleOther, Takes, remoteVars
  <2>2. M' = M /\ Pieces' = Pieces
    BY <2>1, SaidSame DEF Pieces
  <2>3. channel \in Seq(M) /\ said # 0
    BY <2>1 DEF LinkInv
  <2>4. channel' \in Seq(M)
    BY <2>1, <2>3
  <2> HIDE DEF M
  <2>5. QED
    BY <2>1, <2>2, <2>3, <2>4 DEF LinkInv, M
<1>5. CASE UNCHANGED <<num_pieces, inVars, remoteVars>>
  BY <1>5, SaidSame DEF LinkInv, inVars, remoteVars, Pieces
<1>6. ASSUME NEW i \in Pieces, SayHave(i) PROVE LinkInv'
  <2>1. [type |-> "Have", index |-> i] \in SaidMessages
    BY DEF SaidMessages, HaveMessages
  <2>2. QED
    BY <1>2, <1>6, <2>1 DEF SayHave
<1>7. ASSUME NEW m \in OtherMessages, SayOther(m) PROVE LinkInv'
  BY <1>2, <1>7 DEF SayOther, SaidMessages
<1>8. CASE Write \/ WriteKeepAlive \/ \E m \in OurMessages : Queue(m)
  BY <1>5, <1>8 DEF Write, WriteKeepAlive, WriteMessage, Queue
<1>9. CASE UNCHANGED vars
  BY <1>5, <1>9 DEF vars
<1>10. QED
  BY <1>1, <1>3, <1>4, <1>6, <1>7, <1>8, <1>9 DEF Next, RemoteNext

\* Every message is read as it was said: what rh cuts from the stream is what the
\* peer framed, and its fields come out of the bytes as they went in.
THEOREM MessagesReadAsSaid == Spec => ReadAsSaid
<1> DEFINE m == Head(unread)
           Said == IF m.type = "KeepAlive" THEN rh' = "panicked"
                   ELSE /\ rh' = rh
                        /\ channel' = IF m.type \in {"Interested", "NotInterested"} THEN channel
                                      ELSE Append(channel, m)
           Read == unread # <<>> /\ unread' = Tail(unread) => Said
<1>1. ASSUME LinkInv, [Next]_vars PROVE [Read]_vars
  <2> SUFFICES ASSUME unread # <<>>, unread' = Tail(unread) PROVE Said
    OBVIOUS
  <2>1. CASE ReadMessage
    <3>1. /\ m.type = "KeepAlive" => rh' = "panicked"
          /\ m.type \in {"Interested", "NotInterested"} => rh' = rh /\ channel' = channel
          /\ m.type \notin {"KeepAlive", "Interested", "NotInterested"}
                => rh' = rh /\ channel' = Append(channel, m)
      BY <1>1, <2>1, ReadStep DEF ReadsFirst
    <3> HIDE DEF m
    <3>2. QED
      BY <3>1
  <2>2. CASE unread' = unread \/ \E x : unread' = Append(unread, x)
    <3>1. unread \in Seq(SaidMessages) /\ Len(unread) \in Nat
      BY <1>1 DEF LinkInv
    <3>2. Len(unread') = Len(unread) - 1
      BY <3>1
    <3>3. Len(unread') = Len(unread) \/ Len(unread') = Len(unread) + 1
      BY <2>2, <3>1
    <3>4. FALSE
      BY ONLY <3>1, <3>2, <3>3
    <3>5. QED
      BY <3>4
  <2>3. QED
    BY <1>1, <2>1, <2>2
    DEF Next, RemoteNext, SayBitfield, SayHave, SayOther, Say, PeerComNext, HandleHave, HandleBitfield,
        HandleChoke, HandleUnchoke, HandleRequest, HandleOther, Takes, remoteVars, Write,
        WriteKeepAlive, WriteMessage, Queue, vars
<1>2. QED
  BY <1>1, InitLink, NextLink, PTL DEF Spec, ReadAsSaid

-----------------------------------------------------------------------------
(* What we believe the peer has *)

\* The bytes of a Bitfield, when they are handled, mark the mirrored pieces.
LEMMA BitfieldMirrored ==
    ASSUME num_pieces \in Lengths, NEW S, S \subseteq Pieces,
           NEW bytes, bytes = [k \in DOMAIN BytesOf(S) |-> BitsOf(BytesOf(S)[k])]
    PROVE  /\ bytes \in Seq(SUBSET Offsets)
           /\ Readable(bytes, num_pieces)
           /\ Marked(RefNew(bytes, num_pieces)) = AsRead(S)
<1> DEFINE n == num_pieces
           B == ByteBits
           last == BytesFor(num_pieces)
<1>1. n \in Nat \ {0} /\ B \in Nat \ {0}
  BY PeerWireAssumption, BitfieldAssumption
<1>2. /\ last \in Nat /\ DOMAIN BytesOf(S) = 1 .. last
      /\ \A k \in 1 .. last :
            BitsOf(BytesOf(S)[k]) = {B - 1 - OffsetOf(i) : i \in {j \in S : ByteOf(j) = k}}
  <2>1. /\ last \in Nat /\ BytesOf(S) \in Seq(Nat) /\ Len(BytesOf(S)) = last
        /\ \A k \in 1 .. last :
              BitsOf(BytesOf(S)[k]) = {ByteBits - 1 - OffsetOf(i) : i \in {j \in S : ByteOf(j) = k}}
    BY <1>1, BytesOfIs
  <2>2. DOMAIN BytesOf(S) = 1 .. last
    BY <2>1
  <2>3. QED
    BY <2>1, <2>2
<1>3. bytes \in [1 .. last -> SUBSET Offsets]
  BY <1>2 DEF BitsOf
<1>4. \A k \in 1 .. last : bytes[k] = {B - 1 - OffsetOf(i) : i \in {j \in S : ByteOf(j) = k}}
  BY <1>2
<1>5. ASSUME NEW i \in 0 .. n - 1 PROVE ByteOf(i) \in 1 .. last
  <2>1. i \in Nat /\ i <= n - 1 /\ n + B - 1 \in Nat
    BY <1>1
  <2> DEFINE q == i \div B
             r == i % B
  <2>2. i = B * q + r /\ q \in Nat /\ r \in 0 .. B - 1
    BY <1>1, <2>1, Division
  <2> HIDE DEF q, r
  <2>3. (B * (q + 1) + r) \div B = q + 1
    <3> DEFINE p == q + 1
    <3>1. p \in Nat
      BY <2>2
    <3> HIDE DEF p, B
    <3>2. (B * p + r) \div B = p
      BY <1>1, <2>2, <3>1, DivisionUnique
    <3>3. QED
      BY <3>2 DEF p
  <2>4. B * (q + 1) = B * q + B
    BY <1>1, <2>2
  <2>5. (i + B) \div B = q + 1
    BY <1>1, <2>1, <2>2, <2>3, <2>4
  <2>6. i + B \in Nat /\ i + B <= n + B - 1
    BY <1>1, <2>1
  <2>7. (i + B) \div B <= (n + B - 1) \div B
    BY <1>1, <2>1, <2>6
  <2>8. QED
    BY <1>1, <2>2, <2>5, <2>7 DEF ByteOf, BytesFor, q
<1>6. Readable(bytes, n)
  BY <1>3, <1>5 DEF Readable, Holds
<1>7. Marked(RefNew(bytes, n)) = {i \in Pieces : OffsetOf(i) \in bytes[ByteOf(i)]}
  BY DEF Marked, MarkedIn, RefNew, Pieces
<1>8. ASSUME NEW i \in Pieces
      PROVE  OffsetOf(i) \in bytes[ByteOf(i)] <=>
                \E j \in S : ByteOf(i) = ByteOf(j) /\ OffsetOf(i) + OffsetOf(j) = B - 1
  <2>1. bytes[ByteOf(i)] = {B - 1 - OffsetOf(j) : j \in {j \in S : ByteOf(j) = ByteOf(i)}}
    BY <1>4, <1>5 DEF Pieces
  <2>2. OffsetOf(i) \in Int /\ B \in Int /\ \A j \in S : OffsetOf(j) \in Int
    BY <1>1 DEF Pieces, OffsetOf
  <2>3. ASSUME NEW j \in S PROVE OffsetOf(i) = B - 1 - OffsetOf(j) <=> OffsetOf(i) + OffsetOf(j) = B - 1
    BY <2>2
  <2>4. QED
    BY <2>1, <2>3
<1>9. Marked(RefNew(bytes, n)) = AsRead(S)
  BY <1>7, <1>8 DEF AsRead
<1>10. QED
  BY <1>2, <1>3, <1>6, <1>9

MsgsOf(s) == {s[k] : k \in 1 .. Len(s)}

LEMMA MsgsOfIs ==
    ASSUME NEW M, NEW s \in Seq(M)
    PROVE  /\ \A m \in M : MsgsOf(Append(s, m)) = MsgsOf(s) \cup {m}
           /\ s # <<>> => MsgsOf(s) = MsgsOf(Tail(s)) \cup {Head(s)}
<1>1. ASSUME NEW m \in M PROVE MsgsOf(Append(s, m)) = MsgsOf(s) \cup {m}
  <2> DEFINE t == Append(s, m)
             n == Len(s)
  <2>1. n \in Nat /\ Len(t) = n + 1 /\ t[n + 1] = m /\ \A k \in 1 .. n : t[k] = s[k]
    OBVIOUS
  <2> HIDE DEF t, n
  <2>2. 1 .. n + 1 = 1 .. n \cup {n + 1}
    BY <2>1
  <2>3. MsgsOf(t) = {t[k] : k \in 1 .. n} \cup {t[n + 1]}
    BY <2>1, <2>2 DEF MsgsOf
  <2>4. {t[k] : k \in 1 .. n} = {s[k] : k \in 1 .. n}
    BY <2>1
  <2>5. QED
    BY <2>1, <2>3, <2>4 DEF MsgsOf, t, n
<1>2. ASSUME s # <<>> PROVE MsgsOf(s) = MsgsOf(Tail(s)) \cup {Head(s)}
  <2> DEFINE t == Tail(s)
             n == Len(s)
  <2>1. /\ n \in Nat /\ n >= 1 /\ Len(t) = n - 1 /\ Head(s) = s[1]
        /\ \A k \in 1 .. n - 1 : t[k] = s[k + 1]
    BY <1>2
  <2> HIDE DEF t, n
  <2>2. ASSUME NEW x \in MsgsOf(s) PROVE x \in MsgsOf(t) \cup {s[1]}
    <3>1. PICK k \in 1 .. n : x = s[k]
      BY DEF MsgsOf, n
    <3>2. CASE k = 1
      BY <3>1, <3>2
    <3>3. CASE k # 1
      <4>1. k - 1 \in 1 .. n - 1 /\ t[k - 1] = s[(k - 1) + 1] /\ (k - 1) + 1 = k
        BY <2>1, <3>3
      <4>2. QED
        BY <2>1, <3>1, <4>1 DEF MsgsOf
    <3>4. QED
      BY <3>2, <3>3
  <2>3. ASSUME NEW x \in MsgsOf(t) PROVE x \in MsgsOf(s)
    <3>1. PICK k \in 1 .. n - 1 : x = t[k]
      BY <2>1 DEF MsgsOf
    <3>2. k + 1 \in 1 .. n /\ x = s[k + 1]
      BY <2>1, <3>1
    <3>3. QED
      BY <3>2 DEF MsgsOf, n
  <2>4. s[1] \in MsgsOf(s)
    BY <2>1 DEF MsgsOf, n
  <2>5. QED
    BY <2>1, <2>2, <2>3, <2>4 DEF t
<1>3. QED
  BY <1>1, <1>2

HaveMessage(i) == [type |-> "Have", index |-> i]

\* Messages that peer_com has not handled.
Waiting == MsgsOf(channel) \cup MsgsOf(unread)

\* What a set of messages will let us know.
Announced(W) ==
    {i \in Pieces : HaveMessage(i) \in W} \cup {i \in AsRead(bitfield) : Announcement \in W}

\* Nothing announced is lost, and a Bitfield comes before all that adds to it.
BeliefInv ==
    /\ peer_com = "running"
    /\ have.bytes \in Seq(SUBSET Offsets)
    /\ Marked(have) \cup Announced(Waiting) = AsRead(bitfield) \cup haves
    /\ Announcement \in Waiting => Marked(have) = {}
    /\ \A k \in 1 .. Len(channel) : channel[k] = Announcement => k = 1
    /\ \A k \in 1 .. Len(unread) : unread[k] = Announcement => k = 1 /\ channel = <<>>
    /\ said = 0 => bitfield = {} /\ haves = {} /\ Marked(have) = {}

LEMMA SaidKinds ==
    ASSUME NEW m \in SaidMessages
    PROVE  /\ m.type = "Have" => m.index \in Pieces /\ m = HaveMessage(m.index)
           /\ m.type # "Have" => \A i : m # HaveMessage(i)
           /\ m.type = "Bitfield" => m = Announcement
           /\ m.type # "Bitfield" => m # Announcement
           /\ m.type = "Request" => m = Block("Request", num_pieces - 1, 2, 1)
<1>1. \A i : HaveMessage(i).type = "Have" /\ HaveMessage(i).index = i
  BY DEF HaveMessage
<1>2. Announcement.type = "Bitfield"
  BY DEF Announcement
<1>3. CASE m = Announcement
  BY <1>1, <1>2, <1>3
<1>4. ASSUME NEW i \in Pieces, m = HaveMessage(i) PROVE m.type = "Have" /\ m.index = i
  BY <1>1, <1>4
<1>5. CASE m \in OtherMessages
  <2>1. CASE \E type \in {"KeepAlive", "Choke", "Unchoke", "Interested", "NotInterested"} : m = Plain(type)
    <3>1. m.type \notin {"Have", "Bitfield", "Request"}
      BY <2>1 DEF Plain
    <3>2. QED
      BY <1>1, <1>2, <3>1
  <2>2. CASE m = Block("Request", num_pieces - 1, 2, 1)
    <3>1. m.type = "Request"
      BY <2>2 DEF Block
    <3>2. QED
      BY <1>1, <1>2, <2>2, <3>1
  <2>3. CASE m = Block("Cancel", num_pieces - 1, 2, 1) \/ m = Piece(num_pieces - 1, 2, <<1>>)
    <3>1. m.type \in {"Cancel", "Piece"}
      BY <2>3 DEF Block, Piece
    <3>2. QED
      BY <1>1, <1>2, <3>1
  <2>4. QED
    BY <1>5, <2>1, <2>2, <2>3 DEF OtherMessages
<1>6. QED
  BY <1>1, <1>2, <1>3, <1>4, <1>5 DEF SaidMessages, HaveMessages, HaveMessage

\* What one message more announces.
LEMMA AnnouncedMore ==
    ASSUME NEW W, NEW m \in SaidMessages
    PROVE  /\ m.type = "Have" => Announced(W \cup {m}) = Announced(W) \cup {m.index}
           /\ m.type = "Bitfield" => Announced(W \cup {m}) = Announced(W) \cup AsRead(bitfield)
           /\ m.type \notin {"Have", "Bitfield"} => Announced(W \cup {m}) = Announced(W)
<1> DEFINE V == W \cup {m}
<1>1. CASE m.type = "Have"
  <2>1. m.index \in Pieces /\ m = HaveMessage(m.index) /\ m # Announcement
    BY <1>1, SaidKinds
  <2>2. \A i \in Pieces : HaveMessage(i) \in V <=> HaveMessage(i) \in W \/ i = m.index
    <3>1. \A i : m = HaveMessage(i) => i = m.index
      BY DEF HaveMessage
    <3>2. QED
      BY <2>1, <3>1
  <2>3. Announcement \in V <=> Announcement \in W
    BY <2>1
  <2> HIDE DEF V
  <2>4. Announced(V) = Announced(W) \cup {m.index}
    BY <2>1, <2>2, <2>3 DEF Announced
  <2>5. QED
    BY <1>1, <2>4 DEF V
<1>2. CASE m.type = "Bitfield"
  <2>1. m = Announcement /\ \A i : m # HaveMessage(i)
    BY <1>2, SaidKinds
  <2>2. QED
    BY <1>2, <2>1 DEF Announced
<1>3. CASE m.type \notin {"Have", "Bitfield"}
  <2>1. m # Announcement /\ \A i : m # HaveMessage(i)
    BY <1>3, SaidKinds
  <2>2. QED
    BY <1>3, <2>1 DEF Announced
<1>4. QED
  BY <1>1, <1>2, <1>3

LEMMA SameTorrent ==
    ASSUME UNCHANGED num_pieces
    PROVE  Pieces' = Pieces /\ \A S : AsRead(S)' = AsRead(S)
  BY DEF Pieces, AsRead

LEMMA SameAnnounced ==
    ASSUME UNCHANGED <<num_pieces, bitfield>>, NEW W, Waiting' = W
    PROVE  /\ Pieces' = Pieces /\ Announcement' = Announcement
           /\ AsRead(bitfield)' = AsRead(bitfield)
           /\ Announced(Waiting)' = Announced(W)
<1>1. Pieces' = Pieces /\ AsRead(bitfield)' = AsRead(bitfield)
  BY DEF Pieces, AsRead
<1>2. Announcement' = Announcement
  BY DEF Announcement, BytesOf
<1>3. QED
  BY <1>1, <1>2 DEF Announced

LEMMA InitBelief == ASSUME Init PROVE BeliefInv
<1>1. Marked(have) = {}
  BY InitHave
<1>2. have.bytes \in Seq(SUBSET Offsets)
  <2> DEFINE n == num_pieces
             bytes == [k \in 1 .. ByteOf(n) |-> {}]
  <2>1. ByteOf(n) \in Nat
    BY PeerWireAssumption, OffsetInByte DEF Init
  <2>2. bytes \in Seq(SUBSET Offsets)
    BY <2>1
  <2>3. have.bytes = bytes
    BY DEF Init, OwnedNew
  <2>4. QED
    BY <2>2, <2>3
<1>3. Waiting = {} /\ Len(channel) = 0 /\ Len(unread) = 0
  BY DEF Init, Waiting, MsgsOf
<1>4. Announced(Waiting) = {}
  BY <1>3 DEF Announced
<1>5. AsRead(bitfield) = {}
  BY DEF Init, AsRead
<1>6. QED
  BY <1>1, <1>2, <1>3, <1>4, <1>5 DEF Init, BeliefInv

LEMMA BitfieldSaidBelief ==
    ASSUME LinkInv, HaveInv, BeliefInv, NEW S \in SUBSET Pieces, SayBitfield(S)
    PROVE  BeliefInv'
<1> DEFINE m == [type |-> "Bitfield", bytes |-> BytesOf(S)]
<1>1. /\ said = 0 /\ unread = <<>> /\ channel = <<>> /\ bitfield' = S /\ haves' = haves
      /\ haves = {} /\ Marked(have) = {}
  BY DEF SayBitfield, LinkInv, BeliefInv
<1>2. /\ UNCHANGED <<num_pieces, channel, have, peer_com>>
      /\ unread' = Append(unread, m) /\ said' = said + 1
  BY DEF SayBitfield, Say
<1>3. Announcement' = m
  BY <1>1, <1>2 DEF Announcement, BytesOf
<1>4. m.type = "Bitfield" /\ \A i : m # HaveMessage(i)
  BY DEF HaveMessage
<1> HIDE DEF m
<1>5. unread' = <<m>> /\ Len(channel') = 0
  BY <1>1, <1>2
<1>6. Waiting' = {m}
  BY <1>1, <1>2, <1>5 DEF Waiting, MsgsOf
<1>7. Announced(Waiting)' = AsRead(bitfield)'
  BY <1>3, <1>4, <1>6 DEF Announced
<1>8. Marked(have)' = {}
  BY <1>1, <1>2
<1>9. said' # 0
  BY <1>1, <1>2
<1>10. \A k \in 1 .. Len(unread') : k = 1
  BY <1>5
<1>11. QED
  BY <1>1, <1>2, <1>5, <1>7, <1>8, <1>9, <1>10 DEF BeliefInv

LEMMA SaidBelief ==
    ASSUME LinkInv, BeliefInv, NEW m \in SaidMessages, Say(m), m.type # "Bitfield",
           bitfield' = bitfield,
           haves' = IF m.type = "Have" THEN haves \cup {m.index} ELSE haves
    PROVE  BeliefInv'
<1> DEFINE W == Waiting \cup {m}
<1>1. /\ UNCHANGED <<num_pieces, channel, have, peer_com>>
      /\ unread' = Append(unread, m) /\ said' = said + 1 /\ said \in Nat
  BY DEF Say, LinkInv
<1>2. unread \in Seq(SaidMessages) /\ Len(unread) \in Nat
  BY DEF LinkInv
<1>3. Waiting' = W
  BY <1>1, <1>2, MsgsOfIs DEF Waiting
<1>4. /\ Announcement' = Announcement
      /\ AsRead(bitfield)' = AsRead(bitfield)
      /\ Announced(Waiting)' = Announced(W)
  BY <1>1, <1>3, SameAnnounced
<1>5. Announced(W) = Announced(Waiting) \cup (IF m.type = "Have" THEN {m.index} ELSE {})
  BY AnnouncedMore
<1>6. m # Announcement
  BY SaidKinds
<1>7. Marked(have)' = Marked(have)
  BY <1>1 DEF Marked
<1>8. /\ Marked(have)' \cup Announced(Waiting)' = AsRead(bitfield)' \cup haves'
      /\ Announcement' \in Waiting' => Marked(have)' = {}
  <2> DEFINE new == IF m.type = "Have" THEN {m.index} ELSE {}
             X == Announced(Waiting)
             A == AsRead(bitfield)
             K == Marked(have)
  <2>1. haves' = haves \cup new
    OBVIOUS
  <2>2. /\ Announced(Waiting)' = X \cup new /\ AsRead(bitfield)' = A /\ Marked(have)' = K
        /\ K \cup X = A \cup haves
    BY <1>4, <1>5, <1>7 DEF BeliefInv
  <2>3. Announcement' \in Waiting' => K = {}
    BY <1>3, <1>4, <1>6 DEF BeliefInv
  <2> HIDE DEF new, X, A, K
  <2>4. QED
    BY <2>1, <2>2, <2>3
<1>9. ASSUME NEW k \in 1 .. Len(unread'), unread'[k] = Announcement'
      PROVE  k = 1 /\ channel' = <<>>
  <2>1. k \in 1 .. Len(unread) \/ k = Len(unread) + 1
    BY <1>1, <1>2
  <2>2. k = Len(unread) + 1 => unread'[k] = m
    BY <1>1, <1>2
  <2>3. k \in 1 .. Len(unread) /\ unread[k] = Announcement
    BY <1>1, <1>2, <1>4, <1>6, <1>9, <2>1, <2>2
  <2>4. QED
    BY <1>1, <2>3 DEF BeliefInv
<1>10. said' # 0
  BY <1>1
<1>11. QED
  BY <1>1, <1>4, <1>8, <1>9, <1>10 DEF BeliefInv

LEMMA ReadBelief == ASSUME LinkInv, BeliefInv, ReadMessage PROVE BeliefInv'
<1> DEFINE m == Head(unread)
           M == SaidMessages
<1>1. /\ UNCHANGED <<num_pieces, bitfield, haves, have, peer_com, said>>
      /\ unread' = Tail(unread)
  BY DEF ReadMessage
<1>2. /\ unread # <<>> /\ m \in M
      /\ \/ channel' = Append(channel, m)
         \/ m.type \in {"KeepAlive", "Interested", "NotInterested"} /\ channel' = channel
  BY ReadStep DEF ReadsFirst
<1>3. unread \in Seq(M) /\ channel \in Seq(M) /\ Len(channel) \in Nat
  BY DEF LinkInv
<1>4. /\ Len(unread) >= 1 /\ Len(unread') = Len(unread) - 1 /\ m = unread[1]
      /\ \A k \in 1 .. Len(unread') : unread'[k] = unread[k + 1] /\ k + 1 \in 1 .. Len(unread)
  BY <1>1, <1>2, <1>3
<1>5. Waiting = MsgsOf(channel) \cup MsgsOf(unread') \cup {m}
  BY <1>1, <1>2, <1>3, MsgsOfIs DEF Waiting
<1>6. channel' = Append(channel, m) => MsgsOf(channel') = MsgsOf(channel) \cup {m}
  BY <1>2, <1>3, MsgsOfIs
<1> HIDE DEF m, M
<1>7. Announced(Waiting)' = Announced(Waiting) /\ Waiting' \subseteq Waiting
      /\ Announcement' = Announcement /\ AsRead(bitfield)' = AsRead(bitfield)
  <2>1. CASE channel' = Append(channel, m)
    <3>1. Waiting' = Waiting
      BY <1>5, <1>6, <2>1 DEF Waiting
    <3>2. QED
      BY <1>1, <3>1, SameAnnounced
  <2>2. CASE m.type \in {"KeepAlive", "Interested", "NotInterested"} /\ channel' = channel
    <3> DEFINE W == MsgsOf(channel) \cup MsgsOf(unread')
    <3>1. Waiting' = W
      BY <2>2 DEF Waiting
    <3> HIDE DEF W
    <3>2. Waiting = W \cup {m}
      BY <1>5 DEF W
    <3>3. Announced(W \cup {m}) = Announced(W)
      BY <1>2, <2>2, AnnouncedMore DEF M
    <3>4. /\ Announced(Waiting)' = Announced(W)
          /\ Announcement' = Announcement /\ AsRead(bitfield)' = AsRead(bitfield)
      BY <1>1, <3>1, SameAnnounced
    <3>5. QED
      BY <3>1, <3>2, <3>3, <3>4
  <2>3. QED
    BY <1>2, <2>1, <2>2
<1>8. Marked(have)' = Marked(have)
  BY <1>1 DEF Marked
<1>9. ASSUME NEW k \in 1 .. Len(channel'), channel'[k] = Announcement' PROVE k = 1
  <2>1. CASE k \in 1 .. Len(channel)
    <3>1. channel[k] = Announcement
      BY <1>2, <1>3, <1>7, <1>9, <2>1
    <3>2. QED
      BY <2>1, <3>1 DEF BeliefInv
  <2>2. CASE k \notin 1 .. Len(channel)
    <3>1. channel' = Append(channel, m) /\ k = Len(channel) + 1
      BY <1>2, <1>3, <2>2
    <3>2. m = Announcement
      BY <1>3, <1>7, <1>9, <3>1
    <3>3. channel = <<>>
      <4>1. 1 \in 1 .. Len(unread) /\ unread[1] = Announcement
        BY <1>3, <1>4, <3>2
      <4>2. QED
        BY <4>1 DEF BeliefInv
    <3>4. QED
      BY <3>1, <3>3
  <2>3. QED
    BY <2>1, <2>2
<1>10. ASSUME NEW k \in 1 .. Len(unread'), unread'[k] = Announcement' PROVE FALSE
  <2>1. unread[k + 1] = Announcement /\ k + 1 \in 1 .. Len(unread)
    BY <1>4, <1>7, <1>10
  <2>2. k + 1 = 1
    BY <2>1 DEF BeliefInv
  <2>3. k \in Nat /\ k >= 1
    OBVIOUS
  <2>4. QED
    BY <2>2, <2>3
<1>11. QED
  BY <1>1, <1>7, <1>8, <1>9, <1>10 DEF BeliefInv

\* What is left when peer_com has taken a message.
Left == MsgsOf(Tail(channel)) \cup MsgsOf(unread)

LEMMA Taken ==
    ASSUME LinkInv, BeliefInv, NEW type, Takes(type)
    PROVE  /\ Head(channel) \in SaidMessages /\ Head(channel).type = type
           /\ UNCHANGED <<num_pieces, bitfield, haves, said>> /\ said # 0
           /\ Announcement \in Waiting => Head(channel) = Announcement
           /\ Waiting = Left \cup {Head(channel)} /\ Waiting' = Left
           /\ Announcement \notin Left
<1> DEFINE m == Head(channel)
           M == SaidMessages
<1>1. /\ channel # <<>> /\ channel' = Tail(channel) /\ m.type = type
      /\ UNCHANGED <<num_pieces, unread, bitfield, haves, said>>
  BY DEF Takes, remoteVars
<1>2. channel \in Seq(M) /\ unread \in Seq(M) /\ said # 0
  BY <1>1 DEF LinkInv
<1>3. /\ m \in M /\ m = channel[1] /\ Len(channel) \in Nat /\ Len(channel) >= 1
      /\ Len(Tail(channel)) = Len(channel) - 1
      /\ \A k \in 1 .. Len(channel) - 1 : Tail(channel)[k] = channel[k + 1] /\ k + 1 \in 1 .. Len(channel)
  BY <1>1, <1>2
<1>4. MsgsOf(channel) = MsgsOf(Tail(channel)) \cup {m}
  BY <1>1, <1>2, MsgsOfIs
<1> HIDE DEF m, M
<1>5. Waiting = Left \cup {m} /\ Waiting' = Left
  BY <1>1, <1>4 DEF Waiting, Left
<1>6. ASSUME Announcement \in MsgsOf(Tail(channel)) PROVE FALSE
  <2>1. PICK k \in 1 .. Len(channel) - 1 : Tail(channel)[k] = Announcement
    BY <1>3, <1>6 DEF MsgsOf
  <2>2. channel[k + 1] = Announcement /\ k + 1 \in 1 .. Len(channel) /\ k \in Nat /\ k >= 1
    BY <1>3, <2>1
  <2>3. k + 1 = 1
    BY <2>2 DEF BeliefInv
  <2>4. QED
    BY <2>2, <2>3
<1>7. Announcement \notin MsgsOf(unread)
  BY <1>1 DEF MsgsOf, BeliefInv
<1>8. Announcement \notin Left
  BY <1>6, <1>7 DEF Left
<1>9. QED
  BY <1>1, <1>2, <1>3, <1>5, <1>8 DEF m, M

\* The message taken is known, or says nothing of what the peer has.
LEMMA TakenBelief ==
    ASSUME LinkInv, BeliefInv, NEW type, Takes(type), NEW known,
           Announced(Waiting) = Announced(Left) \cup known,
           Marked(have)' = Marked(have) \cup known,
           peer_com' = peer_com, have.bytes' \in Seq(SUBSET Offsets)
    PROVE  BeliefInv'
<1>1. /\ UNCHANGED <<num_pieces, bitfield, haves, said>> /\ said # 0
      /\ Waiting' = Left /\ Announcement \notin Left
  BY Taken
<1>2. /\ Announcement' = Announcement /\ AsRead(bitfield)' = AsRead(bitfield)
      /\ Announced(Waiting)' = Announced(Left)
  BY <1>1, SameAnnounced
<1> DEFINE X == Announced(Left)
           A == AsRead(bitfield)
           K == Marked(have)
<1>3. Announced(Waiting)' = X /\ AsRead(bitfield)' = A /\ Marked(have)' = K \cup known
  BY <1>2
<1>4. K \cup (X \cup known) = A \cup haves /\ haves' = haves
  BY <1>1 DEF BeliefInv
<1>5. Announcement' \notin Waiting'
  BY <1>1, <1>2
<1> HIDE DEF X, A, K
<1>6. Marked(have)' \cup Announced(Waiting)' = AsRead(bitfield)' \cup haves'
  BY <1>3, <1>4
<1>7. /\ \A k \in 1 .. Len(channel') : channel'[k] # Announcement'
      /\ \A k \in 1 .. Len(unread') : unread'[k] # Announcement'
  BY <1>5 DEF Waiting, MsgsOf
<1>8. peer_com' = "running" /\ said' # 0
  BY <1>1 DEF BeliefInv
<1>9. QED
  BY <1>5, <1>6, <1>7, <1>8 DEF BeliefInv

LEMMA HandleHaveBelief ==
    ASSUME LinkInv, HaveInv, BeliefInv, HandleHave PROVE BeliefInv'
<1> DEFINE i == Head(channel).index
<1>1. Takes("Have")
  BY DEF HandleHave
<1>2. i \in Pieces /\ Announced(Waiting) = Announced(Left) \cup {i}
  BY <1>1, Taken, SaidKinds, AnnouncedMore
<1> HIDE DEF i
<1>3. have.length = num_pieces /\ Readable(have.bytes, num_pieces)
  BY DEF HaveInv, Sound
<1>4. ~SetPanics(have, i)
  BY <1>2, <1>3 DEF SetPanics, Readable, Pieces
<1>5. have' = Set(have, i, TRUE) /\ peer_com' = peer_com
  BY <1>4 DEF HandleHave, Learnt, i
<1>6. Marked(have)' = Marked(have) \cup {i} /\ Sound(Set(have, i, TRUE), num_pieces)
  BY <1>4, <1>5, SetSound DEF HaveInv
<1>7. have.bytes' \in Seq(SUBSET Offsets)
  <2> DEFINE bytes == Set(have, i, TRUE).bytes
             n == Len(have.bytes)
  <2>1. n \in Nat /\ DOMAIN have.bytes = 1 .. n
    BY DEF BeliefInv
  <2>2. DOMAIN bytes = DOMAIN have.bytes
    <3>1. DOMAIN Flip(have, i) = DOMAIN have.bytes
      BY DEF Flip
    <3>2. bytes = have.bytes \/ bytes = Flip(have, i)
      <4>1. /\ have = [bytes |-> have.bytes, cnt_marked |-> have.cnt_marked, length |-> have.length]
        BY DEF HaveInv, Sound
      <4>2. QED
        BY <4>1 DEF Set
    <3>3. QED
      BY <3>1, <3>2
  <2>3. bytes \in [DOMAIN bytes -> SUBSET Offsets]
    BY <1>6 DEF Sound
  <2> HIDE DEF bytes, n
  <2>4. bytes \in [1 .. n -> SUBSET Offsets]
    BY <2>1, <2>2, <2>3
  <2>5. bytes \in Seq(SUBSET Offsets)
    BY <2>1, <2>4
  <2>6. QED
    BY <1>5, <2>5 DEF bytes
<1>8. QED
  BY <1>1, <1>2, <1>5, <1>6, <1>7, TakenBelief

LEMMA HandleBitfieldBelief ==
    ASSUME LinkInv, HaveInv, BeliefInv, HandleBitfield PROVE BeliefInv'
<1> DEFINE m == Head(channel)
           bytes == [k \in DOMAIN m.bytes |-> BitsOf(m.bytes[k])]
           A == AsRead(bitfield)
<1>1. Takes("Bitfield")
  BY DEF HandleBitfield
<1>2. m \in SaidMessages /\ m.type = "Bitfield" /\ m = Announcement /\ m \in Waiting
  BY <1>1, Taken, SaidKinds
<1>3. Announced(Waiting) = Announced(Left) \cup A
  BY <1>1, <1>2, Taken, AnnouncedMore
<1>4. m.bytes = BytesOf(bitfield)
  BY <1>2 DEF Announcement
<1>5. /\ bytes \in Seq(SUBSET Offsets) /\ Readable(bytes, num_pieces)
      /\ Marked(RefNew(bytes, num_pieces)) = A
  BY <1>4, BitfieldMirrored DEF LinkInv
<1>6. have' = RefNew(bytes, num_pieces) /\ peer_com' = peer_com
  BY <1>5 DEF HandleBitfield
<1> HIDE DEF bytes, A, m
<1>7. have.bytes' \in Seq(SUBSET Offsets) /\ Marked(have)' = A
  BY <1>5, <1>6 DEF RefNew
<1>8. Marked(have) = {}
  BY <1>2 DEF BeliefInv
<1>9. Marked(have)' = Marked(have) \cup A
  BY <1>7, <1>8
<1>10. QED
  BY <1>1, <1>3, <1>6, <1>7, <1>9, TakenBelief

LEMMA NextBelief == ASSUME LinkInv, HaveInv, BeliefInv, [Next]_vars PROVE BeliefInv'
<1>1. ASSUME NEW S \in SUBSET Pieces, SayBitfield(S) PROVE BeliefInv'
  BY <1>1, BitfieldSaidBelief
<1>2. ASSUME NEW i \in Pieces, SayHave(i) PROVE BeliefInv'
  <2> DEFINE m == HaveMessage(i)
  <2>1. m \in SaidMessages /\ m.type = "Have" /\ m.index = i
    BY DEF HaveMessage, SaidMessages, HaveMessages
  <2>2. Say(m) /\ bitfield' = bitfield /\ haves' = haves \cup {i}
    BY <1>2 DEF SayHave, HaveMessage
  <2> HIDE DEF m
  <2>3. QED
    BY <2>1, <2>2, SaidBelief
<1>3. ASSUME NEW m \in OtherMessages, SayOther(m) PROVE BeliefInv'
  <2>1. m \in SaidMessages /\ m.type \notin {"Have", "Bitfield"}
    BY DEF SaidMessages, OtherMessages, Plain, Block, Piece
  <2>2. Say(m) /\ bitfield' = bitfield /\ haves' = haves
    BY <1>3 DEF SayOther
  <2>3. QED
    BY <2>1, <2>2, SaidBelief
<1>4. CASE ReadMessage
  BY <1>4, ReadBelief
<1>5. CASE HandleHave
  BY <1>5, HandleHaveBelief
<1>6. CASE HandleBitfield
  BY <1>6, HandleBitfieldBelief
<1>7. CASE HandleChoke \/ HandleUnchoke \/ HandleRequest \/ HandleOther
  <2>1. PICK type \in {"Choke", "Unchoke", "Request", "Piece", "Cancel"} : Takes(type)
    BY <1>7 DEF HandleChoke, HandleUnchoke, HandleRequest, HandleOther
  <2>2. have' = have /\ peer_com' = peer_com
    BY <1>7 DEF HandleChoke, HandleUnchoke, HandleRequest, HandleOther
  <2>3. Announced(Waiting) = Announced(Left) \cup {}
    BY <2>1, Taken, AnnouncedMore
  <2>4. Marked(have)' = Marked(have) \cup {} /\ have.bytes' \in Seq(SUBSET Offsets)
    BY <2>2 DEF BeliefInv
  <2>5. QED
    BY <2>1, <2>2, <2>3, <2>4, TakenBelief
<1>8. CASE UNCHANGED <<num_pieces, inVars, remoteVars>>
  <2>1. UNCHANGED <<num_pieces, channel, unread, bitfield, haves, have, peer_com, said>>
    BY <1>8 DEF inVars, remoteVars
  <2>2. Waiting' = Waiting
    BY <2>1 DEF Waiting
  <2>3. /\ Announcement' = Announcement /\ AsRead(bitfield)' = AsRead(bitfield)
        /\ Announced(Waiting)' = Announced(Waiting)
    BY <2>1, <2>2, SameAnnounced
  <2>4. Marked(have)' = Marked(have)
    BY <2>1
  <2>5. QED
    BY <2>1, <2>2, <2>3, <2>4 DEF BeliefInv
<1>9. CASE Write \/ WriteKeepAlive \/ \E m \in OurMessages : Queue(m)
  BY <1>8, <1>9 DEF Write, WriteKeepAlive, WriteMessage, Queue
<1>10. CASE UNCHANGED vars
  BY <1>8, <1>10 DEF vars
<1>11. QED
  BY <1>1, <1>2, <1>3, <1>4, <1>5, <1>6, <1>7, <1>9, <1>10 DEF Next, RemoteNext, PeerComNext

\* What we believe of a peer is what it announced, each byte of its Bitfield
\* mirrored, as soon as everything is read and handled; peer_com does not panic.
THEOREM BeliefsMirrored == Spec => []LearnsMirrored
<1> DEFINE IInv == LinkInv /\ HaveInv /\ BeliefInv
<1>1. Init => IInv
  BY InitLink, InitHave, InitBelief
<1>2. IInv /\ [Next]_vars => IInv'
  BY NextLink, NextHave, NextBelief
<1>3. ASSUME IInv PROVE LearnsMirrored
  <2> SUFFICES ASSUME unread = <<>>, channel = <<>>
               PROVE  peer_com = "running" /\ Marked(have) = AsRead(bitfield) \cup haves
    BY DEF LearnsMirrored
  <2>1. Waiting = {}
    BY DEF Waiting, MsgsOf
  <2>2. Announced(Waiting) = {}
    BY <2>1 DEF Announced
  <2>3. QED
    BY <1>3, <2>2 DEF BeliefInv
<1> HIDE DEF IInv
<1>4. QED
  BY <1>1, <1>2, <1>3, PTL DEF Spec

-----------------------------------------------------------------------------
(* From our tasks to the remote peer *)

OurRequest == Block("Request", num_pieces - 1, 2, 1)

\* What may be written.
Written == {KeepAlive, Plain("Interested"), OurRequest, Answer(OurRequest)}

\* A message leaves as it should, except for the length of an answer.
Serialized(m) ==
    /\ Serialize(m) \in Seq(Nat)
    /\ m.type # "Piece" => FrameIs(m) /\ Serialize(m) = Frame(m)

LEMMA WrittenIs == ASSUME num_pieces \in Lengths, NEW m \in Written PROVE Serialized(m)
<1> DEFINE last == num_pieces - 1
<1>1. last \in Nat /\ FitsU32(last)
  BY PeerWireAssumption, FourBytes, LessFits
<1> HIDE DEF last
<1>2. CASE m = KeepAlive
  <2>1. m.type = "KeepAlive"
    BY <1>2 DEF KeepAlive, Plain
  <2>2. Serialize(m) = U32(0) /\ Frame(m) = U32(0) /\ U32(0) \in Seq(Nat)
    BY <2>1, U32Bytes DEF Serialize, LengthPrefix, Frame
  <2>3. QED
    BY <1>2, <2>2, KeepAliveFrame DEF Serialized
<1>3. CASE m = Plain("Interested")
  <2>1. m.type = "Interested" /\ m \in OtherMessages
    BY <1>3 DEF Plain, OtherMessages
  <2>2. FrameIs(m) /\ Payload(m) = <<>> /\ MsgId[m.type] \in Nat
    BY <1>3, <2>1, OthersSaid, PlainFrame
  <2>3. Frame(m) = Laid(MsgId[m.type], Payload(m)) /\ Len(Headed(MsgId[m.type], Payload(m))) = 1
    <3>1. Frame(m) = Laid(MsgId[m.type], Payload(m))
      BY <2>1 DEF Frame, Laid, Headed
    <3>2. Len(Headed(MsgId[m.type], <<>>)) = 1
      BY <2>2 DEF Headed
    <3>3. QED
      BY <2>2, <3>1, <3>2
  <2>4. Serialize(m) = U32(1) \o <<MsgId[m.type]>> \o Payload(m)
    BY <2>1 DEF Serialize, LengthPrefix
  <2>5. QED
    BY <2>2, <2>3, <2>4 DEF Serialized, Laid, Headed, FrameIs
<1>4. CASE m = Block("Request", last, 2, 1)
  <2>1. m.type = "Request" /\ m \in OtherMessages
    BY <1>4 DEF Block, OtherMessages, last
  <2>2. FrameIs(m)
    BY <2>1, OthersSaid
  <2> DEFINE pay == Numbered(last, 2, U32(1))
             n == Len(pay)
             l == Len(U32(1))
  <2>3. Payload(m) = pay /\ MsgId["Request"] = 6
    BY <1>1, <1>4, SmallFits, BlockFrame, IdsAre
  <2>4. U32(1) \in Seq(Nat) /\ l = 4
    BY U32Bytes
  <2>5. pay \in Seq(Nat) /\ n = 8 + l
    BY <1>1, <2>4, SmallFits, PayloadTwo DEF ReadsTwo
  <2> HIDE DEF pay, l
  <2>6. Len(Headed(6, pay)) = 1 + n
    BY <2>5, Layout
  <2> HIDE DEF n
  <2>7. Len(Headed(6, pay)) = 13
    BY <2>4, <2>5, <2>6
  <2>8. Frame(m) = U32(13) \o Headed(6, pay)
    BY <2>1, <2>3, <2>7 DEF Frame, Headed
  <2>9. Serialize(m) = U32(13) \o <<6>> \o pay
    BY <2>1, <2>3 DEF Serialize, LengthPrefix
  <2>10. U32(13) \in Seq(Nat) /\ <<6>> \in Seq(Nat) /\ pay \in Seq(Nat)
    BY <2>5, U32Bytes
  <2>11. Serialize(m) = Frame(m)
    BY <2>8, <2>9, <2>10 DEF Headed
  <2>12. QED
    BY <2>2, <2>11 DEF Serialized, FrameIs
<1>5. CASE m = Answer(OurRequest)
  <2> DEFINE block == [k \in 1 .. 2 |-> IF k > 1 THEN 1 ELSE 0]
             pay == Numbered(last, 2, block)
  <2>1. block \in Seq(Nat)
    OBVIOUS
  <2>2. m = Piece(last, 2, block)
    <3>1. /\ OurRequest.index = last /\ OurRequest.begin = 2 /\ OurRequest.length = 1
      BY DEF OurRequest, Block, last
    <3>2. 2 * 1 = 2
      OBVIOUS
    <3>3. QED
      BY <1>5, <3>1, <3>2 DEF Answer
  <2> HIDE DEF block
  <2>3. Payload(m) = pay
    BY <1>1, <2>1, <2>2, SmallFits, PieceFrame
  <2>4. pay \in Seq(Nat)
    BY <1>1, <2>1, SmallFits, PayloadTwo DEF ReadsTwo
  <2>5. m.type = "Piece" /\ MsgId["Piece"] = 7
    BY <2>2, IdsAre DEF Piece
  <2> HIDE DEF pay
  <2>6. Serialize(m) = U32(9) \o <<7>> \o pay
    BY <2>3, <2>5 DEF Serialize, LengthPrefix
  <2>7. U32(9) \in Seq(Nat) /\ <<7>> \in Seq(Nat)
    BY U32Bytes
  <2>8. Serialize(m) \in Seq(Nat)
    BY <2>4, <2>6, <2>7
  <2>9. QED
    BY <2>5, <2>8 DEF Serialized
<1>6. QED
  BY <1>2, <1>3, <1>4, <1>5 DEF Written, OurRequest, last

\* What was written, write by write; a write that was whole is there in full.
WrittenAs(parts) ==
    /\ parts \in Seq(Seq(Nat)) /\ Len(parts) = Len(sent)
    /\ Joined(to_remote, parts)
    /\ \A k \in 1 .. Len(sent) : sent[k].whole => parts[k] = Serialize(sent[k].msg)

OutInv ==
    /\ outbox \in Seq(Written)
    /\ sent \in Seq([msg : Written, whole : BOOLEAN])
    /\ to_remote \in Seq(Nat)
    /\ \E parts : WrittenAs(parts)

LEMMA WriteStep ==
    ASSUME num_pieces \in Lengths, OutInv, NEW m \in Written, WriteMessage(m)
    PROVE  /\ sent' \in Seq([msg : Written, whole : BOOLEAN])
           /\ to_remote' \in Seq(Nat)
           /\ \E parts : WrittenAs(parts)'
<1> DEFINE buf == Serialize(m)
<1>1. PICK n \in 1 .. Len(buf) : /\ to_remote' = to_remote \o SubSeq(buf, 1, n)
                                 /\ sent' = Append(sent, [msg |-> m, whole |-> n = Len(buf)])
  BY DEF WriteMessage
<1>2. buf \in Seq(Nat)
  BY WrittenIs DEF Serialized
<1> DEFINE part == SubSeq(buf, 1, n)
           entry == [msg |-> m, whole |-> n = Len(buf)]
           R == [msg : Written, whole : BOOLEAN]
<1>3. part \in Seq(Nat) /\ (n = Len(buf) => part = buf)
  BY <1>2
<1>4. entry \in R /\ entry.msg = m /\ (entry.whole => part = Serialize(m))
  BY <1>3
<1>5. to_remote' = to_remote \o part /\ sent' = Append(sent, entry)
  BY <1>1
<1>6. PICK parts : WrittenAs(parts)
  BY DEF OutInv
<1> HIDE DEF part, entry, R, buf
<1>7. /\ parts \in Seq(Seq(Nat)) /\ Len(parts) = Len(sent) /\ Joined(to_remote, parts)
      /\ \A k \in 1 .. Len(sent) : sent[k].whole => parts[k] = Serialize(sent[k].msg)
  BY <1>6 DEF WrittenAs
<1>8. sent \in Seq(R) /\ to_remote \in Seq(Nat)
  BY DEF OutInv, R
<1> DEFINE longer == Append(parts, part)
<1>9. Joined(to_remote \o part, longer)
  BY <1>3, <1>7, <1>8, JoinedAppend
<1>10. to_remote \o part \in Seq(Nat)
  BY <1>3, <1>8, ConcatIs
<1>11. /\ sent' \in Seq(R) /\ Len(sent') = Len(sent) + 1 /\ Len(sent) \in Nat
       /\ sent'[Len(sent) + 1] = entry /\ \A k \in 1 .. Len(sent) : sent'[k] = sent[k]
  BY <1>4, <1>5, <1>8
<1> DEFINE N == Seq(Nat)
<1> HIDE DEF N
<1>12. /\ longer \in Seq(N) /\ Len(longer) = Len(sent) + 1
       /\ longer[Len(sent) + 1] = part /\ \A k \in 1 .. Len(sent) : longer[k] = parts[k]
  <2>1. parts \in Seq(N) /\ part \in N /\ Len(parts) = Len(sent)
    BY <1>3, <1>7 DEF N
  <2>2. QED
    BY ONLY <2>1
<1> HIDE DEF longer
<1>13. ASSUME NEW k \in 1 .. Len(sent'), sent'[k].whole PROVE longer[k] = Serialize(sent'[k].msg)
  <2>1. CASE k = Len(sent) + 1
    BY <1>4, <1>11, <1>12, <1>13, <2>1
  <2>2. CASE k \in 1 .. Len(sent)
    BY <1>7, <1>11, <1>12, <1>13, <2>2
  <2>3. QED
    BY <1>11, <2>1, <2>2
<1>14. WrittenAs(longer)'
  BY <1>5, <1>9, <1>11, <1>12, <1>13 DEF WrittenAs, N
<1>15. QED
  BY <1>5, <1>10, <1>11, <1>14 DEF R

LEMMA NextOut == ASSUME LinkInv, BeliefInv, OutInv, [Next]_vars PROVE OutInv'
<1> DEFINE L == <<num_pieces, to_remote, sent>>
<1>1. num_pieces \in Lengths /\ outbox \in Seq(Written)
  BY DEF LinkInv, OutInv
<1>2. num_pieces' = num_pieces => Written' = Written
  BY DEF Written, OurRequest
<1>3. ASSUME UNCHANGED L, outbox' \in Seq(Written) PROVE OutInv'
  <2>1. PICK parts : WrittenAs(parts)
    BY DEF OutInv
  <2>2. WrittenAs(parts)'
    BY <1>3, <2>1 DEF WrittenAs
  <2>3. QED
    BY <1>2, <1>3, <2>2 DEF OutInv
<1>4. ASSUME NEW m \in Written, WriteMessage(m), outbox' \in Seq(Written) PROVE OutInv'
  <2>1. /\ sent' \in Seq([msg : Written, whole : BOOLEAN]) /\ to_remote' \in Seq(Nat)
        /\ \E parts : WrittenAs(parts)'
    BY <1>1, <1>4, WriteStep
  <2>2. Written' = Written
    BY <1>2, <1>4 DEF WriteMessage
  <2>3. QED
    BY <1>4, <2>1, <2>2 DEF OutInv
<1>5. CASE Write
  <2> DEFINE m == Head(outbox)
  <2>1. m \in Written /\ WriteMessage(m) /\ outbox' \in Seq(Written)
    BY <1>1, <1>5 DEF Write
  <2> HIDE DEF m
  <2>2. QED
    BY <1>4, <2>1
<1>6. CASE WriteKeepAlive
  <2>1. KeepAlive \in Written
    BY DEF Written
  <2>2. QED
    BY <1>1, <1>4, <1>6, <2>1 DEF WriteKeepAlive
<1>7. ASSUME NEW m \in OurMessages, Queue(m) PROVE OutInv'
  <2>1. m \in Written
    BY DEF Written, OurMessages, OurRequest
  <2>2. UNCHANGED L /\ outbox' \in Seq(Written)
    BY <1>1, <1>7, <2>1 DEF Queue
  <2>3. QED
    BY <1>3, <2>2
<1>8. CASE HandleRequest
  <2>1. Head(channel) = OurRequest
    BY <1>8, Taken, SaidKinds DEF HandleRequest, OurRequest
  <2>2. Answer(OurRequest) \in Written
    BY DEF Written
  <2>3. outbox' = Append(outbox, Answer(OurRequest)) /\ UNCHANGED L
    BY <1>8, <2>1 DEF HandleRequest, Takes
  <2>4. outbox' \in Seq(Written)
    BY <1>1, <2>2, <2>3
  <2>5. QED
    BY <1>3, <2>3, <2>4
<1>9. CASE HandleHave \/ HandleBitfield \/ HandleChoke \/ HandleUnchoke \/ HandleOther
  <2>1. UNCHANGED <<L, outbox>>
    BY <1>9 DEF HandleHave, HandleBitfield, HandleChoke, HandleUnchoke, HandleOther, Takes
  <2>2. QED
    BY <1>1, <1>3, <2>1
<1>10. CASE RemoteNext
  <2>1. UNCHANGED <<L, outbox>>
    BY <1>10 DEF RemoteNext, SayBitfield, SayHave, SayOther, Say, outVars
  <2>2. QED
    BY <1>1, <1>3, <2>1
<1>11. CASE ReadMessage
  <2>1. UNCHANGED <<L, outbox>>
    BY <1>11 DEF ReadMessage, outVars
  <2>2. QED
    BY <1>1, <1>3, <2>1
<1>12. CASE UNCHANGED vars
  <2>1. UNCHANGED <<L, outbox>>
    BY <1>12 DEF vars, outVars
  <2>2. QED
    BY <1>1, <1>3, <2>1
<1>13. QED
  BY <1>5, <1>6, <1>7, <1>8, <1>9, <1>10, <1>11, <1>12 DEF Next, PeerComNext

LEMMA InitOut == ASSUME Init PROVE OutInv
<1>1. WrittenAs(<<>>)
  BY JoinedNone DEF WrittenAs, Init
<1>2. QED
  BY <1>1 DEF OutInv, Init

\* A part that says its own length.
Framed(p) == \E body \in Seq(Nat) : FitsU32(Len(body)) /\ p = U32(Len(body)) \o body

\* A stream whose first n parts are framed is cut into them, and the rest as it may be.
CutTo(stream, parts, n) ==
    \E rest \in Seq(Nat) : \E left \in Seq(Seq(Nat)) :
        /\ Joined(rest, left) /\ Len(left) = Len(parts) - n
        /\ \A k \in 1 .. Len(left) : left[k] = parts[n + k]
        /\ Len(Frames[stream]) = n + Len(Frames[rest])
        /\ \A k \in 1 .. Len(Frames[rest]) : Frames[stream][n + k] = Frames[rest][k]
        /\ \A k \in 1 .. n : Frames[stream][k] = parts[k]

LEMMA CutMore ==
    ASSUME NEW s \in Seq(Nat), NEW ps \in Seq(Seq(Nat)), NEW n \in 0 .. Len(ps) - 1,
           CutTo(s, ps, n), Framed(ps[n + 1])
    PROVE  CutTo(s, ps, n + 1)
<1> DEFINE F == Frames[s]
           N == Seq(Nat)
           P == Len(ps)
<1>1. PICK r \in Seq(Nat), qs \in Seq(Seq(Nat)) :
        /\ Joined(r, qs) /\ Len(qs) = P - n
        /\ \A k \in 1 .. Len(qs) : qs[k] = ps[n + k]
        /\ Len(F) = n + Len(Frames[r])
        /\ \A k \in 1 .. Len(Frames[r]) : F[n + k] = Frames[r][k]
        /\ \A k \in 1 .. n : F[k] = ps[k]
  BY DEF CutTo
<1>2. P \in Nat /\ n \in Nat /\ n + 1 <= P
  OBVIOUS
<1> HIDE DEF P
<1> DEFINE p == ps[n + 1]
<1>3. qs # <<>> /\ 1 \in 1 .. Len(qs) /\ qs[1] = p
  BY <1>1, <1>2
<1>4. PICK body \in Seq(Nat) : FitsU32(Len(body)) /\ p = U32(Len(body)) \o body
  BY DEF Framed
<1> HIDE DEF p
<1> DEFINE rest == SubSeq(r, Len(p) + 1, Len(r))
           left == Tail(qs)
<1>5. /\ p \in Seq(Nat) /\ Len(p) <= Len(r) /\ \A j \in 1 .. Len(p) : r[j] = p[j]
      /\ Joined(rest, left)
  BY <1>1, <1>3, JoinedHead
<1>6. Arrived(r) /\ FirstFrame(r) = p /\ AfterFrame(r) = rest
  BY <1>4, <1>5, FrameRead
<1>7. rest \in Seq(Nat)
  BY <1>6, RestShorter
<1> HIDE DEF rest
<1> DEFINE G == Frames[rest]
<1>8. Frames[r] = <<p>> \o G
  BY <1>6, FramesAre
<1>9. G \in Seq(Seq(Nat)) /\ F \in Seq(Seq(Nat))
  BY <1>7, FramesAre
<1> HIDE DEF F, G
<1>10. /\ Len(Frames[r]) = 1 + Len(G) /\ Frames[r][1] = p
       /\ \A k \in 1 .. Len(G) : Frames[r][1 + k] = G[k]
  <2> DEFINE one == <<p>>
             H == one \o G
  <2>1. one \in Seq(N) /\ Len(one) = 1 /\ one[1] = p /\ G \in Seq(N)
    BY <1>5, <1>9
  <2> HIDE DEF one, N
  <2>2. /\ Len(H) = Len(one) + Len(G)
        /\ \A k \in 1 .. Len(one) : H[k] = one[k]
        /\ \A k \in 1 .. Len(G) : H[Len(one) + k] = G[k]
    <3>1. one \in Seq(N) /\ G \in Seq(N)
      BY <2>1
    <3>2. QED
      BY ONLY <3>1
  <2>3. Frames[r] = H
    BY <1>8 DEF one
  <2> HIDE DEF H
  <2>4. QED
    BY <2>1, <2>2, <2>3
<1>11. Len(G) \in Nat
  BY <1>9
<1>12. Len(F) = (n + 1) + Len(G)
  BY <1>1, <1>2, <1>10, <1>11
<1>13. ASSUME NEW k \in 1 .. Len(G) PROVE F[(n + 1) + k] = G[k]
  <2>1. 1 + k \in 1 .. Len(Frames[r]) /\ n + (1 + k) = (n + 1) + k
    BY <1>2, <1>10, <1>11
  <2>2. F[n + (1 + k)] = Frames[r][1 + k]
    BY <1>1, <2>1
  <2>3. QED
    BY <1>10, <2>1, <2>2
<1>14. ASSUME NEW k \in 1 .. n + 1 PROVE F[k] = ps[k]
  <2>1. CASE k \in 1 .. n
    BY <1>1, <2>1
  <2>2. CASE k = n + 1
    <3>1. 1 \in 1 .. Len(Frames[r])
      BY <1>10, <1>11
    <3>2. F[n + 1] = Frames[r][1]
      BY <1>1, <3>1
    <3>3. QED
      BY <1>10, <2>2, <3>2 DEF p
  <2>3. QED
    BY <1>2, <2>1, <2>2
<1>15. /\ left \in Seq(Seq(Nat)) /\ Len(left) = P - (n + 1)
       /\ \A k \in 1 .. Len(left) : left[k] = ps[(n + 1) + k]
  <2>1. qs \in Seq(N) /\ Len(qs) \in Nat
    BY <1>1
  <2> HIDE DEF N
  <2>2. /\ left \in Seq(N) /\ Len(left) = Len(qs) - 1
        /\ \A k \in 1 .. Len(qs) - 1 : left[k] = qs[k + 1]
    BY <1>3, <2>1
  <2> HIDE DEF left
  <2>3. Len(left) = P - (n + 1)
    BY <1>1, <1>2, <2>1, <2>2
  <2>4. ASSUME NEW k \in 1 .. Len(left) PROVE left[k] = ps[(n + 1) + k]
    <3>1. k \in 1 .. Len(qs) - 1 /\ k + 1 \in 1 .. Len(qs) /\ n + (k + 1) = (n + 1) + k
      BY <1>2, <2>1, <2>2
    <3>2. qs[k + 1] = ps[n + (k + 1)]
      BY <1>1, <3>1
    <3>3. QED
      BY <2>2, <3>1, <3>2
  <2>5. QED
    BY <2>2, <2>3, <2>4 DEF N
<1> HIDE DEF left
<1>16. QED
  BY <1>5, <1>7, <1>12, <1>13, <1>14, <1>15 DEF CutTo, F, G, P

\* As long as everything was whole and nothing an answer, the peer hears it.
LEMMA HeardTo ==
    ASSUME num_pieces \in Lengths, OutInv, NEW n \in 0 .. Len(sent), Clean(n)
    PROVE  /\ Heard \in Seq(Seq(Nat)) /\ n <= Len(Heard)
           /\ \A k \in 1 .. n : Heard[k] = Frame(sent[k].msg)
           /\ n = Len(sent) => Len(Heard) = n
<1>1. PICK parts : WrittenAs(parts)
  BY DEF OutInv
<1>2. /\ parts \in Seq(Seq(Nat)) /\ Len(parts) = Len(sent) /\ Len(sent) \in Nat
      /\ Joined(to_remote, parts) /\ to_remote \in Seq(Nat)
      /\ \A k \in 1 .. Len(sent) : sent[k].whole => parts[k] = Serialize(sent[k].msg)
      /\ \A k \in 1 .. Len(sent) : sent[k].msg \in Written
  <2>1. sent \in Seq([msg : Written, whole : BOOLEAN]) /\ to_remote \in Seq(Nat)
    BY DEF OutInv
  <2>2. Len(sent) \in Nat /\ \A k \in 1 .. Len(sent) : sent[k].msg \in Written
    <3> DEFINE R == [msg : Written, whole : BOOLEAN]
    <3>1. \A x \in R : x.msg \in Written
      OBVIOUS
    <3> HIDE DEF R
    <3>2. sent \in Seq(R)
      BY <2>1 DEF R
    <3>3. Len(sent) \in Nat /\ \A k \in 1 .. Len(sent) : sent[k] \in R
      BY ONLY <3>2
    <3>4. QED
      BY <3>1, <3>3
  <2>3. QED
    BY <1>1, <2>1, <2>2 DEF WrittenAs
<1>3. Heard \in Seq(Seq(Nat)) /\ Heard = Frames[to_remote]
  BY <1>2, FramesAre DEF Heard
<1>4. ASSUME NEW k \in 1 .. n PROVE parts[k] = Frame(sent[k].msg) /\ Framed(parts[k])
  <2> DEFINE m == sent[k].msg
  <2>1. k \in 1 .. Len(sent) /\ sent[k].whole /\ m.type # "Piece" /\ m \in Written
    BY <1>2 DEF Clean
  <2>2. parts[k] = Serialize(m)
    BY <1>2, <2>1
  <2> HIDE DEF m
  <2>3. FrameIs(m) /\ Serialize(m) = Frame(m)
    BY <2>1, WrittenIs DEF Serialized
  <2>4. QED
    BY <2>2, <2>3 DEF FrameIs, Framed, m
<1> DEFINE s == to_remote
           T == {k \in Nat : CutTo(s, parts, k)}
<1>5. CutTo(s, parts, 0)
  <2> DEFINE F == Frames[s]
  <2>1. F \in Seq(Seq(Nat))
    BY <1>3
  <2> HIDE DEF F
  <2>2. /\ Len(F) = 0 + Len(F) /\ Len(parts) = Len(parts) - 0
        /\ \A k \in 1 .. Len(F) : F[0 + k] = F[k]
        /\ \A k \in 1 .. Len(parts) : parts[k] = parts[0 + k]
        /\ \A k \in 1 .. 0 : F[k] = parts[k]
    BY <1>2, <2>1
  <2>3. QED
    BY <1>2, <2>2 DEF CutTo, F
<1>6. ASSUME NEW k \in 0 .. n - 1, CutTo(s, parts, k) PROVE CutTo(s, parts, k + 1)
  <2>1. k \in 0 .. Len(parts) - 1 /\ k + 1 \in 1 .. n
    BY <1>2
  <2>2. Framed(parts[k + 1])
    BY <1>4, <2>1
  <2> HIDE DEF s
  <2>3. s \in Seq(Nat)
    BY <1>2 DEF s
  <2>4. QED
    BY <1>2, <1>6, <2>1, <2>2, <2>3, CutMore
<1> HIDE DEF s
<1>7. n \in Nat /\ 0 \in T /\ \A k \in 0 .. n - 1 : k \in T => k + 1 \in T
  BY <1>2, <1>5, <1>6
<1> HIDE DEF T
<1>8. n \in T
  <2>1. \A k \in 0 .. n : k \in T
    BY <1>7, InductTo
  <2>2. QED
    BY <1>7, <2>1
<1> DEFINE F == Frames[s]
<1>9. PICK rest \in Seq(Nat), left \in Seq(Seq(Nat)) :
        /\ Joined(rest, left) /\ Len(left) = Len(parts) - n
        /\ Len(F) = n + Len(Frames[rest])
        /\ \A k \in 1 .. n : F[k] = parts[k]
  BY <1>8 DEF CutTo, T
<1>10. F = Heard
  BY <1>3 DEF s
<1> HIDE DEF F
<1>11. Len(Frames[rest]) \in Nat
  <2>1. Frames[rest] \in Seq(Seq(Nat))
    BY FramesAre
  <2>2. QED
    BY <2>1
<1>12. n <= Len(Heard) /\ \A k \in 1 .. n : Heard[k] = Frame(sent[k].msg)
  BY <1>4, <1>7, <1>9, <1>10, <1>11
<1>13. ASSUME n = Len(sent) PROVE Len(Heard) = n
  <2>1. Len(left) = 0
    BY <1>2, <1>9, <1>13
  <2>2. PICK cuts : CutInto(rest, left, cuts)
    BY <1>9 DEF Joined
  <2>3. Len(rest) = 0
    BY <2>1, <2>2 DEF CutInto
  <2>4. ~Arrived(rest)
    BY <2>3 DEF Arrived
  <2>5. Frames[rest] = <<>>
    BY <2>4, FramesAre
  <2>6. QED
    BY <1>7, <1>9, <1>10, <2>5
<1>14. QED
  BY <1>3, <1>12, <1>13

\* The remote peer hears what sh wrote, message by message, up to the first write
\* that was cut short or the first block.
THEOREM MessagesHeard == Spec => []HeardAsSent
<1> DEFINE IInv == LinkInv /\ HaveInv /\ BeliefInv /\ OutInv
<1>1. Init => IInv
  BY InitLink, InitHave, InitBelief, InitOut
<1>2. IInv /\ [Next]_vars => IInv'
  BY NextLink, NextHave, NextBelief, NextOut
<1>3. ASSUME IInv PROVE HeardAsSent
  <2>1. num_pieces \in Lengths /\ Len(sent) \in Nat /\ DOMAIN sent = 1 .. Len(sent)
    BY <1>3 DEF LinkInv, OutInv
  <2>2. ASSUME NEW k \in DOMAIN sent, Clean(k) PROVE Heard[k] = Frame(sent[k].msg)
    <3>1. k \in 0 .. Len(sent) /\ k \in 1 .. k
      BY <2>1
    <3>2. QED
      BY <1>3, <2>1, <2>2, <3>1, HeardTo
  <2>3. ASSUME Clean(Len(sent)) PROVE Len(Heard) = Len(sent)
    <3> DEFINE n == Len(sent)
    <3>1. n \in 0 .. Len(sent) /\ Clean(n)
      BY <2>1, <2>3
    <3> HIDE DEF n
    <3>2. n = Len(sent) => Len(Heard) = n
      BY <1>3, <2>1, <3>1, HeardTo
    <3>3. QED
      BY <3>2 DEF n
  <2>4. QED
    BY <2>2, <2>3 DEF HeardAsSent
<1> HIDE DEF IInv
<1>4. QED
  BY <1>1, <1>2, <1>3, PTL DEF Spec

-----------------------------------------------------------------------------
(* Type correctness *)

RoomInv ==
    /\ rh \in {"reading", "panicked"}
    /\ offered \subseteq Pieces
    /\ Len(channel) <= Capacity /\ Len(outbox) <= Capacity
    /\ said \in 0 .. MaxSaid
    /\ said + Len(sent) <= MaxMessages

LEMMA InitRoom == ASSUME Init PROVE RoomInv
  BY PeerWireAssumption DEF Init, RoomInv

LEMMA NextOffered ==
    ASSUME HaveInv, offered \subseteq Pieces, [Next]_vars PROVE (offered \subseteq Pieces)'
<1>1. Pieces' = Pieces
  BY StepLearns DEF Pieces
<1>2. \A bytes : Marked(RefNew(bytes, num_pieces)) \subseteq Pieces
  BY DEF Marked, MarkedIn, RefNew, Pieces
<1>3. HeldBack \subseteq Pieces
  BY <1>2 DEF HeldBack
<1>4. offered' \subseteq Pieces
  BY <1>2, <1>3, StepLearns DEF LearnsHave, LearnsBitfield, IsChoked, IsUnchoked, LearnsNothing, Offer
<1>5. QED
  BY <1>1, <1>4

LEMMA NextRoom ==
    ASSUME LinkInv, HaveInv, OutInv, RoomInv, [Next]_vars PROVE RoomInv'
<1>1. offered' \subseteq Pieces'
  BY NextOffered DEF RoomInv
<1>2. /\ Capacity \in Nat /\ MaxSaid \in Nat /\ MaxMessages \in Nat
      /\ Len(channel) \in Nat /\ Len(outbox) \in Nat /\ Len(sent) \in Nat
      /\ Len(channel) <= Capacity /\ Len(outbox) <= Capacity
      /\ said \in 0 .. MaxSaid /\ said + Len(sent) <= MaxMessages
      /\ rh \in {"reading", "panicked"}
  BY PeerWireAssumption DEF LinkInv, OutInv, RoomInv
<1>3. channel \in Seq(SaidMessages) /\ outbox \in Seq(Written) /\ sent \in Seq([msg : Written, whole : BOOLEAN])
  BY DEF LinkInv, OutInv
<1>4. CASE RemoteNext
  <2>1. /\ said < MaxSaid /\ said + Len(sent) < MaxMessages /\ said' = said + 1
        /\ UNCHANGED <<rh, channel, outbox, sent>>
    BY <1>4 DEF RemoteNext, SayBitfield, SayHave, SayOther, Say, outVars
  <2>2. QED
    BY <1>1, <1>2, <2>1 DEF RoomInv
<1>5. CASE ReadMessage
  <2>1. /\ rh' \in {"reading", "panicked"}
        /\ \/ channel' = channel
           \/ Len(channel) < Capacity /\ \E m \in SaidMessages : channel' = Append(channel, m)
        /\ UNCHANGED <<said, outbox, sent>>
    <3>1. UNCHANGED <<said, outbox, sent>>
      BY <1>5 DEF ReadMessage, outVars
    <3>2. QED
      BY <1>2, <1>5, <3>1, ReadStep DEF ReadsFirst, HasRoom
  <2>2. Len(channel') <= Capacity
    BY <1>2, <1>3, <2>1
  <2>3. QED
    BY <1>1, <1>2, <2>1, <2>2 DEF RoomInv
<1>6. CASE PeerComNext
  <2>1. /\ channel # <<>> /\ channel' = Tail(channel) /\ UNCHANGED <<rh, said, sent>>
    BY <1>6 DEF PeerComNext, HandleHave, HandleBitfield, HandleChoke, HandleUnchoke, HandleRequest,
                HandleOther, Takes, remoteVars
  <2>2. Len(channel') <= Capacity
    BY <1>2, <1>3, <2>1
  <2>3. outbox' = outbox \/ (Len(outbox) < Capacity /\ outbox' = Append(outbox, Answer(Head(channel))))
    BY <1>6 DEF PeerComNext, HandleHave, HandleBitfield, HandleChoke, HandleUnchoke, HandleRequest,
                HandleOther, HasRoom
  <2>4. Len(outbox') <= Capacity
    BY <1>2, <1>3, <2>3
  <2>5. QED
    BY <1>1, <1>2, <2>1, <2>2, <2>4 DEF RoomInv
<1>7. ASSUME NEW m \in OurMessages, Queue(m) PROVE RoomInv'
  <2>1. /\ Len(outbox) < Capacity /\ outbox' = Append(outbox, m)
        /\ UNCHANGED <<rh, channel, said, sent>>
    BY <1>7 DEF Queue, HasRoom, inVars, remoteVars
  <2>2. Len(outbox') <= Capacity
    BY <1>2, <1>3, <2>1
  <2>3. QED
    BY <1>1, <1>2, <2>1, <2>2 DEF RoomInv
<1>8. CASE Write \/ WriteKeepAlive
  <2>1. /\ said + Len(sent) < MaxMessages /\ \E e : sent' = Append(sent, e)
        /\ UNCHANGED <<rh, channel, said>>
        /\ outbox' = outbox \/ (outbox # <<>> /\ outbox' = Tail(outbox))
    BY <1>8 DEF Write, WriteKeepAlive, WriteMessage, inVars, remoteVars
  <2>2. Len(sent') = Len(sent) + 1 /\ Len(outbox') <= Capacity
    BY <1>2, <1>3, <2>1
  <2>3. QED
    BY <1>1, <1>2, <2>1, <2>2 DEF RoomInv
<1>9. CASE UNCHANGED vars
  <2>1. UNCHANGED <<rh, channel, said, outbox, sent>>
    BY <1>9 DEF vars, inVars, outVars, remoteVars
  <2>2. QED
    BY <1>1, <1>2, <2>1 DEF RoomInv
<1>10. QED
  BY <1>4, <1>5, <1>6, <1>7, <1>8, <1>9 DEF Next

\* Every variable of the connection keeps its type, and no channel exceeds its
\* limit.
THEOREM WireTyped == Spec => []TypeOK
<1> DEFINE IInv == LinkInv /\ HaveInv /\ BeliefInv /\ OutInv /\ RoomInv
<1>1. Init => IInv
  BY InitLink, InitHave, InitBelief, InitOut, InitRoom
<1>2. IInv /\ [Next]_vars => IInv'
  BY NextLink, NextHave, NextBelief, NextOut, NextRoom
<1>3. ASSUME IInv PROVE TypeOK
  <2>1. /\ have \in [bytes : [DOMAIN have.bytes -> SUBSET Offsets], cnt_marked : Nat, length : {num_pieces}]
        /\ Readable(have.bytes, num_pieces) /\ num_pieces \in Nat
    BY <1>3 DEF HaveInv, Sound
  <2>2. have.bytes \in Seq(SUBSET Offsets)
    BY <1>3 DEF BeliefInv
  <2> DEFINE S == Seq(SUBSET Offsets)
             F == [DOMAIN have.bytes -> SUBSET Offsets]
  <2> HIDE DEF S, F
  <2>3. have \in [bytes : F, cnt_marked : Nat, length : {num_pieces}] /\ have.bytes \in S
    BY <2>1, <2>2 DEF S, F
  <2>4. have \in [bytes : S, cnt_marked : Nat, length : Nat] /\ have.length = num_pieces
    BY <2>1, <2>3
  <2>5. have \in Bitfields
    BY <2>4 DEF Bitfields, S
  <2>6. QED
    BY <1>3, <2>1, <2>4, <2>5 DEF TypeOK, LinkInv, HaveInv, BeliefInv, OutInv, RoomInv
<1> HIDE DEF IInv
<1>4. QED
  BY <1>1, <1>2, <1>3, PTL DEF Spec

=============================================================================
