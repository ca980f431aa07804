--------------------------- MODULE LockOrder_proofs ---------------------------
(***************************************************************************)
(* Proofs about LockOrder, for any peers, any kinds of messages and any    *)
(* number of reads of the PeerTracker.                                     *)
(***************************************************************************)
EXTENDS LockOrder, NatRecursion, TLAPS

Step == [mode : Modes, on : Locks]

\* At step k of s the guard of l is alive: the next step that names l drops it.
Owes(s, k, l) ==
    \E j \in DOMAIN s :
        /\ k <= j
        /\ s[j] = [mode |-> "drop", on |-> l]
        /\ \A i \in k .. j - 1 : s[i].on # l

\* A lock is taken only with a drop to come, and dropped only once.
Bracketed(s) == \A k \in DOMAIN s : Owes(s, k + 1, s[k].on) <=> s[k].mode # "drop"

\* Where a lock is taken while the guard of another is alive, R has the pair.
Ordered(s, R) ==
    \A k \in DOMAIN s : \A l \in Locks :
        s[k].mode # "drop" /\ Owes(s, k, l) => <<l, s[k].on>> \in R

\* A script over the locks of M that leaves no guard alive.
Block(s, R, M) ==
    /\ s \in Seq(Step)
    /\ Bracketed(s)
    /\ Ordered(s, R)
    /\ \A k \in DOMAIN s : s[k].on \in M
    /\ \A l \in Locks : ~Owes(s, 1, l)

-----------------------------------------------------------------------------
(* What a task holds while it takes another lock *)

\* While peers send blocks only.
PieceOrder ==
    {<<pr_map, pr_tracker(p)>> : p \in Peers} \cup {<<pc_tracker, stats_tracker>>}

HandlerOrder ==
    PieceOrder
        \cup {<<stats_tracker, pc_tracker>>, <<pr_map, pc_tracker>>, <<pr_map, stats_tracker>>}
        \cup {<<pr_tracker(p), pc_tracker>> : p \in Peers}
        \cup {<<pr_tracker(p), stats_tracker>> : p \in Peers}

JoinOrder == {<<stats_tracker, pr_map>>}

RequestOrder(p) == {<<pc_tracker, pr_tracker(p)>>}

\* The pairs task t may take while peers send the kinds of K.
OrderOf(t, K) ==
    {e \in Locks \X Locks :
        \/ t = peer_com /\ K = {"Piece"} /\ e \in PieceOrder
        \/ t = peer_com /\ K # {"Piece"} /\ e \in HandlerOrder
        \/ e \in JoinOrder /\ \E p \in Peers : t = join(p)
        \/ \E p \in Peers : t = reqh(p) /\ e \in RequestOrder(p)}

-----------------------------------------------------------------------------
(* Scripts one after the other, and inside a guard *)

LEMMA EmptyBlock == ASSUME NEW R, NEW M PROVE Block(Nothing, R, M)
  BY DEF Nothing, Block, Bracketed, Ordered, Owes

LEMMA BlockWider ==
    ASSUME NEW s, NEW R, NEW M, Block(s, R, M), NEW L, M \subseteq L
    PROVE  Block(s, R, L)
  BY DEF Block

\* The first step of a script that leaves no guard alive takes a lock.
LEMMA BlockTakes ==
    ASSUME NEW s, NEW R, NEW M, Block(s, R, M), s # Nothing
    PROVE  Head(s) \in Step /\ Head(s).mode # "drop" /\ Head(s).on \in M
<1>1. s \in Seq(Step) /\ 1 \in DOMAIN s /\ s[1] \in Step /\ Head(s) = s[1]
  BY DEF Block, Nothing
<1>2. CASE s[1].mode = "drop"
  <2>1. s[1] = [mode |-> "drop", on |-> s[1].on] /\ s[1].on \in Locks
    BY <1>1, <1>2 DEF Step
  <2>2. Owes(s, 1, s[1].on)
    BY <1>1, <2>1 DEF Owes
  <2>3. QED
    BY <2>1, <2>2 DEF Block
<1>3. QED
  BY <1>1, <1>2 DEF Block

LEMMA OwesConcat ==
    ASSUME NEW s \in Seq(Step), NEW t \in Seq(Step), NEW l \in Locks, ~Owes(t, 1, l)
    PROVE  /\ \A k \in 1 .. Len(s) + 1 : Owes(s \o t, k, l) <=> Owes(s, k, l)
           /\ \A k \in 1 .. Len(t) + 1 : Owes(s \o t, Len(s) + k, l) <=> Owes(t, k, l)
<1> DEFINE w == s \o t
           n == Len(s)
<1>1. /\ w \in Seq(Step) /\ n \in Nat /\ Len(t) \in Nat /\ Len(w) = n + Len(t)
      /\ \A j \in 1 .. n : w[j] = s[j]
      /\ \A j \in 1 .. Len(t) : w[n + j] = t[j]
  OBVIOUS
<1>2. DOMAIN w = 1 .. n + Len(t) /\ DOMAIN s = 1 .. n /\ DOMAIN t = 1 .. Len(t)
  BY <1>1
<1> SUFFICES /\ \A k \in 1 .. n + 1 : Owes(w, k, l) <=> Owes(s, k, l)
             /\ \A k \in 1 .. Len(t) + 1 : Owes(w, n + k, l) <=> Owes(t, k, l)
  OBVIOUS
<1> HIDE DEF w, n
<1>3. ASSUME NEW k \in 1 .. n + 1, Owes(s, k, l) PROVE Owes(w, k, l)
  BY <1>1, <1>2, <1>3 DEF Owes
<1>4. ASSUME NEW k \in 1 .. n + 1, Owes(w, k, l) PROVE Owes(s, k, l)
  <2>1. PICK j \in DOMAIN w : /\ k <= j /\ w[j] = [mode |-> "drop", on |-> l]
                              /\ \A i \in k .. j - 1 : w[i].on # l
    BY <1>4 DEF Owes
  <2>2. CASE j <= n
    BY <1>1, <1>2, <2>1, <2>2 DEF Owes
  <2>3. CASE j > n
    <3>1. j - n \in DOMAIN t /\ t[j - n] = [mode |-> "drop", on |-> l] /\ 1 <= j - n
      BY <1>1, <1>2, <2>1, <2>3
    <3>2. ASSUME NEW i \in 1 .. (j - n) - 1 PROVE t[i].on # l
      <4>1. n + i \in k .. j - 1 /\ i \in 1 .. Len(t)
        BY <1>1, <1>2, <2>1, <2>3
      <4>2. QED
        BY <1>1, <2>1, <4>1
    <3>3. QED
      BY <3>1, <3>2 DEF Owes
  <2>4. QED
    BY <1>1, <1>2, <2>1, <2>2, <2>3
<1>5. ASSUME NEW k \in 1 .. Len(t) + 1, Owes(t, k, l) PROVE Owes(w, n + k, l)
  <2>1. PICK j \in DOMAIN t : /\ k <= j /\ t[j] = [mode |-> "drop", on |-> l]
                              /\ \A i \in k .. j - 1 : t[i].on # l
    BY <1>5 DEF Owes
  <2>2. n + j \in DOMAIN w /\ n + k <= n + j /\ w[n + j] = [mode |-> "drop", on |-> l]
    BY <1>1, <1>2, <2>1
  <2>3. ASSUME NEW i \in n + k .. (n + j) - 1 PROVE w[i].on # l
    <3>1. i - n \in k .. j - 1 /\ i - n \in 1 .. Len(t) /\ i = n + (i - n)
      BY <1>1, <1>2, <2>1
    <3>2. QED
      BY <1>1, <2>1, <3>1
  <2>4. QED
    BY <2>2, <2>3 DEF Owes
<1>6. ASSUME NEW k \in 1 .. Len(t) + 1, Owes(w, n + k, l) PROVE Owes(t, k, l)
  <2>1. PICK j \in DOMAIN w : /\ n + k <= j /\ w[j] = [mode |-> "drop", on |-> l]
                              /\ \A i \in n + k .. j - 1 : w[i].on # l
    BY <1>6 DEF Owes
  <2>a. j - n \in DOMAIN t /\ k <= j - n /\ j = n + (j - n)
    BY <1>1, <1>2, <2>1
  <2>b. w[n + (j - n)] = t[j - n]
    BY <1>1, <1>2, <2>a
  <2>2. j - n \in DOMAIN t /\ k <= j - n /\ t[j - n] = [mode |-> "drop", on |-> l]
    BY <2>1, <2>a, <2>b
  <2>3. ASSUME NEW i \in k .. (j - n) - 1 PROVE t[i].on # l
    <3>1. n + i \in n + k .. j - 1 /\ i \in 1 .. Len(t)
      BY <1>1, <1>2, <2>1
    <3>2. QED
      BY <1>1, <2>1, <3>1
  <2>4. QED
    BY <2>2, <2>3 DEF Owes
<1>7. QED
  BY <1>3, <1>4, <1>5, <1>6

LEMMA BlockConcat ==
    ASSUME NEW R, NEW M, NEW s, NEW t, Block(s, R, M), Block(t, R, M)
    PROVE  Block(s \o t, R, M)
<1> DEFINE w == s \o t
           n == Len(s)
<1>1. s \in Seq(Step) /\ t \in Seq(Step)
  BY DEF Block
<1>2. /\ w \in Seq(Step) /\ n \in Nat /\ Len(t) \in Nat /\ Len(w) = n + Len(t)
      /\ \A j \in 1 .. n : w[j] = s[j]
      /\ \A j \in 1 .. Len(t) : w[n + j] = t[j]
  BY <1>1
<1>3. DOMAIN w = 1 .. n + Len(t) /\ DOMAIN s = 1 .. n /\ DOMAIN t = 1 .. Len(t)
  BY <1>1, <1>2
<1>4. /\ \A l \in Locks : \A k \in 1 .. n + 1 : Owes(w, k, l) <=> Owes(s, k, l)
      /\ \A l \in Locks : \A k \in 1 .. Len(t) + 1 : Owes(w, n + k, l) <=> Owes(t, k, l)
  BY <1>1, OwesConcat DEF Block
<1> SUFFICES Block(w, R, M)
  OBVIOUS
<1> HIDE DEF w, n
<1>5. ASSUME NEW k \in DOMAIN w
      PROVE  /\ Owes(w, k + 1, w[k].on) <=> w[k].mode # "drop"
             /\ \A l \in Locks : w[k].mode # "drop" /\ Owes(w, k, l) => <<l, w[k].on>> \in R
             /\ w[k].on \in M
  <2>1. CASE k \in 1 .. n
    <3>1. w[k] = s[k] /\ k \in DOMAIN s /\ k + 1 \in 1 .. n + 1 /\ k \in 1 .. n + 1
      BY <1>2, <1>3, <2>1
    <3>2. s[k] \in Step
      BY <1>1, <3>1
    <3>3. s[k].on \in Locks
      BY <3>2 DEF Step
    <3>4. QED
      BY <1>4, <3>1, <3>3 DEF Block, Bracketed, Ordered
  <2>2. CASE k \notin 1 .. n
    <3> DEFINE i == k - n
    <3>1. /\ w[k] = t[i] /\ i \in DOMAIN t /\ i + 1 \in 1 .. Len(t) + 1 /\ i \in 1 .. Len(t) + 1
          /\ k = n + i /\ k + 1 = n + (i + 1)
      BY <1>2, <1>3, <2>2
    <3> HIDE DEF i
    <3>a. t[i] \in Step
      BY <1>1, <3>1
    <3>2. t[i].on \in Locks
      BY <3>a DEF Step
    <3>3. Owes(w, k + 1, t[i].on) <=> Owes(t, i + 1, t[i].on)
      BY <1>4, <3>1, <3>2
    <3>4. \A l \in Locks : Owes(w, k, l) <=> Owes(t, i, l)
      BY <1>4, <3>1
    <3>5. QED
      BY <3>1, <3>3, <3>4 DEF Block, Bracketed, Ordered
  <2>3. QED
    BY <2>1, <2>2
<1>6. \A l \in Locks : ~Owes(w, 1, l)
  BY <1>2, <1>4 DEF Block
<1>7. QED
  BY <1>2, <1>5, <1>6 DEF Block, Bracketed, Ordered

\* A guard around a script that does not name its lock.
LEMMA BlockScoped ==
    ASSUME NEW R, NEW M, NEW s, Block(s, R, M),
           NEW mode \in {"read", "write"}, NEW l \in Locks, l \notin M,
           \A m \in M : <<l, m>> \in R
    PROVE  Block(Scoped(mode, l, s), R, M \cup {l}) /\ Scoped(mode, l, s) # Nothing
<1> DEFINE w == Scoped(mode, l, s)
           n == Len(s)
<1>1. s \in Seq(Step) /\ n \in Nat /\ DOMAIN s = 1 .. n
  BY DEF Block
<1>2. /\ [mode |-> mode, on |-> l] \in Step
      /\ [mode |-> "drop", on |-> l] \in Step
  BY DEF Step, Modes
<1>3. /\ w \in Seq(Step) /\ Len(w) = n + 2
      /\ w[1] = [mode |-> mode, on |-> l]
      /\ \A j \in 1 .. n : w[j + 1] = s[j]
      /\ w[n + 2] = [mode |-> "drop", on |-> l]
  BY <1>1, <1>2 DEF Scoped
<1>4. DOMAIN w = 1 .. n + 2
  BY <1>1, <1>3
<1>5. \A j \in 1 .. n : s[j] \in Step /\ s[j].on \in M /\ s[j].on # l
  BY <1>1 DEF Block
<1> SUFFICES Block(w, R, M \cup {l}) /\ w # Nothing
  OBVIOUS
<1> HIDE DEF w, n
\* The guard of l lives from the second step to the last.
<1>6. ASSUME NEW k \in 2 .. n + 2 PROVE Owes(w, k, l)
  <2>1. ASSUME NEW i \in k .. (n + 2) - 1 PROVE w[i].on # l
    <3>1. i - 1 \in 1 .. n /\ i = (i - 1) + 1
      BY <1>1
    <3>2. QED
      BY <1>3, <1>5, <3>1
  <2>2. QED
    BY <1>1, <1>3, <1>4, <2>1 DEF Owes
<1>7. ~Owes(w, n + 3, l)
  BY <1>1, <1>4 DEF Owes
<1>8. ~Owes(w, 1, l)
  <2>1. ASSUME NEW j \in DOMAIN w, w[j] = [mode |-> "drop", on |-> l],
               \A i \in 1 .. j - 1 : w[i].on # l
        PROVE  FALSE
    <3>1. w[1].on = l /\ w[1].mode # "drop"
      BY <1>3
    <3>2. j \in Int /\ j > 1
      BY <1>1, <1>4, <2>1, <3>1
    <3>3. 1 \in 1 .. j - 1
      BY <3>2
    <3>4. QED
      BY <2>1, <3>1, <3>3
  <2>2. QED
    BY <2>1 DEF Owes
\* The other guards are those of the script inside.
<1>9. ASSUME NEW x \in Locks, x # l, NEW k \in 1 .. n + 2
      PROVE  Owes(w, k + 1, x) <=> Owes(s, k, x)
  <2>1. ASSUME Owes(s, k, x) PROVE Owes(w, k + 1, x)
    <3>1. PICK j \in DOMAIN s : /\ k <= j /\ s[j] = [mode |-> "drop", on |-> x]
                                /\ \A i \in k .. j - 1 : s[i].on # x
      BY <2>1 DEF Owes
    <3>2. j + 1 \in DOMAIN w /\ k + 1 <= j + 1 /\ w[j + 1] = [mode |-> "drop", on |-> x]
      BY <1>1, <1>3, <1>4, <3>1
    <3>3. ASSUME NEW i \in k + 1 .. (j + 1) - 1 PROVE w[i].on # x
      <4>1. i - 1 \in k .. j - 1 /\ i - 1 \in 1 .. n /\ i = (i - 1) + 1
        BY <1>1, <3>1
      <4>2. QED
        BY <1>3, <3>1, <4>1
    <3>4. QED
      BY <3>2, <3>3 DEF Owes
  <2>2. ASSUME Owes(w, k + 1, x) PROVE Owes(s, k, x)
    <3>1. PICK j \in DOMAIN w : /\ k + 1 <= j /\ w[j] = [mode |-> "drop", on |-> x]
                                /\ \A i \in k + 1 .. j - 1 : w[i].on # x
      BY <2>2 DEF Owes
    <3>2. j # n + 2
      BY <1>3, <1>9, <3>1
    <3>3. j - 1 \in DOMAIN s /\ k <= j - 1 /\ j = (j - 1) + 1 /\ j - 1 \in 1 .. n
      BY <1>1, <1>4, <3>1, <3>2
    <3>4. s[j - 1] = [mode |-> "drop", on |-> x]
      BY <1>3, <3>1, <3>3
    <3>5. ASSUME NEW i \in k .. (j - 1) - 1 PROVE s[i].on # x
      <4>1. i + 1 \in k + 1 .. j - 1 /\ i \in 1 .. n
        BY <1>1, <3>1, <3>3
      <4>2. QED
        BY <1>3, <3>1, <4>1
    <3>6. QED
      BY <3>3, <3>4, <3>5 DEF Owes
  <2>3. QED
    BY <2>1, <2>2
<1>10. ASSUME NEW x \in Locks PROVE ~Owes(w, 1, x)
  <2>1. CASE x = l
    BY <1>8, <2>1
  <2>2. CASE x # l
    <3>1. ~Owes(w, 2, x)
      BY <1>1, <1>9, <2>2 DEF Block
    <3>2. ASSUME NEW j \in DOMAIN w, w[j] = [mode |-> "drop", on |-> x],
                 \A i \in 1 .. j - 1 : w[i].on # x
          PROVE  FALSE
      <4>1. j # 1
        BY <1>3, <2>2, <3>2
      <4>2. j >= 2 /\ \A i \in 2 .. j - 1 : i \in 1 .. j - 1
        BY <1>1, <1>4, <4>1
      <4>3. QED
        BY <3>1, <3>2, <4>2 DEF Owes
    <3>3. QED
      BY <3>2 DEF Owes
  <2>3. QED
    BY <2>1, <2>2
<1>11. ASSUME NEW k \in DOMAIN w
       PROVE  /\ Owes(w, k + 1, w[k].on) <=> w[k].mode # "drop"
              /\ \A x \in Locks : w[k].mode # "drop" /\ Owes(w, k, x) => <<x, w[k].on>> \in R
              /\ w[k].on \in M \cup {l}
  <2>1. CASE k = 1
    <3>1. 2 \in 2 .. n + 2
      BY <1>1
    <3>2. QED
      BY <1>3, <1>6, <1>10, <2>1, <3>1
  <2>2. CASE k = n + 2
    <3>1. k + 1 = n + 3
      BY <1>1, <2>2
    <3>2. QED
      BY <1>3, <1>7, <2>2, <3>1
  <2>3. CASE k \notin {1, n + 2}
    <3> DEFINE i == k - 1
    <3>1. i \in 1 .. n /\ i \in DOMAIN s /\ k = i + 1 /\ i + 1 \in 1 .. n + 2 /\ i \in 1 .. n + 2
      BY <1>1, <1>4, <2>3
    <3>2. w[k] = s[i] /\ s[i].on \in M /\ s[i].on # l
      BY <1>3, <1>5, <3>1
    <3> HIDE DEF i
    <3>3. s[i].on \in Locks
      BY <1>5, <3>1 DEF Step
    <3>4. Owes(w, k + 1, s[i].on) <=> Owes(s, i + 1, s[i].on)
      BY <1>9, <3>1, <3>2, <3>3
    <3>5. ASSUME NEW x \in Locks, s[i].mode # "drop", Owes(w, k, x) PROVE <<x, s[i].on>> \in R
      <4>1. CASE x = l
        BY <3>2, <4>1
      <4>2. CASE x # l
        <5>1. Owes(s, i, x)
          BY <1>9, <3>1, <3>5, <4>2
        <5>2. QED
          BY <3>1, <3>5, <5>1 DEF Block, Ordered
      <4>3. QED
        BY <4>1, <4>2
    <3>6. Owes(s, i + 1, s[i].on) <=> s[i].mode # "drop"
      BY <3>1 DEF Block, Bracketed
    <3>7. QED
      BY <3>2, <3>4, <3>5, <3>6
  <2>4. QED
    BY <2>1, <2>2, <2>3
<1>12. w # Nothing
  BY <1>1, <1>3 DEF Nothing
<1>13. QED
  BY <1>3, <1>10, <1>11, <1>12 DEF Block, Bracketed, Ordered

-----------------------------------------------------------------------------
(* The scripts of the tasks *)

LEMMA LocksDiffer ==
    ASSUME NEW p \in Peers
    PROVE  /\ {pr_map, pc_tracker, stats_tracker, peers, pr_tracker(p)} \subseteq Locks
           /\ pr_map \notin {pc_tracker, stats_tracker, peers, pr_tracker(p)}
           /\ pc_tracker \notin {stats_tracker, peers, pr_tracker(p)}
           /\ stats_tracker \notin {peers, pr_tracker(p)}
           /\ peers # pr_tracker(p)
  BY DEF Locks, pr_map, pc_tracker, stats_tracker, peers, pr_tracker

\* What a task begins with: a script that takes and drops guards in the order R.
Work(s, R) == Block(s, R, Locks) /\ s # Nothing

LEMMA WorkOfBlock ==
    ASSUME NEW s, NEW R, NEW M, Block(s, R, M), M \subseteq Locks, s # Nothing
    PROVE  Work(s, R)
  BY BlockWider DEF Work

LEMMA WorkConcat ==
    ASSUME NEW R, NEW s, NEW t, Work(s, R), Block(t, R, Locks)
    PROVE  Work(s \o t, R)
<1>1. Block(s \o t, R, Locks)
  BY BlockConcat DEF Work
<1>2. s \in Seq(Step) /\ t \in Seq(Step) /\ s # <<>>
  BY DEF Work, Block, Nothing
<1>3. s \o t # <<>>
  BY <1>2
<1>4. QED
  BY <1>1, <1>3 DEF Work, Nothing

\* A guard with nothing inside, alone.
LEMMA WorkAlone ==
    ASSUME NEW R, NEW l \in Locks
    PROVE  /\ Block(Reading(l, Nothing), R, {l}) /\ Work(Reading(l, Nothing), R)
           /\ Block(Writing(l, Nothing), R, {l}) /\ Work(Writing(l, Nothing), R)
<1>1. Block(Nothing, R, {})
  BY EmptyBlock
<1>2. \A mode \in {"read", "write"} :
          Block(Scoped(mode, l, Nothing), R, {l}) /\ Scoped(mode, l, Nothing) # Nothing
  BY <1>1, BlockScoped, {} \cup {l} = {l}, \A m \in {} : <<l, m>> \in R
<1>3. QED
  BY <1>2, WorkOfBlock DEF Reading, Writing

\* A guard of l around a script over the locks of M.
LEMMA GuardBlock ==
    ASSUME NEW R, NEW M, NEW s, Block(s, R, M), NEW l \in Locks, l \notin M,
           \A m \in M : <<l, m>> \in R
    PROVE  /\ Block(Reading(l, s), R, M \cup {l}) /\ Reading(l, s) # Nothing
           /\ Block(Writing(l, s), R, M \cup {l}) /\ Writing(l, s) # Nothing
  BY BlockScoped, "read" \in {"read", "write"}, "write" \in {"read", "write"}
     DEF Reading, Writing

LEMMA PeerComOrder ==
    ASSUME NEW K, NEW p \in Peers
    PROVE  /\ <<pr_map, pr_tracker(p)>> \in OrderOf(peer_com, K)
           /\ <<pc_tracker, stats_tracker>> \in OrderOf(peer_com, K)
           /\ K # {"Piece"} =>
                \A e \in {<<stats_tracker, pc_tracker>>, <<pr_map, pc_tracker>>,
                          <<pr_map, stats_tracker>>, <<pr_tracker(p), pc_tracker>>,
                          <<pr_tracker(p), stats_tracker>>} : e \in OrderOf(peer_com, K)
  BY LocksDiffer DEF OrderOf, PieceOrder, HandlerOrder

\* What runs under the guards of the map and of the PeerTracker.
LEMMA OfPeerWork ==
    ASSUME NEW K, NEW p \in Peers, NEW s, NEW M, Block(s, OrderOf(peer_com, K), M),
           M = {} \/ (K # {"Piece"} /\ M \subseteq {pc_tracker, stats_tracker})
    PROVE  Work(OfPeer(p, s), OrderOf(peer_com, K))
<1> DEFINE R == OrderOf(peer_com, K)
<1>1. pr_tracker(p) \in Locks /\ pr_map \in Locks /\ M \subseteq Locks
  BY LocksDiffer
<1>2. pr_tracker(p) \notin M /\ pr_map \notin M /\ pr_map # pr_tracker(p)
  BY LocksDiffer
<1>3. \A m \in M : <<pr_tracker(p), m>> \in R /\ <<pr_map, m>> \in R
  BY PeerComOrder
<1>4. <<pr_map, pr_tracker(p)>> \in R
  BY PeerComOrder
<1> HIDE DEF R
<1>5. Block(Writing(pr_tracker(p), s), R, M \cup {pr_tracker(p)})
  BY <1>1, <1>2, <1>3, GuardBlock DEF R
<1>6. /\ Block(OfPeer(p, s), R, (M \cup {pr_tracker(p)}) \cup {pr_map})
      /\ OfPeer(p, s) # Nothing
  <2>1. /\ pr_map \notin M \cup {pr_tracker(p)}
        /\ \A m \in M \cup {pr_tracker(p)} : <<pr_map, m>> \in R
    BY <1>2, <1>3, <1>4 DEF R
  <2>2. QED
    BY <1>1, <1>5, <2>1, GuardBlock DEF OfPeer
<1>7. QED
  BY <1>1, <1>6, WorkOfBlock DEF R

LEMMA UpdateBlock ==
    ASSUME NEW K, K # {"Piece"}, NEW p \in Peers
    PROVE  Block(UpdateAvailability, OrderOf(peer_com, K), {pc_tracker, stats_tracker})
<1> DEFINE R == OrderOf(peer_com, K)
<1>1. pc_tracker \in Locks /\ stats_tracker \in Locks /\ stats_tracker # pc_tracker
  BY LocksDiffer
<1>2. Block(Reading(pc_tracker, Nothing), R, {pc_tracker})
  BY <1>1, WorkAlone
<1>3. \A m \in {pc_tracker} : <<stats_tracker, m>> \in R
  BY PeerComOrder
<1>4. Block(UpdateAvailability, R, {pc_tracker} \cup {stats_tracker})
  BY <1>1, <1>2, <1>3, GuardBlock DEF UpdateAvailability
<1>5. {pc_tracker} \cup {stats_tracker} \subseteq {pc_tracker, stats_tracker}
  OBVIOUS
<1>6. QED
  BY <1>4, <1>5, BlockWider

LEMMA MaybeUpdateBlock ==
    ASSUME NEW R, NEW p \in Peers, NEW u \in MaybeUpdate PROVE Block(u, R, {pc_tracker})
<1>1. Block(Nothing, R, {pc_tracker})
  BY EmptyBlock
<1>2. Block(Writing(pc_tracker, Nothing), R, {pc_tracker})
  BY LocksDiffer, WorkAlone
<1>3. QED
  BY <1>1, <1>2 DEF MaybeUpdate

\* The handlers of the messages other than blocks.
LEMMA HandlerWork ==
    ASSUME NEW K, K # {"Piece"}, NEW p \in Peers, NEW kind \in Kinds \ {"Piece"},
           NEW s \in HandlerScripts(p, kind)
    PROVE  Work(s, OrderOf(peer_com, K))
<1> DEFINE R == OrderOf(peer_com, K)
           L == {pc_tracker, stats_tracker}
<1>1. \A u \in MaybeUpdate : Block(u, R, L)
  BY MaybeUpdateBlock, BlockWider, {pc_tracker} \subseteq L
<1>2. Block(UpdateAvailability, R, L)
  BY UpdateBlock
<1>3. Block(Reading(pc_tracker, Nothing), R, L)
  <2>1. Block(Reading(pc_tracker, Nothing), R, {pc_tracker})
    BY WorkAlone, LocksDiffer
  <2>2. QED
    BY <2>1, BlockWider, {pc_tracker} \subseteq L
<1>4. Block(Nothing, R, L)
  BY EmptyBlock
<1>5. \A b : Block(b, R, L) => Work(OfPeer(p, b), R)
  BY OfPeerWork
<1>6. \A u \in MaybeUpdate : Block(u \o UpdateAvailability, R, L)
  BY <1>1, <1>2, BlockConcat
<1>7. \A u \in MaybeUpdate :
          Block(u \o UpdateAvailability \o Reading(pc_tracker, Nothing), R, L)
  BY <1>3, <1>6, BlockConcat
<1>8. \A u \in MaybeUpdate :
          Block(u \o UpdateAvailability
                \o Reading(pc_tracker, Nothing) \o Reading(pc_tracker, Nothing), R, L)
  BY <1>3, <1>7, BlockConcat
<1> HIDE DEF R, L
<1>9. CASE kind = "Have"
  BY <1>5, <1>6, <1>9 DEF HandlerScripts, HaveScripts, R
<1>10. CASE kind = "Bitfield"
  BY <1>5, <1>8, <1>10 DEF HandlerScripts, BitfieldScripts, R
<1>11. CASE kind = "Request"
  BY <1>3, <1>5, <1>11 DEF HandlerScripts, RequestScripts, R
<1>12. CASE kind = "Unchoke"
  BY <1>1, <1>5, <1>12 DEF HandlerScripts, UnchokeScripts, R
<1>13. CASE kind = "Flag"
  BY <1>4, <1>5, <1>13 DEF HandlerScripts, FlagScripts, R
<1>14. QED
  BY <1>9, <1>10, <1>11, <1>12, <1>13 DEF Kinds

\* The handler of a block.
LEMMA PieceWork ==
    ASSUME NEW K, NEW p \in Peers, NEW s \in PieceScripts(p)
    PROVE  Work(s, OrderOf(peer_com, K))
<1> DEFINE R == OrderOf(peer_com, K)
<1>1. /\ pc_tracker \in Locks /\ stats_tracker \in Locks /\ pr_map \in Locks
      /\ pr_tracker(p) \in Locks /\ pc_tracker # stats_tracker /\ pr_map # pr_tracker(p)
  BY LocksDiffer
<1>2. Block(Nothing, R, {}) /\ Block(Nothing, R, Locks)
  BY EmptyBlock
<1>3. /\ Work(Reading(pc_tracker, Nothing), R)
      /\ Work(Writing(pc_tracker, Nothing), R)
      /\ Block(Writing(stats_tracker, Nothing), R, {stats_tracker})
      /\ Block(Reading(pr_tracker(p), Nothing), R, {pr_tracker(p)})
  BY <1>1, WorkAlone
<1>4. Work(OfPeer(p, Nothing), R)
  BY <1>2, OfPeerWork
<1>5. Work(Writing(pc_tracker, Writing(stats_tracker, Nothing)), R)
  <2>1. \A m \in {stats_tracker} : <<pc_tracker, m>> \in R
    BY PeerComOrder
  <2>2. pc_tracker \notin {stats_tracker} /\ {stats_tracker} \cup {pc_tracker} \subseteq Locks
    BY <1>1
  <2> HIDE DEF R
  <2>3. QED
    BY <1>1, <1>3, <2>1, <2>2, GuardBlock, WorkOfBlock
<1>6. Work(Reading(pr_map, Reading(pr_tracker(p), Nothing)), R)
  <2>1. \A m \in {pr_tracker(p)} : <<pr_map, m>> \in R
    BY PeerComOrder
  <2>2. pr_map \notin {pr_tracker(p)} /\ {pr_tracker(p)} \cup {pr_map} \subseteq Locks
    BY <1>1
  <2> HIDE DEF R
  <2>3. QED
    BY <1>1, <1>3, <2>1, <2>2, GuardBlock, WorkOfBlock
<1> HIDE DEF R
<1>7. \A c \in CompletedScripts : Block(c, R, Locks)
  BY <1>3, <1>5 DEF CompletedScripts, Work
<1>8. \A b \in LastBlockScripts(p) : Block(b, R, Locks)
  <2>1. \A c \in CompletedScripts :
            Work(Reading(pr_map, Reading(pr_tracker(p), Nothing)) \o c, R)
    BY <1>6, <1>7, WorkConcat
  <2>2. \A c \in CompletedScripts :
            Work(Reading(pr_map, Reading(pr_tracker(p), Nothing)) \o c
                 \o Reading(pc_tracker, Nothing), R)
    BY <1>3, <2>1, WorkConcat DEF Work
  <2>3. QED
    BY <2>2 DEF LastBlockScripts, Work
<1>9. Work(Reading(pc_tracker, Nothing) \o OfPeer(p, Nothing), R)
  BY <1>3, <1>4, WorkConcat DEF Work
<1>10. Work(Reading(pc_tracker, Nothing) \o Writing(pc_tracker, Nothing), R)
  BY <1>3, WorkConcat DEF Work
<1>11. \A rest \in {Nothing} \cup LastBlockScripts(p) :
           Work(Reading(pc_tracker, Nothing) \o Writing(pc_tracker, Nothing) \o rest, R)
  BY <1>2, <1>8, <1>10, WorkConcat
<1>12. QED
  BY <1>9, <1>11 DEF PieceScripts, R

LEMMA JoinWork ==
    ASSUME NEW K, NEW p \in Peers
    PROVE  Work(JoinScript, OrderOf(join(p), K)) /\ Work(ListScript(p), OrderOf(join(p), K))
<1> DEFINE R == OrderOf(join(p), K)
<1>1. /\ stats_tracker \in Locks /\ pr_map \in Locks /\ peers \in Locks
      /\ pr_tracker(p) \in Locks /\ stats_tracker # pr_map
  BY LocksDiffer
<1>2. <<stats_tracker, pr_map>> \in R
  BY <1>1 DEF OrderOf, JoinOrder
<1> HIDE DEF R
<1>3. /\ Work(Writing(peers, Nothing), R)
      /\ Work(Writing(pr_map, Nothing), R)
      /\ Block(Reading(pr_map, Nothing), R, {pr_map})
      /\ Work(Reading(pr_tracker(p), Nothing), R)
  BY <1>1, WorkAlone
<1>4. Work(JoinScript, R)
  BY <1>3, WorkConcat DEF JoinScript, Work
<1>5. Work(Writing(stats_tracker, Reading(pr_map, Nothing)), R)
  <2>1. stats_tracker \notin {pr_map} /\ \A m \in {pr_map} : <<stats_tracker, m>> \in R
    BY <1>1, <1>2
  <2>2. {pr_map} \cup {stats_tracker} \subseteq Locks
    BY <1>1
  <2>3. /\ Block(Writing(stats_tracker, Reading(pr_map, Nothing)), R, {pr_map} \cup {stats_tracker})
        /\ Writing(stats_tracker, Reading(pr_map, Nothing)) # Nothing
    BY <1>1, <1>3, <2>1, GuardBlock
  <2>4. QED
    BY <2>2, <2>3, WorkOfBlock
<1>6. Work(ListScript(p), R)
  BY <1>3, <1>5, WorkConcat DEF ListScript, Work
<1>7. QED
  BY <1>4, <1>6 DEF R

LEMMA RequestLoopWork ==
    ASSUME NEW K, NEW p \in Peers, NEW s \in RequestLoopScripts(p)
    PROVE  Work(s, OrderOf(reqh(p), K))
<1> DEFINE R == OrderOf(reqh(p), K)
<1>1. pc_tracker \in Locks /\ pr_tracker(p) \in Locks /\ pc_tracker # pr_tracker(p)
  BY LocksDiffer
<1>2. <<pc_tracker, pr_tracker(p)>> \in R
  BY <1>1 DEF OrderOf, RequestOrder
<1> HIDE DEF R
<1>3. PICK n \in 0 .. MaxLooks : s = Writing(pc_tracker, Looks(p, n))
  BY DEF RequestLoopScripts
<1>4. n \in Nat
  BY <1>3, LockOrderAssumption
<1> DEFINE b == Looks(p, n)
<1>5. /\ DOMAIN b = 1 .. 2 * n
      /\ b \in Seq(Step)
      /\ \A k \in DOMAIN b : /\ b[k].on = pr_tracker(p)
                             /\ b[k].mode = IF k % 2 = 1 THEN "read" ELSE "drop"
  <2>1. \A k \in 1 .. 2 * n :
            [mode |-> IF k % 2 = 1 THEN "read" ELSE "drop", on |-> pr_tracker(p)] \in Step
    BY <1>1 DEF Step, Modes
  <2>2. 2 * n \in Nat
    BY <1>4
  <2>3. b \in [1 .. 2 * n -> Step]
    BY <2>1 DEF Looks
  <2>4. b \in Seq(Step)
    BY <2>2, <2>3
  <2>5. QED
    BY <2>3, <2>4 DEF Looks
<1>a. \A k \in 1 .. 2 * n :
          b[k] = [mode |-> IF k % 2 = 1 THEN "read" ELSE "drop", on |-> pr_tracker(p)]
  BY DEF Looks
<1> HIDE DEF b
\* A guard is alive exactly at the even steps.
<1>6. ASSUME NEW k \in 1 .. 2 * n + 1, NEW l \in Locks
      PROVE  Owes(b, k, l) <=> l = pr_tracker(p) /\ k % 2 = 0
  <2>1. ASSUME Owes(b, k, l) PROVE l = pr_tracker(p) /\ k % 2 = 0
    <3>1. PICK j \in DOMAIN b : /\ k <= j /\ b[j] = [mode |-> "drop", on |-> l]
                                /\ \A i \in k .. j - 1 : b[i].on # l
      BY <2>1 DEF Owes
    <3>2. l = pr_tracker(p) /\ b[j].mode = "drop"
      BY <1>5, <3>1
    <3>3. j = k
      <4>1. ASSUME j # k PROVE FALSE
        <5>1. k \in k .. j - 1 /\ k \in DOMAIN b
          BY <1>4, <1>5, <3>1, <4>1
        <5>2. QED
          BY <1>5, <3>1, <3>2, <5>1
      <4>2. QED
        BY <4>1
    <3>4. k % 2 # 1
      BY <1>5, <3>2, <3>3
    <3>5. QED
      BY <3>2, <3>4
  <2>2. ASSUME l = pr_tracker(p), k % 2 = 0 PROVE Owes(b, k, l)
    <3>1. k \in 1 .. 2 * n
      BY <1>4, <2>2
    <3>2. b[k] = [mode |-> "drop", on |-> l]
      <4>1. k % 2 # 1
        BY <2>2
      <4>2. QED
        BY <1>a, <2>2, <3>1, <4>1
    <3>3. \A i \in k .. k - 1 : FALSE
      BY <1>4
    <3>4. QED
      BY <1>5, <3>1, <3>2, <3>3 DEF Owes
  <2>3. QED
    BY <2>1, <2>2
<1>7. Block(b, R, {pr_tracker(p)})
  <2>1. Bracketed(b)
    <3>1. ASSUME NEW k \in DOMAIN b PROVE Owes(b, k + 1, b[k].on) <=> b[k].mode # "drop"
      <4>1. k \in 1 .. 2 * n /\ k + 1 \in 1 .. 2 * n + 1
        BY <1>4, <1>5
      <4>2. (k + 1) % 2 = 0 <=> k % 2 = 1
        BY <1>4, <4>1
      <4>3. QED
        BY <1>1, <1>5, <1>6, <4>1, <4>2
    <3>2. QED
      BY <3>1 DEF Bracketed
  <2>2. Ordered(b, R)
    <3>1. ASSUME NEW k \in DOMAIN b, NEW l \in Locks, b[k].mode # "drop" PROVE ~Owes(b, k, l)
      <4>1. k \in 1 .. 2 * n + 1 /\ k % 2 = 1
        BY <1>4, <1>5, <3>1
      <4>2. QED
        BY <1>6, <4>1
    <3>2. QED
      BY <3>1 DEF Ordered
  <2>3. \A l \in Locks : ~Owes(b, 1, l)
    BY <1>4, <1>6, 1 % 2 = 1
  <2>4. QED
    BY <1>5, <2>1, <2>2, <2>3 DEF Block
<1>8. Work(s, R)
  <2>1. pc_tracker \notin {pr_tracker(p)} /\ \A m \in {pr_tracker(p)} : <<pc_tracker, m>> \in R
    BY <1>1, <1>2
  <2>2. {pr_tracker(p)} \cup {pc_tracker} \subseteq Locks
    BY <1>1
  <2>3. QED
    BY <1>1, <1>3, <1>7, <2>1, <2>2, GuardBlock, WorkOfBlock DEF b
<1>9. QED
  BY <1>8 DEF R

-----------------------------------------------------------------------------
(* The inductive invariant *)

GuardTypes ==
    /\ todo \in [Tasks -> Seq(Step)]
    /\ held \in [Locks -> SUBSET (Tasks \X {"read", "write"})]
    /\ queue \in [Locks -> Seq(Tasks)]
    /\ phase \in [Peers -> {"absent", "joining", "listed"}]
    /\ kinds \in Sessions

Exclusive == \A l \in Locks : \A g, h \in held[l] : g # h => g[2] = "read" /\ h[2] = "read"

\* A task has the guards its script still drops, and no others.
ScriptInv ==
    \A t \in Tasks :
        /\ Bracketed(todo[t])
        /\ Ordered(todo[t], OrderOf(t, kinds))
        /\ \A l \in Locks : Holds(t, l) <=> Owes(todo[t], 1, l)

\* Who waits is about to take the lock, and waits once.
QueueInv ==
    \A l \in Locks :
        /\ \A k \in DOMAIN queue[l] :
              LET t == queue[l][k] IN
              todo[t] # Nothing /\ Head(todo[t]).mode # "drop" /\ Head(todo[t]).on = l
        /\ \A j, k \in DOMAIN queue[l] : j # k => queue[l][j] # queue[l][k]

GuardInv == GuardTypes /\ Exclusive /\ ScriptInv /\ QueueInv

-----------------------------------------------------------------------------
(* One step of a script *)

LEMMA OwesTail ==
    ASSUME NEW s \in Seq(Step), s # <<>>, NEW l, NEW k \in Nat \ {0}
    PROVE  Owes(Tail(s), k, l) <=> Owes(s, k + 1, l)
<1> DEFINE w == Tail(s)
           n == Len(s)
<1>1. /\ n \in Nat /\ n > 0 /\ DOMAIN s = 1 .. n /\ DOMAIN w = 1 .. n - 1
      /\ \A j \in 1 .. n - 1 : w[j] = s[j + 1]
  OBVIOUS
<1> SUFFICES Owes(w, k, l) <=> Owes(s, k + 1, l)
  OBVIOUS
<1> HIDE DEF w, n
<1>2. ASSUME Owes(w, k, l) PROVE Owes(s, k + 1, l)
  <2>1. PICK j \in DOMAIN w : /\ k <= j /\ w[j] = [mode |-> "drop", on |-> l]
                              /\ \A i \in k .. j - 1 : w[i].on # l
    BY <1>2 DEF Owes
  <2>2. j + 1 \in DOMAIN s /\ k + 1 <= j + 1 /\ s[j + 1] = [mode |-> "drop", on |-> l]
    BY <1>1, <2>1
  <2>3. ASSUME NEW i \in k + 1 .. (j + 1) - 1 PROVE s[i].on # l
    <3>1. i - 1 \in k .. j - 1 /\ i - 1 \in 1 .. n - 1 /\ i = (i - 1) + 1
      BY <1>1, <2>1
    <3>2. QED
      BY <1>1, <2>1, <3>1
  <2>4. QED
    BY <2>2, <2>3 DEF Owes
<1>3. ASSUME Owes(s, k + 1, l) PROVE Owes(w, k, l)
  <2>1. PICK j \in DOMAIN s : /\ k + 1 <= j /\ s[j] = [mode |-> "drop", on |-> l]
                              /\ \A i \in k + 1 .. j - 1 : s[i].on # l
    BY <1>3 DEF Owes
  <2>2. j - 1 \in DOMAIN w /\ k <= j - 1 /\ j = (j - 1) + 1
    BY <1>1, <2>1
  <2>3. w[j - 1] = [mode |-> "drop", on |-> l]
    BY <1>1, <2>1, <2>2
  <2>4. ASSUME NEW i \in k .. (j - 1) - 1 PROVE w[i].on # l
    <3>1. i + 1 \in k + 1 .. j - 1 /\ i \in 1 .. n - 1
      BY <1>1, <2>1
    <3>2. QED
      BY <1>1, <2>1, <3>1
  <2>5. QED
    BY <2>2, <2>3, <2>4 DEF Owes
<1>4. QED
  BY <1>2, <1>3

\* What the first step of a script does to the guards that are owed.
LEMMA OwesHead ==
    ASSUME NEW s \in Seq(Step), s # <<>>, Bracketed(s)
    PROVE  /\ Head(s).on \in Locks
           /\ Head(s).mode # "drop" => ~Owes(s, 1, Head(s).on) /\ Owes(s, 2, Head(s).on)
           /\ Head(s).mode = "drop" => Owes(s, 1, Head(s).on) /\ ~Owes(s, 2, Head(s).on)
           /\ \A l : l # Head(s).on => (Owes(s, 1, l) <=> Owes(s, 2, l))
<1>1. 1 \in DOMAIN s /\ Head(s) = s[1] /\ s[1] \in Step
  OBVIOUS
<1>2. s[1].on \in Locks
  BY <1>1 DEF Step
<1>3. DOMAIN s = 1 .. Len(s) /\ Len(s) \in Nat
  OBVIOUS
<1>4. Owes(s, 2, s[1].on) <=> s[1].mode # "drop"
  BY <1>1, 1 + 1 = 2 DEF Bracketed
<1>5. ASSUME s[1].mode # "drop", Owes(s, 1, s[1].on) PROVE FALSE
  <2>1. PICK j \in DOMAIN s : /\ s[j] = [mode |-> "drop", on |-> s[1].on]
                              /\ \A i \in 1 .. j - 1 : s[i].on # s[1].on
    BY <1>5 DEF Owes
  <2>2. j # 1
    BY <1>5, <2>1
  <2>3. 1 \in 1 .. j - 1
    BY <1>3, <2>2
  <2>4. QED
    BY <2>1, <2>3
<1>6. ASSUME s[1].mode = "drop" PROVE Owes(s, 1, s[1].on)
  <2>1. s[1] = [mode |-> "drop", on |-> s[1].on]
    BY <1>1, <1>6 DEF Step
  <2>2. \A i \in 1 .. 1 - 1 : FALSE
    OBVIOUS
  <2>3. QED
    BY <1>1, <1>3, <2>1, <2>2 DEF Owes
<1>7. ASSUME NEW l, l # s[1].on PROVE Owes(s, 1, l) <=> Owes(s, 2, l)
  <2>1. ASSUME NEW j \in DOMAIN s, s[j] = [mode |-> "drop", on |-> l]
        PROVE  /\ j >= 2
               /\ (\A i \in 1 .. j - 1 : s[i].on # l) <=> (\A i \in 2 .. j - 1 : s[i].on # l)
    <3>1. j # 1
      BY <1>7, <2>1
    <3>2. j >= 2 /\ \A i \in 1 .. j - 1 : i = 1 \/ i \in 2 .. j - 1
      BY <1>3, <3>1
    <3>3. \A i \in 2 .. j - 1 : i \in 1 .. j - 1
      BY <1>3
    <3>4. QED
      BY <1>7, <3>2, <3>3
  <2>2. \A j \in DOMAIN s : j >= 2 => j >= 1
    BY <1>3
  <2>3. QED
    BY <2>1, <2>2 DEF Owes
<1>8. QED
  BY <1>1, <1>2, <1>4, <1>5, <1>6, <1>7

\* What is left of a script after its first step is still well formed.
LEMMA TailForm ==
    ASSUME NEW s \in Seq(Step), s # <<>>, NEW R
    PROVE  /\ Tail(s) \in Seq(Step)
           /\ Bracketed(s) => Bracketed(Tail(s))
           /\ Ordered(s, R) => Ordered(Tail(s), R)
<1> DEFINE w == Tail(s)
           n == Len(s)
<1>1. /\ n \in Nat /\ n > 0 /\ DOMAIN s = 1 .. n /\ DOMAIN w = 1 .. n - 1 /\ w \in Seq(Step)
      /\ \A j \in 1 .. n - 1 : w[j] = s[j + 1]
  OBVIOUS
<1>2. \A l : \A k \in Nat \ {0} : Owes(w, k, l) <=> Owes(s, k + 1, l)
  BY OwesTail
<1> SUFFICES /\ w \in Seq(Step)
             /\ Bracketed(s) => Bracketed(w)
             /\ Ordered(s, R) => Ordered(w, R)
  OBVIOUS
<1> HIDE DEF w, n
<1>3. ASSUME NEW k \in DOMAIN w
      PROVE  /\ k \in Nat \ {0} /\ k + 1 \in Nat \ {0} /\ k + 1 \in DOMAIN s /\ w[k] = s[k + 1]
  BY <1>1
<1>4. ASSUME Bracketed(s) PROVE Bracketed(w)
  BY <1>2, <1>3, <1>4 DEF Bracketed
<1>5. ASSUME Ordered(s, R) PROVE Ordered(w, R)
  BY <1>2, <1>3, <1>5 DEF Ordered
<1>6. QED
  BY <1>1, <1>4, <1>5

\* Scripts and guards stay in step when t takes the first lock of a script that
\* starts from the guards t has.
LEMMA TakeGuards ==
    ASSUME GuardInv, kinds' = kinds, NEW t \in Tasks, NEW s \in Seq(Step), s # <<>>,
           Head(s).mode # "drop", Bracketed(s), Ordered(s, OrderOf(t, kinds)),
           \A l \in Locks : Holds(t, l) <=> Owes(s, 1, l),
           Compatible(Head(s).on, Head(s).mode),
           held' = [held EXCEPT ![Head(s).on] = @ \cup {<<t, Head(s).mode>>}],
           todo' = [todo EXCEPT ![t] = Tail(s)]
    PROVE  /\ todo' \in [Tasks -> Seq(Step)]
           /\ held' \in [Locks -> SUBSET (Tasks \X {"read", "write"})]
           /\ Exclusive' /\ ScriptInv'
<1> DEFINE l0 == Head(s).on
           g0 == <<t, Head(s).mode>>
<1>1. s[1] \in Step /\ Head(s) = s[1] /\ l0 \in Locks
  BY OwesHead
<1>2. Head(s).mode \in {"read", "write"}
  BY <1>1 DEF Step, Modes
<1>3. g0 \in Tasks \X {"read", "write"}
  BY <1>2
<1>4. todo' \in [Tasks -> Seq(Step)]
  BY TailForm DEF GuardInv, GuardTypes
<1>5. held' \in [Locks -> SUBSET (Tasks \X {"read", "write"})]
  BY <1>1, <1>3 DEF GuardInv, GuardTypes
<1>6. /\ held'[l0] = held[l0] \cup {g0}
      /\ \A l \in Locks : l # l0 => held'[l] = held[l]
  BY <1>1 DEF GuardInv, GuardTypes
<1>7. /\ todo'[t] = Tail(s)
      /\ \A u \in Tasks : u # t => todo'[u] = todo[u]
  BY DEF GuardInv, GuardTypes
<1>8. Exclusive'
  <2>1. ASSUME NEW l \in Locks, NEW g \in held'[l], NEW h \in held'[l], g # h
        PROVE  g[2] = "read" /\ h[2] = "read"
    <3>1. CASE l # l0
      BY <1>6, <2>1, <3>1 DEF GuardInv, Exclusive
    <3>2. CASE l = l0
      <4>1. CASE Head(s).mode = "write"
        BY <1>6, <2>1, <3>2, <4>1 DEF Compatible
      <4>2. CASE Head(s).mode = "read"
        <5>1. \A x \in held[l0] : x[2] = "read"
          BY <4>2 DEF Compatible
        <5>2. g0[2] = "read"
          BY <4>2
        <5>3. g \in held[l0] \cup {g0} /\ h \in held[l0] \cup {g0}
          BY <1>6, <2>1, <3>2
        <5> HIDE DEF g0, l0
        <5>4. QED
          BY <5>1, <5>2, <5>3
      <4>3. QED
        BY <1>2, <4>1, <4>2
    <3>3. QED
      BY <3>1, <3>2
  <2>2. QED
    BY <2>1 DEF Exclusive
<1>9. ASSUME NEW u \in Tasks, NEW l \in Locks
      PROVE  Holds(u, l)' <=> Holds(u, l) \/ (u = t /\ l = l0)
  <2>1. g0[1] = t
    OBVIOUS
  <2>2. CASE l = l0
    <3>1. held'[l] = held[l] \cup {g0}
      BY <1>6, <2>2
    <3> HIDE DEF g0
    <3>2. (\E g \in held'[l] : g[1] = u) <=> (\E g \in held[l] : g[1] = u) \/ g0[1] = u
      BY <3>1
    <3>3. QED
      BY <2>1, <2>2, <3>2 DEF Holds
  <2>3. CASE l # l0
    BY <1>6, <2>3 DEF Holds
  <2>4. QED
    BY <2>2, <2>3
<1>10. ASSUME NEW u \in Tasks
       PROVE  /\ Bracketed(todo'[u]) /\ Ordered(todo'[u], OrderOf(u, kinds))
              /\ \A l \in Locks : Holds(u, l)' <=> Owes(todo'[u], 1, l)
  <2>1. CASE u # t
    BY <1>7, <1>9, <2>1 DEF GuardInv, ScriptInv
  <2>2. CASE u = t
    <3>1. Bracketed(todo'[u]) /\ Ordered(todo'[u], OrderOf(u, kinds))
      BY <1>7, <2>2, TailForm
    <3>2. \A l \in Locks : Owes(Tail(s), 1, l) <=> Owes(s, 2, l)
      BY OwesTail, 1 + 1 = 2
    <3>3. \A l \in Locks : Holds(u, l)' <=> Owes(todo'[u], 1, l)
      <4>1. ASSUME NEW l \in Locks, l = l0 PROVE Owes(s, 2, l)
        BY <4>1, OwesHead
      <4>2. ASSUME NEW l \in Locks, l # l0 PROVE Owes(s, 1, l) <=> Owes(s, 2, l)
        BY <4>2, OwesHead
      <4>3. \A l \in Locks : Holds(u, l)' <=> Owes(s, 1, l) \/ l = l0
        BY <1>9, <2>2
      <4>4. todo'[u] = Tail(s)
        BY <1>7, <2>2
      <4> HIDE DEF l0
      <4>5. QED
        BY <3>2, <4>1, <4>2, <4>3, <4>4
    <3>4. QED
      BY <3>1, <3>3
  <2>3. QED
    BY <2>1, <2>2
<1>11. ScriptInv'
  BY <1>10 DEF ScriptInv
<1>12. QED
  BY <1>4, <1>5, <1>8, <1>11

-----------------------------------------------------------------------------
(* The invariant is inductive *)

\* A task waits for one lock, at one place of its queue.
LEMMA WaitsOnce ==
    ASSUME GuardInv, NEW l \in Locks, NEW k \in DOMAIN queue[l],
           NEW m \in Locks, NEW j \in DOMAIN queue[m], queue[l][k] = queue[m][j]
    PROVE  l = m /\ k = j
  BY DEF GuardInv, QueueInv

\* A task that waits for nothing takes the first lock of a script, or queues for it.
LEMMA AcquireInv ==
    ASSUME GuardInv, kinds' = kinds, phase' \in [Peers -> {"absent", "joining", "listed"}],
           NEW t \in Tasks, ~Waiting(t),
           NEW s \in Seq(Step), s # <<>>, Head(s).mode # "drop",
           Bracketed(s), Ordered(s, OrderOf(t, kinds)),
           \A l \in Locks : Holds(t, l) <=> Owes(s, 1, l),
           Acquire(t, s)
    PROVE  GuardInv'
<1> DEFINE l0 == Head(s).on
<1>1. l0 \in Locks
  BY OwesHead
<1>2. CASE queue[l0] = <<>> /\ Compatible(l0, Head(s).mode)
  <2>1. /\ held' = [held EXCEPT ![Head(s).on] = @ \cup {<<t, Head(s).mode>>}]
        /\ todo' = [todo EXCEPT ![t] = Tail(s)]
        /\ queue' = queue
    BY <1>2 DEF Acquire
  <2>2. /\ todo' \in [Tasks -> Seq(Step)]
        /\ held' \in [Locks -> SUBSET (Tasks \X {"read", "write"})]
        /\ Exclusive' /\ ScriptInv'
    BY <1>2, <2>1, TakeGuards
  <2>3. QueueInv'
    <3>1. \A u \in Tasks : u # t => todo'[u] = todo[u]
      BY <2>1 DEF GuardInv, GuardTypes
    <3>2. ASSUME NEW l \in Locks, NEW k \in DOMAIN queue[l] PROVE queue[l][k] # t
      BY DEF Waiting, WaitsAt
    <3>3. \A l \in Locks : \A k \in DOMAIN queue[l] : queue[l][k] \in Tasks
      BY DEF GuardInv, GuardTypes
    <3>4. QED
      BY <2>1, <3>1, <3>2, <3>3 DEF GuardInv, QueueInv
  <2>4. QED
    BY <2>1, <2>2, <2>3 DEF GuardInv, GuardTypes
<1>3. CASE ~(queue[l0] = <<>> /\ Compatible(l0, Head(s).mode))
  <2>1. /\ queue' = [queue EXCEPT ![l0] = Append(@, t)]
        /\ todo' = [todo EXCEPT ![t] = s]
        /\ held' = held
    BY <1>3 DEF Acquire
  <2>2. /\ todo' \in [Tasks -> Seq(Step)] /\ todo'[t] = s
        /\ \A u \in Tasks : u # t => todo'[u] = todo[u]
    BY <2>1 DEF GuardInv, GuardTypes
  <2>3. /\ queue' \in [Locks -> Seq(Tasks)]
        /\ queue'[l0] = Append(queue[l0], t)
        /\ \A l \in Locks : l # l0 => queue'[l] = queue[l]
    BY <1>1, <2>1 DEF GuardInv, GuardTypes
  <2>4. ScriptInv'
    <3>1. \A u \in Tasks : \A l \in Locks : Holds(u, l)' <=> Holds(u, l)
      BY <2>1 DEF Holds
    <3>2. QED
      BY <2>2, <3>1 DEF GuardInv, ScriptInv
  <2>5. QueueInv'
    <3>1. \A l \in Locks : \A k \in DOMAIN queue[l] : queue[l][k] \in Tasks /\ queue[l][k] # t
      BY DEF GuardInv, GuardTypes, Waiting, WaitsAt
    <3>2. ASSUME NEW l \in Locks, l # l0
          PROVE  /\ \A k \in DOMAIN queue'[l] :
                     LET u == queue'[l][k] IN
                     todo'[u] # Nothing /\ Head(todo'[u]).mode # "drop" /\ Head(todo'[u]).on = l
                 /\ \A j, k \in DOMAIN queue'[l] : j # k => queue'[l][j] # queue'[l][k]
      <4>1. queue'[l] = queue[l]
        BY <2>3, <3>2
      <4>2. \A k \in DOMAIN queue[l] : todo'[queue[l][k]] = todo[queue[l][k]]
        BY <2>2, <3>1
      <4>3. QED
        BY <4>1, <4>2 DEF GuardInv, QueueInv
    <3>3. /\ \A k \in DOMAIN queue'[l0] :
                LET u == queue'[l0][k] IN
                todo'[u] # Nothing /\ Head(todo'[u]).mode # "drop" /\ Head(todo'[u]).on = l0
          /\ \A j, k \in DOMAIN queue'[l0] : j # k => queue'[l0][j] # queue'[l0][k]
      <4>1. queue[l0] \in Seq(Tasks)
        BY <1>1 DEF GuardInv, GuardTypes
      <4>2. \A k \in DOMAIN queue'[l0] :
                \/ k \in DOMAIN queue[l0] /\ queue'[l0][k] = queue[l0][k]
                \/ k = Len(queue[l0]) + 1 /\ queue'[l0][k] = t
        BY <2>3, <4>1
      <4>3. ASSUME NEW k \in DOMAIN queue'[l0]
            PROVE  LET u == queue'[l0][k] IN
                   todo'[u] # Nothing /\ Head(todo'[u]).mode # "drop" /\ Head(todo'[u]).on = l0
        <5>1. CASE k \in DOMAIN queue[l0] /\ queue'[l0][k] = queue[l0][k]
          <6>1. todo'[queue[l0][k]] = todo[queue[l0][k]]
            BY <1>1, <2>2, <3>1, <5>1
          <6> HIDE DEF l0
          <6>2. QED
            BY <1>1, <5>1, <6>1 DEF GuardInv, QueueInv
        <5>2. CASE queue'[l0][k] = t
          BY <2>2, <5>2 DEF Nothing
        <5>3. QED
          BY <4>2, <5>1, <5>2
      <4>4. ASSUME NEW j \in DOMAIN queue'[l0], NEW k \in DOMAIN queue'[l0], j # k
            PROVE  queue'[l0][j] # queue'[l0][k]
        BY <1>1, <3>1, <4>2, <4>4 DEF GuardInv, QueueInv
      <4>5. QED
        BY <4>3, <4>4
    <3>4. QED
      BY <3>2, <3>3 DEF QueueInv
  <2>6. QED
    BY <2>1, <2>2, <2>3, <2>4, <2>5 DEF GuardInv, GuardTypes, Exclusive
<1>4. QED
  BY <1>2, <1>3

LEMMA LockInv == ASSUME GuardInv, NEW t \in Tasks, Lock(t) PROVE GuardInv'
<1>1. /\ todo[t] \in Seq(Step) /\ todo[t] # <<>> /\ Head(todo[t]).mode # "drop"
      /\ ~Waiting(t) /\ Acquire(t, todo[t]) /\ kinds' = kinds
      /\ phase' \in [Peers -> {"absent", "joining", "listed"}]
  BY DEF Lock, Nothing, GuardInv, GuardTypes
<1>2. /\ Bracketed(todo[t]) /\ Ordered(todo[t], OrderOf(t, kinds))
      /\ \A l \in Locks : Holds(t, l) <=> Owes(todo[t], 1, l)
  BY DEF GuardInv, ScriptInv
<1>3. QED
  BY <1>1, <1>2, AcquireInv

LEMMA BeginInv ==
    ASSUME GuardInv, NEW t \in Tasks, NEW s, Work(s, OrderOf(t, kinds)), Begin(t, s),
           phase' \in [Peers -> {"absent", "joining", "listed"}]
    PROVE  GuardInv'
<1>1. /\ s \in Seq(Step) /\ s # <<>> /\ Head(s).mode # "drop"
      /\ Bracketed(s) /\ Ordered(s, OrderOf(t, kinds))
      /\ \A l \in Locks : ~Owes(s, 1, l)
  BY BlockTakes DEF Work, Block, Nothing
<1>2. todo[t] = <<>> /\ Acquire(t, s) /\ kinds' = kinds
  BY DEF Begin, Nothing
<1>3. \A l \in Locks : ~Holds(t, l)
  <2>1. \A l \in Locks : ~Owes(<<>>, 1, l)
    BY DEF Owes
  <2>2. QED
    BY <1>2, <2>1 DEF GuardInv, ScriptInv
<1>4. ~Waiting(t)
  BY <1>2 DEF GuardInv, QueueInv, Waiting, WaitsAt, Nothing
<1>5. QED
  BY <1>1, <1>2, <1>3, <1>4, AcquireInv

LEMMA DropInv == ASSUME GuardInv, NEW t \in Tasks, Drop(t) PROVE GuardInv'
<1> DEFINE s == todo[t]
           l0 == Head(s).on
<1>1. /\ s \in Seq(Step) /\ s # <<>> /\ Head(s).mode = "drop" /\ Bracketed(s)
      /\ Ordered(s, OrderOf(t, kinds))
      /\ \A l \in Locks : Holds(t, l) <=> Owes(s, 1, l)
  BY DEF Drop, Nothing, GuardInv, GuardTypes, ScriptInv
<1>2. l0 \in Locks
  BY <1>1, OwesHead
<1>3. /\ held' = [held EXCEPT ![l0] = {g \in @ : g[1] # t}]
      /\ todo' = [todo EXCEPT ![t] = Tail(@)]
      /\ queue' = queue /\ phase' = phase /\ kinds' = kinds
  BY DEF Drop
<1>4. /\ todo' \in [Tasks -> Seq(Step)] /\ todo'[t] = Tail(s)
      /\ \A u \in Tasks : u # t => todo'[u] = todo[u]
  BY <1>1, <1>3, TailForm DEF GuardInv, GuardTypes
<1>5. /\ held' \in [Locks -> SUBSET (Tasks \X {"read", "write"})]
      /\ held'[l0] = {g \in held[l0] : g[1] # t}
      /\ \A l \in Locks : l # l0 => held'[l] = held[l]
  BY <1>2, <1>3 DEF GuardInv, GuardTypes
<1>6. Exclusive'
  BY <1>5 DEF GuardInv, Exclusive
<1>7. ASSUME NEW u \in Tasks, NEW l \in Locks
      PROVE  Holds(u, l)' <=> Holds(u, l) /\ ~(u = t /\ l = l0)
  BY <1>5 DEF Holds
<1>8. ASSUME NEW u \in Tasks
      PROVE  /\ Bracketed(todo'[u]) /\ Ordered(todo'[u], OrderOf(u, kinds))
             /\ \A l \in Locks : Holds(u, l)' <=> Owes(todo'[u], 1, l)
  <2>1. CASE u # t
    BY <1>4, <1>7, <2>1 DEF GuardInv, ScriptInv
  <2>2. CASE u = t
    <3>1. Bracketed(todo'[u]) /\ Ordered(todo'[u], OrderOf(u, kinds))
      BY <1>1, <1>4, <2>2, TailForm
    <3>2. \A l \in Locks : Owes(Tail(s), 1, l) <=> Owes(s, 2, l)
      BY <1>1, OwesTail, 1 + 1 = 2
    <3>3. ~Owes(s, 2, l0) /\ \A l \in Locks : l # l0 => (Owes(s, 1, l) <=> Owes(s, 2, l))
      BY <1>1, OwesHead
    <3>4. \A l \in Locks : Holds(u, l)' <=> Owes(s, 1, l) /\ l # l0
      BY <1>1, <1>7, <2>2
    <3>5. todo'[u] = Tail(s)
      BY <1>4, <2>2
    <3> HIDE DEF s, l0
    <3>6. QED
      BY <3>1, <3>2, <3>3, <3>4, <3>5
  <2>3. QED
    BY <2>1, <2>2
<1>9. ScriptInv'
  BY <1>3, <1>8 DEF ScriptInv
<1>10. QueueInv'
  <2>1. \A l \in Locks : \A k \in DOMAIN queue[l] : queue[l][k] \in Tasks /\ queue[l][k] # t
    BY <1>1 DEF GuardInv, GuardTypes, QueueInv
  <2>2. QED
    BY <1>3, <1>4, <2>1 DEF GuardInv, QueueInv
<1>11. QED
  BY <1>3, <1>4, <1>5, <1>6, <1>9, <1>10 DEF GuardInv, GuardTypes

LEMMA GrantInv == ASSUME GuardInv, NEW l \in Locks, Grant(l) PROVE GuardInv'
<1> DEFINE t == Head(queue[l])
           s == todo[t]
<1>1. queue[l] \in Seq(Tasks) /\ queue[l] # <<>>
  BY DEF Grant, GuardInv, GuardTypes
<1>2. t \in Tasks /\ 1 \in DOMAIN queue[l] /\ t = queue[l][1]
  BY <1>1
<1>3. s \in Seq(Step) /\ s # <<>> /\ Head(s).mode # "drop" /\ Head(s).on = l
  BY <1>2 DEF GuardInv, GuardTypes, QueueInv, Nothing
<1>4. /\ Bracketed(s) /\ Ordered(s, OrderOf(t, kinds))
      /\ \A m \in Locks : Holds(t, m) <=> Owes(s, 1, m)
  BY <1>2 DEF GuardInv, ScriptInv
<1>5. /\ Compatible(l, Head(s).mode)
      /\ held' = [held EXCEPT ![Head(s).on] = @ \cup {<<t, Head(s).mode>>}]
      /\ todo' = [todo EXCEPT ![t] = Tail(s)]
      /\ queue' = [queue EXCEPT ![l] = Tail(@)]
      /\ phase' = phase /\ kinds' = kinds
  BY <1>3 DEF Grant
<1>6. /\ todo' \in [Tasks -> Seq(Step)]
      /\ held' \in [Locks -> SUBSET (Tasks \X {"read", "write"})]
      /\ Exclusive' /\ ScriptInv'
  <2> HIDE DEF s, t
  <2>1. QED
    BY <1>2, <1>3, <1>4, <1>5, TakeGuards DEF s
<1>7. /\ queue' \in [Locks -> Seq(Tasks)] /\ queue'[l] = Tail(queue[l])
      /\ \A m \in Locks : m # l => queue'[m] = queue[m]
  BY <1>1, <1>5 DEF GuardInv, GuardTypes
<1>8. QueueInv'
  <2>1. \A u \in Tasks : u # t => todo'[u] = todo[u]
    BY <1>5 DEF GuardInv, GuardTypes
  <2>2. ASSUME NEW m \in Locks, NEW k \in DOMAIN queue'[m]
        PROVE  \E j \in DOMAIN queue[m] :
                   /\ queue'[m][k] = queue[m][j]
                   /\ IF m = l THEN j = k + 1 /\ j # 1 ELSE j = k
    <3>1. CASE m = l
      <4>1. k + 1 \in DOMAIN queue[l] /\ queue'[m][k] = queue[l][k + 1] /\ k + 1 # 1
        <5>1. queue'[m] = Tail(queue[l]) /\ k \in DOMAIN Tail(queue[l])
          BY <1>7, <2>2, <3>1
        <5>2. /\ DOMAIN queue[l] = 1 .. Len(queue[l]) /\ Len(queue[l]) \in Nat
              /\ DOMAIN Tail(queue[l]) = 1 .. Len(queue[l]) - 1
              /\ \A i \in DOMAIN Tail(queue[l]) : Tail(queue[l])[i] = queue[l][i + 1]
          BY <1>1
        <5>3. QED
          BY <5>1, <5>2
      <4>2. QED
        BY <3>1, <4>1
    <3>2. CASE m # l
      BY <1>7, <2>2, <3>2
    <3>3. QED
      BY <3>1, <3>2
  <2>3. ASSUME NEW m \in Locks, NEW k \in DOMAIN queue'[m]
        PROVE  /\ queue'[m][k] \in Tasks /\ queue'[m][k] # t
               /\ LET u == queue'[m][k] IN
                  todo'[u] # Nothing /\ Head(todo'[u]).mode # "drop" /\ Head(todo'[u]).on = m
    <3>1. PICK j \in DOMAIN queue[m] :
                   /\ queue'[m][k] = queue[m][j]
                   /\ IF m = l THEN j = k + 1 /\ j # 1 ELSE j = k
      BY <2>2, <2>3
    <3>2. queue[m][j] # t
      <4>1. ASSUME queue[m][j] = queue[l][1] PROVE FALSE
        <5>1. m = l /\ j = 1
          BY <1>2, <4>1, WaitsOnce
        <5>2. QED
          BY <3>1, <5>1
      <4>2. QED
        BY <1>2, <4>1
    <3>3. queue[m][j] \in Tasks
      BY DEF GuardInv, GuardTypes
    <3>4. todo'[queue[m][j]] = todo[queue[m][j]]
      BY <2>1, <3>2, <3>3
    <3>5. QED
      BY <3>1, <3>2, <3>3, <3>4 DEF GuardInv, QueueInv
  <2>4. ASSUME NEW m \in Locks, NEW i \in DOMAIN queue'[m], NEW k \in DOMAIN queue'[m], i # k
        PROVE  queue'[m][i] # queue'[m][k]
    <3>1. i \in Nat /\ k \in Nat
      BY <1>7, <2>4
    <3>2. PICK j \in DOMAIN queue[m] :
                   /\ queue'[m][i] = queue[m][j]
                   /\ IF m = l THEN j = i + 1 /\ j # 1 ELSE j = i
      BY <2>2
    <3>3. PICK n \in DOMAIN queue[m] :
                   /\ queue'[m][k] = queue[m][n]
                   /\ IF m = l THEN n = k + 1 /\ n # 1 ELSE n = k
      BY <2>2
    <3>4. j # n
      BY <2>4, <3>1, <3>2, <3>3
    <3>5. QED
      BY <3>2, <3>3, <3>4 DEF GuardInv, QueueInv
  <2>5. QED
    BY <2>3, <2>4 DEF QueueInv
<1>9. QED
  BY <1>5, <1>6, <1>7, <1>8 DEF GuardInv, GuardTypes

LEMMA InitInv == ASSUME Init PROVE GuardInv
<1>1. /\ todo = [t \in Tasks |-> <<>>] /\ held = [l \in Locks |-> {}]
      /\ queue = [l \in Locks |-> <<>>] /\ phase = [p \in Peers |-> "absent"]
      /\ kinds \in Sessions
  BY DEF Init, Nothing
<1>2. GuardTypes
  BY <1>1 DEF GuardTypes
<1>3. \A R : Bracketed(<<>>) /\ Ordered(<<>>, R)
  BY DEF Bracketed, Ordered
<1>4. \A l : ~Owes(<<>>, 1, l)
  BY DEF Owes
<1>5. ScriptInv
  BY <1>1, <1>3, <1>4 DEF ScriptInv, Holds
<1>6. QED
  BY <1>1, <1>2, <1>5 DEF GuardInv, Exclusive, QueueInv

\* The steps with which a task begins a script.
LEMMA StartInv ==
    ASSUME GuardInv, NEW p \in Peers,
           (\E kind \in Kinds : Handle(p, kind)) \/ Join(p) \/ List(p) \/ RequestLoop(p)
    PROVE  GuardInv'
<1>1. /\ peer_com \in Tasks /\ join(p) \in Tasks /\ reqh(p) \in Tasks
      /\ phase \in [Peers -> {"absent", "joining", "listed"}]
  BY DEF Tasks, GuardInv, GuardTypes
<1>2. ASSUME NEW kind \in Kinds, Handle(p, kind) PROVE GuardInv'
  <2>1. PICK s \in HandlerScripts(p, kind) : Begin(peer_com, s)
    BY <1>2 DEF Handle
  <2>2. kind \in kinds /\ phase' = phase
    BY <1>2 DEF Handle
  <2>3. Work(s, OrderOf(peer_com, kinds))
    <3>1. CASE kind = "Piece"
      BY <3>1, PieceWork DEF HandlerScripts
    <3>2. CASE kind # "Piece"
      BY <2>2, <3>2, HandlerWork
    <3>3. QED
      BY <3>1, <3>2
  <2>4. QED
    BY <1>1, <2>1, <2>2, <2>3, BeginInv
<1>3. CASE Join(p)
  <2>1. Begin(join(p), JoinScript) /\ phase' \in [Peers -> {"absent", "joining", "listed"}]
    BY <1>1, <1>3 DEF Join
  <2>2. QED
    BY <1>1, <2>1, JoinWork, BeginInv
<1>4. CASE List(p)
  <2>1. /\ Begin(join(p), ListScript(p))
        /\ phase' \in [Peers -> {"absent", "joining", "listed"}]
    BY <1>1, <1>4 DEF List
  <2>2. QED
    BY <1>1, <2>1, JoinWork, BeginInv
<1>5. CASE RequestLoop(p)
  <2>1. PICK s \in RequestLoopScripts(p) : Begin(reqh(p), s)
    BY <1>5 DEF RequestLoop
  <2>2. phase' = phase
    BY <1>5 DEF RequestLoop
  <2>3. QED
    BY <1>1, <2>1, <2>2, RequestLoopWork, BeginInv
<1>6. QED
  BY <1>2, <1>3, <1>4, <1>5

LEMMA NextInv == ASSUME GuardInv, [Next]_vars PROVE GuardInv'
<1>1. CASE Next
  <2>1. ASSUME NEW p \in Peers,
               (\E kind \in Kinds : Handle(p, kind)) \/ Join(p) \/ List(p) \/ RequestLoop(p)
        PROVE  GuardInv'
    BY <2>1, StartInv
  <2>2. CASE Check \/ PrintStats
    <3>1. phase' \in [Peers -> {"absent", "joining", "listed"}]
      BY <2>2 DEF Check, PrintStats, GuardInv, GuardTypes
    <3>2. /\ check \in Tasks /\ stats \in Tasks
          /\ pc_tracker \in Locks /\ stats_tracker \in Locks
      BY DEF Tasks, Locks
    <3>3. CASE Check
      BY <3>1, <3>2, <3>3, WorkAlone, BeginInv DEF Check
    <3>4. CASE PrintStats
      BY <3>1, <3>2, <3>4, WorkAlone, BeginInv DEF PrintStats
    <3>5. QED
      BY <2>2, <3>3, <3>4
  <2>3. ASSUME NEW t \in Tasks, Lock(t) \/ Drop(t) PROVE GuardInv'
    BY <2>3, LockInv, DropInv
  <2>4. ASSUME NEW l \in Locks, Grant(l) PROVE GuardInv'
    BY <2>4, GrantInv
  <2>5. QED
    BY <1>1, <2>1, <2>2, <2>3, <2>4 DEF Next
<1>2. CASE UNCHANGED vars
  <2>1. todo' = todo /\ held' = held /\ queue' = queue /\ phase' = phase /\ kinds' = kinds
    BY <1>2 DEF vars
  <2>2. QED
    BY <2>1 DEF GuardInv, GuardTypes, Exclusive, ScriptInv, QueueInv, Holds
<1>3. QED
  BY <1>1, <1>2

LEMMA GuardInvariant == Spec => []GuardInv
<1>1. Init => GuardInv
  BY InitInv
<1>2. GuardInv /\ [Next]_vars => GuardInv'
  BY NextInv
<1>3. QED
  BY <1>1, <1>2, PTL DEF Spec

-----------------------------------------------------------------------------
(* Types and mutual exclusion *)

LEMMA TypeOfGuards == ASSUME GuardInv PROVE TypeOK
<1>1. \A t \in Tasks : \A k \in DOMAIN todo[t] :
          todo[t][k].mode \in Modes /\ todo[t][k].on \in Locks
  <2>1. ASSUME NEW t \in Tasks, NEW k \in DOMAIN todo[t]
        PROVE  todo[t][k].mode \in Modes /\ todo[t][k].on \in Locks
    <3>1. todo[t] \in Seq(Step)
      BY DEF GuardInv, GuardTypes
    <3>2. todo[t][k] \in Step
      BY <3>1
    <3>3. QED
      BY <3>2 DEF Step
  <2>2. QED
    BY <2>1
<1>2. ASSUME NEW l \in Locks
      PROVE  /\ held[l] \subseteq Tasks \X {"read", "write"}
             /\ \A g, h \in held[l] : g # h => g[2] = "read" /\ h[2] = "read"
             /\ \A k \in DOMAIN queue[l] : Head(todo[queue[l][k]]).on = l
             /\ \A j, k \in DOMAIN queue[l] : j # k => queue[l][j] # queue[l][k]
  BY DEF GuardInv, GuardTypes, Exclusive, QueueInv
<1>3. phase \in [Peers -> {"absent", "joining", "listed"}] /\ kinds \in Sessions
  BY DEF GuardInv, GuardTypes
<1>4. QED
  BY <1>1, <1>2, <1>3 DEF TypeOK

\* Two guards on one lock are both of readers, whatever tasks wait in the queues
\* and in whatever order the locks are handed on; nobody waits twice, and who
\* waits for a lock takes it next (conc.rs, and every guard of client.rs).
THEOREM GuardsExclude == Spec => []TypeOK
<1>1. GuardInv => TypeOK
  BY TypeOfGuards
<1>2. QED
  BY <1>1, GuardInvariant, PTL

-----------------------------------------------------------------------------
(* Circles *)

\* The tasks of a circle, and the locks they wait for.
Awaited(S) == {l \in Locks : \E t \in S : WaitsAt(t, l)}

\* A lock the circle waits for is one a member has while it waits for the next:
\* the member that is first in the queue waits for the guard, not for a member.
LEMMA HolderInCircle ==
    ASSUME GuardInv, NEW S \in Circles, NEW l \in Awaited(S)
    PROVE  \E u \in S : \E m \in Awaited(S) :
               /\ Holds(u, l) /\ WaitsAt(u, m)
               /\ <<l, m>> \in OrderOf(u, kinds)
<1>1. /\ S \subseteq Tasks
      /\ \A t \in S : Waiting(t)
      /\ \A t \in S : \E u \in S : WaitsFor(t, u)
  BY DEF Circles, Circular
<1>2. l \in Locks
  BY DEF Awaited
<1> DEFINE T == {k \in DOMAIN queue[l] : queue[l][k] \in S}
<1>3. queue[l] \in Seq(Tasks) /\ DOMAIN queue[l] \subseteq Nat
  BY <1>2 DEF GuardInv, GuardTypes
<1>4. T \subseteq Nat /\ T # {}
  BY <1>3 DEF Awaited, WaitsAt
<1>5. PICK k \in T : \A j \in T : k <= j
  BY <1>4, Least
<1> DEFINE t == queue[l][k]
<1>6. t \in S /\ k \in DOMAIN queue[l]
  BY <1>5
<1>7. PICK u \in S : WaitsFor(t, u)
  BY <1>1, <1>6
<1>8. Holds(u, l)
  <2>1. PICK n \in Locks : \E i \in DOMAIN queue[n] :
            /\ queue[n][i] = t
            /\ \/ \E mode \in {"read", "write"} : <<u, mode>> \in held[n]
               \/ \E j \in 1 .. i - 1 : queue[n][j] = u
    BY <1>7 DEF WaitsFor
  <2>2. PICK i \in DOMAIN queue[n] :
            /\ queue[n][i] = t
            /\ \/ \E mode \in {"read", "write"} : <<u, mode>> \in held[n]
               \/ \E j \in 1 .. i - 1 : queue[n][j] = u
    BY <2>1
  <2>3. n = l /\ i = k
    BY <1>2, <1>6, <2>1, <2>2, WaitsOnce
  <2>4. ASSUME NEW j \in 1 .. k - 1, queue[l][j] = u PROVE FALSE
    <3>1. j \in DOMAIN queue[l] /\ ~(k <= j)
      BY <1>3, <1>6
    <3>2. j \in T
      BY <1>7, <2>4, <3>1
    <3>3. QED
      BY <1>5, <3>1, <3>2
  <2>5. \E mode \in {"read", "write"} : <<u, mode>> \in held[l]
    BY <2>2, <2>3, <2>4
  <2>6. QED
    BY <2>5 DEF Holds
<1>9. PICK m \in Locks : WaitsAt(u, m)
  BY <1>1, <1>7 DEF Waiting
<1>10. <<l, m>> \in OrderOf(u, kinds)
  <2>1. /\ u \in Tasks /\ todo[u] # <<>> /\ Head(todo[u]).mode # "drop" /\ Head(todo[u]).on = m
        /\ todo[u] \in Seq(Step)
    <3>1. u \in Tasks
      BY <1>1, <1>7
    <3>2. PICK i \in DOMAIN queue[m] : queue[m][i] = u
      BY <1>9 DEF WaitsAt
    <3>3. todo[u] # <<>> /\ Head(todo[u]).mode # "drop" /\ Head(todo[u]).on = m
      BY <1>9, <3>2 DEF GuardInv, QueueInv, Nothing
    <3>4. todo[u] \in Seq(Step)
      BY <3>1 DEF GuardInv, GuardTypes
    <3>5. QED
      BY <3>1, <3>3, <3>4
  <2>2. Ordered(todo[u], OrderOf(u, kinds)) /\ Owes(todo[u], 1, l)
    BY <1>2, <1>8, <2>1 DEF GuardInv, ScriptInv
  <2>3. 1 \in DOMAIN todo[u] /\ Head(todo[u]) = todo[u][1]
    BY <2>1
  <2>4. QED
    BY <1>2, <2>1, <2>2, <2>3 DEF Ordered
<1>11. m \in Awaited(S)
  BY <1>7, <1>9 DEF Awaited
<1>12. QED
  BY <1>7, <1>8, <1>9, <1>10, <1>11

\* A task does not wait for a lock it has.
LEMMA NoReentry ==
    ASSUME GuardInv, NEW t \in Tasks, NEW l \in Locks, Holds(t, l) PROVE ~WaitsAt(t, l)
<1>1. ASSUME WaitsAt(t, l) PROVE FALSE
  <2>1. /\ todo[t] \in Seq(Step) /\ todo[t] # <<>> /\ Head(todo[t]).mode # "drop"
        /\ Head(todo[t]).on = l
    BY <1>1 DEF WaitsAt, GuardInv, GuardTypes, QueueInv, Nothing
  <2>2. Bracketed(todo[t]) /\ Owes(todo[t], 1, l)
    BY DEF GuardInv, ScriptInv
  <2>3. QED
    BY <2>1, <2>2, OwesHead
<1>2. QED
  BY <1>1

\* Which task may have which lock while it waits for another.
LEMMA OrderCases ==
    ASSUME NEW K, NEW u \in Tasks, NEW l \in Locks, NEW m \in Locks, <<l, m>> \in OrderOf(u, K)
    PROVE  \/ u = peer_com /\ l \in {pc_tracker, stats_tracker}
           \/ u = peer_com /\ l = pr_map
           \/ u = peer_com /\ \E p \in Peers : l = pr_tracker(p)
           \/ \E p \in Peers : u = join(p) /\ l = stats_tracker /\ m = pr_map
           \/ \E p \in Peers : u = reqh(p) /\ l = pc_tracker /\ m = pr_tracker(p)
<1>1. CASE u = peer_com /\ <<l, m>> \in PieceOrder \cup HandlerOrder
  BY <1>1 DEF PieceOrder, HandlerOrder
<1>2. CASE \E p \in Peers : u = join(p) /\ <<l, m>> \in JoinOrder
  BY <1>2 DEF JoinOrder
<1>3. CASE \E p \in Peers : u = reqh(p) /\ <<l, m>> \in RequestOrder(p)
  BY <1>3 DEF RequestOrder
<1>4. QED
  BY <1>1, <1>2, <1>3 DEF OrderOf

\* The lock of the map and those of the PeerTrackers: in a circle peer_com has them.
LEMMA PeerComHolds ==
    ASSUME GuardInv, NEW S \in Circles, NEW l \in Awaited(S),
           l = pr_map \/ \E p \in Peers : l = pr_tracker(p)
    PROVE  peer_com \in S /\ Holds(peer_com, l) /\ \E m \in Awaited(S) : WaitsAt(peer_com, m)
<1>1. PICK u \in S, m \in Awaited(S) :
          Holds(u, l) /\ WaitsAt(u, m) /\ <<l, m>> \in OrderOf(u, kinds)
  BY HolderInCircle
<1>2. u \in Tasks /\ l \in Locks /\ m \in Locks
  BY <1>1 DEF Circles, Awaited
<1>3. l # pc_tracker /\ l # stats_tracker
  BY LocksDiffer DEF pr_map, pc_tracker, stats_tracker, pr_tracker
<1>4. u = peer_com
  BY <1>1, <1>2, <1>3, OrderCases
<1>5. QED
  BY <1>1, <1>4

\* peer_com is a member of every circle: two other tasks never face each other.
LEMMA PeerComInCircle ==
    ASSUME GuardInv, NEW S \in Circles
    PROVE  peer_com \in S /\ \E m \in Awaited(S) : WaitsAt(peer_com, m)
<1>1. \E l : l \in Awaited(S)
  BY DEF Circles, Circular, Waiting, Awaited
<1>2. PICK l : l \in Awaited(S)
  BY <1>1
<1>3. PICK u \in S, m \in Awaited(S) :
          Holds(u, l) /\ WaitsAt(u, m) /\ <<l, m>> \in OrderOf(u, kinds)
  BY <1>2, HolderInCircle
<1>4. u \in Tasks /\ l \in Locks /\ m \in Locks
  BY <1>2, <1>3 DEF Circles, Awaited
<1>5. \/ u = peer_com
      \/ m = pr_map
      \/ \E p \in Peers : m = pr_tracker(p)
  BY <1>3, <1>4, OrderCases
<1>6. CASE u = peer_com
  BY <1>3, <1>6
<1>7. CASE m = pr_map \/ \E p \in Peers : m = pr_tracker(p)
  BY <1>3, <1>7, PeerComHolds
<1>8. QED
  BY <1>5, <1>6, <1>7

\* The two ways to face peer_com, and the order in which it took its two locks.
LEMMA CircleFaces ==
    ASSUME GuardInv, NEW S \in Circles
    PROVE  \E p \in Peers :
               \/ AgainstRequests(p) /\ <<pr_tracker(p), pc_tracker>> \in OrderOf(peer_com, kinds)
               \/ AgainstListing(p) /\ <<pr_map, stats_tracker>> \in OrderOf(peer_com, kinds)
<1>1. PICK x \in Awaited(S) : WaitsAt(peer_com, x)
  BY PeerComInCircle
<1>2. PICK u \in S, m \in Awaited(S) :
          Holds(u, x) /\ WaitsAt(u, m) /\ <<x, m>> \in OrderOf(u, kinds)
  BY <1>1, HolderInCircle
<1>3. u \in Tasks /\ x \in Locks /\ m \in Locks /\ peer_com \in Tasks
  BY <1>1, <1>2 DEF Circles, Awaited, Tasks
<1>4. u # peer_com
  BY <1>1, <1>2, <1>3, NoReentry
<1>5. /\ \/ m = pr_map /\ x = stats_tracker /\ \E p \in Peers : u = join(p)
         \/ \E p \in Peers : m = pr_tracker(p) /\ x = pc_tracker /\ u = reqh(p)
  BY <1>2, <1>3, <1>4, OrderCases
<1>6. Holds(peer_com, m)
  BY <1>2, <1>5, PeerComHolds
<1>7. <<m, x>> \in OrderOf(peer_com, kinds)
  <2>1. PICK i \in DOMAIN queue[x] : queue[x][i] = peer_com
    BY <1>1 DEF WaitsAt
  <2>2. /\ todo[peer_com] # <<>> /\ Head(todo[peer_com]).mode # "drop"
        /\ Head(todo[peer_com]).on = x
    BY <1>3, <2>1 DEF GuardInv, QueueInv, Nothing
  <2>3. /\ todo[peer_com] \in Seq(Step)
        /\ Ordered(todo[peer_com], OrderOf(peer_com, kinds)) /\ Owes(todo[peer_com], 1, m)
    BY <1>3, <1>6 DEF GuardInv, GuardTypes, ScriptInv
  <2>4. 1 \in DOMAIN todo[peer_com] /\ Head(todo[peer_com]) = todo[peer_com][1]
    BY <2>2, <2>3
  <2>5. QED
    BY <1>3, <2>2, <2>3, <2>4 DEF Ordered
<1>8. QED
  BY <1>1, <1>2, <1>5, <1>6, <1>7 DEF AgainstRequests, AgainstListing

\* However many peers there are and whatever they send, a set of tasks that wait
\* for each other has peer_com in it, with the tracker of a peer against its
\* request task or with the map against the task that lists a peer: the guards
\* that handle_peer_com, next_piece and the task of a peer hold across an await
\* leave no third way (client.rs, requests.rs).
THEOREM CirclesKnown == Spec => []CirclesAreThese
<1>1. GuardInv => CirclesAreThese
  BY CircleFaces DEF CirclesAreThese
<1>2. QED
  BY <1>1, GuardInvariant, PTL

\* Handling blocks takes the statistics under the piece tracker and the tracker of
\* a peer under the map: while peers send nothing else, no tasks wait in a circle.
THEOREM BlocksNeverCircle == Spec => []NoCircularWait
<1>1. ASSUME GuardInv PROVE NoCircularWait
  <2>1. ASSUME kinds = {"Piece"}, NEW S \in Circles PROVE FALSE
    <3>1. PICK p \in Peers :
              \/ <<pr_tracker(p), pc_tracker>> \in OrderOf(peer_com, kinds)
              \/ <<pr_map, stats_tracker>> \in OrderOf(peer_com, kinds)
      BY <1>1, <2>1, CircleFaces
    <3>2. \A e \in OrderOf(peer_com, {"Piece"}) : e \in PieceOrder
      BY DEF OrderOf, peer_com, join, reqh
    <3>3. \/ <<pr_tracker(p), pc_tracker>> \in PieceOrder
          \/ <<pr_map, stats_tracker>> \in PieceOrder
      BY <2>1, <3>1, <3>2
    <3>4. QED
      BY <3>3 DEF PieceOrder, pr_map, pr_tracker, pc_tracker, stats_tracker
  <2>2. QED
    BY <2>1 DEF NoCircularWait
<1>2. QED
  BY <1>1, GuardInvariant, PTL

=============================================================================
