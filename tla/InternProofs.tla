---------------------------- MODULE InternProofs ----------------------------
(***************************************************************************)
(* Proofs about Intern: whatever path a batch takes and however its tasks  *)
(* are scheduled, the hash slots and the name list are inverse of each     *)
(* other when the call returns, nothing provisional is left behind, and    *)
(* new names are numbered by first occurrence (InternAbs).                 *)
(*                                                                         *)
(* The three paths number names by rank in a total order, so the proof     *)
(* rests on one fact about finite sets: ranks are the numbers from 1 to    *)
(* the size of the set, each of them once.                                 *)
(***************************************************************************)
EXTENDS Intern, FiniteSetTheorems, SequenceTheorems, TLAPS

-----------------------------------------------------------------------------
(***************************************************************************)
(* Ranks                                                                   *)
(***************************************************************************)

(* The sets D[x] form a chain and tell the elements of S apart: their      *)
(* sizes are the numbers from 1 to the size of S, each of them once.       *)
LEMMA ChainRank ==
  ASSUME NEW S, IsFiniteSet(S), NEW D \in [S -> SUBSET S],
         \A x \in S : x \in D[x],
         \A x, y \in S : D[x] \subseteq D[y] \/ D[y] \subseteq D[x],
         \A x, y \in S : D[x] = D[y] => x = y
  PROVE  /\ \A x \in S : Cardinality(D[x]) \in 1..Cardinality(S)
         /\ \A x, y \in S : Cardinality(D[x]) = Cardinality(D[y]) => x = y
         /\ \A k \in 1..Cardinality(S) : \E x \in S : Cardinality(D[x]) = k
<1>1. ASSUME NEW x \in S PROVE IsFiniteSet(D[x]) /\ Cardinality(D[x]) \in 1..Cardinality(S)
  <2>1. IsFiniteSet(D[x]) /\ Cardinality(D[x]) <= Cardinality(S)
    BY FS_Subset
  <2>2. Cardinality(D[x]) \in Nat /\ Cardinality(S) \in Nat
    BY <2>1, FS_CardinalityType
  <2>3. Cardinality(D[x]) # 0
    BY <2>1, FS_EmptySet
  <2> QED
    BY <2>1, <2>2, <2>3
<1>2. ASSUME NEW x \in S, NEW y \in S, Cardinality(D[x]) = Cardinality(D[y]) PROVE x = y
  <2>1. IsFiniteSet(D[x]) /\ IsFiniteSet(D[y])
    BY <1>1
  <2>2. CASE D[x] \subseteq D[y]
    <3>1. D[x] \in SUBSET D[y]
      BY <2>2
    <3>2. D[y] = D[x]
      BY <1>2, <2>1, <3>1, FS_Subset
    <3> QED
      BY <3>2
  <2>3. CASE D[y] \subseteq D[x]
    <3>1. D[y] \in SUBSET D[x]
      BY <2>3
    <3>2. D[x] = D[y]
      BY <1>2, <2>1, <3>1, FS_Subset
    <3> QED
      BY <3>2
  <2> QED
    BY <2>2, <2>3
<1>3. ASSUME NEW k \in 1..Cardinality(S) PROVE \E x \in S : Cardinality(D[x]) = k
  <2> SUFFICES ASSUME \A x \in S : Cardinality(D[x]) # k PROVE FALSE
    OBVIOUS
  <2> DEFINE T == (1..Cardinality(S)) \ {k}
             f == [x \in S |-> Cardinality(D[x])]
  <2>1. Cardinality(S) \in Nat
    BY FS_CardinalityType
  <2>2. IsFiniteSet(1..Cardinality(S)) /\ Cardinality(1..Cardinality(S)) = Cardinality(S)
    BY <2>1, FS_Interval
  <2>3. IsFiniteSet(T) /\ Cardinality(T) = Cardinality(S) - 1
    BY <2>2, FS_RemoveElement
  <2>4. f \in [S -> T]
    BY <1>1
  <2>5. Cardinality(T) < Cardinality(S)
    BY <2>1, <2>3
  <2>6. \A x \in S : f[x] = Cardinality(D[x])
    OBVIOUS
  <2> HIDE DEF T, f
  <2>7. \E x, y \in S : x # y /\ f[x] = f[y]
    BY <2>3, <2>4, <2>5, FS_PigeonHole
  <2> QED
    BY <1>2, <2>6, <2>7
<1> QED
  BY <1>1, <1>2, <1>3

(* The same with the sets B[x] of what lies before x in a total order. *)
LEMMA OrderRank ==
  ASSUME NEW S, IsFiniteSet(S), NEW B \in [S -> SUBSET S],
         \A x \in S : x \notin B[x],
         \A x, y \in S : y \in B[x] => B[y] \subseteq B[x],
         \A x, y \in S : x # y => x \in B[y] \/ y \in B[x]
  PROVE  /\ \A x \in S : Cardinality(B[x]) + 1 \in 1..Cardinality(S)
         /\ \A x, y \in S : Cardinality(B[x]) = Cardinality(B[y]) => x = y
         /\ \A k \in 1..Cardinality(S) : \E x \in S : Cardinality(B[x]) + 1 = k
<1> DEFINE D == [x \in S |-> B[x] \cup {x}]
<1>1. D \in [S -> SUBSET S] /\ \A x \in S : x \in D[x]
  OBVIOUS
<1>2. ASSUME NEW x \in S, NEW y \in S PROVE D[x] \subseteq D[y] \/ D[y] \subseteq D[x]
  <2>1. CASE x = y
    BY <2>1
  <2>2. CASE x \in B[y]
    BY <2>2
  <2>3. CASE y \in B[x]
    BY <2>3
  <2> QED
    BY <2>1, <2>2, <2>3
<1>3. ASSUME NEW x \in S, NEW y \in S, D[x] = D[y] PROVE x = y
  <2> SUFFICES ASSUME x # y PROVE FALSE
    OBVIOUS
  <2>1. x \in B[y] /\ y \in B[x]
    BY <1>3
  <2>2. B[y] \subseteq B[x]
    BY <2>1
  <2> QED
    BY <2>1, <2>2
<1>4. ASSUME NEW x \in S PROVE Cardinality(D[x]) = Cardinality(B[x]) + 1 /\ Cardinality(B[x]) \in Nat
  <2>1. IsFiniteSet(B[x])
    BY FS_Subset
  <2> QED
    BY <2>1, FS_AddElement, FS_CardinalityType
<1> HIDE DEF D
<1>5. /\ \A x \in S : Cardinality(D[x]) \in 1..Cardinality(S)
      /\ \A x, y \in S : Cardinality(D[x]) = Cardinality(D[y]) => x = y
      /\ \A k \in 1..Cardinality(S) : \E x \in S : Cardinality(D[x]) = k
  BY <1>1, <1>2, <1>3, ChainRank
<1> QED
  BY <1>4, <1>5

(* Ranks in a set of numbers. *)
LEMMA NumberRank ==
  ASSUME NEW S
  PROVE  (S \subseteq Nat /\ IsFiniteSet(S)) =>
         /\ \A x \in S : Cardinality({h \in S : h <= x}) \in 1..Cardinality(S)
         /\ \A x, y \in S : Cardinality({h \in S : h <= x}) = Cardinality({h \in S : h <= y}) => x = y
         /\ \A k \in 1..Cardinality(S) : \E x \in S : Cardinality({h \in S : h <= x}) = k
<1> DEFINE D == [x \in S |-> {h \in S : h <= x}]
<1>1. D \in [S -> SUBSET S]
  OBVIOUS
<1>2. \A x \in S : D[x] = {h \in S : h <= x}
  OBVIOUS
<1>3. S \subseteq Nat =>
        /\ \A x \in S : x \in D[x]
        /\ \A x, y \in S : D[x] \subseteq D[y] \/ D[y] \subseteq D[x]
        /\ \A x, y \in S : D[x] = D[y] => x = y
  <2> HIDE DEF D
  <2> SUFFICES ASSUME S \subseteq Nat, NEW x \in S, NEW y \in S
               PROVE  /\ x \in D[x]
                      /\ D[x] \subseteq D[y] \/ D[y] \subseteq D[x]
                      /\ D[x] = D[y] => x = y
    OBVIOUS
  <2>1. x \in Nat /\ y \in Nat
    OBVIOUS
  <2>2. ASSUME NEW a \in S, NEW b \in S, a <= b PROVE D[a] \subseteq D[b]
    <3> SUFFICES ASSUME NEW h \in D[a] PROVE h \in D[b]
      OBVIOUS
    <3>1. h \in S /\ h <= a
      BY <1>2
    <3>2. h \in Nat /\ a \in Nat /\ b \in Nat
      BY <3>1
    <3>3. h <= b
      BY <2>2, <3>1, <3>2
    <3> QED
      BY <1>2, <3>1, <3>3
  <2>3. x \in D[x] /\ y \in D[y]
    BY <1>2, <2>1
  <2>4. ASSUME D[x] = D[y] PROVE x = y
    <3>1. x <= y /\ y <= x
      BY <1>2, <2>3, <2>4
    <3> QED
      BY <2>1, <3>1
  <2>5. x <= y \/ y <= x
    BY <2>1
  <2> QED
    BY <2>2, <2>3, <2>4, <2>5
<1> HIDE DEF D
<1>4. ASSUME IsFiniteSet(S),
             \A x \in S : x \in D[x],
             \A x, y \in S : D[x] \subseteq D[y] \/ D[y] \subseteq D[x],
             \A x, y \in S : D[x] = D[y] => x = y
      PROVE  /\ \A x \in S : Cardinality(D[x]) \in 1..Cardinality(S)
             /\ \A x, y \in S : Cardinality(D[x]) = Cardinality(D[y]) => x = y
             /\ \A k \in 1..Cardinality(S) : \E x \in S : Cardinality(D[x]) = k
  BY <1>1, <1>4, ChainRank
<1>5. \A x \in S : Cardinality(D[x]) = Cardinality({h \in S : h <= x})
  BY <1>2
<1> QED
  BY <1>3, <1>4, <1>5

(* Chunks are intervals, and together cover the sequence. *)
LEMMA ChunkMonotone ==
  ASSUME NEW a \in Nat, NEW b \in Nat, a <= b
  PROVE  a \div Chunk \in Nat /\ a \div Chunk <= b \div Chunk
  BY InternAssumption

LEMMA ChunksCover ==
  ASSUME NEW n \in Nat, NEW g \in 1..n
  PROVE  (g - 1) \div Chunk + 1 \in 1..ChunksOf(n)
  BY InternAssumption DEF ChunksOf

-----------------------------------------------------------------------------
(***************************************************************************)
(* The inductive invariant                                                 *)
(***************************************************************************)

PendingName == [name: Names, first: Nat \X Nat]
SlotValue == [tag: {"vacant", "id", "pending", "index"}, at: Nat]

InternTypeOK ==
  /\ batches \in Seq(Seq([position: Nat, names: Seq(Names)]))
  /\ phase \in {"idle", "in_order", "find", "look_up", "rewrite", "scatter", "probe", "mark", "number"}
  /\ names \in Seq(Names)
  /\ base \in Nat /\ base <= Len(names)
  /\ slots \in [Names -> SlotValue]
  /\ pending \in [Shards -> Seq(PendingName)]
  /\ phase = "idle" => work = {} /\ sequence = <<>>
  /\ phase # "idle" => /\ batches # <<>>
                       /\ work \subseteq Places
                       /\ sequence \in Seq(Places)
  /\ phase = "find" => DistinctPositions
  /\ firsts \subseteq DOMAIN sequence
  /\ phase \notin {"mark", "number"} => firsts = {}

Partitioning == phase \in {"scatter", "probe", "mark", "number"}

(* The table the batch began with is as it was, whatever was added to it;  *)
(* what belongs to one pass is empty outside it.                           *)
Kept ==
  /\ \A n \in Names : \A k \in 1..base : slots[n] = Final(k) <=> names[k] = n
  /\ phase \in {"idle", "find", "look_up", "scatter", "probe", "mark"} => Len(names) = base
  /\ cells = IF phase = "rewrite" THEN Len(names) ELSE base
  /\ phase # "look_up" => ~overflowed /\ \A s \in Shards : pending[s] = <<>>
  /\ phase # "rewrite" => \A s \in Shards : assigned[s] = <<>>

(* Outside the passes that work with provisional values, slots and names   *)
(* are inverse.                                                            *)
Direct ==
  phase \in {"idle", "find", "in_order", "rewrite"} =>
    /\ \A n \in Names : \A k \in DOMAIN names : slots[n] = Final(k) <=> names[k] = n
    /\ \A n \in Names : slots[n] = Vacant \/ \E k \in DOMAIN names : slots[n] = Final(k)

KnownSlot(n) == \E k \in 1..base : slots[n] = Final(k)

(* Pass 1: a name is provisional exactly when its shard's pending list     *)
(* holds it, at the place its slot says.                                   *)
PassOne ==
  phase = "look_up" =>
    /\ \A n \in Names : \/ slots[n] = Vacant
                        \/ KnownSlot(n)
                        \/ \E l \in DOMAIN pending[ShardOf[n]] :
                             slots[n] = Pending(l) /\ pending[ShardOf[n]][l].name = n
    /\ \A s \in Shards : \A l \in DOMAIN pending[s] :
         ShardOf[pending[s][l].name] = s /\ slots[pending[s][l].name] = Pending(l)

Region(s) == {g \in DOMAIN sequence : ShardAt(g) = s}
RegionRank(g) == Cardinality({h \in Region(ShardAt(g)) : h <= g})
NewRank(g) == Cardinality({h \in firsts : h <= g})
ChunkAt(g) == (g - 1) \div Chunk + 1
EntryOf(g) == entries[ShardAt(g)][RegionRank(g)]
SlotOf(g) == slots[NameAt(sequence[g])]
Index(g) == [tag |-> "index", at |-> g]

(* The partitioned path: regions have the size their shard's names take.   *)
Regions ==
  Partitioning =>
    /\ DOMAIN entries = Shards /\ entries = [s \in Shards |-> entries[s]]
    /\ DOMAIN probed = Shards /\ probed = [s \in Shards |-> probed[s]]
    /\ \A s \in Shards : /\ DOMAIN entries[s] = 1..Cardinality(Region(s))
                         /\ entries[s] \in Seq(SlotValue)
                         /\ probed[s] \in 0..Len(entries[s])

(* Scattered chunks have written the indices of their names, and probing   *)
(* a name replaces its index by the slot it found or claimed.              *)
Scattered ==
  /\ phase = "scatter" =>
       /\ \A g \in DOMAIN sequence : <<"chunk", ChunkAt(g)>> \in tasks \/ EntryOf(g) = Index(g)
       /\ tasks \subseteq {<<"chunk", c>> : c \in 1..ChunksOf(Len(sequence))}
       /\ \A s \in Shards : probed[s] = 0
       /\ \A n \in Names : slots[n] = Vacant \/ KnownSlot(n)
  /\ phase = "probe" =>
       \A g \in DOMAIN sequence :
         IF RegionRank(g) <= probed[ShardAt(g)]
           THEN EntryOf(g) = SlotOf(g) /\ SlotOf(g) # Vacant
           ELSE EntryOf(g) = Index(g)
  /\ phase \in {"probe", "mark"} =>
       \A n \in Names :
         \/ slots[n] = Vacant
         \/ KnownSlot(n)
         \/ \E g \in DOMAIN sequence : /\ slots[n] = Pending(g) /\ NameAt(sequence[g]) = n
                                       /\ RegionRank(g) <= probed[ShardAt(g)]

(* The bitmap holds the names whose slot names them as the first.          *)
Marked ==
  phase = "mark" =>
    /\ \A g \in DOMAIN sequence : EntryOf(g) = SlotOf(g)
    /\ tasks \subseteq {<<"chunk", c>> : c \in 1..ChunksOf(Len(sequence))}
    /\ \A g \in DOMAIN sequence :
         g \in firsts <=> (<<"chunk", ChunkAt(g)>> \notin tasks /\ SlotOf(g) = Pending(g))

(* Numbering: shards whose task has run hold final IDs, the others still   *)
(* name first occurrences; the names are appended at once.                 *)
Numbered ==
  phase = "number" =>
    /\ \A g \in firsts :
         SlotOf(g) = IF <<"shard", ShardAt(g)>> \in tasks
                       THEN Pending(g) ELSE Final(base + NewRank(g))
    /\ \A n \in Names :
         \/ slots[n] = Vacant
         \/ KnownSlot(n)
         \/ \E g \in firsts : NameAt(sequence[g]) = n
    /\ IF <<"names", 0>> \in tasks
         THEN Len(names) = base
         ELSE /\ Len(names) = base + Cardinality(firsts)
              /\ \A g \in firsts : names[base + NewRank(g)] = NameAt(sequence[g])

InternInv ==
  /\ InternTypeOK /\ Kept /\ Direct /\ PassOne
  /\ Regions /\ Scattered /\ Marked /\ Numbered

-----------------------------------------------------------------------------
(***************************************************************************)
(* The places of a batch and the order they are interned in                *)
(***************************************************************************)

(* Pairs whose second component is bounded by the first are finitely many. *)
LEMMA PairsFinite ==
  ASSUME NEW S, IsFiniteSet(S), NEW b, \A j \in S : b[j] \in Nat,
         NEW P, \A p \in P : \E j \in S : \E i \in 1..b[j] : p = <<j, i>>
  PROVE  IsFiniteSet(P)
<1>1. ASSUME NEW j \in S PROVE IsFiniteSet({<<j, i>> : i \in 1..b[j]})
  <2> DEFINE f == [i \in 1..b[j] |-> <<j, i>>]
             T == {<<j, i>> : i \in 1..b[j]}
  <2>1. f \in Surjection(1..b[j], T)
    BY DEF Surjection
  <2>2. IsFiniteSet(1..b[j])
    BY FS_Interval
  <2> HIDE DEF f, T
  <2>3. IsFiniteSet(T)
    BY <2>1, <2>2, FS_Surjection
  <2> QED
    BY <2>3 DEF T
<1> DEFINE F == [j \in S |-> {<<j, i>> : i \in 1..b[j]}]
           R == {{<<j, i>> : i \in 1..b[j]} : j \in S}
<1>2. F \in Surjection(S, R)
  BY DEF Surjection
<1>3. \A x \in R : IsFiniteSet(x)
  BY <1>1
<1> HIDE DEF F, R
<1>4. IsFiniteSet(R)
  BY <1>2, FS_Surjection
<1>5. IsFiniteSet(UNION R)
  BY <1>3, <1>4, FS_UNION
<1>6. P \in SUBSET (UNION R)
  BY DEF R
<1> QED
  BY <1>5, <1>6, FS_Subset

(* A function on an initial segment is a sequence. *)
LEMMA FunctionIsSeq ==
  ASSUME NEW T, NEW n \in Nat, NEW f \in [1..n -> T]
  PROVE  f \in Seq(T) /\ Len(f) = n
  OBVIOUS

LEMMA Predecessor ==
  ASSUME NEW a \in Nat, NEW b \in Nat
  PROVE  a + 1 = b <=> a = b - 1
  OBVIOUS

LEMMA PlacesFacts ==
  ASSUME batches \in Seq(Seq([position: Nat, names: Seq(Names)])), batches # <<>>
  PROVE  /\ IsFiniteSet(Places)
         /\ \A p \in Places : /\ NameAt(p) \in Names /\ PlaceShard(p) \in Shards
                              /\ Jobs[p[1]].position \in Nat /\ p[2] \in Nat
                              /\ p[1] \in DOMAIN Jobs /\ p = <<p[1], p[2]>>
<1>1. Jobs \in Seq([position: Nat, names: Seq(Names)])
  BY DEF Jobs
<1>2. ASSUME NEW j \in DOMAIN Jobs
      PROVE /\ Jobs[j].names \in Seq(Names) /\ DOMAIN Jobs[j].names = 1..Len(Jobs[j].names)
            /\ Jobs[j].position \in Nat
  <2>1. j \in 1..Len(Jobs)
    BY <1>1
  <2>2. Jobs[j] \in [position: Nat, names: Seq(Names)]
    BY <1>1, <2>1, ElementOfSeq
  <2> QED
    BY <2>2
<1>3. IsFiniteSet(Places)
  <2> DEFINE b == [j \in DOMAIN Jobs |-> Len(Jobs[j].names)]
             S == DOMAIN Jobs
  <2>1. \A j \in S : b[j] \in Nat
    BY <1>2
  <2>2. \A p \in Places : \E j \in S : \E i \in 1..b[j] : p = <<j, i>>
    BY <1>2 DEF Places
  <2>3. IsFiniteSet(S)
    BY <1>1, FS_Interval
  <2> HIDE DEF b, S
  <2> QED
    BY <2>1, <2>2, <2>3, PairsFinite
<1>4. ASSUME NEW p \in Places
      PROVE /\ NameAt(p) \in Names /\ PlaceShard(p) \in Shards
            /\ Jobs[p[1]].position \in Nat /\ p[2] \in Nat
            /\ p[1] \in DOMAIN Jobs /\ p = <<p[1], p[2]>>
  <2>1. PICK j \in DOMAIN Jobs : p \in {<<j, i>> : i \in DOMAIN Jobs[j].names}
    BY DEF Places
  <2>2. PICK i \in DOMAIN Jobs[j].names : p = <<j, i>>
    BY <2>1
  <2>3. p[1] = j /\ p[2] = i
    BY <2>2
  <2>4. i \in Nat /\ Jobs[j].names[i] \in Names
    BY <1>2
  <2>5. NameAt(p) \in Names
    BY <2>3, <2>4 DEF NameAt
  <2> QED
    BY <1>2, <2>2, <2>3, <2>4, <2>5, InternAssumption DEF PlaceShard
<1> QED
  BY <1>3, <1>4

(* Sorting places by position and index gives a sequence of them. *)
LEMMA InOrderIsSeq ==
  ASSUME batches \in Seq(Seq([position: Nat, names: Seq(Names)])), batches # <<>>,
         DistinctPositions, NEW S \in SUBSET Places
  PROVE  /\ InOrder(S) \in Seq(Places) /\ Len(InOrder(S)) = Cardinality(S)
         /\ Cardinality(S) \in Nat
<1> DEFINE B == [p \in S |-> {q \in S : Before(q, p)}]
<1>1. IsFiniteSet(S) /\ Cardinality(S) \in Nat
  BY PlacesFacts, FS_Subset, FS_CardinalityType
<1>2. B \in [S -> SUBSET S] /\ \A p \in S : B[p] = {q \in S : Before(q, p)}
  OBVIOUS
<1>3. \A x \in S : x \notin B[x]
  BY PlacesFacts DEF Before
<1>4. ASSUME NEW x \in S, NEW y \in S, y \in B[x] PROVE B[y] \subseteq B[x]
  <2> SUFFICES ASSUME NEW z \in S, Before(z, y) PROVE Before(z, x)
    BY <1>2
  <2>1. Before(y, x)
    BY <1>2, <1>4
  <2> QED
    BY <2>1, PlacesFacts DEF Before, DistinctPositions
<1>5. ASSUME NEW x \in S, NEW y \in S, x # y PROVE x \in B[y] \/ y \in B[x]
  <2>1. x \in Places /\ y \in Places
    OBVIOUS
  <2>2. /\ Jobs[x[1]].position \in Nat /\ Jobs[y[1]].position \in Nat
        /\ x[2] \in Nat /\ y[2] \in Nat /\ x = <<x[1], x[2]>> /\ y = <<y[1], y[2]>>
        /\ Jobs[x[1]].position = Jobs[y[1]].position => x[1] = y[1]
    BY <2>1, PlacesFacts DEF DistinctPositions
  <2>3. x[1] # y[1] \/ x[2] # y[2]
    BY <1>5, <2>2
  <2>4. Before(x, y) \/ Before(y, x)
    BY <2>2, <2>3 DEF Before
  <2> QED
    BY <1>2, <2>4
<1> HIDE DEF B
<1>6. \A k \in 1..Cardinality(S) : \E x \in S : Cardinality(B[x]) + 1 = k
  BY <1>1, <1>2, <1>3, <1>4, <1>5, OrderRank
<1>7. ASSUME NEW k \in 1..Cardinality(S)
      PROVE  \E p \in S : Cardinality({q \in S : Before(q, p)}) = k - 1
  <2>1. PICK x \in S : Cardinality(B[x]) + 1 = k
    BY <1>6
  <2>2. IsFiniteSet(B[x])
    BY <1>1, <1>2, FS_Subset
  <2>3. Cardinality(B[x]) \in Nat
    BY <2>2, FS_CardinalityType
  <2>4. k \in Nat
    BY <1>1
  <2>5. Cardinality(B[x]) = k - 1
    BY <2>1, <2>3, <2>4, Predecessor
  <2> QED
    BY <1>2, <2>5
<1>8. \A k \in 1..Cardinality(S) : (CHOOSE p \in S : Cardinality({q \in S : Before(q, p)}) = k - 1) \in S
  BY <1>7
<1>9. InOrder(S) \in [1..Cardinality(S) -> Places]
  BY <1>8 DEF InOrder
<1> QED
  BY <1>1, <1>9, FunctionIsSeq

-----------------------------------------------------------------------------
(***************************************************************************)
(* Regions of the partitioned sequence                                     *)
(***************************************************************************)

SequenceOK ==
  /\ batches \in Seq(Seq([position: Nat, names: Seq(Names)])) /\ batches # <<>>
  /\ sequence \in Seq(Places)

LEMMA SequenceFacts ==
  ASSUME SequenceOK
  PROVE  /\ DOMAIN sequence = 1..Len(sequence) /\ Len(sequence) \in Nat
         /\ \A g \in DOMAIN sequence :
              /\ g \in Nat /\ g >= 1 /\ sequence[g] \in Places
              /\ NameAt(sequence[g]) \in Names /\ ShardAt(g) = ShardOf[NameAt(sequence[g])]
              /\ ShardAt(g) \in Shards
              /\ ChunkAt(g) \in 1..ChunksOf(Len(sequence))
<1>1. DOMAIN sequence = 1..Len(sequence) /\ Len(sequence) \in Nat
  BY DEF SequenceOK
<1>2. ASSUME NEW g \in DOMAIN sequence
      PROVE  /\ g \in Nat /\ g >= 1 /\ sequence[g] \in Places
             /\ NameAt(sequence[g]) \in Names /\ ShardAt(g) = ShardOf[NameAt(sequence[g])]
             /\ ShardAt(g) \in Shards
             /\ ChunkAt(g) \in 1..ChunksOf(Len(sequence))
  <2>1. g \in 1..Len(sequence)
    BY <1>1
  <2>2. sequence[g] \in Places
    BY <2>1, ElementOfSeq DEF SequenceOK
  <2>3. NameAt(sequence[g]) \in Names /\ PlaceShard(sequence[g]) \in Shards
    BY <2>2, PlacesFacts DEF SequenceOK
  <2>4. ChunkAt(g) \in 1..ChunksOf(Len(sequence))
    BY <1>1, <2>1, ChunksCover DEF ChunkAt
  <2> QED
    BY <1>1, <2>1, <2>2, <2>3, <2>4 DEF ShardAt, PlaceShard
<1> QED
  BY <1>1, <1>2

(* The ranks of a shard's names fill its region. *)
LEMMA RegionRanks ==
  ASSUME SequenceOK, NEW s
  PROVE  /\ IsFiniteSet(Region(s)) /\ Cardinality(Region(s)) \in Nat
         /\ \A g \in Region(s) : RegionRank(g) \in 1..Cardinality(Region(s))
         /\ \A g, h \in Region(s) : RegionRank(g) = RegionRank(h) => g = h
         /\ \A k \in 1..Cardinality(Region(s)) : \E g \in Region(s) : RegionRank(g) = k
<1> DEFINE S == Region(s)
<1>1. S \subseteq Nat /\ S \in SUBSET (1..Len(sequence))
  BY SequenceFacts DEF Region
<1>2. IsFiniteSet(1..Len(sequence))
  BY SequenceFacts, FS_Interval
<1>3. IsFiniteSet(S)
  BY <1>1, <1>2, FS_Subset
<1>4. Cardinality(S) \in Nat
  BY <1>3, FS_CardinalityType
<1>5. \A g \in S : RegionRank(g) = Cardinality({h \in S : h <= g})
  BY DEF Region, RegionRank
<1> HIDE DEF S
<1>6. /\ \A x \in S : Cardinality({h \in S : h <= x}) \in 1..Cardinality(S)
      /\ \A x, y \in S : Cardinality({h \in S : h <= x}) = Cardinality({h \in S : h <= y}) => x = y
      /\ \A k \in 1..Cardinality(S) : \E x \in S : Cardinality({h \in S : h <= x}) = k
  BY <1>1, <1>3, NumberRank
<1>7. /\ \A g \in S : RegionRank(g) \in 1..Cardinality(S)
      /\ \A g, h \in S : RegionRank(g) = RegionRank(h) => g = h
      /\ \A k \in 1..Cardinality(S) : \E g \in S : RegionRank(g) = k
  BY <1>5, <1>6
<1> QED
  BY <1>3, <1>4, <1>7 DEF S

(* The walk of a chunk, which starts behind the chunks before it, meets    *)
(* every name at its rank in the region.                                   *)
LEMMA CursorIsRank ==
  ASSUME SequenceOK, NEW c \in Nat, NEW g \in ChunkRange(c)
  PROVE  /\ g \in DOMAIN sequence /\ c = ChunkAt(g)
         /\ Cursor(c, g) = RegionRank(g)
<1> DEFINE s == ShardAt(g)
           A == {h \in DOMAIN sequence : (h - 1) \div Chunk < c - 1 /\ ShardAt(h) = s}
           B == {h \in ChunkRange(c) : h <= g /\ ShardAt(h) = s}
           R == {h \in Region(s) : h <= g}
<1>1. g \in DOMAIN sequence /\ (g - 1) \div Chunk = c - 1
  BY DEF ChunkRange
<1>2. ASSUME NEW h \in DOMAIN sequence
      PROVE  /\ h \in Nat /\ g \in Nat /\ (h - 1) \div Chunk \in Nat
             /\ h <= g => (h - 1) \div Chunk <= c - 1
             /\ g <= h => (h - 1) \div Chunk >= c - 1
  <2>1. h - 1 \in Nat /\ g - 1 \in Nat /\ h \in Nat /\ g \in Nat
    BY <1>1, SequenceFacts
  <2>2. (h - 1) \div Chunk \in Nat
    BY <2>1, ChunkMonotone
  <2>3. h <= g => (h - 1) \div Chunk <= (g - 1) \div Chunk
    BY <2>1, ChunkMonotone
  <2>4. g <= h => (g - 1) \div Chunk <= (h - 1) \div Chunk
    BY <2>1, ChunkMonotone
  <2> QED
    BY <1>1, <2>1, <2>2, <2>3, <2>4
<1>3. A \cup B \subseteq R
  <2>1. ASSUME NEW h \in A PROVE h \in R
    <3>1. h \in DOMAIN sequence /\ (h - 1) \div Chunk < c - 1 /\ ShardAt(h) = s
      OBVIOUS
    <3>2. h <= g
      BY <1>2, <3>1
    <3> QED
      BY <3>1, <3>2 DEF Region
  <2>2. ASSUME NEW h \in B PROVE h \in R
    BY DEF Region, ChunkRange
  <2> QED
    BY <2>1, <2>2
<1>4. R \subseteq A \cup B
  <2> SUFFICES ASSUME NEW h \in R PROVE h \in A \cup B
    OBVIOUS
  <2>1. h \in DOMAIN sequence /\ ShardAt(h) = s /\ h <= g
    BY DEF Region
  <2>2. (h - 1) \div Chunk < c - 1 \/ (h - 1) \div Chunk = c - 1
    BY <1>2, <2>1
  <2> QED
    BY <2>1, <2>2 DEF ChunkRange
<1>5. A \cap B = {}
  <2> SUFFICES ASSUME NEW h \in A, h \in B PROVE FALSE
    OBVIOUS
  <2>1. h \in DOMAIN sequence /\ (h - 1) \div Chunk < c - 1 /\ (h - 1) \div Chunk = c - 1
    BY DEF ChunkRange
  <2> QED
    BY <1>2, <2>1
<1>6. R = A \cup B
  BY <1>3, <1>4
<1>7. IsFiniteSet(R) /\ A \in SUBSET R /\ B \in SUBSET R
  <2>1. IsFiniteSet(Region(s))
    BY RegionRanks
  <2>2. R \in SUBSET Region(s)
    OBVIOUS
  <2>3. IsFiniteSet(R)
    BY <2>1, <2>2, FS_Subset
  <2> QED
    BY <1>6, <2>3
<1>8. FirstCursor(c, s) = Cardinality(A) /\ Cursor(c, g) = Cardinality(A) + Cardinality(B) /\ RegionRank(g) = Cardinality(R)
  BY DEF FirstCursor, Cursor, RegionRank
<1> HIDE DEF A, B, R
<1>9. IsFiniteSet(A) /\ IsFiniteSet(B)
  BY <1>7, FS_Subset
<1>10. Cardinality(R) = Cardinality(A) + Cardinality(B) - Cardinality({})
  BY <1>5, <1>6, <1>9, FS_Union
<1>11. Cardinality(A) \in Nat /\ Cardinality(B) \in Nat /\ Cardinality({}) = 0
  BY <1>9, FS_CardinalityType, FS_EmptySet
<1>12. Cursor(c, g) = RegionRank(g)
  BY <1>8, <1>10, <1>11
<1>13. c = ChunkAt(g)
  BY <1>1, <1>2 DEF ChunkAt
<1> QED
  BY <1>1, <1>12, <1>13

(* The new names of the partitioned path are numbered without gaps. *)
LEMMA NewRanks ==
  ASSUME SequenceOK, firsts \subseteq DOMAIN sequence
  PROVE  /\ IsFiniteSet(firsts) /\ Cardinality(firsts) \in Nat
         /\ \A g \in firsts : NewRank(g) \in 1..Cardinality(firsts)
         /\ \A g, h \in firsts : NewRank(g) = NewRank(h) => g = h
         /\ \A k \in 1..Cardinality(firsts) : \E g \in firsts : NewRank(g) = k
<1>1. firsts \subseteq Nat /\ firsts \in SUBSET (1..Len(sequence))
  BY SequenceFacts
<1>2. IsFiniteSet(1..Len(sequence))
  BY SequenceFacts, FS_Interval
<1>3. IsFiniteSet(firsts)
  BY <1>1, <1>2, FS_Subset
<1>4. Cardinality(firsts) \in Nat
  BY <1>3, FS_CardinalityType
<1>5. \A g \in firsts : NewRank(g) = Cardinality({h \in firsts : h <= g})
  BY DEF NewRank
<1>6. /\ \A x \in firsts : Cardinality({h \in firsts : h <= x}) \in 1..Cardinality(firsts)
      /\ \A x, y \in firsts : Cardinality({h \in firsts : h <= x}) = Cardinality({h \in firsts : h <= y}) => x = y
      /\ \A k \in 1..Cardinality(firsts) : \E x \in firsts : Cardinality({h \in firsts : h <= x}) = k
  BY <1>1, <1>3, NumberRank
<1> QED
  BY <1>3, <1>4, <1>5, <1>6

-----------------------------------------------------------------------------
(***************************************************************************)
(* The beginning and the end of a batch                                    *)
(***************************************************************************)

LEMMA InternInit == Init => InternInv
<1> SUFFICES ASSUME Init PROVE InternInv
  OBVIOUS
<1>1. Vacant \in SlotValue
  BY DEF Vacant, SlotValue
<1>2. InternTypeOK
  <2>1. batches \in Seq(Seq([position: Nat, names: Seq(Names)]))
    BY InternAssumption DEF Init
  <2>2. slots \in [Names -> SlotValue]
    BY <1>1 DEF Init
  <2>3. pending \in [Shards -> Seq(PendingName)]
    BY DEF Init
  <2> QED
    BY <2>1, <2>2, <2>3 DEF Init, InternTypeOK
<1>3. Kept
  BY DEF Init, Kept
<1>4. Direct
  BY DEF Init, Direct
<1>5. PassOne /\ Regions /\ Scattered /\ Marked /\ Numbered
  BY DEF Init, PassOne, Regions, Scattered, Marked, Numbered, Partitioning
<1> QED
  BY <1>2, <1>3, <1>4, <1>5 DEF InternInv

(* A call that returns with slots and names inverse and nothing            *)
(* provisional re-establishes the invariant.                               *)
LEMMA ReturnInv ==
  ASSUME InternTypeOK, phase # "idle", Return,
         names' \in Seq(Names), slots' \in [Names -> SlotValue],
         base' = Len(names'), cells' = Len(names'), ~overflowed',
         pending' \in [Shards -> Seq(PendingName)],
         \A s \in Shards : pending'[s] = <<>> /\ assigned'[s] = <<>>,
         \A n \in Names : \A k \in DOMAIN names' : slots'[n] = Final(k) <=> names'[k] = n,
         \A n \in Names : slots'[n] = Vacant \/ \E k \in DOMAIN names' : slots'[n] = Final(k)
  PROVE  InternInv'
<1>1. phase' = "idle"
  BY DEF Return
<1>2. batches' \in Seq(Seq([position: Nat, names: Seq(Names)]))
  BY DEF Return, InternTypeOK
<1>3. base' \in Nat /\ base' <= Len(names') /\ firsts' \subseteq DOMAIN sequence' /\ firsts' = {}
  BY DEF Return
<1>4. InternTypeOK'
  BY <1>1, <1>2, <1>3 DEF InternTypeOK, Return
<1>5. DOMAIN names' = 1..base'
  OBVIOUS
<1>6. Kept'
  BY <1>1, <1>5 DEF Kept
<1>7. Direct'
  BY <1>1 DEF Direct
<1>8. PassOne' /\ Regions' /\ Scattered' /\ Marked' /\ Numbered'
  BY <1>1 DEF PassOne, Regions, Scattered, Marked, Numbered, Partitioning
<1> QED
  BY <1>4, <1>6, <1>7, <1>8 DEF InternInv

(* The paths that work in order or find all names known. *)
LEMMA QuietReturns ==
  ASSUME InternInv, InOrderEnd \/ AllFound \/ RewriteEnd
  PROVE  InternInv'
<1>1. phase \in {"in_order", "find", "rewrite"} /\ Return /\ Succeed /\ UNCHANGED <<names, slots, pending, overflowed>>
  BY DEF InOrderEnd, AllFound, RewriteEnd, Succeed, tableVars, passVars
<1>2. base' = Len(names')
  BY <1>1 DEF Succeed
<1>3. Len(names) \in Nat /\ base \in Nat
  BY DEF InternInv, InternTypeOK
<1>4. cells' = Len(names')
  <2>1. CASE InOrderEnd
    <3>1. cells' = base + (Len(names) - base)
      BY <2>1 DEF InOrderEnd, InternInv, Kept
    <3> QED
      BY <1>1, <1>3, <3>1
  <2>2. CASE AllFound
    BY <1>1, <2>2 DEF AllFound, tableVars, InternInv, Kept
  <2>3. CASE RewriteEnd
    BY <1>1, <2>3 DEF RewriteEnd, tableVars, InternInv, Kept
  <2> QED
    BY <2>1, <2>2, <2>3
<1>5. \A s \in Shards : pending'[s] = <<>> /\ assigned'[s] = <<>>
  <2>1. \A s \in Shards : pending'[s] = <<>>
    BY <1>1 DEF InternInv, Kept
  <2>2. \A s \in Shards : assigned'[s] = <<>>
    BY <1>1 DEF InternInv, Kept, InOrderEnd, AllFound, RewriteEnd, passVars
  <2> QED
    BY <2>1, <2>2
<1>6. ~overflowed'
  BY <1>1 DEF InternInv, Kept
<1>7. /\ \A n \in Names : \A k \in DOMAIN names' : slots'[n] = Final(k) <=> names'[k] = n
      /\ \A n \in Names : slots'[n] = Vacant \/ \E k \in DOMAIN names' : slots'[n] = Final(k)
  BY <1>1 DEF InternInv, Direct
<1>8. InternTypeOK /\ phase # "idle"
  BY <1>1 DEF InternInv
<1>9. /\ names' \in Seq(Names) /\ slots' \in [Names -> SlotValue]
      /\ pending' \in [Shards -> Seq(PendingName)]
  BY <1>1 DEF InternInv, InternTypeOK
<1> QED
  BY <1>1, <1>2, <1>4, <1>5, <1>6, <1>7, <1>8, <1>9, ReturnInv

(* What a batch that begins, or goes from looking up to interning in       *)
(* order, leaves of the invariant.                                         *)
LEMMA QuietBegins ==
  ASSUME InternInv, BeginInOrder \/ BeginLookUp \/ BeginPasses \/ MissingInOrder
  PROVE  InternInv'
<1>1. /\ phase \in {"idle", "find"} /\ phase' \in {"in_order", "find", "look_up"}
      /\ UNCHANGED <<batches, base, names, cells, slots, pending, assigned, overflowed, firsts>>
  BY DEF BeginInOrder, BeginLookUp, BeginPasses, MissingInOrder, Begin, tableVars, passVars, partitionVars
<1>2. InternTypeOK /\ Kept /\ Direct
  BY DEF InternInv
<1>3. batches # <<>> /\ (phase' \in {"in_order", "find"} => DistinctPositions)
  <2>1. CASE MissingInOrder
    BY <1>2, <2>1 DEF MissingInOrder, InternTypeOK
  <2>2. CASE ~MissingInOrder
    BY <2>2 DEF BeginInOrder, BeginLookUp, BeginPasses, Begin
  <2> QED
    BY <2>1, <2>2
<1>4. Places' = Places /\ (DistinctPositions' <=> DistinctPositions)
  BY <1>1 DEF Places, Jobs, DistinctPositions
<1>5. work' \subseteq Places
  <2>1. CASE phase = "idle"
    BY <2>1, <1>2 DEF InternTypeOK, BeginInOrder, BeginLookUp, BeginPasses, MissingInOrder
  <2>2. CASE phase = "find"
    BY <2>2, <1>2 DEF InternTypeOK, BeginInOrder, BeginLookUp, BeginPasses, MissingInOrder, Begin
  <2> QED
    BY <1>1, <2>1, <2>2
<1>6. sequence' \in Seq(Places)
  <2>1. CASE phase' = "in_order"
    <3>1. sequence' = InOrder(Places) \/ sequence' = InOrder(Missing)
      BY <2>1 DEF BeginInOrder, BeginLookUp, BeginPasses, MissingInOrder
    <3>2. Missing \in SUBSET Places /\ Places \in SUBSET Places
      BY DEF Missing
    <3>3. batches \in Seq(Seq([position: Nat, names: Seq(Names)]))
      BY <1>2 DEF InternTypeOK
    <3> QED
      BY <1>3, <2>1, <3>1, <3>2, <3>3, InOrderIsSeq
  <2>2. CASE phase' # "in_order"
    <3>1. sequence' = sequence /\ phase = "idle"
      BY <2>2 DEF BeginInOrder, BeginLookUp, BeginPasses, MissingInOrder, Begin
    <3> QED
      BY <1>2, <3>1 DEF InternTypeOK
  <2> QED
    BY <2>1, <2>2
<1>7. firsts' = {}
  BY <1>1, <1>2 DEF InternTypeOK
<1>8. InternTypeOK'
  BY <1>1, <1>2, <1>3, <1>4, <1>5, <1>6, <1>7 DEF InternTypeOK
<1>9. Kept'
  BY <1>1, <1>2 DEF Kept
<1>10. Direct'
  BY <1>1, <1>2 DEF Direct
<1>11. PassOne'
  <2>1. /\ \A n \in Names : slots[n] = Vacant \/ KnownSlot(n)
        /\ \A s \in Shards : DOMAIN pending[s] = {}
    <3>1. DOMAIN names = 1..base
      BY <1>1, <1>2 DEF Kept, InternTypeOK
    <3>2. \A s \in Shards : pending[s] = <<>>
      BY <1>1, <1>2 DEF Kept
    <3> QED
      BY <1>1, <1>2, <3>1, <3>2 DEF Direct, KnownSlot
  <2>2. \A n \in Names : KnownSlot(n)' <=> KnownSlot(n)
    BY <1>1 DEF KnownSlot
  <2> QED
    BY <1>1, <2>1, <2>2 DEF PassOne
<1>12. Regions' /\ Scattered' /\ Marked' /\ Numbered'
  BY <1>1 DEF Regions, Scattered, Marked, Numbered, Partitioning
<1> QED
  BY <1>8, <1>9, <1>10, <1>11, <1>12 DEF InternInv

(* Steps that only hand out IDs. *)
LEMMA QuietSteps ==
  ASSUME InternInv, NEW p, Find(p) \/ Rewrite(p)
  PROVE  InternInv'
<1>1. /\ phase \in {"find", "rewrite"} /\ work' \subseteq work
      /\ UNCHANGED <<batches, phase, base, names, cells, slots, pending, assigned, overflowed, sequence, firsts>>
  BY DEF Find, Rewrite, tableVars, passVars, partitionVars
<1>2. InternTypeOK /\ Kept /\ Direct
  BY DEF InternInv
<1>3. Places' = Places /\ (DistinctPositions' <=> DistinctPositions)
  BY <1>1 DEF Places, Jobs, DistinctPositions
<1>4. InternTypeOK'
  BY <1>1, <1>2, <1>3 DEF InternTypeOK
<1>5. Kept' /\ Direct'
  BY <1>1, <1>2 DEF Kept, Direct
<1>6. PassOne' /\ Regions' /\ Scattered' /\ Marked' /\ Numbered'
  BY <1>1 DEF PassOne, Regions, Scattered, Marked, Numbered, Partitioning
<1> QED
  BY <1>4, <1>5, <1>6 DEF InternInv

-----------------------------------------------------------------------------
(***************************************************************************)
(* In order                                                                *)
(***************************************************************************)

(* A new name appended, and its slot set to the last ID. *)
LEMMA AppendName ==
  ASSUME names \in Seq(Names), slots \in [Names -> SlotValue], NEW n \in Names, slots[n] = Vacant,
         \A m \in Names : \A k \in DOMAIN names : slots[m] = Final(k) <=> names[k] = m,
         \A m \in Names : slots[m] = Vacant \/ \E k \in DOMAIN names : slots[m] = Final(k),
         names' = Append(names, n), slots' = [slots EXCEPT ![n] = Final(Len(names) + 1)]
  PROVE  /\ names' \in Seq(Names) /\ slots' \in [Names -> SlotValue] /\ Len(names') = Len(names) + 1
         /\ \A m \in Names : \A k \in DOMAIN names' : slots'[m] = Final(k) <=> names'[k] = m
         /\ \A m \in Names : slots'[m] = Vacant \/ \E k \in DOMAIN names' : slots'[m] = Final(k)
<1>1. /\ names' \in Seq(Names) /\ Len(names') = Len(names) + 1 /\ names'[Len(names) + 1] = n
      /\ \A k \in 1..Len(names) : names'[k] = names[k]
  BY AppendProperties
<1>2. /\ DOMAIN names = 1..Len(names) /\ DOMAIN names' = 1..(Len(names) + 1) /\ Len(names) \in Nat
  BY <1>1
<1>3. Final(Len(names) + 1) \in SlotValue /\ \A j, k : Final(j) = Final(k) => j = k
  BY <1>2 DEF Final, SlotValue
<1>4. \A k : Final(k) # Vacant
  BY DEF Final, Vacant
<1>5. slots' \in [Names -> SlotValue] /\ slots'[n] = Final(Len(names) + 1) /\ \A m \in Names : m # n => slots'[m] = slots[m]
  BY <1>3
<1>6. ASSUME NEW m \in Names, NEW k \in DOMAIN names' PROVE slots'[m] = Final(k) <=> names'[k] = m
  <2>1. CASE k = Len(names) + 1
    <3>1. \A j \in DOMAIN names : j # k
      BY <1>2, <2>1
    <3>2. m # n => slots[m] # Final(k)
      BY <1>3, <1>4, <3>1
    <3> QED
      BY <1>1, <1>5, <2>1, <3>2
  <2>2. CASE k # Len(names) + 1
    <3>1. k \in DOMAIN names /\ names'[k] = names[k]
      BY <1>1, <1>2, <2>2
    <3>2. names[k] # n
      BY <1>4, <3>1
    <3> QED
      BY <1>3, <1>5, <2>2, <3>1, <3>2
  <2> QED
    BY <2>1, <2>2
<1>7. ASSUME NEW m \in Names PROVE slots'[m] = Vacant \/ \E k \in DOMAIN names' : slots'[m] = Final(k)
  <2>1. CASE m = n
    <3>1. Len(names) + 1 \in DOMAIN names'
      BY <1>2
    <3> QED
      BY <1>5, <2>1, <3>1
  <2>2. CASE m # n
    <3>1. DOMAIN names \subseteq DOMAIN names'
      BY <1>2
    <3> QED
      BY <1>5, <2>2, <3>1
  <2> QED
    BY <2>1, <2>2
<1> QED
  BY <1>1, <1>5, <1>6, <1>7

LEMMA InternNameInv ==
  ASSUME InternInv, InternName
  PROVE  InternInv'
<1>1. /\ phase = "in_order" /\ sequence # <<>> /\ sequence' = Tail(sequence)
      /\ UNCHANGED <<batches, phase, base, cells, pending, assigned, overflowed, work, firsts>>
  BY DEF InternName, passVars, partitionVars
<1>2. InternTypeOK /\ Kept /\ Direct
  BY DEF InternInv
<1>3. Places' = Places
  BY <1>1 DEF Places, Jobs
<1>4. sequence \in Seq(Places) /\ batches # <<>> /\ firsts = {}
  BY <1>1, <1>2 DEF InternTypeOK
<1>5. Head(sequence) \in Places /\ Tail(sequence) \in Seq(Places)
  BY <1>1, <1>4
<1> DEFINE n == NameAt(Head(sequence))
<1>6. n \in Names
  BY <1>2, <1>4, <1>5, PlacesFacts DEF InternTypeOK
<1>7. /\ names' \in Seq(Names) /\ slots' \in [Names -> SlotValue]
      /\ base <= Len(names')
      /\ \A m \in Names : \A k \in DOMAIN names' : slots'[m] = Final(k) <=> names'[k] = m
      /\ \A m \in Names : slots'[m] = Vacant \/ \E k \in DOMAIN names' : slots'[m] = Final(k)
  <2>1. CASE UNCHANGED <<names, slots>>
    BY <1>1, <1>2, <2>1 DEF InternTypeOK, Direct
  <2>2. CASE /\ slots[n] = Vacant
             /\ slots' = [slots EXCEPT ![n] = Final(Len(names) + 1)]
             /\ names' = Append(names, n)
    <3>1. /\ names \in Seq(Names) /\ slots \in [Names -> SlotValue] /\ base \in Nat /\ base <= Len(names)
          /\ \A m \in Names : \A k \in DOMAIN names : slots[m] = Final(k) <=> names[k] = m
          /\ \A m \in Names : slots[m] = Vacant \/ \E k \in DOMAIN names : slots[m] = Final(k)
      BY <1>1, <1>2 DEF InternTypeOK, Direct
    <3> HIDE DEF n
    <3>2. /\ names' \in Seq(Names) /\ slots' \in [Names -> SlotValue] /\ Len(names') = Len(names) + 1
          /\ \A m \in Names : \A k \in DOMAIN names' : slots'[m] = Final(k) <=> names'[k] = m
          /\ \A m \in Names : slots'[m] = Vacant \/ \E k \in DOMAIN names' : slots'[m] = Final(k)
      BY <1>6, <2>2, <3>1, AppendName
    <3>3. base <= Len(names')
      BY <3>1, <3>2
    <3> QED
      BY <3>2, <3>3
  <2> QED
    BY <2>1, <2>2 DEF InternName
<1>8. InternTypeOK'
  BY <1>1, <1>2, <1>3, <1>4, <1>5, <1>7 DEF InternTypeOK
<1>9. 1..base \subseteq DOMAIN names'
  BY <1>2, <1>7 DEF InternTypeOK
<1>10. Kept'
  BY <1>1, <1>2, <1>7, <1>9 DEF Kept
<1>11. Direct'
  BY <1>7 DEF Direct
<1>12. PassOne' /\ Regions' /\ Scattered' /\ Marked' /\ Numbered'
  BY <1>1 DEF PassOne, Regions, Scattered, Marked, Numbered, Partitioning
<1> QED
  BY <1>8, <1>10, <1>11, <1>12 DEF InternInv

LEMMA ForgetNamesInv ==
  ASSUME InternInv, ForgetNames
  PROVE  InternInv'
<1>1. /\ phase = "in_order" /\ Return /\ base' = base /\ cells' = cells
      /\ UNCHANGED <<pending, assigned, overflowed>>
      /\ slots' = [n \in Names |-> IF slots[n].at > base THEN Vacant ELSE slots[n]]
      /\ names' = SubSeq(names, 1, base)
  BY DEF ForgetNames, Fail, passVars
<1>2. InternTypeOK /\ Kept /\ Direct
  BY DEF InternInv
<1>3. names \in Seq(Names) /\ base \in Nat /\ base <= Len(names) /\ slots \in [Names -> SlotValue]
  BY <1>2 DEF InternTypeOK
<1>4. names' \in Seq(Names) /\ Len(names') = base /\ \A k \in 1..base : names'[k] = names[k]
  <2>1. SubSeq(names, 1, base) \in Seq(Names)
    BY <1>3
  <2>2. Len(SubSeq(names, 1, base)) = base
    BY <1>3
  <2>3. \A k \in 1..base : SubSeq(names, 1, base)[k] = names[k]
    BY <1>3
  <2> QED
    BY <1>1, <2>1, <2>2, <2>3
<1>5. Vacant \in SlotValue
  BY DEF Vacant, SlotValue
<1>6. slots' \in [Names -> SlotValue]
  BY <1>1, <1>3, <1>5
<1>7. DOMAIN names' = 1..base /\ 1..base \subseteq DOMAIN names /\ DOMAIN names \subseteq Nat
  BY <1>3, <1>4
<1>8. \A k : Final(k).at = k /\ Final(k) # Vacant
  BY DEF Final, Vacant
<1>9. ASSUME NEW n \in Names, NEW k \in 1..base PROVE slots'[n] = Final(k) <=> names'[k] = n
  <2>1. slots[n] = Final(k) <=> names'[k] = n
    BY <1>2, <1>4 DEF Kept
  <2>2. k \in Nat /\ ~(k > base)
    BY <1>3
  <2>3. CASE slots[n].at > base
    BY <1>1, <1>8, <2>1, <2>2, <2>3
  <2>4. CASE ~(slots[n].at > base)
    BY <1>1, <2>1, <2>4
  <2> QED
    BY <2>3, <2>4
<1>10. ASSUME NEW n \in Names PROVE slots'[n] = Vacant \/ \E k \in 1..base : slots'[n] = Final(k)
  <2>1. CASE slots[n] = Vacant
    BY <1>1, <2>1
  <2>2. CASE slots[n] # Vacant
    <3>1. PICK k \in DOMAIN names : slots[n] = Final(k)
      BY <1>1, <1>2, <2>2 DEF Direct
    <3>2. k \in Nat /\ k >= 1
      BY <1>3
    <3>3. CASE k > base
      BY <1>1, <1>8, <3>1, <3>3
    <3>4. CASE ~(k > base)
      <4>1. k \in 1..base
        BY <1>3, <3>2, <3>4
      <4> QED
        BY <1>1, <1>8, <3>1, <3>4, <4>1
    <3> QED
      BY <3>3, <3>4
  <2> QED
    BY <2>1, <2>2
<1>11. /\ base' = Len(names') /\ cells' = Len(names') /\ ~overflowed'
       /\ \A s \in Shards : pending'[s] = <<>> /\ assigned'[s] = <<>>
  BY <1>1, <1>2, <1>4 DEF Kept
<1>12. pending' \in [Shards -> Seq(PendingName)] /\ phase # "idle"
  BY <1>1, <1>2 DEF InternTypeOK
<1> QED
  BY <1>1, <1>2, <1>4, <1>6, <1>7, <1>9, <1>10, <1>11, <1>12, ReturnInv

-----------------------------------------------------------------------------
(***************************************************************************)
(* The three passes                                                        *)
(***************************************************************************)

LEMMA LookupOrPendInv ==
  ASSUME InternInv, NEW p \in work, LookupOrPend(p)
  PROVE  InternInv'
<1>1. /\ phase = "look_up" /\ work' \subseteq work
      /\ UNCHANGED <<batches, phase, base, names, cells, assigned, sequence, firsts>>
  BY DEF LookupOrPend, partitionVars
<1>2. InternTypeOK /\ Kept /\ PassOne
  BY DEF InternInv
<1>3. Places' = Places
  BY <1>1 DEF Places, Jobs
<1>4. p \in Places
  BY <1>1, <1>2 DEF InternTypeOK
<1> DEFINE n == NameAt(p)
           s == ShardOf[n]
           len == Len(pending[s])
<1>5. n \in Names /\ s \in Shards /\ Occurrence(p) \in Nat \X Nat
  BY <1>1, <1>2, <1>4, PlacesFacts, InternAssumption DEF InternTypeOK, Occurrence
<1>6. /\ slots \in [Names -> SlotValue]
      /\ pending \in [Shards -> Seq(PendingName)]
      /\ pending[s] \in Seq(PendingName) /\ len \in Nat
      /\ DOMAIN pending[s] = 1..len
      /\ \A t \in Shards : \A l \in DOMAIN pending[t] : pending[t][l] \in PendingName
  <2>1. slots \in [Names -> SlotValue] /\ pending \in [Shards -> Seq(PendingName)]
    BY <1>2 DEF InternTypeOK
  <2>2. \A t \in Shards : pending[t] \in Seq(PendingName)
    BY <2>1
  <2>3. \A t \in Shards : \A l \in DOMAIN pending[t] : pending[t][l] \in PendingName
    BY <2>2
  <2> HIDE DEF s
  <2> QED
    BY <1>5, <2>1, <2>2, <2>3
<1>7. \A j, k : /\ Final(k) # Vacant /\ Final(k) # Pending(j) /\ Pending(j) # Vacant
                /\ (Pending(j) = Pending(k) => j = k)
                /\ Final(k).tag = "id" /\ Pending(k).tag = "pending" /\ Pending(k).at = k
  BY DEF Final, Pending, Vacant
<1>71. Vacant.tag = "vacant"
  BY DEF Vacant
<1>8. /\ slots' \in [Names -> SlotValue]
      /\ pending' \in [Shards -> Seq(PendingName)]
      /\ PassOne'
      /\ \A m \in Names : \A k \in 1..base : slots'[m] = Final(k) <=> slots[m] = Final(k)
  <2>1. CASE UNCHANGED <<slots, pending>>
    <3>1. \A m \in Names : KnownSlot(m)' <=> KnownSlot(m)
      BY <1>1, <2>1 DEF KnownSlot
    <3> QED
      BY <1>1, <1>2, <1>6, <2>1, <3>1 DEF PassOne
  <2>2. CASE /\ slots[n].tag = "pending" /\ slots' = slots
             /\ pending' = [pending EXCEPT ![s][slots[n].at].first = Occurrence(p)]
    <3>1. PICK l \in DOMAIN pending[s] : slots[n] = Pending(l) /\ pending[s][l].name = n
      <4>1. slots[n] # Vacant
        BY <1>71, <2>2
      <4>2. ~KnownSlot(n)
        BY <1>7, <2>2 DEF KnownSlot
      <4> QED
        BY <1>1, <1>2, <1>5, <4>1, <4>2 DEF PassOne
    <3>2. slots[n].at = l
      BY <1>7, <3>1
    <3> DEFINE rec == [pending[s][l] EXCEPT !.first = Occurrence(p)]
    <3>3. pending[s][l] \in PendingName
      BY <1>6
    <3>4. rec \in PendingName /\ rec.name = pending[s][l].name
      BY <1>5, <3>3 DEF PendingName
    <3>5. pending' = [pending EXCEPT ![s] = [pending[s] EXCEPT ![l] = rec]]
      BY <2>2, <3>2
    <3> HIDE DEF rec, n, s
    <3>6. /\ [pending[s] EXCEPT ![l] = rec] \in Seq(PendingName)
          /\ DOMAIN [pending[s] EXCEPT ![l] = rec] = DOMAIN pending[s]
          /\ \A k \in DOMAIN pending[s] : [pending[s] EXCEPT ![l] = rec][k].name = pending[s][k].name
      BY <1>6, <3>4
    <3>7. pending' \in [Shards -> Seq(PendingName)]
      BY <1>5, <1>6, <3>5, <3>6
    <3>8. \A t \in Shards : /\ DOMAIN pending'[t] = DOMAIN pending[t]
                            /\ \A k \in DOMAIN pending[t] : pending'[t][k].name = pending[t][k].name
      BY <1>5, <1>6, <3>5, <3>6
    <3>9. \A m \in Names : (KnownSlot(m)' <=> KnownSlot(m)) /\ ShardOf[m] \in Shards
      BY <1>1, <2>2, InternAssumption DEF KnownSlot
    <3>10. PassOne'
      BY <1>1, <1>2, <2>2, <3>8, <3>9 DEF PassOne
    <3> QED
      BY <1>6, <2>2, <3>7, <3>10
  <2>3. CASE /\ slots[n] = Vacant
             /\ slots' = [slots EXCEPT ![n] = Pending(len + 1)]
             /\ pending' = [pending EXCEPT ![s] = Append(pending[s], [name |-> n, first |-> Occurrence(p)])]
    <3> DEFINE rec == [name |-> n, first |-> Occurrence(p)]
               new == Append(pending[s], rec)
    <3>1. rec \in PendingName /\ rec.name = n
      BY <1>5 DEF PendingName
    <3>2. Pending(len + 1) \in SlotValue
      BY <1>6 DEF Pending, SlotValue
    <3>3. pending' = [pending EXCEPT ![s] = new]
      BY <2>3
    <3>4. ShardOf[n] = s /\ \A m \in Names : ShardOf[m] \in Shards
      BY InternAssumption
    <3> HIDE DEF rec, n, s
    <3>5. /\ new \in Seq(PendingName) /\ DOMAIN new = 1..(len + 1)
          /\ new[len + 1].name = n /\ \A k \in 1..len : new[k] = pending[s][k]
      BY <1>6, <3>1
    <3> HIDE DEF new, len
    <3>6. /\ pending' \in [Shards -> Seq(PendingName)]
          /\ pending'[s] = new /\ \A t \in Shards : t # s => pending'[t] = pending[t]
      BY <1>5, <1>6, <3>3, <3>5
    <3>7. /\ slots' \in [Names -> SlotValue] /\ slots'[n] = Pending(len + 1)
          /\ \A m \in Names : m # n => slots'[m] = slots[m]
      BY <1>5, <1>6, <2>3, <3>2
    <3>8. \A m \in Names : \A k : slots'[m] = Final(k) <=> slots[m] = Final(k)
      BY <1>7, <2>3, <3>7
    <3>9. \A m \in Names : KnownSlot(m)' <=> KnownSlot(m)
      BY <1>1, <3>8 DEF KnownSlot
    <3>10. ASSUME NEW m \in Names
           PROVE  \/ slots'[m] = Vacant
                  \/ KnownSlot(m)'
                  \/ \E l \in DOMAIN pending'[ShardOf[m]] :
                       slots'[m] = Pending(l) /\ pending'[ShardOf[m]][l].name = m
      <4>1. CASE m = n
        <5>1. len + 1 \in DOMAIN pending'[s]
          BY <1>6, <3>5, <3>6
        <5> QED
          BY <3>4, <3>5, <3>6, <3>7, <4>1, <5>1
      <4>2. CASE m # n
        <5>1. \A l \in DOMAIN pending[ShardOf[m]] :
                l \in DOMAIN pending'[ShardOf[m]] /\ pending'[ShardOf[m]][l] = pending[ShardOf[m]][l]
          <6>1. 1..len \subseteq 1..(len + 1)
            BY <1>6
          <6> QED
            BY <1>6, <3>4, <3>5, <3>6, <6>1
        <5> QED
          BY <1>1, <1>2, <3>7, <3>9, <4>2, <5>1 DEF PassOne
      <4> QED
        BY <4>1, <4>2
    <3>11. ASSUME NEW t \in Shards, NEW l \in DOMAIN pending'[t]
           PROVE  ShardOf[pending'[t][l].name] = t /\ slots'[pending'[t][l].name] = Pending(l)
      <4>1. CASE t = s /\ l = len + 1
        BY <3>4, <3>5, <3>6, <3>7, <4>1
      <4>2. CASE ~(t = s /\ l = len + 1)
        <5>1. l \in DOMAIN pending[t] /\ pending'[t][l] = pending[t][l]
          <6>1. CASE t = s
            <7>1. l \in 1..(len + 1) /\ l # len + 1 /\ pending'[t] = new
              BY <3>5, <3>6, <4>2, <6>1
            <7>2. l \in 1..len
              BY <1>6, <7>1
            <7> QED
              BY <1>6, <3>5, <6>1, <7>1, <7>2
          <6>2. CASE t # s
            BY <3>6, <6>2
          <6> QED
            BY <6>1, <6>2
        <5>2. ShardOf[pending[t][l].name] = t /\ slots[pending[t][l].name] = Pending(l)
          BY <1>1, <1>2, <5>1 DEF PassOne
        <5>3. pending[t][l].name # n /\ pending[t][l].name \in Names
          BY <1>6, <1>7, <2>3, <5>1, <5>2 DEF PendingName
        <5> QED
          BY <3>7, <5>1, <5>2, <5>3
      <4> QED
        BY <4>1, <4>2
    <3>12. PassOne'
      BY <3>10, <3>11 DEF PassOne
    <3> QED
      BY <3>6, <3>7, <3>8, <3>12
  <2> QED
    BY <2>1, <2>2, <2>3 DEF LookupOrPend
<1>9. InternTypeOK'
  BY <1>1, <1>2, <1>3, <1>8 DEF InternTypeOK
<1>10. Kept'
  BY <1>1, <1>2, <1>8 DEF Kept
<1>11. Direct' /\ Regions' /\ Scattered' /\ Marked' /\ Numbered'
  BY <1>1 DEF Direct, Regions, Scattered, Marked, Numbered, Partitioning
<1> QED
  BY <1>8, <1>9, <1>10, <1>11 DEF InternInv

(* Whatever is provisional is dropped: pass 1 or a partition is undone, or *)
(* every name was known.                                                   *)
LEMMA DropProvisionalInv ==
  ASSUME InternInv, phase \in {"look_up", "mark"}, Return,
         \A n \in Names : slots[n] = Vacant \/ KnownSlot(n) \/ slots[n].tag = "pending", UNCHANGED <<names, assigned, cells>>,
         base' = base, ~overflowed',
         pending' \in [Shards -> Seq(PendingName)], \A s \in Shards : pending'[s] = <<>>,
         slots' = DropProvisional
  PROVE  InternInv'
<1>1. InternTypeOK /\ Kept
  BY DEF InternInv
<1>2. names \in Seq(Names) /\ Len(names) = base /\ DOMAIN names = 1..base /\ slots \in [Names -> SlotValue]
  BY <1>1 DEF InternTypeOK, Kept
<1>3. \A j, k : Final(k) # Vacant /\ Final(k).tag = "id" /\ Pending(k).tag = "pending"
  BY DEF Final, Pending, Vacant
<1>4. Vacant \in SlotValue /\ Vacant.tag = "vacant"
  BY DEF Vacant, SlotValue
<1>5. ASSUME NEW n \in Names
      PROVE  /\ slots'[n] \in SlotValue
             /\ slots'[n] = IF slots[n].tag = "pending" THEN Vacant ELSE slots[n]
             /\ slots'[n] = Vacant \/ \E k \in 1..base : slots'[n] = Final(k)
             /\ \A k \in 1..base : slots'[n] = Final(k) <=> slots[n] = Final(k)
  <2>1. slots'[n] = IF slots[n].tag = "pending" THEN Vacant ELSE slots[n]
    BY DEF DropProvisional
  <2>2. slots[n].tag # "pending" => slots[n] = Vacant \/ \E k \in 1..base : slots[n] = Final(k)
    BY DEF KnownSlot
  <2>3. slots[n] \in SlotValue
    BY <1>2
  <2> QED
    BY <1>3, <1>4, <2>1, <2>2, <2>3
<1>6. slots' \in [Names -> SlotValue]
  <2>1. DOMAIN slots' = Names /\ slots' = [n \in Names |-> slots'[n]]
    BY DEF DropProvisional
  <2> QED
    BY <1>5, <2>1
<1>7. /\ \A n \in Names : \A k \in DOMAIN names' : slots'[n] = Final(k) <=> names'[k] = n
      /\ \A n \in Names : slots'[n] = Vacant \/ \E k \in DOMAIN names' : slots'[n] = Final(k)
  BY <1>1, <1>2, <1>5 DEF Kept
<1>8. /\ base' = Len(names') /\ cells' = Len(names') /\ names' \in Seq(Names) /\ ~overflowed'
      /\ \A s \in Shards : pending'[s] = <<>> /\ assigned'[s] = <<>>
  BY <1>1, <1>2 DEF Kept
<1> QED
  BY <1>1, <1>6, <1>7, <1>8, ReturnInv

LEMMA PassOneEnds ==
  ASSUME InternInv, AllKnown \/ DiscardPending
  PROVE  InternInv'
<1>1. /\ phase = "look_up" /\ Return /\ UNCHANGED <<names, assigned, cells>> /\ overflowed' = FALSE
  BY DEF AllKnown, DiscardPending, PassOneDone, Succeed, Fail, tableVars
<1>2. InternTypeOK /\ Kept /\ PassOne
  BY DEF InternInv
<1>3. base' = base
  BY <1>1, <1>2 DEF AllKnown, DiscardPending, Succeed, Fail, Kept
<1>31. \A n \in Names : slots[n] = Vacant \/ KnownSlot(n) \/ slots[n].tag = "pending"
  <2>1. \A l : Pending(l).tag = "pending"
    BY DEF Pending
  <2> QED
    BY <1>1, <1>2, <2>1 DEF PassOne
<1>4. CASE DiscardPending
  <2>1. pending' \in [Shards -> Seq(PendingName)] /\ \A s \in Shards : pending'[s] = <<>>
    BY <1>4 DEF DiscardPending
  <2>2. slots' = DropProvisional
    BY <1>4 DEF DiscardPending
  <2> QED
    BY <1>1, <1>3, <1>31, <2>1, <2>2, DropProvisionalInv
<1>5. CASE AllKnown
  <2>1. pending' = pending /\ slots' = slots /\ PendingRecords = {}
    BY <1>5 DEF AllKnown, tableVars
  <2>2. \A s \in Shards : pending[s] \in Seq(PendingName)
    BY <1>2 DEF InternTypeOK
  <2>3. \A s \in Shards : DOMAIN pending[s] = {}
    <3> SUFFICES ASSUME NEW s \in Shards, NEW l \in DOMAIN pending[s] PROVE FALSE
      OBVIOUS
    <3>1. <<s, l>> \in PendingRecords
      BY DEF PendingRecords
    <3> QED
      BY <2>1, <3>1
  <2>4. \A s \in Shards : pending[s] = <<>>
    <3> SUFFICES ASSUME NEW s \in Shards PROVE pending[s] = <<>>
      OBVIOUS
    <3>1. pending[s] \in Seq(PendingName) /\ DOMAIN pending[s] = {}
      BY <2>2, <2>3
    <3>2. Len(pending[s]) \in Nat /\ DOMAIN pending[s] = 1..Len(pending[s])
      BY <2>2
    <3>3. 1 \notin 1..Len(pending[s])
      BY <3>1, <3>2
    <3>4. Len(pending[s]) = 0
      BY <3>2, <3>3
    <3> QED
      BY <3>1, <3>4
  <2>5. \A n \in Names : slots[n].tag # "pending"
    <3> SUFFICES ASSUME NEW n \in Names PROVE slots[n].tag # "pending"
      OBVIOUS
    <3>1. ShardOf[n] \in Shards
      BY InternAssumption
    <3>2. slots[n] = Vacant \/ KnownSlot(n)
      BY <1>1, <1>2, <2>3, <3>1 DEF PassOne
    <3> QED
      <4>1. CASE slots[n] = Vacant
        BY <4>1 DEF Vacant
      <4>2. CASE KnownSlot(n)
        <5>1. PICK k \in 1..base : slots[n] = Final(k)
          BY <4>2 DEF KnownSlot
        <5> QED
          BY <5>1 DEF Final
      <4> QED
        BY <3>2, <4>1, <4>2
  <2>6. slots' = DropProvisional
    <3>1. slots = [n \in Names |-> slots[n]]
      BY <1>2 DEF InternTypeOK
    <3> QED
      BY <2>1, <2>5, <3>1 DEF DropProvisional
  <2>7. pending' \in [Shards -> Seq(PendingName)]
    BY <1>2, <2>1 DEF InternTypeOK
  <2> QED
    BY <1>1, <1>3, <1>31, <2>1, <2>4, <2>6, <2>7, DropProvisionalInv
<1> QED
  BY <1>4, <1>5

(* The pending names are ranked by first occurrence and contents. *)
LEMMA PendingRanks ==
  ASSUME InternInv, phase = "look_up"
  PROVE  /\ IsFiniteSet(PendingRecords) /\ NewCount \in Nat
         /\ \A r \in PendingRecords : RankOf(r) \in 1..NewCount
         /\ \A r, q \in PendingRecords : RankOf(r) = RankOf(q) => r = q
         /\ \A k \in 1..NewCount : \E r \in PendingRecords : RankOf(r) = k
         /\ \A r, q \in PendingRecords : RankOf(r) < RankOf(q) => RecordBefore(r, q)
<1> DEFINE S == PendingRecords
           B == [r \in S |-> {q \in S : RecordBefore(q, r)}]
           Name(r) == pending[r[1]][r[2]].name
           First(r) == pending[r[1]][r[2]].first
<1>1. InternTypeOK /\ PassOne
  BY DEF InternInv
<1>2. \A s \in Shards : /\ pending[s] \in Seq(PendingName) /\ DOMAIN pending[s] = 1..Len(pending[s])
                        /\ Len(pending[s]) \in Nat
                        /\ \A l \in DOMAIN pending[s] : pending[s][l] \in PendingName
  <2>1. \A s \in Shards : pending[s] \in Seq(PendingName)
    BY <1>1 DEF InternTypeOK
  <2> QED
    BY <2>1
<1>3. ASSUME NEW r \in S
      PROVE  /\ r = <<r[1], r[2]>> /\ r[1] \in Shards /\ r[2] \in DOMAIN pending[r[1]]
             /\ Name(r) \in Nat /\ First(r)[1] \in Nat /\ First(r)[2] \in Nat
             /\ First(r) = <<First(r)[1], First(r)[2]>>
             /\ ShardOf[Name(r)] = r[1] /\ slots[Name(r)] = Pending(r[2])
  <2>1. r = <<r[1], r[2]>> /\ r[1] \in Shards /\ r[2] \in DOMAIN pending[r[1]]
    BY DEF PendingRecords
  <2>2. pending[r[1]][r[2]] \in PendingName
    BY <1>2, <2>1
  <2>3. Name(r) \in Names /\ First(r) \in Nat \X Nat
    BY <2>2 DEF PendingName
  <2>4. ShardOf[Name(r)] = r[1] /\ slots[Name(r)] = Pending(r[2])
    BY <1>1, <2>1 DEF PassOne
  <2>5. Name(r) \in Nat
    BY <2>3, InternAssumption DEF Names
  <2> QED
    BY <2>1, <2>3, <2>4, <2>5
<1>4. IsFiniteSet(S)
  <2> DEFINE b == [s \in Shards |-> Len(pending[s])]
  <2>1. \A s \in Shards : b[s] \in Nat
    BY <1>2
  <2>2. \A r \in S : \E s \in Shards : \E l \in 1..b[s] : r = <<s, l>>
    BY <1>2, <1>3
  <2>3. IsFiniteSet(Shards)
    BY InternAssumption, FS_Interval DEF Shards
  <2> HIDE DEF b, S
  <2> QED
    BY <2>1, <2>2, <2>3, PairsFinite
<1>5. NewCount = Cardinality(S) /\ NewCount \in Nat
  BY <1>4, FS_CardinalityType DEF NewCount
<1>6. \A r, q : RecordBefore(r, q) <=>
                  \/ First(r)[1] < First(q)[1]
                  \/ First(r)[1] = First(q)[1] /\ First(r)[2] < First(q)[2]
                  \/ First(r) = First(q) /\ Name(r) < Name(q)
  BY DEF RecordBefore, Less
<1>7. B \in [S -> SUBSET S] /\ \A r \in S : B[r] = {q \in S : RecordBefore(q, r)}
  OBVIOUS
<1>8. \A r \in S : RankOf(r) = Cardinality(B[r]) + 1
  BY DEF RankOf
<1>9. ASSUME NEW x \in S, NEW y \in S, x # y PROVE Name(x) # Name(y)
  <2> SUFFICES ASSUME Name(x) = Name(y) PROVE FALSE
    OBVIOUS
  <2>1. x[1] = y[1] /\ Pending(x[2]) = Pending(y[2])
    BY <1>3
  <2>2. x[2] = y[2]
    BY <2>1 DEF Pending
  <2> QED
    BY <1>3, <1>9, <2>1, <2>2
<1> HIDE DEF S, B, Name, First
<1>10. \A x \in S : x \notin B[x]
  BY <1>3, <1>6, <1>7
<1>11. ASSUME NEW x \in S, NEW y \in S, y \in B[x] PROVE B[y] \subseteq B[x]
  <2> SUFFICES ASSUME NEW z \in S, RecordBefore(z, y) PROVE RecordBefore(z, x)
    BY <1>7
  <2>1. RecordBefore(y, x)
    BY <1>7, <1>11
  <2> QED
    BY <1>3, <1>6, <2>1
<1>12. ASSUME NEW x \in S, NEW y \in S, x # y PROVE x \in B[y] \/ y \in B[x]
  <2>1. Name(x) # Name(y)
    BY <1>9, <1>12
  <2>2. RecordBefore(x, y) \/ RecordBefore(y, x)
    BY <1>3, <1>6, <2>1
  <2> QED
    BY <1>7, <2>2
<1>13. /\ \A x \in S : Cardinality(B[x]) + 1 \in 1..Cardinality(S)
       /\ \A x, y \in S : Cardinality(B[x]) = Cardinality(B[y]) => x = y
       /\ \A k \in 1..Cardinality(S) : \E x \in S : Cardinality(B[x]) + 1 = k
  BY <1>4, <1>7, <1>10, <1>11, <1>12, OrderRank
<1>14. \A x \in S : Cardinality(B[x]) \in Nat
  <2> SUFFICES ASSUME NEW x \in S PROVE Cardinality(B[x]) \in Nat
    OBVIOUS
  <2>1. IsFiniteSet(B[x])
    BY <1>4, <1>7, FS_Subset
  <2> QED
    BY <2>1, FS_CardinalityType
<1>15. \A x, y \in S : RankOf(x) = RankOf(y) => x = y
  BY <1>8, <1>13, <1>14
<1>16. /\ \A r \in S : RankOf(r) \in 1..NewCount
       /\ \A k \in 1..NewCount : \E r \in S : RankOf(r) = k
  BY <1>5, <1>8, <1>13
<1>17. ASSUME NEW r \in S, NEW q \in S, RankOf(r) < RankOf(q) PROVE RecordBefore(r, q)
  <2>1. Cardinality(B[r]) < Cardinality(B[q])
    BY <1>8, <1>14, <1>17
  <2>2. ASSUME q \in B[r] PROVE FALSE
    <3>1. B[q] \in SUBSET B[r] /\ IsFiniteSet(B[r])
      BY <1>4, <1>7, <1>11, <2>2, FS_Subset
    <3>2. Cardinality(B[q]) <= Cardinality(B[r])
      BY <3>1, FS_Subset
    <3> QED
      BY <1>14, <2>1, <3>2
  <2>3. r # q
    BY <1>14, <2>1
  <2> QED
    BY <1>7, <1>12, <2>2, <2>3
<1> QED
  BY <1>4, <1>5, <1>15, <1>16, <1>17 DEF S

(* Pass 2: the ranks become IDs in the slots and places in the table. *)
LEMMA AssignPendingInv ==
  ASSUME InternInv, AssignPending
  PROVE  InternInv'
<1> DEFINE Name(r) == pending[r[1]][r[2]].name
           new == [k \in 1..NewCount |->
                     LET r == CHOOSE q \in PendingRecords : RankOf(q) = k
                     IN pending[r[1]][r[2]].name]
<1>1. /\ phase = "look_up" /\ phase' = "rewrite" /\ work' = Places /\ ~PassOverflow
      /\ UNCHANGED <<batches, base, overflowed, sequence, firsts>>
      /\ names' = names \o new
      /\ cells' = cells + NewCount
      /\ pending' = [s \in Shards |-> <<>>]
      /\ slots' = [n \in Names |-> IF slots[n].tag = "pending"
                     THEN Final(assigned'[ShardOf[n]][slots[n].at]) ELSE slots[n]]
      /\ assigned' = [s \in Shards |-> [l \in DOMAIN pending[s] |-> base + RankOf(<<s, l>>)]]
  BY DEF AssignPending, PassOneDone, partitionVars
<1>2. InternTypeOK /\ Kept /\ PassOne
  BY DEF InternInv
<1>3. /\ names \in Seq(Names) /\ base \in Nat /\ Len(names) = base /\ slots \in [Names -> SlotValue]
      /\ DOMAIN names = 1..base
  BY <1>1, <1>2 DEF InternTypeOK, Kept
<1>4. ~overflowed
  BY <1>1 DEF PassOverflow
<1>5. Places' = Places
  BY <1>1 DEF Places, Jobs
<1>6. ASSUME NEW r \in PendingRecords
      PROVE  /\ r = <<r[1], r[2]>> /\ r[1] \in Shards /\ r[2] \in DOMAIN pending[r[1]]
             /\ Name(r) \in Names /\ ShardOf[Name(r)] = r[1] /\ slots[Name(r)] = Pending(r[2])
  <2>1. r = <<r[1], r[2]>> /\ r[1] \in Shards /\ r[2] \in DOMAIN pending[r[1]]
    BY DEF PendingRecords
  <2>2. pending[r[1]] \in Seq(PendingName)
    BY <1>2, <2>1 DEF InternTypeOK
  <2>3. pending[r[1]][r[2]] \in PendingName
    BY <2>1, <2>2
  <2>4. ShardOf[Name(r)] = r[1] /\ slots[Name(r)] = Pending(r[2])
    BY <1>1, <1>2, <2>1 DEF PassOne
  <2> QED
    BY <2>1, <2>3, <2>4 DEF PendingName
<1>7. ASSUME NEW k \in 1..NewCount, NEW r \in PendingRecords, RankOf(r) = k
      PROVE  new[k] = Name(r)
  <2>1. (CHOOSE q \in PendingRecords : RankOf(q) = k) = r
    BY <1>1, <1>7, PendingRanks
  <2> QED
    BY <2>1
<1> HIDE DEF new
<1>8. new \in Seq(Names) /\ Len(new) = NewCount /\ NewCount \in Nat
  <2>1. \A k \in 1..NewCount : new[k] \in Names
    BY <1>1, <1>6, <1>7, PendingRanks
  <2>2. new \in [1..NewCount -> Names]
    BY <2>1 DEF new
  <2>3. NewCount \in Nat
    BY <1>1, PendingRanks
  <2> QED
    BY <2>2, <2>3, FunctionIsSeq
<1>9. /\ names' \in Seq(Names) /\ Len(names') = base + NewCount
      /\ \A k \in 1..base : names'[k] = names[k]
      /\ \A k \in 1..NewCount : base + k \in DOMAIN names' /\ names'[base + k] = new[k]
  <2>1. /\ names' \in Seq(Names) /\ Len(names') = base + NewCount
        /\ \A i \in 1..(base + NewCount) : names'[i] = IF i <= base THEN names[i] ELSE new[i - base]
    BY <1>1, <1>3, <1>8, ConcatProperties
  <2>2. \A k \in 1..base : k \in 1..(base + NewCount) /\ k <= base
    BY <1>3, <1>8
  <2>3. \A k \in 1..NewCount : base + k \in 1..(base + NewCount) /\ ~(base + k <= base) /\ (base + k) - base = k
    BY <1>3, <1>8
  <2>4. DOMAIN names' = 1..(base + NewCount)
    BY <2>1
  <2> QED
    BY <2>1, <2>2, <2>3, <2>4
<1>10. \A j, k : /\ Final(k) # Vacant /\ Final(k) # Pending(j) /\ (Final(j) = Final(k) => j = k)
                 /\ Final(k).tag = "id" /\ Pending(k).tag = "pending" /\ Pending(k).at = k
  BY DEF Final, Pending, Vacant
<1>11. Vacant.tag = "vacant"
  BY DEF Vacant
<1>12. ASSUME NEW r \in PendingRecords
       PROVE  /\ slots'[Name(r)] = Final(base + RankOf(r)) /\ RankOf(r) \in 1..NewCount
              /\ names'[base + RankOf(r)] = Name(r)
  <2>1. Name(r) \in Names /\ ShardOf[Name(r)] = r[1] /\ slots[Name(r)] = Pending(r[2]) /\ r = <<r[1], r[2]>>
    BY <1>6
  <2> HIDE DEF Name
  <2>2. slots'[Name(r)] = Final(assigned'[r[1]][r[2]])
    BY <1>1, <1>10, <2>1
  <2>3. assigned'[r[1]][r[2]] = base + RankOf(<<r[1], r[2]>>)
    BY <1>1, <1>6
  <2>4. slots'[Name(r)] = Final(base + RankOf(r))
    BY <2>1, <2>2, <2>3
  <2>5. RankOf(r) \in 1..NewCount
    BY <1>1, PendingRanks
  <2>6. names'[base + RankOf(r)] = new[RankOf(r)]
    BY <1>9, <2>5
  <2>7. new[RankOf(r)] = Name(r)
    BY <1>7, <2>5
  <2> QED
    BY <2>4, <2>5, <2>6, <2>7
<1>13. ASSUME NEW n \in Names
       PROVE  \/ slots[n] = Vacant /\ slots'[n] = Vacant
              \/ \E k \in 1..base : slots[n] = Final(k) /\ slots'[n] = Final(k)
              \/ \E r \in PendingRecords : Name(r) = n /\ slots'[n] = Final(base + RankOf(r))
  <2>1. CASE slots[n] = Vacant
    BY <1>1, <1>11, <2>1
  <2>2. CASE KnownSlot(n)
    BY <1>1, <1>10, <2>2 DEF KnownSlot
  <2>3. CASE \E l \in DOMAIN pending[ShardOf[n]] : slots[n] = Pending(l) /\ pending[ShardOf[n]][l].name = n
    <3>1. PICK l \in DOMAIN pending[ShardOf[n]] : pending[ShardOf[n]][l].name = n
      BY <2>3
    <3> DEFINE r == <<ShardOf[n], l>>
    <3>2. ShardOf[n] \in Shards
      BY InternAssumption
    <3>3. r \in PendingRecords
      BY <3>2 DEF PendingRecords
    <3>4. Name(r) = n
      BY <3>1
    <3> HIDE DEF r, Name
    <3> QED
      BY <1>12, <3>3, <3>4
  <2> QED
    BY <1>1, <1>2, <2>1, <2>2, <2>3 DEF PassOne
<1> HIDE DEF Name
<1>14. \A n \in Names : slots'[n] \in SlotValue
  <2> SUFFICES ASSUME NEW n \in Names PROVE slots'[n] \in SlotValue
    OBVIOUS
  <2>1. \A k \in Nat : Final(k) \in SlotValue
    BY DEF Final, SlotValue
  <2>2. Vacant \in SlotValue
    BY DEF Vacant, SlotValue
  <2>3. \A k \in 1..base : k \in Nat
    BY <1>3
  <2>4. \A r \in PendingRecords : base + RankOf(r) \in Nat
    BY <1>3, <1>8, <1>12
  <2> QED
    BY <1>13, <2>1, <2>2, <2>3, <2>4
<1>15. slots' \in [Names -> SlotValue]
  BY <1>1, <1>14
<1>16. DOMAIN names' = 1..(base + NewCount) /\ Len(names') \in Nat
  BY <1>3, <1>8, <1>9
<1>17. ASSUME NEW n \in Names, NEW k \in DOMAIN names' PROVE slots'[n] = Final(k) <=> names'[k] = n
  <2>1. CASE k \in 1..base
    <3>1. slots[n] = Final(k) <=> names'[k] = n
      BY <1>2, <1>9, <2>1 DEF Kept
    <3>2. slots'[n] = Final(k) <=> slots[n] = Final(k)
      <4>1. ASSUME NEW r \in PendingRecords PROVE base + RankOf(r) # k
        BY <1>3, <1>8, <1>12, <2>1
      <4>2. ASSUME NEW r \in PendingRecords, Name(r) = n PROVE slots[n] # Final(k)
        BY <1>6, <1>10, <4>2 DEF Name
      <4> QED
        BY <1>10, <1>13, <4>1, <4>2
    <3> QED
      BY <3>1, <3>2
  <2>2. CASE k \notin 1..base
    <3>1. k - base \in 1..NewCount /\ base + (k - base) = k
      BY <1>3, <1>8, <1>16, <2>2
    <3>2. PICK r \in PendingRecords : RankOf(r) = k - base
      BY <1>1, <3>1, PendingRanks
    <3>3. names'[k] = Name(r) /\ slots'[Name(r)] = Final(k)
      BY <1>12, <3>1, <3>2
    <3>4. ASSUME slots'[n] = Final(k) PROVE n = Name(r)
      <4>1. PICK q \in PendingRecords : Name(q) = n /\ slots'[n] = Final(base + RankOf(q))
        BY <1>10, <1>13, <2>2, <3>4
      <4>2. base + RankOf(q) = k
        BY <1>10, <3>4, <4>1
      <4>3. RankOf(q) \in 1..NewCount
        BY <1>12
      <4>4. RankOf(q) = k - base
        BY <1>3, <1>8, <3>1, <4>2, <4>3
      <4>5. q = r
        BY <1>1, <3>2, <4>4, PendingRanks
      <4> QED
        BY <4>1, <4>5
    <3> QED
      BY <3>3, <3>4
  <2> QED
    BY <2>1, <2>2
<1>18. ASSUME NEW n \in Names PROVE slots'[n] = Vacant \/ \E k \in DOMAIN names' : slots'[n] = Final(k)
  <2>1. \A k \in 1..base : k \in DOMAIN names'
    BY <1>3, <1>8, <1>16
  <2>2. \A r \in PendingRecords : base + RankOf(r) \in DOMAIN names'
    BY <1>9, <1>12
  <2> QED
    BY <1>13, <2>1, <2>2
<1>19. Direct'
  BY <1>17, <1>18 DEF Direct
<1>20. pending' \in [Shards -> Seq(PendingName)] /\ \A s \in Shards : pending'[s] = <<>>
  BY <1>1
<1>21. base' <= Len(names') /\ base' \in Nat
  BY <1>1, <1>3, <1>8, <1>9
<1>22. InternTypeOK'
  BY <1>1, <1>2, <1>5, <1>9, <1>15, <1>20, <1>21 DEF InternTypeOK
<1>23. \A k \in 1..base : k \in DOMAIN names'
  BY <1>3, <1>8, <1>16
<1>24. cells' = Len(names')
  BY <1>1, <1>2, <1>9 DEF Kept
<1>25. Kept'
  BY <1>1, <1>4, <1>17, <1>20, <1>23, <1>24 DEF Kept
<1>26. PassOne' /\ Regions' /\ Scattered' /\ Marked' /\ Numbered'
  BY <1>1 DEF PassOne, Regions, Scattered, Marked, Numbered, Partitioning
<1> QED
  BY <1>19, <1>22, <1>25, <1>26 DEF InternInv

-----------------------------------------------------------------------------
(***************************************************************************)
(* The partitioned path                                                    *)
(***************************************************************************)

LEMMA NumberSequenceInv ==
  ASSUME InternInv, phase \in {"idle", "find"}, batches # <<>>, DistinctPositions,
         NEW S \in SUBSET Places, NumberSequence(S), work' \subseteq Places,
         UNCHANGED <<batches, base, names, cells, slots, pending, assigned, overflowed>>
  PROVE  InternInv'
<1>1. InternTypeOK /\ Kept /\ Direct
  BY DEF InternInv
<1>2. /\ phase' = "scatter" /\ sequence' = InOrder(S) /\ firsts' = {}
      /\ probed' = [s \in Shards |-> 0]
      /\ tasks' = {<<"chunk", c>> : c \in 1..ChunksOf(Len(sequence'))}
      /\ entries' = [s \in Shards |->
           [k \in 1..Cardinality({g \in DOMAIN sequence' : PlaceShard(sequence'[g]) = s}) |-> Vacant]]
  BY DEF NumberSequence
<1>3. sequence' \in Seq(Places) /\ Len(sequence') \in Nat /\ DOMAIN sequence' = 1..Len(sequence')
  <2>1. batches \in Seq(Seq([position: Nat, names: Seq(Names)]))
    BY <1>1 DEF InternTypeOK
  <2>2. InOrder(S) \in Seq(Places)
    BY <2>1, InOrderIsSeq
  <2>3. sequence' \in Seq(Places)
    BY <1>2, <2>2
  <2> QED
    BY <2>3
<1>4. Places' = Places
  BY DEF Places, Jobs
<1>5. InternTypeOK'
  BY <1>1, <1>2, <1>3, <1>4 DEF InternTypeOK
<1>6. Kept'
  BY <1>1, <1>2 DEF Kept
<1>7. ASSUME NEW s \in Shards
      PROVE  /\ DOMAIN entries'[s] = 1..Cardinality(Region(s)')
             /\ entries'[s] \in Seq(SlotValue)
             /\ probed'[s] \in 0..Len(entries'[s])
  <2> DEFINE R == {g \in DOMAIN sequence' : PlaceShard(sequence'[g]) = s}
  <2>1. Region(s)' = R
    BY DEF Region, ShardAt, PlaceShard, NameAt, Jobs
  <2>2. R \in SUBSET (1..Len(sequence'))
    BY <1>3
  <2>3. entries'[s] = [k \in 1..Cardinality(R) |-> Vacant]
    BY <1>2
  <2> HIDE DEF R
  <2>4. IsFiniteSet(R)
    <3>1. IsFiniteSet(1..Len(sequence'))
      BY <1>3, FS_Interval
    <3> QED
      BY <2>2, <3>1, FS_Subset
  <2>5. Cardinality(R) \in Nat
    BY <2>4, FS_CardinalityType
  <2>6. Vacant \in SlotValue
    BY DEF Vacant, SlotValue
  <2>7. entries'[s] \in [1..Cardinality(R) -> SlotValue]
    BY <2>3, <2>6
  <2>8. entries'[s] \in Seq(SlotValue) /\ Len(entries'[s]) = Cardinality(R)
    BY <2>5, <2>7, FunctionIsSeq
  <2>9. probed'[s] = 0
    BY <1>2
  <2> QED
    BY <2>1, <2>5, <2>7, <2>8, <2>9
<1>71. /\ DOMAIN entries' = Shards /\ entries' = [s \in Shards |-> entries'[s]]
       /\ DOMAIN probed' = Shards /\ probed' = [s \in Shards |-> probed'[s]]
  BY <1>2
<1>8. Regions'
  BY <1>7, <1>71 DEF Regions
<1>9. Scattered'
  <2>1. \A g \in DOMAIN sequence' : <<"chunk", ChunkAt(g)>> \in tasks'
    <3> SUFFICES ASSUME NEW g \in DOMAIN sequence' PROVE <<"chunk", ChunkAt(g)>> \in tasks'
      OBVIOUS
    <3>1. ChunkAt(g) \in 1..ChunksOf(Len(sequence'))
      BY <1>3, ChunksCover DEF ChunkAt
    <3> QED
      BY <1>2, <3>1
  <2>2. \A n \in Names : slots[n] = Vacant \/ KnownSlot(n)
    <3>1. DOMAIN names = 1..base
      BY <1>1 DEF Kept, InternTypeOK
    <3> QED
      BY <1>1, <3>1 DEF Direct, KnownSlot
  <2>3. \A n \in Names : KnownSlot(n)' <=> KnownSlot(n)
    BY DEF KnownSlot
  <2>4. \A g : ChunkAt(g)' = ChunkAt(g)
    BY DEF ChunkAt
  <2>5. \A s \in Shards : probed'[s] = 0
    BY <1>2
  <2> QED
    BY <1>2, <2>1, <2>2, <2>3, <2>4, <2>5 DEF Scattered
<1>10. Direct' /\ PassOne' /\ Marked' /\ Numbered'
  BY <1>2 DEF Direct, PassOne, Marked, Numbered
<1> QED
  BY <1>5, <1>6, <1>8, <1>9, <1>10 DEF InternInv

LEMMA PartitionBegins ==
  ASSUME InternInv, BeginPartitioned \/ MissingPartitioned
  PROVE  InternInv'
<1>1. InternTypeOK
  BY DEF InternInv
<1>2. CASE BeginPartitioned
  <2>1. /\ phase = "idle" /\ batches # <<>> /\ DistinctPositions /\ NumberSequence(Places) /\ work' = work
        /\ UNCHANGED <<batches, base, names, cells, slots, pending, assigned, overflowed>>
    BY <1>2 DEF BeginPartitioned, Begin, tableVars, passVars
  <2>2. work' \subseteq Places
    BY <1>1, <2>1 DEF InternTypeOK
  <2>3. Places \in SUBSET Places
    OBVIOUS
  <2> QED
    BY <2>1, <2>2, <2>3, NumberSequenceInv
<1>3. CASE MissingPartitioned
  <2>1. /\ phase = "find" /\ NumberSequence(Missing) /\ work' = work
        /\ UNCHANGED <<batches, base, names, cells, slots, pending, assigned, overflowed>>
    BY <1>3 DEF MissingPartitioned, tableVars, passVars
  <2>2. work' \subseteq Places /\ batches # <<>> /\ DistinctPositions
    BY <1>1, <2>1 DEF InternTypeOK
  <2>3. Missing \in SUBSET Places
    BY DEF Missing
  <2> QED
    BY <2>1, <2>2, <2>3, NumberSequenceInv
<1> QED
  BY <1>2, <1>3

(* What the tasks of the partitioned path leave alone. *)
LEMMA SameSequence ==
  ASSUME InternInv, Partitioning, UNCHANGED <<batches, sequence>>
  PROVE  /\ SequenceOK
         /\ Places' = Places
         /\ \A g : /\ ShardAt(g)' = ShardAt(g) /\ RegionRank(g)' = RegionRank(g)
                   /\ ChunkAt(g)' = ChunkAt(g) /\ NameAt(sequence[g])' = NameAt(sequence[g])
         /\ \A s : Region(s)' = Region(s)
<1>1. SequenceOK
  BY DEF InternInv, InternTypeOK, Partitioning, SequenceOK
<1>2. Places' = Places /\ \A g : ShardAt(g)' = ShardAt(g) /\ NameAt(sequence[g])' = NameAt(sequence[g])
  BY DEF Places, Jobs, ShardAt, PlaceShard, NameAt
<1>3. \A s : Region(s)' = Region(s)
  BY <1>2 DEF Region
<1>4. \A g : RegionRank(g)' = RegionRank(g)
  BY <1>2, <1>3 DEF RegionRank
<1>5. \A g : ChunkAt(g)' = ChunkAt(g)
  BY DEF ChunkAt
<1> QED
  BY <1>1, <1>2, <1>3, <1>4, <1>5

(* A task of a pass that is not yet taken belongs to a chunk. *)
LEMMA ChunkTask ==
  ASSUME NEW c, <<"chunk", c>> \in tasks, tasks \subseteq {<<"chunk", d>> : d \in 1..ChunksOf(Len(sequence))}
  PROVE  c \in Nat
<1>1. PICK d \in 1..ChunksOf(Len(sequence)) : <<"chunk", c>> = <<"chunk", d>>
  OBVIOUS
<1>2. <<"chunk", c>>[2] = c /\ <<"chunk", d>>[2] = d
  OBVIOUS
<1>3. c = d
  BY <1>1, <1>2
<1> QED
  BY <1>3

LEMMA ScatterInv ==
  ASSUME InternInv, NEW c, Scatter(c)
  PROVE  InternInv'
<1>1. /\ phase = "scatter" /\ <<"chunk", c>> \in tasks /\ tasks' = tasks \ {<<"chunk", c>>}
      /\ UNCHANGED <<batches, phase, base, names, cells, slots, pending, assigned, overflowed, work,
                     sequence, probed, firsts>>
      /\ entries' = [s \in Shards |-> [k \in DOMAIN entries[s] |->
           IF \E g \in ChunkRange(c) : ShardAt(g) = s /\ Cursor(c, g) = k
             THEN [tag |-> "index", at |-> CHOOSE g \in ChunkRange(c) : ShardAt(g) = s /\ Cursor(c, g) = k]
             ELSE entries[s][k]]]
  BY DEF Scatter, tableVars, passVars
<1>2. InternTypeOK /\ Kept /\ Regions /\ Scattered /\ Partitioning
  BY <1>1 DEF InternInv, Partitioning
<1>3. /\ SequenceOK /\ Places' = Places
      /\ \A g : /\ ShardAt(g)' = ShardAt(g) /\ RegionRank(g)' = RegionRank(g)
                /\ ChunkAt(g)' = ChunkAt(g) /\ NameAt(sequence[g])' = NameAt(sequence[g])
      /\ \A s : Region(s)' = Region(s)
  BY <1>1, <1>2, SameSequence
<1>4. tasks \subseteq {<<"chunk", d>> : d \in 1..ChunksOf(Len(sequence))} /\ c \in Nat
  BY <1>1, <1>2, ChunkTask DEF Scattered
<1>5. \A g \in ChunkRange(c) : g \in DOMAIN sequence /\ c = ChunkAt(g) /\ Cursor(c, g) = RegionRank(g)
  BY <1>3, <1>4, CursorIsRank
<1>6. \A g \in DOMAIN sequence : ChunkAt(g) = c => g \in ChunkRange(c)
  <2> SUFFICES ASSUME NEW g \in DOMAIN sequence, ChunkAt(g) = c PROVE g \in ChunkRange(c)
    OBVIOUS
  <2>1. g - 1 \in Nat
    BY <1>3, SequenceFacts
  <2>2. (g - 1) \div Chunk \in Nat
    BY <2>1, ChunkMonotone
  <2>3. (g - 1) \div Chunk = c - 1
    BY <2>2 DEF ChunkAt
  <2> QED
    BY <2>3 DEF ChunkRange
<1>7. ASSUME NEW s \in Shards, NEW k \in DOMAIN entries[s], NEW g \in Region(s), RegionRank(g) = k
      PROVE  entries'[s][k] = IF g \in ChunkRange(c) THEN Index(g) ELSE entries[s][k]
  <2>1. ASSUME NEW h \in ChunkRange(c), ShardAt(h) = s, Cursor(c, h) = k PROVE h = g
    <3>1. h \in Region(s) /\ RegionRank(h) = k
      BY <1>5, <2>1 DEF Region
    <3> QED
      BY <1>3, <1>7, <3>1, RegionRanks
  <2>2. CASE g \in ChunkRange(c)
    <3>1. ShardAt(g) = s /\ Cursor(c, g) = k
      BY <1>5, <1>7, <2>2 DEF Region
    <3>2. (CHOOSE h \in ChunkRange(c) : ShardAt(h) = s /\ Cursor(c, h) = k) = g
      BY <2>1, <2>2, <3>1
    <3> QED
      BY <1>1, <2>2, <3>1, <3>2 DEF Index
  <2>3. CASE g \notin ChunkRange(c)
    <3>1. ~\E h \in ChunkRange(c) : ShardAt(h) = s /\ Cursor(c, h) = k
      BY <2>1, <2>3
    <3> QED
      BY <1>1, <2>3, <3>1
  <2> QED
    BY <2>2, <2>3
<1>8. ASSUME NEW s \in Shards
      PROVE  /\ DOMAIN entries'[s] = 1..Cardinality(Region(s))
             /\ entries'[s] \in Seq(SlotValue) /\ Len(entries'[s]) = Len(entries[s])
  <2>1. DOMAIN entries[s] = 1..Cardinality(Region(s)) /\ entries[s] \in Seq(SlotValue)
    BY <1>2 DEF Regions
  <2>11. entries[s] \in Seq(SlotValue)
    BY <2>1
  <2>12. \A k \in DOMAIN entries[s] : entries[s][k] \in SlotValue
    BY <2>11
  <2>13. entries[s] = [k \in DOMAIN entries[s] |-> entries[s][k]]
    BY <2>11
  <2>2. DOMAIN entries'[s] = DOMAIN entries[s] /\ entries'[s] = [k \in DOMAIN entries[s] |-> entries'[s][k]]
    BY <1>1
  <2>3. ASSUME NEW k \in DOMAIN entries[s] PROVE entries'[s][k] \in SlotValue
    <3>1. PICK g \in Region(s) : RegionRank(g) = k
      BY <1>3, <2>1, RegionRanks
    <3>2. g \in Nat
      BY <1>3, SequenceFacts DEF Region
    <3>3. Index(g) \in SlotValue
      BY <3>2 DEF Index, SlotValue
    <3>4. entries[s][k] \in SlotValue
      BY <2>12
    <3> QED
      BY <1>7, <3>1, <3>3, <3>4
  <2>4. Cardinality(Region(s)) \in Nat
    BY <1>3, RegionRanks
  <2>5. entries'[s] \in [1..Cardinality(Region(s)) -> SlotValue]
    BY <2>1, <2>2, <2>3
  <2>6. entries[s] \in [1..Cardinality(Region(s)) -> SlotValue]
    BY <2>1, <2>12, <2>13
  <2> QED
    BY <2>1, <2>2, <2>4, <2>5, <2>6, FunctionIsSeq
<1>9. ASSUME NEW g \in DOMAIN sequence
      PROVE  EntryOf(g)' = IF ChunkAt(g) = c THEN Index(g) ELSE EntryOf(g)
  <2>1. ShardAt(g) \in Shards /\ g \in Region(ShardAt(g))
    BY <1>3, SequenceFacts DEF Region
  <2>2. RegionRank(g) \in DOMAIN entries[ShardAt(g)]
    BY <1>2, <1>3, <2>1, RegionRanks DEF Regions
  <2>3. EntryOf(g)' = entries'[ShardAt(g)][RegionRank(g)]
    BY <1>3 DEF EntryOf
  <2>4. g \in ChunkRange(c) <=> ChunkAt(g) = c
    BY <1>5, <1>6
  <2> QED
    BY <1>7, <2>1, <2>2, <2>3, <2>4 DEF EntryOf
<1>10. InternTypeOK'
  BY <1>1, <1>2, <1>3 DEF InternTypeOK
<1>11. Kept'
  BY <1>1, <1>2 DEF Kept
<1>12. Regions'
  <2>1. DOMAIN entries' = Shards /\ entries' = [s \in Shards |-> entries'[s]]
    BY <1>1
  <2>2. \A s \in Shards : DOMAIN entries'[s] = 1..Cardinality(Region(s)')
    BY <1>3, <1>8
  <2>3. \A s \in Shards : entries'[s] \in Seq(SlotValue) /\ probed'[s] \in 0..Len(entries'[s])
    BY <1>1, <1>2, <1>8 DEF Regions
  <2>4. DOMAIN probed' = Shards /\ probed' = [s \in Shards |-> probed'[s]]
    BY <1>1, <1>2 DEF Regions
  <2> QED
    BY <2>1, <2>2, <2>3, <2>4 DEF Regions
<1>13. Scattered'
  <2>1. \A n \in Names : KnownSlot(n)' <=> KnownSlot(n)
    BY <1>1 DEF KnownSlot
  <2>2. \A g \in DOMAIN sequence : <<"chunk", ChunkAt(g)>> \in tasks' \/ EntryOf(g)' = Index(g)
    BY <1>1, <1>2, <1>9 DEF Scattered
  <2>3. \A g : Index(g)' = Index(g)
    BY DEF Index
  <2> QED
    BY <1>1, <1>2, <1>3, <2>1, <2>2, <2>3 DEF Scattered
<1>14. Direct' /\ PassOne' /\ Marked' /\ Numbered'
  BY <1>1 DEF Direct, PassOne, Marked, Numbered
<1> QED
  BY <1>10, <1>11, <1>12, <1>13, <1>14 DEF InternInv

LEMMA ScatterEndInv ==
  ASSUME InternInv, ScatterEnd
  PROVE  InternInv'
<1>1. /\ phase = "scatter" /\ tasks = {} /\ phase' = "probe"
      /\ UNCHANGED <<batches, base, names, cells, slots, pending, assigned, overflowed, work,
                     sequence, entries, probed, firsts>>
  BY DEF ScatterEnd, tableVars, passVars, partitionVars
<1>2. InternTypeOK /\ Kept /\ Regions /\ Scattered /\ Partitioning
  BY <1>1 DEF InternInv, Partitioning
<1>3. /\ SequenceOK /\ Places' = Places
      /\ \A g : /\ ShardAt(g)' = ShardAt(g) /\ RegionRank(g)' = RegionRank(g)
                /\ ChunkAt(g)' = ChunkAt(g) /\ NameAt(sequence[g])' = NameAt(sequence[g])
      /\ \A s : Region(s)' = Region(s)
  BY <1>1, <1>2, SameSequence
<1>4. InternTypeOK' /\ Kept'
  BY <1>1, <1>2, <1>3 DEF InternTypeOK, Kept
<1>5. Regions'
  BY <1>1, <1>2, <1>3 DEF Regions, Partitioning
<1>6. ASSUME NEW g \in DOMAIN sequence
      PROVE  EntryOf(g)' = Index(g)' /\ ~(RegionRank(g) <= probed[ShardAt(g)])
  <2>1. EntryOf(g) = Index(g) /\ EntryOf(g)' = EntryOf(g) /\ Index(g)' = Index(g)
    BY <1>1, <1>2, <1>3 DEF Scattered, EntryOf, Index
  <2>2. ShardAt(g) \in Shards /\ g \in Region(ShardAt(g))
    BY <1>3, SequenceFacts DEF Region
  <2>3. RegionRank(g) \in 1..Cardinality(Region(ShardAt(g))) /\ Cardinality(Region(ShardAt(g))) \in Nat
    BY <1>3, <2>2, RegionRanks
  <2>4. probed[ShardAt(g)] = 0
    BY <1>1, <1>2, <2>2 DEF Scattered
  <2> QED
    BY <2>1, <2>3, <2>4
<1>7. Scattered'
  <2>1. \A n \in Names : KnownSlot(n)' <=> KnownSlot(n)
    BY <1>1 DEF KnownSlot
  <2> QED
    BY <1>1, <1>2, <1>3, <1>6, <2>1 DEF Scattered
<1>8. Direct' /\ PassOne' /\ Marked' /\ Numbered'
  BY <1>1 DEF Direct, PassOne, Marked, Numbered
<1> QED
  BY <1>4, <1>5, <1>7, <1>8 DEF InternInv

LEMMA ProbeInv ==
  ASSUME InternInv, NEW s \in Shards, Probe(s)
  PROVE  InternInv'
<1> DEFINE k == probed[s] + 1
<1>1. /\ phase = "probe" /\ probed[s] < Len(entries[s]) /\ probed' = [probed EXCEPT ![s] = k]
      /\ UNCHANGED <<batches, phase, base, names, cells, pending, assigned, overflowed, work, tasks,
                     sequence, firsts>>
  BY DEF Probe, passVars
<1>2. InternTypeOK /\ Kept /\ Regions /\ Scattered /\ Partitioning
  BY <1>1 DEF InternInv, Partitioning
<1>3. /\ SequenceOK /\ Places' = Places
      /\ \A g : /\ ShardAt(g)' = ShardAt(g) /\ RegionRank(g)' = RegionRank(g)
                /\ ChunkAt(g)' = ChunkAt(g) /\ NameAt(sequence[g])' = NameAt(sequence[g])
      /\ \A t : Region(t)' = Region(t)
  BY <1>1, <1>2, SameSequence
<1>4. /\ DOMAIN entries[s] = 1..Cardinality(Region(s)) /\ Cardinality(Region(s)) \in Nat
      /\ probed[s] \in Nat /\ k \in DOMAIN entries[s] /\ k \in Nat
  <2>1. entries[s] \in Seq(SlotValue) /\ probed[s] \in 0..Len(entries[s])
    BY <1>2 DEF Regions
  <2>2. Len(entries[s]) \in Nat /\ DOMAIN entries[s] = 1..Len(entries[s])
    BY <2>1
  <2>3. Cardinality(Region(s)) \in Nat
    BY <1>3, RegionRanks
  <2>4. DOMAIN entries[s] = 1..Cardinality(Region(s))
    BY <1>2 DEF Regions
  <2> QED
    BY <1>1, <2>1, <2>2, <2>3, <2>4
<1>5. PICK g \in Region(s) : RegionRank(g) = k
  BY <1>3, <1>4, RegionRanks
<1>6. g \in DOMAIN sequence /\ ShardAt(g) = s /\ g \in Nat
  BY <1>3, SequenceFacts DEF Region
<1>7. EntryOf(g) = Index(g) /\ EntryOf(g) = entries[s][k]
  <2>1. ~(RegionRank(g) <= probed[ShardAt(g)])
    BY <1>4, <1>5, <1>6
  <2> QED
    BY <1>1, <1>2, <1>5, <1>6, <2>1 DEF Scattered, EntryOf
<1>8. entries[s][k].at = g
  BY <1>7 DEF Index
<1> DEFINE n == NameAt(sequence[g])
           value == IF slots[n] = Vacant THEN Pending(g) ELSE slots[n]
<1>9. n \in Names /\ ShardOf[n] = s
  BY <1>3, <1>6, SequenceFacts
<1>10. slots' = [slots EXCEPT ![n] = value] /\ entries' = [entries EXCEPT ![s][k] = value]
  BY <1>8 DEF Probe
<1>11. slots \in [Names -> SlotValue] /\ value \in SlotValue
  <2>1. slots \in [Names -> SlotValue]
    BY <1>2 DEF InternTypeOK
  <2>2. Pending(g) \in SlotValue
    BY <1>6 DEF Pending, SlotValue
  <2> QED
    BY <1>9, <2>1, <2>2
<1>12. \A i, j : Pending(i) # Vacant /\ Final(j) # Vacant /\ Final(j) # Pending(i)
  BY DEF Pending, Final, Vacant
<1>13. value # Vacant /\ (slots[n] # Vacant => value = slots[n]) /\ (slots[n] = Vacant => value = Pending(g))
  BY <1>12
<1> HIDE DEF k, n, value
<1>14. /\ slots' \in [Names -> SlotValue] /\ slots'[n] = value
       /\ \A m \in Names : m # n => slots'[m] = slots[m]
  BY <1>9, <1>10, <1>11
<1>15. /\ DOMAIN entries = Shards /\ entries = [t \in Shards |-> entries[t]]
       /\ DOMAIN probed = Shards /\ probed = [t \in Shards |-> probed[t]]
       /\ \A t \in Shards : DOMAIN entries[t] = 1..Cardinality(Region(t))
       /\ \A t \in Shards : entries[t] \in Seq(SlotValue)
       /\ \A t \in Shards : probed[t] \in 0..Len(entries[t])
  BY <1>2 DEF Regions
<1> DEFINE row == [entries[s] EXCEPT ![k] = value]
<1>16. /\ row \in Seq(SlotValue) /\ DOMAIN row = DOMAIN entries[s] /\ Len(row) = Len(entries[s])
       /\ row[k] = value /\ \A j \in DOMAIN entries[s] : j # k => row[j] = entries[s][j]
  <2>1. entries[s] \in Seq(SlotValue)
    BY <1>15
  <2> QED
    BY <1>4, <1>11, <2>1
<1>17. entries' = [entries EXCEPT ![s] = row]
  BY <1>10
<1> HIDE DEF row
<1>18. /\ entries'[s] = row /\ \A t \in Shards : t # s => entries'[t] = entries[t]
       /\ DOMAIN entries' = Shards /\ entries' = [t \in Shards |-> entries'[t]]
  BY <1>15, <1>17
<1>19. /\ probed'[s] = k /\ \A t \in Shards : t # s => probed'[t] = probed[t]
       /\ DOMAIN probed' = Shards /\ probed' = [t \in Shards |-> probed'[t]]
  BY <1>1, <1>15
<1>20. k \in 0..Len(entries[s]) /\ k = probed[s] + 1
  <2>1. entries[s] \in Seq(SlotValue)
    BY <1>15
  <2> QED
    BY <1>4, <2>1 DEF k
<1>21. \A m \in Names : \A j : slots'[m] = Final(j) <=> slots[m] = Final(j)
  BY <1>12, <1>13, <1>14
<1>22. InternTypeOK' /\ Kept'
  <2>1. InternTypeOK'
    BY <1>1, <1>2, <1>3, <1>14 DEF InternTypeOK
  <2>2. Kept'
    BY <1>1, <1>2, <1>21 DEF Kept
  <2> QED
    BY <2>1, <2>2
<1>23. Regions'
  <2>1. \A t \in Shards : DOMAIN entries'[t] = 1..Cardinality(Region(t)')
    BY <1>3, <1>15, <1>16, <1>18
  <2>2. \A t \in Shards : entries'[t] \in Seq(SlotValue)
    BY <1>15, <1>16, <1>18
  <2>3. \A t \in Shards : probed'[t] \in 0..Len(entries'[t])
    BY <1>15, <1>16, <1>18, <1>19, <1>20
  <2> QED
    BY <1>18, <1>19, <2>1, <2>2, <2>3 DEF Regions
<1>24. ASSUME NEW h \in DOMAIN sequence
       PROVE  IF RegionRank(h)' <= probed'[ShardAt(h)']
                THEN EntryOf(h)' = SlotOf(h)' /\ SlotOf(h)' # Vacant
                ELSE EntryOf(h)' = Index(h)
  <2>1. /\ ShardAt(h) \in Shards /\ h \in Region(ShardAt(h)) /\ NameAt(sequence[h]) \in Names
        /\ ShardAt(h) = ShardOf[NameAt(sequence[h])]
    BY <1>3, SequenceFacts DEF Region
  <2>2. RegionRank(h) \in DOMAIN entries[ShardAt(h)] /\ RegionRank(h) \in Nat
    BY <1>3, <1>15, <2>1, RegionRanks
  <2>3. /\ EntryOf(h)' = entries'[ShardAt(h)][RegionRank(h)] /\ EntryOf(h) = entries[ShardAt(h)][RegionRank(h)]
        /\ SlotOf(h)' = slots'[NameAt(sequence[h])] /\ SlotOf(h) = slots[NameAt(sequence[h])]
    BY <1>1, <1>3 DEF EntryOf, SlotOf
  <2>4. IF RegionRank(h) <= probed[ShardAt(h)]
          THEN EntryOf(h) = SlotOf(h) /\ SlotOf(h) # Vacant
          ELSE EntryOf(h) = Index(h)
    BY <1>1, <1>2 DEF Scattered
  <2>5. CASE h = g
    BY <1>3, <1>5, <1>6, <1>13, <1>14, <1>16, <1>18, <1>19, <1>20, <2>3, <2>5 DEF n
  <2>6. CASE h # g /\ ShardAt(h) = s
    <3>1. RegionRank(h) # k
      BY <1>3, <1>5, <2>1, <2>6, RegionRanks
    <3>2. RegionRank(h) <= k <=> RegionRank(h) <= probed[s]
      BY <1>4, <1>20, <2>2, <3>1
    <3>3. EntryOf(h)' = EntryOf(h)
      BY <1>16, <1>18, <2>2, <2>3, <2>6, <3>1
    <3>4. SlotOf(h) # Vacant => SlotOf(h)' = SlotOf(h)
      BY <1>13, <1>14, <2>1, <2>3
    <3> QED
      BY <1>3, <1>19, <2>4, <2>6, <3>2, <3>3, <3>4
  <2>7. CASE ShardAt(h) # s
    <3>1. NameAt(sequence[h]) # n
      BY <1>9, <2>1, <2>7
    <3>2. EntryOf(h)' = EntryOf(h) /\ SlotOf(h)' = SlotOf(h) /\ probed'[ShardAt(h)] = probed[ShardAt(h)]
      BY <1>14, <1>18, <1>19, <2>1, <2>3, <2>7, <3>1
    <3> QED
      BY <1>3, <2>4, <3>2
  <2> QED
    BY <2>5, <2>6, <2>7
<1>25. ASSUME NEW m \in Names
       PROVE  \/ slots'[m] = Vacant
              \/ KnownSlot(m)'
              \/ \E h \in DOMAIN sequence : /\ slots'[m] = Pending(h) /\ NameAt(sequence[h]) = m
                                            /\ RegionRank(h) <= probed'[ShardAt(h)]
  <2>1. KnownSlot(m) => KnownSlot(m)'
    BY <1>1, <1>21 DEF KnownSlot
  <2>2. \A h \in DOMAIN sequence : RegionRank(h) <= probed[ShardAt(h)] => RegionRank(h) <= probed'[ShardAt(h)]
    <3> SUFFICES ASSUME NEW h \in DOMAIN sequence, RegionRank(h) <= probed[ShardAt(h)]
                 PROVE  RegionRank(h) <= probed'[ShardAt(h)]
      OBVIOUS
    <3>1. ShardAt(h) \in Shards /\ h \in Region(ShardAt(h))
      BY <1>3, SequenceFacts DEF Region
    <3>2. RegionRank(h) \in Nat
      BY <1>3, <3>1, RegionRanks
    <3> QED
      BY <1>4, <1>19, <1>20, <3>1, <3>2
  <2>3. CASE m = n /\ slots[n] = Vacant
    <3>1. slots'[m] = Pending(g) /\ NameAt(sequence[g]) = m
      BY <1>13, <1>14, <2>3 DEF n
    <3>2. RegionRank(g) <= probed'[ShardAt(g)]
      BY <1>4, <1>5, <1>6, <1>19
    <3> QED
      BY <1>6, <3>1, <3>2
  <2>4. CASE ~(m = n /\ slots[n] = Vacant)
    <3>1. slots'[m] = slots[m]
      BY <1>13, <1>14, <2>4
    <3> QED
      BY <1>1, <1>2, <2>1, <2>2, <3>1 DEF Scattered
  <2> QED
    BY <2>3, <2>4
<1>26. Scattered'
  <2>1. \A g1 : Index(g1)' = Index(g1) /\ Pending(g1)' = Pending(g1)
    BY DEF Index, Pending
  <2> QED
    BY <1>1, <1>3, <1>24, <1>25, <2>1 DEF Scattered
<1>27. Direct' /\ PassOne' /\ Marked' /\ Numbered'
  BY <1>1 DEF Direct, PassOne, Marked, Numbered
<1> QED
  BY <1>22, <1>23, <1>26, <1>27 DEF InternInv

LEMMA ProbeEndInv ==
  ASSUME InternInv, ProbeEnd
  PROVE  InternInv'
<1>1. /\ phase = "probe" /\ phase' = "mark" /\ \A s \in Shards : probed[s] = Len(entries[s])
      /\ tasks' = {<<"chunk", c>> : c \in 1..ChunksOf(Len(sequence))}
      /\ UNCHANGED <<batches, base, names, cells, slots, pending, assigned, overflowed, work,
                     sequence, entries, probed, firsts>>
  BY DEF ProbeEnd, tableVars, passVars
<1>2. InternTypeOK /\ Kept /\ Regions /\ Scattered /\ Partitioning
  BY <1>1 DEF InternInv, Partitioning
<1>3. /\ SequenceOK /\ Places' = Places
      /\ \A g : /\ ShardAt(g)' = ShardAt(g) /\ RegionRank(g)' = RegionRank(g)
                /\ ChunkAt(g)' = ChunkAt(g) /\ NameAt(sequence[g])' = NameAt(sequence[g])
      /\ \A s : Region(s)' = Region(s)
  BY <1>1, <1>2, SameSequence
<1>4. InternTypeOK' /\ Kept'
  BY <1>1, <1>2, <1>3 DEF InternTypeOK, Kept
<1>5. Regions'
  BY <1>1, <1>2, <1>3 DEF Regions, Partitioning
<1>6. Scattered'
  <2>1. \A n \in Names : KnownSlot(n)' <=> KnownSlot(n)
    BY <1>1 DEF KnownSlot
  <2> QED
    BY <1>1, <1>2, <1>3, <2>1 DEF Scattered
<1>7. ASSUME NEW g \in DOMAIN sequence
      PROVE  EntryOf(g)' = SlotOf(g)' /\ <<"chunk", ChunkAt(g)>> \in tasks'
  <2>1. ShardAt(g) \in Shards /\ g \in Region(ShardAt(g)) /\ ChunkAt(g) \in 1..ChunksOf(Len(sequence))
    BY <1>3, SequenceFacts DEF Region
  <2>2. RegionRank(g) \in DOMAIN entries[ShardAt(g)]
    BY <1>2, <1>3, <2>1, RegionRanks DEF Regions
  <2>3. entries[ShardAt(g)] \in Seq(SlotValue)
    BY <1>2, <2>1 DEF Regions
  <2>4. RegionRank(g) <= probed[ShardAt(g)]
    BY <1>1, <2>1, <2>2, <2>3
  <2>5. EntryOf(g) = SlotOf(g)
    BY <1>1, <1>2, <2>4 DEF Scattered
  <2> QED
    BY <1>1, <1>3, <2>1, <2>5 DEF EntryOf, SlotOf
<1>8. Marked'
  <2>1. firsts' = {}
    BY <1>1, <1>2 DEF InternTypeOK
  <2> QED
    BY <1>1, <1>3, <1>7, <2>1 DEF Marked
<1>9. Direct' /\ PassOne' /\ Numbered'
  BY <1>1 DEF Direct, PassOne, Numbered
<1> QED
  BY <1>4, <1>5, <1>6, <1>8, <1>9 DEF InternInv

LEMMA MarkInv ==
  ASSUME InternInv, NEW c, Mark(c)
  PROVE  InternInv'
<1>1. /\ phase = "mark" /\ <<"chunk", c>> \in tasks /\ tasks' = tasks \ {<<"chunk", c>>}
      /\ firsts' = firsts \cup {g \in ChunkRange(c) : ResultAt(c, g) = Pending(g)}
      /\ UNCHANGED <<batches, phase, base, names, cells, slots, pending, assigned, overflowed, work,
                     sequence, entries, probed>>
  BY DEF Mark, tableVars, passVars
<1>2. InternTypeOK /\ Kept /\ Regions /\ Scattered /\ Marked /\ Partitioning
  BY <1>1 DEF InternInv, Partitioning
<1>3. /\ SequenceOK /\ Places' = Places
      /\ \A g : /\ ShardAt(g)' = ShardAt(g) /\ RegionRank(g)' = RegionRank(g)
                /\ ChunkAt(g)' = ChunkAt(g) /\ NameAt(sequence[g])' = NameAt(sequence[g])
      /\ \A s : Region(s)' = Region(s)
  BY <1>1, <1>2, SameSequence
<1>4. tasks \subseteq {<<"chunk", d>> : d \in 1..ChunksOf(Len(sequence))} /\ c \in Nat
  BY <1>1, <1>2, ChunkTask DEF Marked
<1>5. \A g \in ChunkRange(c) : /\ g \in DOMAIN sequence /\ c = ChunkAt(g)
                               /\ ResultAt(c, g) = EntryOf(g)
  BY <1>3, <1>4, CursorIsRank DEF ResultAt, EntryOf
<1>6. \A g \in DOMAIN sequence : ChunkAt(g) = c => g \in ChunkRange(c)
  <2> SUFFICES ASSUME NEW g \in DOMAIN sequence, ChunkAt(g) = c PROVE g \in ChunkRange(c)
    OBVIOUS
  <2>1. g - 1 \in Nat
    BY <1>3, SequenceFacts
  <2>2. (g - 1) \div Chunk \in Nat
    BY <2>1, ChunkMonotone
  <2>3. (g - 1) \div Chunk = c - 1
    BY <2>2 DEF ChunkAt
  <2> QED
    BY <2>3 DEF ChunkRange
<1>7. InternTypeOK'
  <2>1. firsts' \subseteq DOMAIN sequence
    BY <1>1, <1>2, <1>5 DEF InternTypeOK
  <2> QED
    BY <1>1, <1>2, <1>3, <2>1 DEF InternTypeOK
<1>8. Kept' /\ Regions' /\ Scattered'
  <2>1. \A n \in Names : KnownSlot(n)' <=> KnownSlot(n)
    BY <1>1 DEF KnownSlot
  <2>2. Kept'
    BY <1>1, <1>2 DEF Kept
  <2>3. Regions'
    BY <1>1, <1>2, <1>3 DEF Regions, Partitioning
  <2>4. Scattered'
    BY <1>1, <1>2, <1>3, <2>1 DEF Scattered
  <2> QED
    BY <2>2, <2>3, <2>4
<1>9. ASSUME NEW g \in DOMAIN sequence
      PROVE  /\ EntryOf(g)' = SlotOf(g)'
             /\ g \in firsts' <=> (<<"chunk", ChunkAt(g)>> \notin tasks' /\ SlotOf(g)' = Pending(g))
  <2>1. EntryOf(g)' = EntryOf(g) /\ SlotOf(g)' = SlotOf(g) /\ EntryOf(g) = SlotOf(g)
    BY <1>1, <1>2, <1>3 DEF EntryOf, SlotOf, Marked
  <2>2. g \in firsts <=> (<<"chunk", ChunkAt(g)>> \notin tasks /\ SlotOf(g) = Pending(g))
    BY <1>1, <1>2 DEF Marked
  <2>3. <<"chunk", ChunkAt(g)>> = <<"chunk", c>> <=> ChunkAt(g) = c
    <3>1. <<"chunk", ChunkAt(g)>>[2] = ChunkAt(g) /\ <<"chunk", c>>[2] = c
      OBVIOUS
    <3> QED
      BY <3>1
  <2> QED
    BY <1>1, <1>5, <1>6, <2>1, <2>2, <2>3
<1>10. Marked'
  BY <1>1, <1>2, <1>3, <1>9 DEF Marked, Pending
<1>11. Direct' /\ PassOne' /\ Numbered'
  BY <1>1 DEF Direct, PassOne, Numbered
<1> QED
  BY <1>7, <1>8, <1>10, <1>11 DEF InternInv

LEMMA RetainFinalInv ==
  ASSUME InternInv, RetainFinal
  PROVE  InternInv'
<1>1. /\ phase = "mark" /\ Return /\ slots' = DropProvisional
      /\ UNCHANGED <<base, names, cells, pending, assigned, overflowed>>
  BY DEF RetainFinal, Fail, passVars
<1>2. \A n \in Names : slots[n] = Vacant \/ KnownSlot(n) \/ slots[n].tag = "pending"
  <2>1. \A l : Pending(l).tag = "pending"
    BY DEF Pending
  <2> QED
    BY <1>1, <2>1 DEF InternInv, Scattered
<1>3. /\ pending' \in [Shards -> Seq(PendingName)] /\ \A s \in Shards : pending'[s] = <<>>
      /\ ~overflowed'
  <2>1. pending \in [Shards -> Seq(PendingName)] /\ ~overflowed /\ \A s \in Shards : pending[s] = <<>>
    BY <1>1 DEF InternInv, InternTypeOK, Kept
  <2> QED
    BY <1>1, <2>1
<1> QED
  BY <1>1, <1>2, <1>3, DropProvisionalInv

LEMMA MarkEndInv ==
  ASSUME InternInv, MarkEnd
  PROVE  InternInv'
<1>1. /\ phase = "mark" /\ tasks = {} /\ phase' = "number"
      /\ tasks' = {<<"chunk", c>> : c \in 1..ChunksOf(Len(sequence))}
                  \cup {<<"shard", s>> : s \in {t \in Shards : entries[t] # <<>>}}
                  \cup {<<"names", 0>>}
      /\ UNCHANGED <<batches, base, names, cells, slots, pending, assigned, overflowed, work,
                     sequence, entries, probed, firsts>>
  BY DEF MarkEnd, tableVars, passVars
<1>2. InternTypeOK /\ Kept /\ Regions /\ Scattered /\ Marked /\ Partitioning
  BY <1>1 DEF InternInv, Partitioning
<1>3. /\ SequenceOK /\ Places' = Places
      /\ \A g : /\ ShardAt(g)' = ShardAt(g) /\ RegionRank(g)' = RegionRank(g)
                /\ ChunkAt(g)' = ChunkAt(g) /\ NameAt(sequence[g])' = NameAt(sequence[g])
      /\ \A s : Region(s)' = Region(s)
  BY <1>1, <1>2, SameSequence
<1>4. InternTypeOK' /\ Kept'
  BY <1>1, <1>2, <1>3 DEF InternTypeOK, Kept
<1>5. Regions'
  BY <1>1, <1>2, <1>3 DEF Regions, Partitioning
<1>6. ASSUME NEW g \in firsts
      PROVE  SlotOf(g)' = Pending(g) /\ <<"shard", ShardAt(g)>> \in tasks'
  <2>1. g \in DOMAIN sequence
    BY <1>2 DEF InternTypeOK
  <2>2. ShardAt(g) \in Shards /\ g \in Region(ShardAt(g))
    BY <1>3, <2>1, SequenceFacts DEF Region
  <2>3. RegionRank(g) \in DOMAIN entries[ShardAt(g)]
    BY <1>2, <1>3, <2>2, RegionRanks DEF Regions
  <2>4. entries[ShardAt(g)] # <<>>
    BY <2>3
  <2>5. SlotOf(g) = Pending(g) /\ SlotOf(g)' = SlotOf(g)
    BY <1>1, <1>2, <1>3, <2>1 DEF Marked, SlotOf
  <2> QED
    BY <1>1, <2>2, <2>4, <2>5
<1>7. ASSUME NEW n \in Names
      PROVE  slots[n] = Vacant \/ KnownSlot(n) \/ \E g \in firsts : NameAt(sequence[g]) = n
  <2>1. ASSUME NEW g \in DOMAIN sequence, slots[n] = Pending(g), NameAt(sequence[g]) = n PROVE g \in firsts
    BY <1>1, <1>2, <2>1 DEF Marked, SlotOf
  <2> QED
    BY <1>1, <1>2, <2>1 DEF Scattered
<1>8. Numbered'
  <2>1. \A n \in Names : KnownSlot(n)' <=> KnownSlot(n)
    BY <1>1 DEF KnownSlot
  <2>2. <<"names", 0>> \in tasks'
    BY <1>1
  <2>3. Len(names) = base
    BY <1>1, <1>2 DEF Kept
  <2>4. \A g : Pending(g)' = Pending(g)
    BY DEF Pending
  <2>5. \A g \in firsts' : SlotOf(g)' = IF <<"shard", ShardAt(g)>>' \in tasks' THEN Pending(g)' ELSE Final(base + NewRank(g))'
    BY <1>1, <1>3, <1>6, <2>4
  <2> QED
    BY <1>1, <1>3, <1>7, <2>1, <2>2, <2>3, <2>5 DEF Numbered
<1>9. Direct' /\ PassOne' /\ Scattered' /\ Marked'
  BY <1>1 DEF Direct, PassOne, Scattered, Marked
<1> QED
  BY <1>4, <1>5, <1>8, <1>9 DEF InternInv

LEMMA WriteChunkInv ==
  ASSUME InternInv, NEW c, WriteChunk(c)
  PROVE  InternInv'
<1>1. /\ phase = "number" /\ <<"chunk", c>> \in tasks /\ tasks' = tasks \ {<<"chunk", c>>}
      /\ UNCHANGED <<batches, phase, base, names, cells, slots, pending, assigned, overflowed, work,
                     sequence, entries, probed, firsts>>
  BY DEF WriteChunk, tableVars, passVars
<1>2. InternTypeOK /\ Kept /\ Regions /\ Numbered /\ Partitioning
  BY <1>1 DEF InternInv, Partitioning
<1>3. /\ SequenceOK /\ Places' = Places
      /\ \A g : /\ ShardAt(g)' = ShardAt(g) /\ RegionRank(g)' = RegionRank(g)
                /\ ChunkAt(g)' = ChunkAt(g) /\ NameAt(sequence[g])' = NameAt(sequence[g])
      /\ \A s : Region(s)' = Region(s)
  BY <1>1, <1>2, SameSequence
<1>4. InternTypeOK' /\ Kept'
  BY <1>1, <1>2, <1>3 DEF InternTypeOK, Kept
<1>5. Regions'
  BY <1>1, <1>2, <1>3 DEF Regions, Partitioning
<1>6. \A s : <<"shard", s>> \in tasks' <=> <<"shard", s>> \in tasks
  <2> SUFFICES ASSUME NEW s PROVE <<"shard", s>> # <<"chunk", c>>
    BY <1>1
  <2>1. <<"shard", s>>[1] = "shard" /\ <<"chunk", c>>[1] = "chunk"
    OBVIOUS
  <2> QED
    BY <2>1
<1>7. <<"names", 0>> \in tasks' <=> <<"names", 0>> \in tasks
  <2>1. <<"names", 0>>[1] = "names" /\ <<"chunk", c>>[1] = "chunk"
    OBVIOUS
  <2> QED
    BY <1>1, <2>1
<1>8. Numbered'
  <2>1. \A n \in Names : KnownSlot(n)' <=> KnownSlot(n)
    BY <1>1 DEF KnownSlot
  <2>2. \A g : NewRank(g)' = NewRank(g) /\ SlotOf(g)' = SlotOf(g)
    BY <1>1, <1>3 DEF NewRank, SlotOf
  <2>3. \A g : Pending(g)' = Pending(g) /\ Final(base + NewRank(g))' = Final(base + NewRank(g))
    BY <1>1, <2>2 DEF Pending, Final
  <2> QED
    BY <1>1, <1>2, <1>3, <1>6, <1>7, <2>1, <2>2, <2>3 DEF Numbered
<1>9. Direct' /\ PassOne' /\ Scattered' /\ Marked'
  BY <1>1 DEF Direct, PassOne, Scattered, Marked
<1> QED
  BY <1>4, <1>5, <1>8, <1>9 DEF InternInv

(* A shard's task turns first occurrences into the IDs of their ranks. *)
LEMMA NumberShardInv ==
  ASSUME InternInv, NEW s \in Shards, NumberShard(s)
  PROVE  InternInv'
<1>1. /\ phase = "number" /\ <<"shard", s>> \in tasks /\ tasks' = tasks \ {<<"shard", s>>}
      /\ slots' = [n \in Names |-> IF ShardOf[n] = s THEN IdOf(slots[n]) ELSE slots[n]]
      /\ UNCHANGED <<batches, phase, base, names, cells, pending, assigned, overflowed, work,
                     sequence, entries, probed, firsts>>
  BY DEF NumberShard, passVars
<1>2. InternTypeOK /\ Kept /\ Regions /\ Numbered /\ Partitioning
  BY <1>1 DEF InternInv, Partitioning
<1>3. /\ SequenceOK /\ Places' = Places
      /\ \A g : /\ ShardAt(g)' = ShardAt(g) /\ RegionRank(g)' = RegionRank(g)
                /\ ChunkAt(g)' = ChunkAt(g) /\ NameAt(sequence[g])' = NameAt(sequence[g])
      /\ \A t : Region(t)' = Region(t)
  BY <1>1, <1>2, SameSequence
<1>4. /\ base \in Nat /\ firsts \subseteq DOMAIN sequence /\ slots \in [Names -> SlotValue]
      /\ Cardinality(firsts) \in Nat /\ \A g \in firsts : NewRank(g) \in 1..Cardinality(firsts)
  BY <1>2, <1>3, NewRanks DEF InternTypeOK
<1>5. \A t : <<"shard", t>> \in tasks' <=> (<<"shard", t>> \in tasks /\ t # s)
  <2> SUFFICES ASSUME NEW t PROVE <<"shard", t>> = <<"shard", s>> <=> t = s
    BY <1>1
  <2>1. <<"shard", s>>[2] = s /\ <<"shard", t>>[2] = t
    OBVIOUS
  <2> QED
    BY <2>1
<1>6. <<"names", 0>> \in tasks' <=> <<"names", 0>> \in tasks
  <2>1. <<"names", 0>>[1] = "names" /\ <<"shard", s>>[1] = "shard"
    OBVIOUS
  <2> QED
    BY <1>1, <2>1
<1>7. \A j, k : /\ Final(k) # Vacant /\ Final(k) # Pending(j) /\ (Final(j) = Final(k) => j = k)
                /\ Final(k).tag = "id" /\ Pending(k).tag = "pending" /\ Pending(k).at = k
  BY DEF Final, Pending, Vacant
<1>8. Vacant.tag = "vacant"
  BY DEF Vacant
<1>9. /\ \A k : IdOf(Final(k)) = Final(k)
      /\ IdOf(Vacant) = Vacant
      /\ \A g : IdOf(Pending(g)) = Final(base + NewRank(g))
  BY <1>7, <1>8 DEF IdOf, NewRank
<1>10. ASSUME NEW g \in firsts
       PROVE  /\ SlotOf(g)' = IF <<"shard", ShardAt(g)>> \in tasks' THEN Pending(g) ELSE Final(base + NewRank(g))
              /\ SlotOf(g)' = slots'[NameAt(sequence[g])] /\ NameAt(sequence[g]) \in Names
              /\ SlotOf(g) = slots[NameAt(sequence[g])]
              /\ SlotOf(g) = Pending(g) \/ SlotOf(g) = Final(base + NewRank(g))
  <2>1. /\ NameAt(sequence[g]) \in Names /\ ShardAt(g) = ShardOf[NameAt(sequence[g])]
        /\ SlotOf(g)' = slots'[NameAt(sequence[g])] /\ SlotOf(g) = slots[NameAt(sequence[g])]
    BY <1>1, <1>3, <1>4, SequenceFacts DEF SlotOf
  <2>2. SlotOf(g) = IF <<"shard", ShardAt(g)>> \in tasks THEN Pending(g) ELSE Final(base + NewRank(g))
    BY <1>1, <1>2 DEF Numbered
  <2>3. SlotOf(g)' = IF ShardAt(g) = s THEN IdOf(SlotOf(g)) ELSE SlotOf(g)
    BY <1>1, <2>1
  <2> QED
    BY <1>1, <1>5, <1>9, <2>1, <2>2, <2>3
<1>11. ASSUME NEW n \in Names
       PROVE  \/ slots[n] = Vacant /\ slots'[n] = Vacant
              \/ \E k \in 1..base : slots[n] = Final(k) /\ slots'[n] = Final(k)
              \/ \E g \in firsts : /\ NameAt(sequence[g]) = n
                                   /\ slots[n] = Pending(g) \/ slots[n] = Final(base + NewRank(g))
                                   /\ slots'[n] = Pending(g) \/ slots'[n] = Final(base + NewRank(g))
  <2>1. CASE slots[n] = Vacant
    BY <1>1, <1>9, <2>1
  <2>2. CASE KnownSlot(n)
    BY <1>1, <1>9, <2>2 DEF KnownSlot
  <2>3. CASE \E g \in firsts : NameAt(sequence[g]) = n
    BY <1>10, <2>3
  <2> QED
    BY <1>1, <1>2, <2>1, <2>2, <2>3 DEF Numbered
<1>12. slots' \in [Names -> SlotValue]
  <2>1. \A k \in Nat : Final(k) \in SlotValue /\ Pending(k) \in SlotValue
    BY DEF Final, Pending, SlotValue
  <2>2. Vacant \in SlotValue
    BY DEF Vacant, SlotValue
  <2>3. \A g \in firsts : base + NewRank(g) \in Nat /\ g \in Nat
    BY <1>3, <1>4, SequenceFacts
  <2>4. \A k \in 1..base : k \in Nat
    BY <1>4
  <2>5. \A n \in Names : slots'[n] \in SlotValue
    BY <1>11, <2>1, <2>2, <2>3, <2>4
  <2> QED
    BY <1>1, <2>5
<1>13. ASSUME NEW n \in Names, NEW k \in 1..base PROVE slots'[n] = Final(k) <=> slots[n] = Final(k)
  <2>1. \A g \in firsts : base + NewRank(g) # k
    BY <1>4
  <2> QED
    BY <1>7, <1>11, <2>1
<1>14. InternTypeOK' /\ Kept' /\ Regions'
  <2>1. InternTypeOK'
    BY <1>1, <1>2, <1>3, <1>12 DEF InternTypeOK
  <2>2. Kept'
    BY <1>1, <1>2, <1>13 DEF Kept
  <2>3. Regions'
    BY <1>1, <1>2, <1>3 DEF Regions, Partitioning
  <2> QED
    BY <2>1, <2>2, <2>3
<1>15. Numbered'
  <2>1. \A n \in Names : KnownSlot(n)' <=> KnownSlot(n)
    BY <1>1, <1>13 DEF KnownSlot
  <2>2. \A g : NewRank(g)' = NewRank(g)
    BY <1>1 DEF NewRank
  <2>3. \A g : Pending(g)' = Pending(g) /\ Final(base + NewRank(g))' = Final(base + NewRank(g))
    BY <1>1, <2>2 DEF Pending, Final
  <2>4. \A n \in Names : slots'[n] = Vacant \/ KnownSlot(n)' \/ \E g \in firsts : NameAt(sequence[g]) = n
    BY <1>1, <1>11 DEF KnownSlot
  <2> QED
    BY <1>1, <1>2, <1>3, <1>6, <1>10, <2>2, <2>3, <2>4 DEF Numbered
<1>16. Direct' /\ PassOne' /\ Scattered' /\ Marked'
  BY <1>1 DEF Direct, PassOne, Scattered, Marked
<1> QED
  BY <1>14, <1>15, <1>16 DEF InternInv

LEMMA AppendNamesInv ==
  ASSUME InternInv, AppendNames
  PROVE  InternInv'
<1> DEFINE count == Cardinality(firsts)
           new == [k \in 1..count |->
                     NameAt(sequence[CHOOSE g \in firsts : Cardinality({h \in firsts : h <= g}) = k])]
<1>1. /\ phase = "number" /\ <<"names", 0>> \in tasks /\ tasks' = tasks \ {<<"names", 0>>}
      /\ names' = names \o new
      /\ UNCHANGED <<batches, phase, base, cells, slots, pending, assigned, overflowed, work,
                     sequence, entries, probed, firsts>>
  BY DEF AppendNames, passVars
<1>2. InternTypeOK /\ Kept /\ Regions /\ Numbered /\ Partitioning
  BY <1>1 DEF InternInv, Partitioning
<1>3. /\ SequenceOK /\ Places' = Places
      /\ \A g : /\ ShardAt(g)' = ShardAt(g) /\ RegionRank(g)' = RegionRank(g)
                /\ ChunkAt(g)' = ChunkAt(g) /\ NameAt(sequence[g])' = NameAt(sequence[g])
      /\ \A t : Region(t)' = Region(t)
  BY <1>1, <1>2, SameSequence
<1>4. /\ base \in Nat /\ names \in Seq(Names) /\ Len(names) = base /\ firsts \subseteq DOMAIN sequence
  BY <1>1, <1>2 DEF InternTypeOK, Numbered
<1>5. /\ count \in Nat /\ \A g \in firsts : NewRank(g) \in 1..count
      /\ \A g, h \in firsts : NewRank(g) = NewRank(h) => g = h
      /\ \A k \in 1..count : \E g \in firsts : NewRank(g) = k
  BY <1>3, <1>4, NewRanks
<1>6. ASSUME NEW k \in 1..count, NEW g \in firsts, NewRank(g) = k
      PROVE  new[k] = NameAt(sequence[g])
  <2>1. (CHOOSE x \in firsts : NewRank(x) = k) = g
    BY <1>5, <1>6
  <2>2. (CHOOSE x \in firsts : Cardinality({h \in firsts : h <= x}) = k) = g
    BY <2>1 DEF NewRank
  <2> QED
    BY <2>2
<1> HIDE DEF new, count
<1>7. new \in Seq(Names) /\ Len(new) = count
  <2>1. \A k \in 1..count : new[k] \in Names
    <3> SUFFICES ASSUME NEW k \in 1..count PROVE new[k] \in Names
      OBVIOUS
    <3>1. PICK g \in firsts : NewRank(g) = k
      BY <1>5
    <3>2. NameAt(sequence[g]) \in Names
      BY <1>3, <1>4, SequenceFacts
    <3> QED
      BY <1>6, <3>1, <3>2
  <2>2. new \in [1..count -> Names]
    BY <2>1 DEF new
  <2> QED
    BY <1>5, <2>2, FunctionIsSeq
<1>8. /\ names' \in Seq(Names) /\ Len(names') = base + count
      /\ \A k \in 1..base : names'[k] = names[k]
      /\ \A k \in 1..count : names'[base + k] = new[k]
  <2>1. /\ names' \in Seq(Names) /\ Len(names') = base + count
        /\ \A i \in 1..(base + count) : names'[i] = IF i <= base THEN names[i] ELSE new[i - base]
    BY <1>1, <1>4, <1>7, ConcatProperties
  <2>2. \A k \in 1..base : k \in 1..(base + count) /\ k <= base
    BY <1>4, <1>5
  <2>3. \A k \in 1..count : base + k \in 1..(base + count) /\ ~(base + k <= base) /\ (base + k) - base = k
    BY <1>4, <1>5
  <2> QED
    BY <2>1, <2>2, <2>3
<1>9. \A g \in firsts : names'[base + NewRank(g)] = NameAt(sequence[g])
  BY <1>5, <1>6, <1>8
<1>10. \A t : <<"shard", t>> \in tasks' <=> <<"shard", t>> \in tasks
  <2> SUFFICES ASSUME NEW t PROVE <<"shard", t>> # <<"names", 0>>
    BY <1>1
  <2>1. <<"shard", t>>[1] = "shard" /\ <<"names", 0>>[1] = "names"
    OBVIOUS
  <2> QED
    BY <2>1
<1>11. InternTypeOK' /\ Kept' /\ Regions'
  <2>1. base <= Len(names')
    BY <1>4, <1>5, <1>8
  <2>2. InternTypeOK'
    BY <1>1, <1>2, <1>3, <1>8, <2>1 DEF InternTypeOK
  <2>3. Kept'
    BY <1>1, <1>2, <1>8 DEF Kept
  <2>4. Regions'
    BY <1>1, <1>2, <1>3 DEF Regions, Partitioning
  <2> QED
    BY <2>2, <2>3, <2>4
<1>12. Numbered'
  <2>1. \A n \in Names : KnownSlot(n)' <=> KnownSlot(n)
    BY <1>1 DEF KnownSlot
  <2>2. \A g : NewRank(g)' = NewRank(g) /\ SlotOf(g)' = SlotOf(g)
    BY <1>1, <1>3 DEF NewRank, SlotOf
  <2>3. \A g : Pending(g)' = Pending(g) /\ Final(base + NewRank(g))' = Final(base + NewRank(g))
    BY <1>1, <2>2 DEF Pending, Final
  <2>4. <<"names", 0>> \notin tasks'
    BY <1>1
  <2>5. UNCHANGED <<phase, base, slots, sequence, firsts>> /\ phase = "number"
    BY <1>1
  <2>6. /\ \A g \in firsts :
             SlotOf(g) = IF <<"shard", ShardAt(g)>> \in tasks THEN Pending(g) ELSE Final(base + NewRank(g))
        /\ \A n \in Names :
             slots[n] = Vacant \/ KnownSlot(n) \/ \E g \in firsts : NameAt(sequence[g]) = n
    BY <1>2, <2>5 DEF Numbered
  <2>7. (\A g \in firsts :
             SlotOf(g) = IF <<"shard", ShardAt(g)>> \in tasks THEN Pending(g) ELSE Final(base + NewRank(g)))'
    BY <1>3, <1>10, <2>2, <2>3, <2>5, <2>6
  <2>8. (\A n \in Names :
             slots[n] = Vacant \/ KnownSlot(n) \/ \E g \in firsts : NameAt(sequence[g]) = n)'
    BY <1>3, <2>1, <2>5, <2>6 DEF Vacant
  <2>9. /\ Len(names') = base' + Cardinality(firsts')
        /\ \A g \in firsts' : names'[base' + NewRank(g)'] = NameAt(sequence[g])'
    BY <1>3, <1>8, <1>9, <2>2, <2>5 DEF count
  <2> QED
    BY <2>4, <2>7, <2>8, <2>9 DEF Numbered
<1>13. Direct' /\ PassOne' /\ Scattered' /\ Marked'
  BY <1>1 DEF Direct, PassOne, Scattered, Marked
<1> QED
  BY <1>11, <1>12, <1>13 DEF InternInv

LEMMA NumberEndInv ==
  ASSUME InternInv, NumberEnd
  PROVE  InternInv'
<1> DEFINE count == Cardinality(firsts)
<1>1. /\ phase = "number" /\ tasks = {} /\ Return /\ base' = Len(names) /\ cells' = cells + count
      /\ UNCHANGED <<names, slots, pending, assigned, overflowed>>
  BY DEF NumberEnd, Succeed, passVars
<1>2. InternTypeOK /\ Kept /\ Numbered /\ Partitioning /\ SequenceOK
  BY <1>1 DEF InternInv, Partitioning, InternTypeOK, SequenceOK
<1>3. /\ base \in Nat /\ names \in Seq(Names) /\ Len(names) = base + count /\ firsts \subseteq DOMAIN sequence
      /\ slots \in [Names -> SlotValue] /\ cells = base
      /\ \A g \in firsts : names[base + NewRank(g)] = NameAt(sequence[g]) /\ SlotOf(g) = Final(base + NewRank(g))
  BY <1>1, <1>2 DEF InternTypeOK, Numbered, Kept
<1>4. /\ count \in Nat /\ \A g \in firsts : NewRank(g) \in 1..count
      /\ \A g, h \in firsts : NewRank(g) = NewRank(h) => g = h
      /\ \A k \in 1..count : \E g \in firsts : NewRank(g) = k
  BY <1>2, <1>3, NewRanks
<1> HIDE DEF count
<1>5. DOMAIN names = 1..(base + count)
  BY <1>3
<1>6. \A j, k : Final(k) # Vacant /\ (Final(j) = Final(k) => j = k)
  BY DEF Final, Vacant
<1>7. ASSUME NEW n \in Names
      PROVE  \/ slots[n] = Vacant
             \/ \E k \in 1..base : slots[n] = Final(k)
             \/ \E g \in firsts : NameAt(sequence[g]) = n /\ slots[n] = Final(base + NewRank(g))
  BY <1>1, <1>2, <1>3 DEF Numbered, KnownSlot, SlotOf
<1>8. ASSUME NEW n \in Names, NEW k \in DOMAIN names PROVE slots[n] = Final(k) <=> names[k] = n
  <2>1. CASE k \in 1..base
    BY <1>2, <2>1 DEF Kept
  <2>2. CASE k \notin 1..base
    <3>1. k - base \in 1..count /\ base + (k - base) = k
      BY <1>3, <1>4, <1>5, <2>2
    <3>2. PICK g \in firsts : NewRank(g) = k - base
      BY <1>4, <3>1
    <3>3. names[k] = NameAt(sequence[g]) /\ slots[NameAt(sequence[g])] = Final(k)
      BY <1>3, <3>1, <3>2 DEF SlotOf
    <3>4. ASSUME slots[n] = Final(k) PROVE n = NameAt(sequence[g])
      <4>1. PICK h \in firsts : NameAt(sequence[h]) = n /\ slots[n] = Final(base + NewRank(h))
        BY <1>6, <1>7, <2>2, <3>4
      <4>2. base + NewRank(h) = k /\ NewRank(h) \in 1..count
        BY <1>4, <1>6, <3>4, <4>1
      <4>3. NewRank(h) = k - base
        BY <1>3, <1>4, <3>1, <4>2
      <4> QED
        BY <1>4, <3>2, <4>1, <4>3
    <3> QED
      BY <3>3, <3>4
  <2> QED
    BY <2>1, <2>2
<1>9. ASSUME NEW n \in Names PROVE slots[n] = Vacant \/ \E k \in DOMAIN names : slots[n] = Final(k)
  <2>1. \A k \in 1..base : k \in DOMAIN names
    BY <1>3, <1>4, <1>5
  <2>2. \A g \in firsts : base + NewRank(g) \in DOMAIN names
    BY <1>3, <1>4, <1>5
  <2> QED
    BY <1>7, <2>1, <2>2
<1>10. /\ base' = Len(names') /\ cells' = Len(names') /\ ~overflowed' /\ phase # "idle"
       /\ \A s \in Shards : pending'[s] = <<>> /\ assigned'[s] = <<>>
  BY <1>1, <1>2, <1>3 DEF Kept, count
<1>11. pending' \in [Shards -> Seq(PendingName)]
  BY <1>1, <1>2 DEF InternTypeOK
<1> QED
  BY <1>1, <1>2, <1>3, <1>8, <1>9, <1>10, <1>11, ReturnInv

-----------------------------------------------------------------------------
(***************************************************************************)
(* The invariant                                                           *)
(***************************************************************************)

LEMMA InternNext == InternInv /\ [Next]_vars => InternInv'
<1> SUFFICES ASSUME InternInv, [Next]_vars PROVE InternInv'
  OBVIOUS
<1>1. CASE InOrderNext
  BY <1>1, QuietBegins, InternNameInv, ForgetNamesInv, QuietReturns DEF InOrderNext
<1>2. CASE PassesNext
  <2>1. ASSUME NEW p \in work, LookupOrPend(p) PROVE InternInv'
    BY <2>1, LookupOrPendInv
  <2>2. ASSUME NEW p \in work, Rewrite(p) PROVE InternInv'
    BY <2>2, QuietSteps
  <2> QED
    BY <1>2, <2>1, <2>2, QuietBegins, PassOneEnds, AssignPendingInv, QuietReturns DEF PassesNext
<1>3. CASE PartitionNext
  <2>1. ASSUME NEW p \in work, Find(p) PROVE InternInv'
    BY <2>1, QuietSteps
  <2>2. ASSUME NEW t \in tasks, Scatter(t[2]) \/ Mark(t[2]) \/ WriteChunk(t[2]) PROVE InternInv'
    <3>1. PICK d : d = t[2]
      OBVIOUS
    <3>2. Scatter(d) \/ Mark(d) \/ WriteChunk(d)
      BY <2>2, <3>1
    <3> QED
      BY <3>2, ScatterInv, MarkInv, WriteChunkInv
  <2>3. ASSUME NEW s \in Shards, Probe(s) \/ NumberShard(s) PROVE InternInv'
    BY <2>3, ProbeInv, NumberShardInv
  <2> QED
    BY <1>3, <2>1, <2>2, <2>3, QuietBegins, PartitionBegins, QuietReturns, ScatterEndInv, ProbeEndInv,
       RetainFinalInv, MarkEndInv, AppendNamesInv, NumberEndInv DEF PartitionNext
<1>4. CASE UNCHANGED vars
  <2>1. UNCHANGED <<batches, phase, base, names, cells, slots, pending, assigned, overflowed, work,
                    tasks, sequence, entries, probed, firsts>>
    BY <1>4 DEF vars
  <2>2. Places' = Places /\ (DistinctPositions' <=> DistinctPositions)
    BY <2>1 DEF Places, Jobs, DistinctPositions
  <2>3. InternTypeOK' /\ Kept' /\ Direct'
    BY <2>1, <2>2 DEF InternInv, InternTypeOK, Kept, Direct
  <2>4. PassOne'
    BY <2>1 DEF InternInv, PassOne, KnownSlot
  <2>5. Regions'
    BY <2>1 DEF InternInv, Regions, Partitioning, Region, ShardAt, PlaceShard, NameAt, Jobs
  <2>6. /\ \A g : /\ ShardAt(g)' = ShardAt(g) /\ NameAt(sequence[g])' = NameAt(sequence[g])
                  /\ RegionRank(g)' = RegionRank(g) /\ EntryOf(g)' = EntryOf(g) /\ SlotOf(g)' = SlotOf(g)
                  /\ NewRank(g)' = NewRank(g) /\ ChunkAt(g)' = ChunkAt(g) /\ Index(g)' = Index(g)
        /\ \A n : KnownSlot(n)' <=> KnownSlot(n)
    BY <2>1 DEF ShardAt, PlaceShard, NameAt, Jobs, RegionRank, Region, EntryOf, SlotOf, NewRank, ChunkAt,
                Index, KnownSlot
  <2>7. Scattered'
    BY <2>1, <2>6 DEF InternInv, Scattered
  <2>8. Marked' /\ Numbered'
    BY <2>1, <2>6 DEF InternInv, Marked, Numbered
  <2> QED
    BY <2>3, <2>4, <2>5, <2>7, <2>8 DEF InternInv
<1> QED
  BY <1>1, <1>2, <1>3, <1>4 DEF Next, Terminating

(* The invariant of interning: slots and names are inverse up to what the  *)
(* pass under way has made provisional, and provisional values are known   *)
(* to exactly one of the pending lists, the regions and the bitmap         *)
(* (try_intern_batch and the passes it calls).                             *)
THEOREM InternInvariant == Spec => []InternInv
<1>1. Init => InternInv
  BY InternInit
<1>2. InternInv /\ [Next]_vars => InternInv'
  BY InternNext
<1> QED
  BY <1>1, <1>2, PTL DEF Spec

(* Between batches, whichever path each took, with whatever scheduling,    *)
(* and whether it succeeded or overflowed: a name's slot holds an ID       *)
(* exactly when the table holds the name there, no pending name,           *)
(* assignment or provisional handle is left, and every symbol has its      *)
(* state (SymbolTable::try_intern_batch).                                  *)
THEOREM InternTableConsistent == Spec => []TableConsistent
<1>1. InternInv => TableConsistent
  BY DEF InternInv, TableConsistent, Kept, Direct
<1> QED
  BY <1>1, InternInvariant, PTL

-----------------------------------------------------------------------------
(***************************************************************************)
(* The refinement of InternAbs                                             *)
(*                                                                         *)
(* The table is what `names' was up to `base'.  The invariant adds where   *)
(* each pass is on its way to the numbering by first occurrence.           *)
(***************************************************************************)
Known(n) == \E k \in 1..base : names[k] = n
New == {n \in Names : (\E p \in Places : NameAt(p) = n) /\ ~Known(n)}
Added == (base + 1)..Len(names)

IsFirst(a, n) ==
  /\ \E p \in Places : NameAt(p) = n /\ Occurrence(p) = a
  /\ \A p \in Places : NameAt(p) = n => ~Less(Occurrence(p), a)

First(n) == Abstract!FirstOccurrence(Jobs, n)
Earlier(m, n) == Less(First(m), First(n)) \/ (First(m) = First(n) /\ m < n)

(* What has been appended: new names, in the order of first occurrences.   *)
InFirstOrder ==
  /\ \A k \in Added : names[k] \in New /\ IsFirst(First(names[k]), names[k])
  /\ \A j, k \in Added : j < k => Earlier(names[j], names[k])

Complete == \A n \in New : \E k \in Added : names[k] = n

Bounded ==
  /\ Len(names) <= Limit
  /\ phase # "idle" => ids = [p \in Places |-> ids[p]]

Sorted == \A g, h \in DOMAIN sequence : g < h => Before(sequence[g], sequence[h])
Waiting == {sequence[g] : g \in DOMAIN sequence}

(* In order: what is not waiting has its ID, new names come before what    *)
(* waits, and what was appended was met where it first occurs.             *)
InOrderRef ==
  phase = "in_order" =>
    /\ DistinctPositions /\ Sorted /\ InFirstOrder
    /\ \A p \in Places \ Waiting :
         /\ slots[NameAt(p)] # Vacant /\ ids[p] = slots[NameAt(p)]
         /\ ~Known(NameAt(p)) => \A q \in Waiting : Before(p, q)
    /\ \A k \in Added : \E q \in Places \ Waiting :
         NameAt(q) = names[k] /\ First(names[k]) = Occurrence(q)

FindRef ==
  phase = "find" => \A p \in Places \ work : ids[p] = slots[NameAt(p)]

(* Pass 1: a place that was looked up has its slot's value, or the list    *)
(* was full; a pending name carries the first of the places looked up.     *)
FirstSeen(r, seen) ==
  /\ \E q \in seen : NameAt(q) = r.name /\ Occurrence(q) = r.first
  /\ \A q \in seen : NameAt(q) = r.name => ~Less(Occurrence(q), r.first)

PassOneRef ==
  phase = "look_up" =>
    /\ \A p \in Places \ work :
         IF slots[NameAt(p)] = Vacant
           THEN overflowed /\ Len(pending[PlaceShard(p)]) >= PendingLimit
           ELSE ids[p] = slots[NameAt(p)]
    /\ overflowed => \E n \in New : /\ slots[n] = Vacant
                                    /\ Len(pending[ShardOf[n]]) >= PendingLimit
    /\ \A s \in Shards : \A l \in DOMAIN pending[s] : FirstSeen(pending[s][l], Places \ work)

(* Pass 3: the table is complete, the IDs follow. *)
RewriteRef ==
  phase = "rewrite" =>
    /\ InFirstOrder /\ Complete
    /\ \A p \in Places :
         /\ slots[NameAt(p)] # Vacant
         /\ \/ ids[p] = slots[NameAt(p)]
            \/ /\ p \in work /\ ids[p].tag = "pending"
               /\ slots[NameAt(p)] = Final(assigned[PlaceShard(p)][ids[p].at])

LeastIndex(g) ==
  \A h \in DOMAIN sequence : NameAt(sequence[h]) = NameAt(sequence[g]) => g <= h

(* The partitioned path: the sequence holds the places of the new names;   *)
(* slots name the least index of their name, which becomes the bitmap; a   *)
(* chunk that was written has the IDs of its names' ranks.                 *)
PartitionOrder ==
  Partitioning =>
    /\ DistinctPositions /\ Sorted
    /\ \A p \in Places \ Waiting : Known(NameAt(p)) /\ ids[p] = slots[NameAt(p)]
    /\ \A q \in Waiting : ~Known(NameAt(q))

ClaimsLeast ==
  phase \in {"probe", "mark"} =>
    \A n \in Names : \A g \in DOMAIN sequence : slots[n] = Pending(g) => LeastIndex(g)

ClaimsAll == phase = "mark" => \A g \in DOMAIN sequence : SlotOf(g) # Vacant

NumberRef ==
  phase = "number" =>
    /\ firsts = {g \in DOMAIN sequence : LeastIndex(g)}
    /\ base + Cardinality(firsts) <= Limit
    /\ \A t \in tasks : t[1] = "chunk" => t[2] \in Nat
    /\ \A g \in DOMAIN sequence :
         /\ \E h \in firsts : /\ EntryOf(g) = Pending(h)
                              /\ NameAt(sequence[h]) = NameAt(sequence[g])
         /\ <<"chunk", ChunkAt(g)>> \in tasks \/ ids[sequence[g]] = IdOf(EntryOf(g))

PartitionRef == PartitionOrder /\ ClaimsLeast /\ ClaimsAll /\ NumberRef

Refining ==
  Bounded /\ InOrderRef /\ FindRef /\ PassOneRef /\ RewriteRef /\ PartitionRef

LEMMA TableFacts ==
  ASSUME InternTypeOK
  PROVE  /\ SubSeq(names, 1, base) \in Seq(Names) /\ Len(SubSeq(names, 1, base)) = base
         /\ DOMAIN SubSeq(names, 1, base) = 1..base
         /\ \A k \in 1..base : SubSeq(names, 1, base)[k] = names[k]
         /\ Len(names) \in Nat /\ base \in Nat /\ base <= Len(names) /\ DOMAIN names = 1..Len(names)
         /\ \A k \in DOMAIN names : names[k] \in Names
<1>1. names \in Seq(Names) /\ base \in Nat /\ base <= Len(names) /\ Len(names) \in Nat
  BY DEF InternTypeOK
<1>2. DOMAIN names = 1..Len(names) /\ \A k \in DOMAIN names : names[k] \in Names
  BY <1>1
<1>3. SubSeq(names, 1, base) = [k \in 1..base |-> names[k]]
  BY <1>1
<1>4. [k \in 1..base |-> names[k]] \in [1..base -> Names]
  BY <1>1, <1>2
<1> QED
  BY <1>1, <1>2, <1>3, <1>4, FunctionIsSeq

LEMMA OccurrenceFacts ==
  ASSUME InternTypeOK, phase # "idle"
  PROVE  /\ \A p \in Places : /\ Occurrence(p) \in Nat \X Nat /\ NameAt(p) \in Names
                              /\ Occurrence(p)[1] = Jobs[p[1]].position /\ Occurrence(p)[2] = p[2]
         /\ \A n : \A a : a \in Abstract!Occurs(Jobs, n) <=> \E p \in Places : NameAt(p) = n /\ Occurrence(p) = a
<1>1. batches \in Seq(Seq([position: Nat, names: Seq(Names)])) /\ batches # <<>>
  BY DEF InternTypeOK
<1>2. \A p \in Places : /\ NameAt(p) \in Names /\ Jobs[p[1]].position \in Nat /\ p[2] \in Nat
  BY <1>1, PlacesFacts
<1>3. \A p \in Places : /\ Occurrence(p) \in Nat \X Nat /\ NameAt(p) \in Names
                        /\ Occurrence(p)[1] = Jobs[p[1]].position /\ Occurrence(p)[2] = p[2]
  BY <1>2 DEF Occurrence
<1>4. ASSUME NEW n, NEW a
      PROVE  a \in Abstract!Occurs(Jobs, n) <=> \E p \in Places : NameAt(p) = n /\ Occurrence(p) = a
  <2>1. a \in Abstract!Occurs(Jobs, n) <=>
          \E j \in DOMAIN Jobs : \E i \in DOMAIN Jobs[j].names : Jobs[j].names[i] = n /\ a = <<Jobs[j].position, i>>
    BY DEF Abstract!Occurs
  <2>2. ASSUME NEW p \in Places
        PROVE  \E j \in DOMAIN Jobs : \E i \in DOMAIN Jobs[j].names : p = <<j, i>>
    BY DEF Places
  <2>3. ASSUME NEW j \in DOMAIN Jobs, NEW i \in DOMAIN Jobs[j].names
        PROVE  /\ <<j, i>> \in Places /\ NameAt(<<j, i>>) = Jobs[j].names[i]
               /\ Occurrence(<<j, i>>) = <<Jobs[j].position, i>>
    BY DEF Places, NameAt, Occurrence
  <2>4. ASSUME a \in Abstract!Occurs(Jobs, n)
        PROVE  \E p \in Places : NameAt(p) = n /\ Occurrence(p) = a
    <3>1. PICK j \in DOMAIN Jobs : \E i \in DOMAIN Jobs[j].names : Jobs[j].names[i] = n /\ a = <<Jobs[j].position, i>>
      BY <2>1, <2>4
    <3>2. PICK i \in DOMAIN Jobs[j].names : Jobs[j].names[i] = n /\ a = <<Jobs[j].position, i>>
      BY <3>1
    <3> QED
      BY <2>3, <3>2
  <2>5. ASSUME NEW p \in Places, NameAt(p) = n, Occurrence(p) = a
        PROVE  a \in Abstract!Occurs(Jobs, n)
    <3>1. PICK j \in DOMAIN Jobs : \E i \in DOMAIN Jobs[j].names : p = <<j, i>>
      BY <2>2
    <3>2. PICK i \in DOMAIN Jobs[j].names : p = <<j, i>>
      BY <3>1
    <3>3. Jobs[j].names[i] = n /\ a = <<Jobs[j].position, i>>
      BY <2>3, <2>5, <3>2
    <3> QED
      BY <2>1, <3>3
  <2> QED
    BY <2>4, <2>5
<1> QED
  BY <1>3, <1>4

LEMMA NewIs ==
  ASSUME InternTypeOK, phase # "idle"
  PROVE  Abstract!NewNames(Jobs) = New
<1>1. \A n : (\A k \in DOMAIN SubSeq(names, 1, base) : SubSeq(names, 1, base)[k] # n) <=> ~Known(n)
  BY TableFacts DEF Known
<1>2. \A n : Abstract!Occurs(Jobs, n) # {} <=> \E p \in Places : NameAt(p) = n
  BY OccurrenceFacts
<1> QED
  BY <1>1, <1>2 DEF Abstract!NewNames, New, Names

LEMMA FirstIs ==
  ASSUME InternTypeOK, phase # "idle", NEW a, NEW n, IsFirst(a, n)
  PROVE  First(n) = a
<1>1. \A b : b \in Abstract!Occurs(Jobs, n) <=> \E p \in Places : NameAt(p) = n /\ Occurrence(p) = b
  BY OccurrenceFacts
<1>2. \A b \in Abstract!Occurs(Jobs, n) : b \in Nat \X Nat
  BY <1>1, OccurrenceFacts
<1>3. a \in Abstract!Occurs(Jobs, n) /\ \A b \in Abstract!Occurs(Jobs, n) : ~Less(b, a)
  BY <1>1 DEF IsFirst
<1>4. \A b, c \in Nat \X Nat : Abstract!AtOrBefore(b, c) <=> ~Less(c, b)
  BY DEF Abstract!AtOrBefore, Less
<1>5. \A b, c \in Nat \X Nat : ~Less(b, c) /\ ~Less(c, b) => b = c
  BY DEF Less
<1>6. \A c \in Abstract!Occurs(Jobs, n) :
        (\A b \in Abstract!Occurs(Jobs, n) : Abstract!AtOrBefore(c, b)) <=> c = a
  BY <1>2, <1>3, <1>4, <1>5
<1> QED
  BY <1>3, <1>6 DEF First, Abstract!FirstOccurrence

LEMMA NewBeforeIs ==
  ASSUME NEW m, NEW n, First(m) \in Nat \X Nat, First(n) \in Nat \X Nat
  PROVE  Abstract!NewBefore(Jobs, m, n) <=> Earlier(m, n)
<1>1. \A a, b \in Nat \X Nat : a # b /\ Abstract!AtOrBefore(a, b) <=> Less(a, b)
  BY DEF Abstract!AtOrBefore, Less
<1> QED
  BY <1>1 DEF Abstract!NewBefore, First, Earlier

(* New names appended in the order of their first occurrences are numbered *)
(* as InternAbs says.                                                      *)
LEMMA NumberedIs ==
  ASSUME InternTypeOK, phase # "idle", InFirstOrder, Complete
  PROVE  /\ Cardinality(New) = Len(names) - base
         /\ names = SubSeq(names, 1, base) \o Abstract!Numbered(Jobs)
<1> DEFINE m == Len(names) - base
           q == [k \in 1..m |-> names[base + k]]
<1>0. m \in Nat /\ Len(names) = base + m
  BY TableFacts
<1>1. ASSUME NEW k \in 1..m
      PROVE /\ base + k \in Added /\ q[k] = names[base + k] /\ q[k] \in New
            /\ First(q[k]) \in Nat \X Nat /\ q[k] \in Nat
  <2>1. base + k \in Added
    BY TableFacts DEF Added
  <2>2. q[k] = names[base + k]
    OBVIOUS
  <2>3. q[k] \in New /\ IsFirst(First(q[k]), q[k])
    BY <2>1, <2>2 DEF InFirstOrder
  <2>4. First(q[k]) \in Nat \X Nat
    BY <2>3, OccurrenceFacts DEF IsFirst
  <2>5. q[k] \in Nat
    BY <2>3 DEF New, Names
  <2> QED
    BY <2>1, <2>2, <2>3, <2>4, <2>5
<1>2. ASSUME NEW j \in 1..m, NEW k \in 1..m, j < k
      PROVE  Earlier(q[j], q[k])
  <2>1. base + j < base + k
    BY <1>2, TableFacts
  <2>2. Earlier(names[base + j], names[base + k])
    BY <1>1, <2>1 DEF InFirstOrder
  <2> QED
    BY <1>1, <2>2
<1> HIDE DEF q
<1>3. ASSUME NEW j \in 1..m, NEW k \in 1..m, Earlier(q[j], q[k])
      PROVE  j < k
  <2>1. ~Earlier(q[k], q[j])
    BY <1>1, <1>3 DEF Earlier, Less
  <2>2. q[j] # q[k]
    BY <1>1, <1>3 DEF Earlier, Less
  <2> QED
    BY <1>0, <1>2, <2>1, <2>2
<1>4. \A j, k \in 1..m : q[j] = q[k] => j = k
  <2> SUFFICES ASSUME NEW j \in 1..m, NEW k \in 1..m, q[j] = q[k], j < k PROVE FALSE
    BY <1>0
  <2>1. Earlier(q[j], q[k])
    BY <1>2
  <2>2. k < j
    BY <1>3, <2>1
  <2> QED
    BY <1>0, <2>2
<1>5. \A n \in New : \E k \in 1..m : q[k] = n
  <2> SUFFICES ASSUME NEW n \in New PROVE \E k \in 1..m : q[k] = n
    OBVIOUS
  <2>1. PICK i \in Added : names[i] = n
    BY DEF Complete
  <2>2. i - base \in 1..m /\ base + (i - base) = i
    BY <1>0, TableFacts DEF Added
  <2> QED
    BY <1>1, <2>1, <2>2
<1>6. ASSUME NEW k \in 0..m, NEW S, S = {q[j] : j \in 1..k}
      PROVE  IsFiniteSet(S) /\ Cardinality(S) = k
  <2> DEFINE f == [j \in 1..k |-> q[j]]
  <2>1. 1..k \subseteq 1..m /\ k \in Nat
    BY <1>0
  <2>2. f \in [1..k -> S] /\ \A i, j \in 1..k : f[i] = f[j] => i = j
    BY <1>4, <1>6, <2>1
  <2>4. \A x \in S : \E j \in 1..k : f[j] = x
    BY <1>6
  <2> HIDE DEF f
  <2>5. f \in Bijection(1..k, S)
    BY <2>2, <2>4 DEF Bijection, Injection, Surjection, IsInjective
  <2>6. ExistsBijection(1..k, S)
    BY <2>5 DEF ExistsBijection
  <2>3. IsFiniteSet(1..k) /\ Cardinality(1..k) = k
    BY <2>1, FS_Interval
  <2> QED
    BY <2>3, <2>6, FS_Bijection
<1>7. Cardinality(New) = m
  <2>1. New = {q[j] : j \in 1..m}
    BY <1>1, <1>5
  <2>2. m \in 0..m
    BY <1>0
  <2> HIDE DEF m
  <2> QED
    BY <1>6, <2>1, <2>2
<1>8. ASSUME NEW k \in 1..m
      PROVE  Cardinality({x \in New : Abstract!NewBefore(Jobs, x, q[k])}) = k - 1
  <2>1. k - 1 \in 0..m /\ \A j \in 1..m : j < k <=> j \in 1..(k - 1)
    BY <1>0
  <2>2. \A x \in New : Abstract!NewBefore(Jobs, x, q[k]) <=> Earlier(x, q[k])
    BY <1>1, <1>5, NewBeforeIs
  <2>3. \A j \in 1..m : Earlier(q[j], q[k]) <=> j < k
    BY <1>2, <1>3
  <2>4. \A j \in 1..(k - 1) : j \in 1..m
    BY <1>0
  <2>5. {x \in New : Abstract!NewBefore(Jobs, x, q[k])} = {q[j] : j \in 1..(k - 1)}
    <3> HIDE DEF m
    <3> QED
      BY <1>1, <1>5, <2>1, <2>2, <2>3, <2>4
  <2> HIDE DEF m
  <2> QED
    BY <1>6, <2>1, <2>5
<1>9. ASSUME NEW k \in 1..m
      PROVE  (CHOOSE n \in New : Cardinality({x \in New : Abstract!NewBefore(Jobs, x, n)}) = k - 1) = q[k]
  <2>1. \A n \in New : Cardinality({x \in New : Abstract!NewBefore(Jobs, x, n)}) = k - 1 => n = q[k]
    <3> SUFFICES ASSUME NEW n \in New, Cardinality({x \in New : Abstract!NewBefore(Jobs, x, n)}) = k - 1
                 PROVE  n = q[k]
      OBVIOUS
    <3>1. PICK j \in 1..m : q[j] = n
      BY <1>5
    <3>2. j - 1 = k - 1
      BY <1>8, <3>1
    <3>3. j = k
      BY <1>0, <3>2
    <3> QED
      BY <3>1, <3>3
  <2>2. q[k] \in New /\ Cardinality({x \in New : Abstract!NewBefore(Jobs, x, q[k])}) = k - 1
    BY <1>1, <1>8
  <2> QED
    BY <2>1, <2>2
<1>10. Abstract!Numbered(Jobs) = q
  <2>1. Abstract!NewNames(Jobs) = New
    BY NewIs
  <2>2. Abstract!Numbered(Jobs) =
          [k \in 1..m |-> CHOOSE n \in New : Cardinality({x \in New : Abstract!NewBefore(Jobs, x, n)}) = k - 1]
    BY <1>7, <2>1 DEF Abstract!Numbered, Abstract!Cardinality, Cardinality
  <2>3. q = [k \in 1..m |-> q[k]]
    BY DEF q
  <2> HIDE DEF m
  <2> QED
    BY <1>9, <2>2, <2>3
<1>11. names = SubSeq(names, 1, base) \o q
  <2>1. names \in Seq(Names)
    BY DEF InternTypeOK
  <2>2. q \in [1..m -> Names]
    BY <1>0, <1>1, <2>1, TableFacts DEF q, New
  <2> DEFINE t == SubSeq(names, 1, base)
  <2>3. t \in Seq(Names) /\ Len(t) = base /\ \A k \in 1..base : t[k] = names[k]
    BY TableFacts
  <2> HIDE DEF t
  <2>4. \A k \in 1..m : q[k] = names[base + k]
    BY <1>1
  <2>5. base \in Nat /\ DOMAIN names = 1..Len(names)
    BY TableFacts
  <2> HIDE DEF m
  <2>6. q \in Seq(Names) /\ Len(q) = m
    BY <1>0, <2>2, FunctionIsSeq
  <2>7. t \o q \in Seq(Names) /\ Len(t \o q) = base + m
    BY <2>3, <2>6
  <2>8. \A k \in 1..(base + m) : (t \o q)[k] = names[k]
    BY <1>0, <2>3, <2>4, <2>5, <2>6
  <2>9. t \o q = names
    BY <1>0, <2>1, <2>7, <2>8
  <2> QED
    BY <2>9 DEF t
<1> QED
  BY <1>7, <1>10, <1>11

LEMMA NewFacts ==
  ASSUME InternTypeOK, phase # "idle"
  PROVE  IsFiniteSet(New) /\ Cardinality(New) \in Nat /\ New \subseteq Names
<1>1. New \in SUBSET Names
  BY DEF New
<1>2. IsFiniteSet(Names)
  BY InternAssumption, FS_Interval DEF Names
<1> QED
  BY <1>1, <1>2, FS_Subset, FS_CardinalityType

LEMMA NamesDistinct ==
  ASSUME InternTypeOK, Kept, phase # "idle", InFirstOrder
  PROVE  \A j, k \in DOMAIN names : names[j] = names[k] => j = k
<1> SUFFICES ASSUME NEW j \in DOMAIN names, NEW k \in DOMAIN names, names[j] = names[k], j < k
             PROVE  FALSE
  BY TableFacts
<1>1. j \in Nat /\ k \in Nat /\ j \in 1..base \cup Added /\ k \in 1..base \cup Added /\ names[k] \in Names
  BY TableFacts DEF Added
<1>2. CASE k \in 1..base
  <2>1. j \in 1..base
    BY <1>1, <1>2, TableFacts
  <2>2. Final(j) = Final(k)
    BY <1>1, <1>2, <2>1 DEF Kept
  <2> QED
    BY <1>1, <2>2 DEF Final
<1>3. CASE k \in Added /\ j \in 1..base
  BY <1>3 DEF InFirstOrder, New, Known
<1>4. CASE k \in Added /\ j \in Added
  <2>1. Earlier(names[j], names[k]) /\ IsFirst(First(names[k]), names[k]) /\ names[k] \in Nat
    BY <1>1, <1>4 DEF InFirstOrder, Names
  <2>2. First(names[k]) \in Nat \X Nat
    BY <2>1, OccurrenceFacts DEF IsFirst
  <2> QED
    BY <2>1, <2>2 DEF Earlier, Less
<1> QED
  BY <1>1, <1>2, <1>3, <1>4

(* What a batch must have when it returns its IDs. *)
Finished ==
  /\ InFirstOrder /\ Complete
  /\ \A p \in Places : \E k \in DOMAIN names : names[k] = NameAt(p) /\ ids[p] = Final(k)

LEMMA SucceedRefines ==
  ASSUME InternTypeOK, Kept, phase # "idle", Bounded, Finished, Succeed, UNCHANGED names
  PROVE  Abstract!InternBatch
<1> DEFINE t == SubSeq(names, 1, base)
<1>1. batches # <<>> /\ batches' = Tail(batches) /\ base' = Len(names)
  BY DEF InternTypeOK, Succeed, Return
<1>2. SubSeq(names', 1, base') = names
  <2>1. names \in Seq(Names)
    BY DEF InternTypeOK
  <2>2. SubSeq(names, 1, Len(names)) = [k \in 1..Len(names) |-> names[k]]
    BY <2>1
  <2>3. names = [k \in 1..Len(names) |-> names[k]]
    BY <2>1
  <2> QED
    BY <1>1, <2>2, <2>3
<1>3. /\ Cardinality(New) = Len(names) - base /\ names = t \o Abstract!Numbered(Jobs)
  BY NumberedIs DEF Finished
<1>4. Len(t) = base /\ Len(names) <= Limit
  BY TableFacts DEF Bounded
<1>5. Abstract!Cardinality(Abstract!NewNames(Jobs)) = Cardinality(New)
  BY NewIs DEF Abstract!Cardinality, Cardinality
<1>6. Len(t) + Abstract!Cardinality(Abstract!NewNames(Jobs)) <= Limit
  <2> HIDE DEF t
  <2> QED
    BY <1>3, <1>4, <1>5, TableFacts, InternAssumption
<1>7. ASSUME NEW p \in Places
      PROVE  ids[p].at = Abstract!IdIn(names, Jobs[p[1]].names[p[2]])
  <2>1. PICK k \in DOMAIN names : names[k] = NameAt(p) /\ ids[p] = Final(k)
    BY DEF Finished
  <2>2. \A j \in DOMAIN names : names[j] = NameAt(p) => j = k
    BY <2>1, NamesDistinct DEF Finished
  <2>3. (CHOOSE j \in DOMAIN names : names[j] = NameAt(p)) = k
    BY <2>1, <2>2
  <2> QED
    BY <2>1, <2>3 DEF Abstract!IdIn, NameAt, Final
<1>8. outcome' = [status |-> "ok", ids |-> [p \in Places |-> ids[p].at]]
  BY DEF Succeed, Bounded
<1>9. [p \in Places |-> ids[p].at] = [p \in Places |-> Abstract!IdIn(names, Jobs[p[1]].names[p[2]])]
  BY <1>7
<1>10. outcome' = [status |-> "ok", ids |-> [p \in Places |-> Abstract!IdIn(names, Jobs[p[1]].names[p[2]])]]
  BY <1>8, <1>9
<1>11. outcome' = [status |-> "ok", ids |->
          [p \in UNION {{<<j, i>> : i \in DOMAIN Jobs[j].names} : j \in DOMAIN Jobs} |->
             Abstract!IdIn(SubSeq(names', 1, base'), Jobs[p[1]].names[p[2]])]]
  BY <1>2, <1>10 DEF Places
<1>12. SubSeq(names', 1, base') = SubSeq(names, 1, base) \o Abstract!Numbered(Jobs)
  BY <1>2, <1>3
<1>13. Len(SubSeq(names, 1, base)) + Abstract!Cardinality(Abstract!NewNames(Jobs)) <= Limit
  BY <1>6
<1> QED
  BY <1>1, <1>11, <1>12, <1>13 DEF Abstract!InternBatch, Jobs

LEMMA OverflowRefines ==
  ASSUME InternTypeOK, phase # "idle", Fail, base + Cardinality(New) > Limit,
         SubSeq(names', 1, base) = SubSeq(names, 1, base)
  PROVE  Abstract!Overflow
<1>1. /\ batches # <<>> /\ batches' = Tail(batches) /\ base' = base
      /\ outcome' = [status |-> "overflow"]
  BY DEF InternTypeOK, Fail, Return
<1>2. Abstract!Cardinality(Abstract!NewNames(Jobs)) = Cardinality(New)
  BY NewIs DEF Abstract!Cardinality, Cardinality
<1>3. Len(SubSeq(names, 1, base)) = base
  BY TableFacts
<1>4. Len(SubSeq(names, 1, base)) + Abstract!Cardinality(Abstract!NewNames(Jobs)) > Limit
  BY <1>2, <1>3
<1> QED
  BY <1>1, <1>4 DEF Abstract!Overflow, Jobs

(* While the batch and the table it began with stay, so do its new names   *)
(* and their first occurrences.                                            *)
LEMMA SameBatch ==
  ASSUME UNCHANGED <<batches, base>>, \A k \in 1..base : names'[k] = names[k]
  PROVE  /\ Places' = Places /\ Jobs' = Jobs /\ New' = New
         /\ \A p : NameAt(p)' = NameAt(p) /\ Occurrence(p)' = Occurrence(p) /\ PlaceShard(p)' = PlaceShard(p)
         /\ \A p, q : Before(p, q)' <=> Before(p, q)
         /\ \A n : (Known(n)' <=> Known(n)) /\ First(n)' = First(n)
         /\ \A a, n : IsFirst(a, n)' <=> IsFirst(a, n)
         /\ \A m, n : Earlier(m, n)' <=> Earlier(m, n)
         /\ DistinctPositions' <=> DistinctPositions
<1>1. Jobs' = Jobs
  BY DEF Jobs
<1>2. Places' = Places
  BY <1>1 DEF Places
<1>3. \A p : NameAt(p)' = NameAt(p) /\ Occurrence(p)' = Occurrence(p) /\ PlaceShard(p)' = PlaceShard(p)
  BY <1>1 DEF NameAt, Occurrence, PlaceShard
<1>4. \A p, q : Before(p, q)' <=> Before(p, q)
  BY <1>1 DEF Before
<1>5. \A n : Known(n)' <=> Known(n)
  BY DEF Known
<1>6. New' = New
  BY <1>2, <1>3, <1>5 DEF New
<1>7. \A n : First(n)' = First(n)
  BY <1>1 DEF First, Abstract!FirstOccurrence, Abstract!Occurs, Abstract!AtOrBefore
<1>8. \A a, n : IsFirst(a, n)' <=> IsFirst(a, n)
  BY <1>2, <1>3 DEF IsFirst
<1>9. \A m, n : Earlier(m, n)' <=> Earlier(m, n)
  BY <1>7 DEF Earlier
<1>10. DistinctPositions' <=> DistinctPositions
  BY <1>1 DEF DistinctPositions
<1> QED
  BY <1>1, <1>2, <1>3, <1>4, <1>5, <1>6, <1>7, <1>8, <1>9, <1>10

(* With distinct positions the places are ordered as they occur. *)
LEMMA BeforeFacts ==
  ASSUME batches \in Seq(Seq([position: Nat, names: Seq(Names)])), batches # <<>>, DistinctPositions
  PROVE  /\ \A p \in Places : ~Before(p, p)
         /\ \A p, q, r \in Places : Before(p, q) /\ Before(q, r) => Before(p, r)
         /\ \A p, q \in Places : p # q => Before(p, q) \/ Before(q, p)
         /\ \A p, q \in Places : Before(p, q) <=> Less(Occurrence(p), Occurrence(q))
<1>1. \A p \in Places : /\ Jobs[p[1]].position \in Nat /\ p[2] \in Nat /\ p[1] \in DOMAIN Jobs
                        /\ p = <<p[1], p[2]>>
  BY PlacesFacts
<1>2. \A p, q \in Places : Jobs[p[1]].position = Jobs[q[1]].position <=> p[1] = q[1]
  BY <1>1 DEF DistinctPositions
<1>3. \A p \in Places : Occurrence(p)[1] = Jobs[p[1]].position /\ Occurrence(p)[2] = p[2]
  BY DEF Occurrence
<1>4. \A p \in Places : ~Before(p, p)
  BY <1>1 DEF Before
<1>5. \A p, q, r \in Places : Before(p, q) /\ Before(q, r) => Before(p, r)
  BY <1>1, <1>2 DEF Before
<1>6. ASSUME NEW p \in Places, NEW q \in Places, p # q PROVE Before(p, q) \/ Before(q, p)
  <2>1. p[1] # q[1] \/ p[2] # q[2]
    BY <1>1, <1>6
  <2> QED
    BY <1>1, <1>2, <2>1 DEF Before
<1>7. \A p, q \in Places : Before(p, q) <=> Less(Occurrence(p), Occurrence(q))
  BY <1>1, <1>2, <1>3 DEF Before, Less
<1> QED
  BY <1>4, <1>5, <1>6, <1>7

(* InOrder sorts: each place of S once, an earlier one before a later one. *)
LEMMA InOrderSorts ==
  ASSUME batches \in Seq(Seq([position: Nat, names: Seq(Names)])), batches # <<>>,
         DistinctPositions, NEW S \in SUBSET Places
  PROVE  /\ DOMAIN InOrder(S) = 1..Cardinality(S)
         /\ \A g \in DOMAIN InOrder(S) : InOrder(S)[g] \in S
         /\ \A x \in S : \E g \in DOMAIN InOrder(S) : InOrder(S)[g] = x
         /\ \A g, h \in DOMAIN InOrder(S) : g < h => Before(InOrder(S)[g], InOrder(S)[h])
<1> DEFINE B == [p \in S |-> {q \in S : Before(q, p)}]
           I == InOrder(S)
           c == Cardinality(S)
<1>1. IsFiniteSet(S) /\ c \in Nat
  BY PlacesFacts, FS_Subset, FS_CardinalityType
<1>2. B \in [S -> SUBSET S] /\ \A p \in S : B[p] = {q \in S : Before(q, p)}
  OBVIOUS
<1>3. \A x \in S : x \notin B[x]
  BY BeforeFacts
<1>4. \A x, y \in S : y \in B[x] => B[y] \subseteq B[x]
  BY BeforeFacts
<1>5. \A x, y \in S : x # y => x \in B[y] \/ y \in B[x]
  BY BeforeFacts
<1>6. I = [k \in 1..c |-> CHOOSE p \in S : Cardinality({q \in S : Before(q, p)}) = k - 1]
  BY DEF InOrder
<1> HIDE DEF B, I
<1>7. /\ \A x \in S : Cardinality(B[x]) + 1 \in 1..c
      /\ \A x, y \in S : Cardinality(B[x]) = Cardinality(B[y]) => x = y
      /\ \A k \in 1..c : \E x \in S : Cardinality(B[x]) + 1 = k
  <2>1. \A x \in S : Cardinality(B[x]) + 1 \in 1..Cardinality(S)
    BY <1>1, <1>2, <1>3, <1>4, <1>5, OrderRank
  <2>2. \A x, y \in S : Cardinality(B[x]) = Cardinality(B[y]) => x = y
    BY <1>1, <1>2, <1>3, <1>4, <1>5, OrderRank
  <2>3. \A k \in 1..Cardinality(S) : \E x \in S : Cardinality(B[x]) + 1 = k
    BY <1>1, <1>2, <1>3, <1>4, <1>5, OrderRank
  <2> QED
    BY <2>1, <2>2, <2>3
<1>8. \A x \in S : IsFiniteSet(B[x]) /\ Cardinality(B[x]) \in Nat
  BY <1>1, <1>2, FS_Subset, FS_CardinalityType
<1> HIDE DEF c
<1>9. ASSUME NEW k \in 1..c
      PROVE  I[k] \in S /\ Cardinality(B[I[k]]) = k - 1
  <2>1. PICK x \in S : Cardinality(B[x]) + 1 = k
    BY <1>7
  <2>2. Cardinality(B[x]) = k - 1
    <3>1. k \in Nat /\ Cardinality(B[x]) \in Nat
      BY <1>1, <1>8
    <3> QED
      BY <2>1, <3>1, Predecessor
  <2>3. I[k] = CHOOSE p \in S : Cardinality({q \in S : Before(q, p)}) = k - 1
    BY <1>6
  <2>4. x \in S /\ Cardinality({q \in S : Before(q, x)}) = k - 1
    BY <1>2, <2>2
  <2>5. I[k] \in S /\ Cardinality({q \in S : Before(q, I[k])}) = k - 1
    BY <2>3, <2>4
  <2> QED
    BY <1>2, <2>5
<1>10. DOMAIN I = 1..c
  BY <1>6
<1>11. ASSUME NEW x \in S PROVE \E g \in 1..c : I[g] = x
  <2>1. PICK g \in 1..c : g = Cardinality(B[x]) + 1
    BY <1>7
  <2>2. Cardinality(B[I[g]]) = g - 1 /\ I[g] \in S
    BY <1>9
  <2>3. Cardinality(B[I[g]]) = Cardinality(B[x])
    BY <1>8, <2>1, <2>2
  <2> QED
    BY <1>7, <2>1, <2>2, <2>3
<1>12. ASSUME NEW g \in 1..c, NEW h \in 1..c, g < h PROVE Before(I[g], I[h])
  <2>1. /\ I[g] \in S /\ I[h] \in S /\ Cardinality(B[I[g]]) < Cardinality(B[I[h]])
    BY <1>1, <1>9, <1>12
  <2>2. I[g] # I[h]
    BY <1>8, <2>1
  <2>3. ASSUME I[h] \in B[I[g]] PROVE FALSE
    <3>1. B[I[h]] \in SUBSET B[I[g]]
      BY <1>4, <2>1, <2>3
    <3>2. Cardinality(B[I[h]]) <= Cardinality(B[I[g]])
      BY <1>8, <2>1, <3>1, FS_Subset
    <3> QED
      BY <1>8, <2>1, <3>2
  <2>4. I[g] \in B[I[h]]
    BY <1>5, <2>1, <2>2, <2>3
  <2> QED
    BY <1>2, <2>1, <2>4
<1>13. /\ \A g \in DOMAIN I : I[g] \in S
       /\ \A x \in S : \E g \in DOMAIN I : I[g] = x
       /\ \A g, h \in DOMAIN I : g < h => Before(I[g], I[h])
  BY <1>9, <1>10, <1>11, <1>12
<1> QED
  BY <1>10, <1>13 DEF I, c

LEMMA KnownIs ==
  ASSUME InternTypeOK, Kept
  PROVE  /\ \A n \in Names : Known(n) <=> KnownSlot(n)
         /\ \A n : KnownSlot(n) => slots[n] # Vacant /\ slots[n].tag = "id"
         /\ \A n \in New : ~KnownSlot(n)
<1>1. \A n \in Names : Known(n) <=> KnownSlot(n)
  BY DEF Kept, Known, KnownSlot
<1>2. \A n : KnownSlot(n) => slots[n] # Vacant /\ slots[n].tag = "id"
  BY DEF KnownSlot, Final, Vacant
<1> QED
  BY <1>1, <1>2 DEF New

(* Between batches, and before names are added, a slot is vacant or known. *)
LEMMA SettledSlots ==
  ASSUME InternInv, phase \in {"idle", "find"}
  PROVE  /\ Added = {} /\ \A n \in Names : slots[n] = Vacant <=> ~Known(n)
<1>1. InternTypeOK /\ Kept /\ Direct /\ Len(names) = base
  BY DEF InternInv, Kept
<1>2. Added = {} /\ DOMAIN names = 1..base
  BY <1>1, TableFacts DEF Added
<1>3. \A n \in Names : slots[n] = Vacant \/ KnownSlot(n)
  BY <1>1, <1>2 DEF Direct, KnownSlot
<1> QED
  BY <1>1, <1>2, <1>3, KnownIs

LEMMA NotPartitioned ==
  ASSUME phase' \in {"idle", "in_order", "find", "look_up", "rewrite"}
  PROVE  PartitionRef'
  BY DEF PartitionRef, PartitionOrder, ClaimsLeast, ClaimsAll, NumberRef, Partitioning

LEMMA IdleRefining ==
  ASSUME phase' = "idle", Len(names') <= Limit
  PROVE  Refining'
<1>1. Bounded'
  BY DEF Bounded
<1>2. InOrderRef' /\ FindRef' /\ PassOneRef' /\ RewriteRef' /\ PartitionRef'
  BY NotPartitioned DEF InOrderRef, FindRef, PassOneRef, RewriteRef
<1> QED
  BY <1>1, <1>2 DEF Refining

LEMMA SortedSequence ==
  ASSUME InternTypeOK, batches # <<>>, DistinctPositions, NEW S \in SUBSET Places, UNCHANGED batches, sequence' = InOrder(S)
  PROVE  Sorted' /\ Waiting' = S
<1>1. batches \in Seq(Seq([position: Nat, names: Seq(Names)]))
  BY DEF InternTypeOK
<1>2. \A p, q : Before(p, q)' <=> Before(p, q)
  BY DEF Before, Jobs
<1>3. /\ \A g \in DOMAIN sequence' : sequence'[g] \in S
      /\ \A x \in S : \E g \in DOMAIN sequence' : sequence'[g] = x
      /\ \A g, h \in DOMAIN sequence' : g < h => Before(sequence'[g], sequence'[h])
  BY <1>1, InOrderSorts
<1>4. Sorted'
  BY <1>2, <1>3 DEF Sorted
<1>5. Waiting' = S
  BY <1>3 DEF Waiting
<1> QED
  BY <1>4, <1>5

(* Before the numbering begins: what the sequence holds, and the rest. *)
LEMMA BeforeNumbering ==
  ASSUME InternInv, Refining, NEW S \in SUBSET Places, phase \in {"idle", "find"},
         (S = Missing /\ phase = "find" /\ work = {}) \/ S = Places
  PROVE  \A p \in Places \ S : Known(NameAt(p)) /\ ids[p] = slots[NameAt(p)] /\ slots[NameAt(p)] # Vacant
<1> SUFFICES ASSUME NEW p \in Places \ S
             PROVE  Known(NameAt(p)) /\ ids[p] = slots[NameAt(p)] /\ slots[NameAt(p)] # Vacant
  OBVIOUS
<1>1. S = Missing /\ phase = "find" /\ work = {}
  OBVIOUS
<1>2. ids[p] = slots[NameAt(p)] /\ ids[p] # Vacant
  BY <1>1 DEF Refining, FindRef, Missing
<1>3. NameAt(p) \in Names
  BY <1>1, OccurrenceFacts DEF InternInv
<1> QED
  BY <1>2, <1>3, SettledSlots

LEMMA BeginInOrderRef ==
  ASSUME InternInv, Refining, BeginInOrder \/ MissingInOrder
  PROVE  Refining'
<1>1. /\ phase \in {"idle", "find"} /\ phase' = "in_order"
      /\ UNCHANGED <<batches, base, names, slots>>
  BY DEF BeginInOrder, MissingInOrder, Begin, tableVars
<1>2. InternTypeOK /\ Kept /\ batches # <<>> /\ DistinctPositions
  BY DEF BeginInOrder, MissingInOrder, Begin, InternInv, InternTypeOK
<1>3. PICK S \in SUBSET Places :
        /\ sequence' = InOrder(S)
        /\ (S = Missing /\ phase = "find" /\ work = {} /\ ids' = ids) \/ S = Places
  BY DEF BeginInOrder, MissingInOrder, Missing
<1>4. /\ Places' = Places /\ \A n : Known(n)' <=> Known(n)
      /\ \A p : NameAt(p)' = NameAt(p)
      /\ DistinctPositions'
  BY <1>1, <1>2, SameBatch
<1>5. Sorted' /\ Waiting' = S
  BY <1>1, <1>2, <1>3, SortedSequence
<1>6. \A p \in Places \ S : Known(NameAt(p)) /\ ids'[p] = slots[NameAt(p)] /\ slots[NameAt(p)] # Vacant
  BY <1>1, <1>3, BeforeNumbering
<1>7. Added' = {}
  BY <1>1, SettledSlots DEF Added
<1>8. InOrderRef'
  BY <1>1, <1>4, <1>5, <1>6, <1>7 DEF InOrderRef, InFirstOrder
<1>9. ids' = [p \in Places |-> ids'[p]]
  <2>1. CASE BeginInOrder
    BY <2>1 DEF BeginInOrder, Begin
  <2>2. CASE MissingInOrder
    BY <2>2 DEF MissingInOrder, Refining, Bounded
  <2> QED
    BY <2>1, <2>2
<1>10. Bounded'
  BY <1>1, <1>4, <1>9 DEF Refining, Bounded
<1> QED
  BY <1>1, <1>8, <1>10, NotPartitioned DEF Refining, FindRef, PassOneRef, RewriteRef

LEMMA BeginPartitionRef ==
  ASSUME InternInv, Refining, BeginPartitioned \/ MissingPartitioned
  PROVE  Refining'
<1>1. /\ phase \in {"idle", "find"} /\ phase' = "scatter"
      /\ UNCHANGED <<batches, base, names, slots>>
  BY DEF BeginPartitioned, MissingPartitioned, NumberSequence, Begin, tableVars
<1>2. InternTypeOK /\ Kept /\ batches # <<>> /\ DistinctPositions
  BY DEF BeginPartitioned, MissingPartitioned, Begin, InternInv, InternTypeOK
<1>3. PICK S \in SUBSET Places :
        /\ sequence' = InOrder(S)
        /\ (S = Missing /\ phase = "find" /\ work = {} /\ ids' = ids) \/ (S = Places /\ names = <<>>)
  BY DEF BeginPartitioned, MissingPartitioned, NumberSequence, Missing
<1>4. /\ Places' = Places /\ \A n : Known(n)' <=> Known(n)
      /\ \A p : NameAt(p)' = NameAt(p)
      /\ DistinctPositions'
  BY <1>1, <1>2, SameBatch
<1>5. Sorted' /\ Waiting' = S
  BY <1>1, <1>2, <1>3, SortedSequence
<1>6. \A p \in Places \ S : Known(NameAt(p)) /\ ids'[p] = slots[NameAt(p)]
  BY <1>1, <1>3, BeforeNumbering
<1>7. ASSUME NEW q \in S PROVE ~Known(NameAt(q))
  <2>1. CASE names = <<>>
    BY <1>2, <2>1, TableFacts DEF Known
  <2>2. CASE S = Missing /\ phase = "find" /\ work = {}
    <3>1. NameAt(q) \in Names
      BY <1>2, <2>2, OccurrenceFacts
    <3>2. slots[NameAt(q)] = Vacant
      BY <2>2 DEF Refining, FindRef, Missing
    <3> QED
      BY <1>1, <3>1, <3>2, SettledSlots
  <2> QED
    BY <1>3, <2>1, <2>2
<1>8. PartitionRef'
  BY <1>1, <1>4, <1>5, <1>6, <1>7 DEF PartitionRef, PartitionOrder, ClaimsLeast, ClaimsAll, NumberRef
<1>9. ids' = [p \in Places |-> ids'[p]]
  <2>1. CASE BeginPartitioned
    BY <2>1 DEF BeginPartitioned, Begin
  <2>2. CASE MissingPartitioned
    BY <2>2 DEF MissingPartitioned, Refining, Bounded
  <2> QED
    BY <2>1, <2>2
<1>10. Bounded'
  BY <1>1, <1>4, <1>9 DEF Refining, Bounded
<1> QED
  BY <1>1, <1>8, <1>10 DEF Refining, FindRef, PassOneRef, RewriteRef, InOrderRef

LEMMA BeginPassesRef ==
  ASSUME InternInv, Refining, BeginLookUp \/ BeginPasses
  PROVE  Refining'
<1>1. /\ phase = "idle" /\ phase' \in {"find", "look_up"} /\ work' = Places
      /\ ids' = [p \in Places |-> Vacant]
      /\ UNCHANGED <<batches, base, names, slots, pending, overflowed>>
  BY DEF BeginLookUp, BeginPasses, Begin, tableVars, passVars
<1>2. Places' = Places
  BY <1>1 DEF Places, Jobs
<1>3. ~overflowed' /\ \A s \in Shards : DOMAIN pending'[s] = {}
  BY <1>1 DEF InternInv, Kept
<1>4. FindRef'
  BY <1>1, <1>2 DEF FindRef
<1>5. PassOneRef'
  BY <1>1, <1>2, <1>3 DEF PassOneRef
<1>6. Bounded'
  BY <1>1, <1>2 DEF Refining, Bounded
<1> QED
  BY <1>1, <1>4, <1>5, <1>6, NotPartitioned DEF Refining, RewriteRef, InOrderRef

LEMMA FindRefines ==
  ASSUME InternInv, Refining, NEW p, Find(p)
  PROVE  Refining'
<1>1. /\ phase = "find" /\ phase' = "find" /\ work' = work \ {p} /\ p \in work
      /\ ids' = [ids EXCEPT ![p] = slots[NameAt(p)]]
      /\ UNCHANGED <<batches, base, names, slots>>
  BY DEF Find, tableVars
<1>2. Places' = Places /\ \A q : NameAt(q)' = NameAt(q)
  BY <1>1 DEF Places, Jobs, NameAt
<1>3. ids = [q \in Places |-> ids[q]] /\ p \in Places
  BY <1>1 DEF Refining, Bounded, InternInv, InternTypeOK
<1>4. \A q \in Places : ids'[q] = IF q = p THEN slots[NameAt(p)] ELSE ids[q]
  BY <1>1, <1>3
<1>5. FindRef'
  BY <1>1, <1>2, <1>4 DEF FindRef, Refining
<1>6. ids' = [q \in Places |-> ids'[q]]
  BY <1>1, <1>3
<1>7. Bounded'
  BY <1>1, <1>2, <1>6 DEF Refining, Bounded
<1> QED
  BY <1>1, <1>5, <1>7, NotPartitioned DEF Refining, RewriteRef, InOrderRef, PassOneRef

(* Taking the head of the sequence. *)
LEMMA TakeHead ==
  ASSUME batches \in Seq(Seq([position: Nat, names: Seq(Names)])), batches # <<>>, DistinctPositions,
         sequence \in Seq(Places), sequence # <<>>, Sorted, UNCHANGED batches, sequence' = Tail(sequence)
  PROVE  /\ Head(sequence) \in Places /\ Waiting \subseteq Places
         /\ Waiting = Waiting' \cup {Head(sequence)} /\ Head(sequence) \notin Waiting'
         /\ \A q \in Waiting' : Before(Head(sequence), q)
         /\ Sorted'
<1> DEFINE p == Head(sequence)
           m == Len(sequence)
<1>1. /\ m \in Nat \ {0} /\ DOMAIN sequence = 1..m /\ p = sequence[1] /\ p \in Places
      /\ \A g \in 1..m : sequence[g] \in Places
  BY ElementOfSeq
<1>2. DOMAIN sequence' = 1..(m - 1) /\ \A g \in 1..(m - 1) : sequence'[g] = sequence[g + 1]
  OBVIOUS
<1>3. \A x, y : Before(x, y)' <=> Before(x, y)
  BY DEF Before, Jobs
<1> HIDE DEF m, p
<1>4. \A g \in 1..(m - 1) : g + 1 \in 1..m /\ 1 < g + 1
  BY <1>1
<1>5. \A g \in 1..m : g = 1 \/ (g - 1 \in 1..(m - 1) /\ (g - 1) + 1 = g)
  BY <1>1
<1>6. 1 \in 1..m
  BY <1>1
<1>7. \A g, h \in 1..m : g < h => Before(sequence[g], sequence[h])
  BY <1>1 DEF Sorted
<1>8. \A q \in Waiting' : \E g \in 1..(m - 1) : q = sequence[g + 1]
  BY <1>2 DEF Waiting
<1>9. \A q \in Waiting' : Before(p, q) /\ q \in Waiting
  BY <1>1, <1>4, <1>6, <1>7, <1>8 DEF Waiting
<1>10. Waiting \subseteq Places
  BY <1>1 DEF Waiting
<1>11. ASSUME NEW q \in Waiting PROVE q = p \/ q \in Waiting'
  <2>1. PICK g \in 1..m : q = sequence[g]
    BY <1>1 DEF Waiting
  <2>2. CASE g = 1
    BY <1>1, <2>1, <2>2
  <2>3. CASE g # 1
    <3>1. g - 1 \in 1..(m - 1) /\ (g - 1) + 1 = g
      BY <1>5, <2>3
    <3>2. sequence'[g - 1] = q
      BY <1>2, <2>1, <3>1
    <3> QED
      BY <1>2, <3>1, <3>2 DEF Waiting
  <2> QED
    BY <2>2, <2>3
<1>12. p \in Waiting
  BY <1>1, <1>6 DEF Waiting
<1>13. p \notin Waiting'
  BY <1>1, <1>9, BeforeFacts
<1>14. Sorted'
  <2> SUFFICES ASSUME NEW g \in 1..(m - 1), NEW h \in 1..(m - 1), g < h
               PROVE  Before(sequence'[g], sequence'[h])
    BY <1>2, <1>3 DEF Sorted
  <2>1. g + 1 < h + 1
    BY <1>1
  <2> QED
    BY <1>2, <1>4, <1>7, <2>1
<1> QED
  BY <1>1, <1>9, <1>10, <1>11, <1>12, <1>13, <1>14 DEF p

LEMMA InternNameRef ==
  ASSUME InternInv, Refining, InternName
  PROVE  Refining'
<1> DEFINE p == Head(sequence)
           n == NameAt(p)
<1>1. /\ phase = "in_order" /\ phase' = "in_order" /\ sequence # <<>> /\ sequence' = Tail(sequence)
      /\ UNCHANGED <<batches, base>>
  BY DEF InternName
<1>2. /\ InternTypeOK /\ Kept /\ Direct /\ batches # <<>> /\ sequence \in Seq(Places)
      /\ batches \in Seq(Seq([position: Nat, names: Seq(Names)]))
      /\ slots \in [Names -> SlotValue] /\ names \in Seq(Names)
  BY <1>1 DEF InternInv, InternTypeOK
<1>3. /\ DistinctPositions /\ Sorted /\ InFirstOrder
      /\ \A q \in Places \ Waiting :
           /\ slots[NameAt(q)] # Vacant /\ ids[q] = slots[NameAt(q)]
           /\ ~Known(NameAt(q)) => \A r \in Waiting : Before(q, r)
      /\ \A k \in Added : \E q \in Places \ Waiting : NameAt(q) = names[k] /\ First(names[k]) = Occurrence(q)
  BY <1>1 DEF Refining, InOrderRef
<1>4. /\ p \in Places /\ Waiting \subseteq Places
      /\ Waiting = Waiting' \cup {p} /\ p \notin Waiting'
      /\ \A q \in Waiting' : Before(p, q)
      /\ Sorted'
  BY <1>1, <1>2, <1>3, TakeHead
<1>5. n \in Names
  BY <1>1, <1>2, <1>4, OccurrenceFacts
<1>6. ids = [q \in Places |-> ids[q]] /\ Len(names) <= Limit
  BY <1>1 DEF Refining, Bounded
<1>7. \A k \in 1..base : names'[k] = names[k]
  <2>1. CASE UNCHANGED names
    BY <2>1
  <2>2. CASE names' = Append(names, n)
    <3>1. 1..base \subseteq 1..Len(names)
      BY <1>2, TableFacts
    <3>2. \A k \in 1..Len(names) : Append(names, n)[k] = names[k]
      BY <1>2, <1>5, AppendProperties
    <3> QED
      BY <2>2, <3>1, <3>2
  <2> QED
    BY <2>1, <2>2 DEF InternName
<1>8. /\ Places' = Places /\ New' = New
      /\ \A q : NameAt(q)' = NameAt(q) /\ Occurrence(q)' = Occurrence(q)
      /\ \A q, r : Before(q, r)' <=> Before(q, r)
      /\ \A m : (Known(m)' <=> Known(m)) /\ First(m)' = First(m)
      /\ \A a, m : IsFirst(a, m)' <=> IsFirst(a, m)
      /\ \A l, m : Earlier(l, m)' <=> Earlier(l, m)
      /\ DistinctPositions'
  BY <1>1, <1>3, <1>7, SameBatch
<1>9. FindRef' /\ PassOneRef' /\ RewriteRef' /\ PartitionRef'
  BY <1>1, NotPartitioned DEF FindRef, PassOneRef, RewriteRef
<1> HIDE DEF p
<1>10. CASE slots[n] # Vacant /\ ids' = [ids EXCEPT ![p] = slots[n]] /\ UNCHANGED <<names, slots>>
  <2>1. \A q \in Places : ids'[q] = IF q = p THEN slots[n] ELSE ids[q]
    BY <1>6, <1>10
  <2>2. Added' = Added
    BY <1>1, <1>10 DEF Added
  <2>3. InFirstOrder'
    BY <1>3, <1>8, <1>10, <2>2 DEF InFirstOrder
  <2>4. ASSUME NEW q \in Places \ Waiting'
        PROVE  /\ slots'[NameAt(q)] # Vacant /\ ids'[q] = slots'[NameAt(q)]
               /\ ~Known(NameAt(q)) => \A r \in Waiting' : Before(q, r)
    <3>1. CASE q = p
      BY <1>4, <1>10, <2>1, <3>1
    <3>2. CASE q # p
      BY <1>3, <1>4, <1>10, <2>1, <3>2
    <3> QED
      BY <3>1, <3>2
  <2>5. ASSUME NEW k \in Added' PROVE \E q \in Places \ Waiting' : NameAt(q) = names'[k] /\ First(names'[k]) = Occurrence(q)
    BY <1>3, <1>4, <1>10, <2>2
  <2>6. InOrderRef'
    BY <1>4, <1>8, <2>3, <2>4, <2>5 DEF InOrderRef
  <2>7. ids' = [q \in Places |-> ids'[q]] /\ Len(names') <= Limit
    BY <1>6, <1>10
  <2>8. Bounded'
    BY <1>8, <2>7 DEF Bounded
  <2> QED
    BY <1>9, <2>6, <2>8 DEF Refining
<1>11. CASE /\ slots[n] = Vacant /\ Len(names) < Limit
            /\ ids' = [ids EXCEPT ![p] = Final(Len(names) + 1)]
            /\ slots' = [slots EXCEPT ![n] = Final(Len(names) + 1)]
            /\ names' = Append(names, n)
  <2>1. \A q \in Places : ids'[q] = IF q = p THEN Final(Len(names) + 1) ELSE ids[q]
    BY <1>6, <1>11
  <2>2. \A m \in Names : slots'[m] = IF m = n THEN Final(Len(names) + 1) ELSE slots[m]
    BY <1>2, <1>11
  <2>3. /\ Len(names') = Len(names) + 1 /\ names'[Len(names) + 1] = n /\ Len(names) \in Nat /\ base \in Nat
        /\ base <= Len(names) /\ \A k \in 1..Len(names) : names'[k] = names[k]
    BY <1>2, <1>5, <1>11, AppendProperties, TableFacts
  <2>4. Added' = Added \cup {Len(names) + 1}
    BY <1>1, <2>3 DEF Added
  <2>5. \A k \in Added : names'[k] = names[k] /\ k < Len(names) + 1 /\ k # Len(names) + 1
    BY <2>3 DEF Added
  <2>6. \A q \in Places : NameAt(q) \in Names
    BY <1>1, <1>2, OccurrenceFacts
  <2>7. n \in New
    <3>1. ~Known(n)
      BY <1>2, <1>5, <1>11, KnownIs
    <3> QED
      BY <1>4, <1>5, <3>1 DEF New
  <2>8. IsFirst(Occurrence(p), n)
    <3>1. ASSUME NEW q \in Places, NameAt(q) = n PROVE ~Less(Occurrence(q), Occurrence(p))
      <4>1. q \in Waiting
        BY <1>3, <1>11, <3>1
      <4>2. q = p \/ Before(p, q)
        BY <1>4, <4>1
      <4>3. ~Before(q, p)
        BY <1>2, <1>3, <1>4, <4>2, BeforeFacts
      <4> QED
        BY <1>2, <1>3, <1>4, <4>3, BeforeFacts
    <3> QED
      BY <1>4, <3>1 DEF IsFirst
  <2>9. First(n) = Occurrence(p)
    BY <1>1, <1>2, <2>8, FirstIs
  <2>10. ASSUME NEW j \in Added PROVE Earlier(names[j], n)
    <3>1. PICK q \in Places \ Waiting : NameAt(q) = names[j] /\ First(names[j]) = Occurrence(q)
      BY <1>3
    <3>2. ~Known(NameAt(q))
      BY <1>3, <3>1 DEF InFirstOrder, New
    <3>3. Before(q, p)
      BY <1>3, <1>4, <3>2
    <3>4. Less(Occurrence(q), Occurrence(p))
      BY <1>2, <1>3, <1>4, <3>3, BeforeFacts
    <3> QED
      BY <2>9, <3>1, <3>4 DEF Earlier
  <2>11. ASSUME NEW k \in Added' PROVE names'[k] \in New /\ IsFirst(First(names'[k]), names'[k])
    <3>1. CASE k \in Added
      BY <1>3, <2>5, <3>1 DEF InFirstOrder
    <3>2. CASE k = Len(names) + 1
      BY <2>3, <2>7, <2>8, <2>9, <3>2
    <3> QED
      BY <2>4, <3>1, <3>2
  <2>12. ASSUME NEW j \in Added', NEW k \in Added', j < k PROVE Earlier(names'[j], names'[k])
    <3>1. j \in Added
      <4>1. k \in Nat /\ k <= Len(names) + 1 /\ j \in Nat
        BY <2>3, <2>4 DEF Added
      <4>2. j # Len(names) + 1
        BY <2>3, <2>12, <4>1
      <4> QED
        BY <2>4, <4>2
    <3>2. CASE k \in Added
      BY <1>3, <2>5, <2>12, <3>1, <3>2 DEF InFirstOrder
    <3>3. CASE k = Len(names) + 1
      BY <2>3, <2>5, <2>10, <3>1, <3>3
    <3> QED
      BY <2>4, <3>2, <3>3
  <2>13. InFirstOrder'
    BY <1>8, <2>11, <2>12 DEF InFirstOrder
  <2>14. \A k : Final(k) # Vacant
    BY DEF Final, Vacant
  <2>15. ASSUME NEW q \in Places \ Waiting'
         PROVE  /\ slots'[NameAt(q)] # Vacant /\ ids'[q] = slots'[NameAt(q)]
                /\ ~Known(NameAt(q)) => \A r \in Waiting' : Before(q, r)
    <3>1. CASE q = p
      BY <1>4, <1>5, <2>1, <2>2, <2>14, <3>1
    <3>2. CASE q # p
      <4>1. q \in Places \ Waiting
        BY <1>4, <3>2
      <4>2. NameAt(q) # n /\ NameAt(q) \in Names
        BY <1>3, <1>11, <2>6, <4>1
      <4> QED
        BY <1>3, <1>4, <2>1, <2>2, <3>2, <4>1, <4>2
    <3> QED
      BY <3>1, <3>2
  <2>16. ASSUME NEW k \in Added' PROVE \E q \in Places \ Waiting' : NameAt(q) = names'[k] /\ First(names'[k]) = Occurrence(q)
    <3>1. CASE k \in Added
      BY <1>3, <1>4, <2>5, <3>1
    <3>2. CASE k = Len(names) + 1
      BY <1>4, <2>3, <2>9, <3>2
    <3> QED
      BY <2>4, <3>1, <3>2
  <2>17. InOrderRef'
    BY <1>4, <1>8, <2>13, <2>15, <2>16 DEF InOrderRef
  <2>18. ids' = [q \in Places |-> ids'[q]]
    BY <1>6, <1>11
  <2>19. Len(names') <= Limit
    BY <1>11, <2>3, InternAssumption
  <2>20. Bounded'
    BY <1>8, <2>18, <2>19 DEF Bounded
  <2> QED
    BY <1>9, <2>17, <2>20 DEF Refining
<1> QED
  BY <1>10, <1>11 DEF InternName, p

LEMMA SucceedStep ==
  ASSUME InternInv, Refining, phase # "idle", Finished, Succeed, UNCHANGED names
  PROVE  Refining' /\ Abstract!Next
<1>1. InternTypeOK /\ Kept /\ Bounded
  BY DEF InternInv, Refining
<1>2. phase' = "idle" /\ Len(names') <= Limit
  BY <1>1 DEF Succeed, Return, Bounded
<1> QED
  BY <1>1, <1>2, IdleRefining, SucceedRefines DEF Abstract!Next

LEMMA OverflowStep ==
  ASSUME InternInv, Refining, phase # "idle", Fail, base + Cardinality(New) > Limit,
         names' = names \/ names' = SubSeq(names, 1, base)
  PROVE  Refining' /\ Abstract!Next
<1>1. InternTypeOK /\ Kept /\ Bounded
  BY DEF InternInv, Refining
<1>2. names \in Seq(Names) /\ base \in Nat /\ base <= Len(names) /\ Len(names) \in Nat /\ Len(names) <= Limit
  BY <1>1 DEF InternTypeOK, Bounded
<1>3. Len(SubSeq(names, 1, base)) = base /\ SubSeq(names, 1, base) \in Seq(Names)
  BY <1>2
<1>4. SubSeq(SubSeq(names, 1, base), 1, base) = SubSeq(names, 1, base)
  <2>1. SubSeq(names, 1, base) = [k \in 1..base |-> names[k]]
    BY <1>2
  <2> DEFINE t == SubSeq(names, 1, base)
  <2>2. \A k \in 1..base : t[k] = names[k]
    BY <2>1
  <2> HIDE DEF t
  <2>3. SubSeq(t, 1, base) = [k \in 1..base |-> t[k]]
    BY <1>2, <1>3 DEF t
  <2> QED
    BY <2>1, <2>2, <2>3 DEF t
<1>5. SubSeq(names', 1, base) = SubSeq(names, 1, base)
  BY <1>4
<1>6. phase' = "idle" /\ Len(names') <= Limit
  BY <1>2, <1>3, InternAssumption DEF Fail, Return
<1> QED
  BY <1>1, <1>5, <1>6, IdleRefining, OverflowRefines DEF Abstract!Next

(* All places have the value of their slot, and it is final. *)
LEMMA ResolvedIsFinished ==
  ASSUME InternTypeOK, phase # "idle", InFirstOrder,
         \A n \in Names : slots[n] = Vacant \/ \E k \in DOMAIN names : slots[n] = Final(k) /\ names[k] = n,
         \A p \in Places : slots[NameAt(p)] # Vacant /\ ids[p] = slots[NameAt(p)]
  PROVE  Finished
<1>1. \A p \in Places : NameAt(p) \in Names
  BY OccurrenceFacts
<1>2. \A p \in Places : \E k \in DOMAIN names : names[k] = NameAt(p) /\ ids[p] = Final(k)
  BY <1>1
<1>3. ASSUME NEW n \in New PROVE \E k \in Added : names[k] = n
  <2>1. PICK p \in Places : NameAt(p) = n
    BY DEF New
  <2>2. PICK k \in DOMAIN names : names[k] = n
    BY <1>2, <2>1
  <2>3. k \notin 1..base
    BY <2>2 DEF New, Known
  <2>4. k \in Added
    BY <2>3, TableFacts DEF Added
  <2> QED
    BY <2>2, <2>4
<1> QED
  BY <1>2, <1>3 DEF Finished, Complete

LEMMA AddedCount ==
  ASSUME InternTypeOK, Kept, phase # "idle", InFirstOrder
  PROVE  /\ {names[k] : k \in Added} \subseteq New
         /\ IsFiniteSet({names[k] : k \in Added})
         /\ Cardinality({names[k] : k \in Added}) = Len(names) - base
<1> DEFINE A == {names[k] : k \in Added}
           f == [k \in Added |-> names[k]]
<1>1. A \subseteq New
  BY DEF InFirstOrder
<1>2. Added \subseteq DOMAIN names
  BY TableFacts DEF Added
<1>3. f \in [Added -> A] /\ \A j, k \in Added : f[j] = f[k] => j = k
  BY <1>2, NamesDistinct
<1>4. \A x \in A : \E k \in Added : f[k] = x
  OBVIOUS
<1> HIDE DEF f, A
<1>5. ExistsBijection(Added, A)
  BY <1>3, <1>4 DEF ExistsBijection, Bijection, Injection, Surjection, IsInjective
<1>6. base + 1 \in Int /\ Len(names) \in Int /\ base \in Nat /\ base <= Len(names)
  BY TableFacts
<1>7. IsFiniteSet(Added) /\ Cardinality(Added) = IF base + 1 > Len(names) THEN 0 ELSE Len(names) - (base + 1) + 1
  BY <1>6, FS_Interval DEF Added
<1>8. Cardinality(Added) = Len(names) - base
  BY <1>6, <1>7
<1>9. IsFiniteSet(A) /\ Cardinality(A) = Cardinality(Added)
  BY <1>5, <1>7, FS_Bijection
<1> QED
  BY <1>1, <1>8, <1>9 DEF A

LEMMA InOrderEndRef ==
  ASSUME InternInv, Refining, InOrderEnd
  PROVE  Refining' /\ Abstract!Next
<1>1. phase = "in_order" /\ sequence = <<>> /\ Succeed /\ UNCHANGED names
  BY DEF InOrderEnd
<1>2. InternTypeOK /\ Direct
  BY DEF InternInv
<1>3. Waiting = {}
  BY <1>1 DEF Waiting
<1>4. InFirstOrder /\ \A p \in Places : slots[NameAt(p)] # Vacant /\ ids[p] = slots[NameAt(p)]
  BY <1>1, <1>3 DEF Refining, InOrderRef
<1>5. \A n \in Names : slots[n] = Vacant \/ \E k \in DOMAIN names : slots[n] = Final(k) /\ names[k] = n
  BY <1>1, <1>2 DEF Direct
<1>6. Finished
  BY <1>1, <1>2, <1>4, <1>5, ResolvedIsFinished
<1> QED
  BY <1>1, <1>6, SucceedStep

LEMMA AllFoundRef ==
  ASSUME InternInv, Refining, AllFound
  PROVE  Refining' /\ Abstract!Next
<1>1. phase = "find" /\ work = {} /\ Missing = {} /\ Succeed /\ UNCHANGED names
  BY DEF AllFound, tableVars
<1>2. InternTypeOK /\ Direct
  BY DEF InternInv
<1>3. InFirstOrder
  BY <1>1, SettledSlots DEF InFirstOrder
<1>4. \A p \in Places : slots[NameAt(p)] # Vacant /\ ids[p] = slots[NameAt(p)]
  BY <1>1 DEF Refining, FindRef, Missing
<1>5. \A n \in Names : slots[n] = Vacant \/ \E k \in DOMAIN names : slots[n] = Final(k) /\ names[k] = n
  BY <1>1, <1>2 DEF Direct
<1>6. Finished
  BY <1>1, <1>2, <1>3, <1>4, <1>5, ResolvedIsFinished
<1> QED
  BY <1>1, <1>6, SucceedStep

LEMMA RewriteEndRef ==
  ASSUME InternInv, Refining, RewriteEnd
  PROVE  Refining' /\ Abstract!Next
<1>1. phase = "rewrite" /\ work = {} /\ Succeed /\ UNCHANGED names
  BY DEF RewriteEnd, tableVars
<1>2. InternTypeOK /\ Direct
  BY DEF InternInv
<1>3. InFirstOrder /\ \A p \in Places : slots[NameAt(p)] # Vacant /\ ids[p] = slots[NameAt(p)]
  BY <1>1 DEF Refining, RewriteRef
<1>4. \A n \in Names : slots[n] = Vacant \/ \E k \in DOMAIN names : slots[n] = Final(k) /\ names[k] = n
  BY <1>1, <1>2 DEF Direct
<1>5. Finished
  BY <1>1, <1>2, <1>3, <1>4, ResolvedIsFinished
<1> QED
  BY <1>1, <1>5, SucceedStep

LEMMA ForgetNamesRef ==
  ASSUME InternInv, Refining, ForgetNames
  PROVE  Refining' /\ Abstract!Next
<1> DEFINE n == NameAt(Head(sequence))
           A == {names[k] : k \in Added}
<1>1. /\ phase = "in_order" /\ sequence # <<>> /\ slots[n] = Vacant /\ Len(names) >= Limit /\ Fail
      /\ names' = SubSeq(names, 1, base)
  BY DEF ForgetNames
<1>2. InternTypeOK /\ Kept /\ Direct /\ InFirstOrder /\ sequence \in Seq(Places)
  BY <1>1 DEF InternInv, InternTypeOK, Refining, InOrderRef
<1>3. Head(sequence) \in Places
  BY <1>1, <1>2
<1>4. n \in New /\ n \notin A
  <2>1. n \in Names
    BY <1>1, <1>2, <1>3, OccurrenceFacts
  <2>2. ~Known(n)
    BY <1>1, <1>2, <2>1, KnownIs
  <2>3. ASSUME NEW k \in Added, names[k] = n PROVE FALSE
    <3>1. k \in DOMAIN names
      BY <1>2, TableFacts DEF Added
    <3>2. slots[n] = Final(k)
      BY <1>1, <1>2, <2>1, <2>3, <3>1 DEF Direct
    <3> QED
      BY <1>1, <3>2 DEF Final, Vacant
  <2> QED
    BY <1>3, <2>1, <2>2, <2>3 DEF New
<1>5. A \subseteq New /\ IsFiniteSet(A) /\ Cardinality(A) = Len(names) - base
  BY <1>1, <1>2, AddedCount
<1>6. IsFiniteSet(New) /\ Cardinality(New) \in Nat
  BY <1>1, <1>2, NewFacts
<1> HIDE DEF A, n
<1>7. Cardinality(A \cup {n}) = Cardinality(A) + 1
  BY <1>4, <1>5, FS_AddElement
<1>8. A \cup {n} \in SUBSET New
  BY <1>4, <1>5
<1>9. Cardinality(A \cup {n}) <= Cardinality(New)
  BY <1>6, <1>8, FS_Subset
<1>10. base + Cardinality(New) > Limit
  <2>1. base \in Nat /\ Len(names) \in Nat
    BY <1>2, TableFacts
  <2> QED
    BY <1>1, <1>5, <1>6, <1>7, <1>9, <2>1, InternAssumption
<1> QED
  BY <1>1, <1>10, OverflowStep

LEMMA LookupOrPendRef ==
  ASSUME InternInv, Refining, NEW p \in work, LookupOrPend(p)
  PROVE  Refining'
<1> DEFINE n == NameAt(p)
           s == ShardOf[n]
           seen == Places \ work
           len == Len(pending[s])
<1>1. /\ phase = "look_up" /\ phase' = "look_up" /\ work' = work \ {p}
      /\ UNCHANGED <<batches, base, names>>
  BY DEF LookupOrPend
<1>2. /\ InternTypeOK /\ Kept /\ PassOne /\ p \in Places /\ batches # <<>>
      /\ slots \in [Names -> SlotValue] /\ pending \in [Shards -> Seq(PendingName)]
  BY <1>1 DEF InternInv, InternTypeOK
<1>3. /\ \A q \in seen : IF slots[NameAt(q)] = Vacant
                           THEN overflowed /\ Len(pending[PlaceShard(q)]) >= PendingLimit
                           ELSE ids[q] = slots[NameAt(q)]
      /\ overflowed => \E m \in New : slots[m] = Vacant /\ Len(pending[ShardOf[m]]) >= PendingLimit
      /\ \A t \in Shards : \A l \in DOMAIN pending[t] : FirstSeen(pending[t][l], seen)
  BY <1>1 DEF Refining, PassOneRef
<1>4. /\ Places' = Places /\ New' = New
      /\ \A q : NameAt(q)' = NameAt(q) /\ Occurrence(q)' = Occurrence(q) /\ PlaceShard(q)' = PlaceShard(q)
  BY <1>1, SameBatch
<1>5. Places' \ work' = seen \cup {p}
  BY <1>1, <1>2, <1>4
<1>6. /\ n \in Names /\ s \in Shards /\ \A q \in Places : Occurrence(q) \in Nat \X Nat /\ NameAt(q) \in Names
      /\ \A m \in Names : ShardOf[m] \in Shards
      /\ \A q : PlaceShard(q) = ShardOf[NameAt(q)]
  BY <1>1, <1>2, OccurrenceFacts, InternAssumption DEF PlaceShard
<1>7. ids = [q \in Places |-> ids[q]] /\ Len(names) <= Limit
  BY <1>1 DEF Refining, Bounded
<1>8. \A t \in Shards : /\ pending[t] \in Seq(PendingName) /\ Len(pending[t]) \in Nat
                        /\ DOMAIN pending[t] = 1..Len(pending[t])
                        /\ \A l \in DOMAIN pending[t] : pending[t][l] \in PendingName
  <2>1. \A t \in Shards : pending[t] \in Seq(PendingName)
    BY <1>2
  <2> QED
    BY <2>1
<1>9. \A t \in Shards : \A l \in DOMAIN pending[t] :
        ShardOf[pending[t][l].name] = t /\ slots[pending[t][l].name] = Pending(l)
  BY <1>1, <1>2 DEF PassOne
<1>10. \A j, k : /\ Final(k) # Vacant /\ Final(k) # Pending(j) /\ Pending(j) # Vacant
                 /\ (Pending(j) = Pending(k) => j = k)
                 /\ Final(k).tag = "id" /\ Pending(k).tag = "pending" /\ Pending(k).at = k
  BY DEF Final, Pending, Vacant
<1>11. Vacant.tag = "vacant"
  BY DEF Vacant
<1>12. \A a, b, c \in Nat \X Nat : /\ ~Less(a, a) /\ (Less(a, b) => ~Less(b, a))
                                   /\ (~Less(a, b) /\ Less(c, b) => ~Less(a, c))
  BY DEF Less
<1>13. FindRef' /\ InOrderRef' /\ RewriteRef' /\ PartitionRef'
  BY <1>1, NotPartitioned DEF FindRef, InOrderRef, RewriteRef
<1>14. SUFFICES
         /\ ids' = [q \in Places |-> ids'[q]]
         /\ \A q \in seen \cup {p} : IF slots'[NameAt(q)] = Vacant
                                       THEN overflowed' /\ Len(pending'[PlaceShard(q)]) >= PendingLimit
                                       ELSE ids'[q] = slots'[NameAt(q)]
         /\ overflowed' => \E m \in New : slots'[m] = Vacant /\ Len(pending'[ShardOf[m]]) >= PendingLimit
         /\ \A t \in Shards : \A l \in DOMAIN pending'[t] : FirstSeen(pending'[t][l], seen \cup {p})
  <2>1. Bounded'
    BY <1>1, <1>4, <1>7, <1>14 DEF Bounded
  <2>2. PassOneRef'
    BY <1>4, <1>5, <1>14 DEF PassOneRef, FirstSeen
  <2> QED
    BY <1>13, <2>1, <2>2 DEF Refining
<1> HIDE DEF n
<1>15. n = NameAt(p)
  BY DEF n
<1>16. ASSUME NEW t \in Shards, NEW l \in DOMAIN pending[t], pending[t][l].name # n
       PROVE  FirstSeen(pending[t][l], seen \cup {p})
  BY <1>3, <1>15, <1>16 DEF FirstSeen
<1>17. CASE /\ slots[n].tag = "id" /\ ids' = [ids EXCEPT ![p] = slots[n]]
            /\ UNCHANGED <<slots, pending, overflowed>>
  <2>1. ids' = [q \in Places |-> ids'[q]] /\ \A q \in Places : ids'[q] = IF q = p THEN slots[n] ELSE ids[q]
    BY <1>7, <1>17
  <2>2. slots[n] # Vacant
    BY <1>11, <1>17
  <2>3. \A t \in Shards : \A l \in DOMAIN pending[t] : pending[t][l].name # n
    BY <1>9, <1>10, <1>17
  <2>4. ASSUME NEW q \in seen \cup {p}
        PROVE  IF slots'[NameAt(q)] = Vacant
                 THEN overflowed' /\ Len(pending'[PlaceShard(q)]) >= PendingLimit
                 ELSE ids'[q] = slots'[NameAt(q)]
    <3>1. CASE q = p
      BY <1>2, <1>15, <1>17, <2>1, <2>2, <3>1
    <3>2. CASE q # p
      BY <1>3, <1>17, <2>1, <3>2
    <3> QED
      BY <3>1, <3>2
  <2>5. overflowed' => \E m \in New : slots'[m] = Vacant /\ Len(pending'[ShardOf[m]]) >= PendingLimit
    BY <1>3, <1>17
  <2> QED
    BY <1>16, <1>17, <2>1, <2>3, <2>4, <2>5
<1>18. CASE /\ slots[n].tag = "pending" /\ ids' = [ids EXCEPT ![p] = slots[n]]
            /\ pending' = IF Less(Occurrence(p), pending[s][slots[n].at].first)
                            THEN [pending EXCEPT ![s][slots[n].at].first = Occurrence(p)]
                            ELSE pending
            /\ UNCHANGED <<slots, overflowed>>
  <2>1. ids' = [q \in Places |-> ids'[q]] /\ \A q \in Places : ids'[q] = IF q = p THEN slots[n] ELSE ids[q]
    BY <1>7, <1>18
  <2>2. slots[n] # Vacant
    BY <1>11, <1>18
  <2>3. PICK l \in DOMAIN pending[s] : slots[n] = Pending(l) /\ pending[s][l].name = n
    <3>1. ~KnownSlot(n)
      BY <1>10, <1>18 DEF KnownSlot
    <3> QED
      BY <1>1, <1>2, <1>6, <2>2, <3>1 DEF PassOne
  <2>4. slots[n].at = l /\ pending[s][l] \in PendingName
    BY <1>6, <1>8, <1>10, <2>3
  <2> DEFINE old == pending[s][l]
             rec == IF Less(Occurrence(p), old.first) THEN [old EXCEPT !.first = Occurrence(p)] ELSE old
  <2>5. /\ rec.name = n /\ old.first \in Nat \X Nat
        /\ rec.first = IF Less(Occurrence(p), old.first) THEN Occurrence(p) ELSE old.first
    BY <2>3, <2>4 DEF PendingName
  <2>6. /\ pending' = IF Less(Occurrence(p), old.first) THEN [pending EXCEPT ![s][l].first = Occurrence(p)] ELSE pending
    BY <1>18, <2>4
  <2>7. \A t \in Shards : \A k \in DOMAIN pending[t] :
          pending'[t][k] = IF t = s /\ k = l THEN rec ELSE pending[t][k]
    BY <1>2, <1>6, <1>8, <2>3, <2>6
  <2>8. \A t \in Shards : DOMAIN pending'[t] = DOMAIN pending[t] /\ Len(pending'[t]) = Len(pending[t])
    <3>1. CASE Less(Occurrence(p), old.first)
      <4> DEFINE new == [pending[s] EXCEPT ![l] = [old EXCEPT !.first = Occurrence(p)]]
      <4>1. pending' = [pending EXCEPT ![s] = new]
        BY <2>6, <3>1
      <4>2. DOMAIN new = DOMAIN pending[s] /\ new \in Seq(PendingName)
        <5>1. [old EXCEPT !.first = Occurrence(p)] \in PendingName
          BY <1>2, <1>6, <2>4 DEF PendingName
        <5> HIDE DEF old, s
        <5> QED
          BY <1>6, <1>8, <5>1
      <4>3. Len(new) = Len(pending[s])
        BY <1>6, <1>8, <4>2
      <4> HIDE DEF new, s
      <4> QED
        BY <1>2, <4>1, <4>2, <4>3
    <3>2. CASE ~Less(Occurrence(p), old.first)
      BY <2>6, <3>2
    <3> QED
      BY <3>1, <3>2
  <2>9. FirstSeen(old, seen) /\ old.name = n
    BY <1>3, <1>6, <2>3
  <2> HIDE DEF rec, old, s
  <2>10. ASSUME NEW q \in seen \cup {p}, NameAt(q) = n PROVE ~Less(Occurrence(q), rec.first)
    <3>1. Occurrence(q) \in Nat \X Nat /\ Occurrence(p) \in Nat \X Nat
      BY <1>2, <1>6
    <3>2. CASE q = p
      BY <1>12, <2>5, <3>1, <3>2
    <3>3. CASE q \in seen
      <4>1. ~Less(Occurrence(q), old.first)
        BY <2>9, <2>10, <3>3 DEF FirstSeen
      <4> QED
        BY <1>12, <2>5, <3>1, <4>1
    <3> QED
      BY <3>2, <3>3
  <2>11. \E q \in seen \cup {p} : NameAt(q) = n /\ Occurrence(q) = rec.first
    <3>1. CASE Less(Occurrence(p), old.first)
      BY <1>15, <2>5, <3>1
    <3>2. CASE ~Less(Occurrence(p), old.first)
      BY <2>5, <2>9, <3>2 DEF FirstSeen
    <3> QED
      BY <3>1, <3>2
  <2>12. FirstSeen(rec, seen \cup {p})
    BY <2>5, <2>10, <2>11 DEF FirstSeen
  <2>13. ASSUME NEW t \in Shards, NEW k \in DOMAIN pending'[t] PROVE FirstSeen(pending'[t][k], seen \cup {p})
    <3>1. CASE t = s /\ k = l
      BY <2>3, <2>7, <2>12, <3>1
    <3>2. CASE ~(t = s /\ k = l)
      <4>1. k \in DOMAIN pending[t] /\ pending'[t][k] = pending[t][k]
        BY <2>7, <2>8, <3>2
      <4>2. pending[t][k].name # n
        BY <1>9, <1>10, <2>3, <3>2, <4>1 DEF s
      <4> QED
        BY <1>16, <4>1, <4>2
    <3> QED
      BY <3>1, <3>2
  <2>14. \A m \in Names : Len(pending'[ShardOf[m]]) = Len(pending[ShardOf[m]])
    BY <1>6, <2>8
  <2>15. ASSUME NEW q \in seen \cup {p}
         PROVE  IF slots'[NameAt(q)] = Vacant
                  THEN overflowed' /\ Len(pending'[PlaceShard(q)]) >= PendingLimit
                  ELSE ids'[q] = slots'[NameAt(q)]
    <3>1. CASE q = p
      BY <1>2, <1>15, <1>18, <2>1, <2>2, <3>1
    <3>2. CASE q # p
      BY <1>3, <1>6, <1>18, <2>1, <2>14, <3>2
    <3> QED
      BY <3>1, <3>2
  <2>16. overflowed' => \E m \in New : slots'[m] = Vacant /\ Len(pending'[ShardOf[m]]) >= PendingLimit
    BY <1>3, <1>18, <2>14 DEF New
  <2> QED
    BY <2>1, <2>13, <2>15, <2>16
<1>19. CASE /\ slots[n] = Vacant /\ len < PendingLimit
            /\ ids' = [ids EXCEPT ![p] = Pending(len + 1)]
            /\ slots' = [slots EXCEPT ![n] = Pending(len + 1)]
            /\ pending' = [pending EXCEPT ![s] = Append(pending[s], [name |-> n, first |-> Occurrence(p)])]
            /\ UNCHANGED overflowed
  <2> DEFINE rec == [name |-> n, first |-> Occurrence(p)]
             new == Append(pending[s], rec)
  <2>1. ids' = [q \in Places |-> ids'[q]] /\ \A q \in Places : ids'[q] = IF q = p THEN Pending(len + 1) ELSE ids[q]
    BY <1>7, <1>19
  <2>2. \A m \in Names : slots'[m] = IF m = n THEN Pending(len + 1) ELSE slots[m]
    BY <1>2, <1>19
  <2>3. rec.name = n /\ rec.first = Occurrence(p) /\ rec \in PendingName
    BY <1>2, <1>6 DEF PendingName
  <2>4. pending' = [pending EXCEPT ![s] = new]
    BY <1>19
  <2>5. ASSUME NEW q \in seen PROVE NameAt(q) # n
    <3> SUFFICES ASSUME NameAt(q) = n PROVE FALSE
      OBVIOUS
    <3>1. Len(pending[s]) >= PendingLimit
      BY <1>3, <1>6, <1>19
    <3> QED
      BY <1>6, <1>8, <1>19, <3>1, InternAssumption
  <2> HIDE DEF rec
  <2>6. FirstSeen(rec, seen \cup {p})
    BY <1>2, <1>6, <1>12, <1>15, <2>3, <2>5 DEF FirstSeen
  <2>7. ShardOf[n] = s /\ pending[s] \in Seq(PendingName) /\ len \in Nat /\ DOMAIN pending[s] = 1..len
    BY <1>6, <1>8
  <2> HIDE DEF s
  <2>8. /\ new \in Seq(PendingName) /\ DOMAIN new = 1..(len + 1) /\ Len(new) = len + 1
        /\ new[len + 1] = rec /\ \A k \in 1..len : new[k] = pending[s][k]
    BY <2>3, <2>7, AppendProperties
  <2> HIDE DEF new
  <2>9. pending'[s] = new /\ \A t \in Shards : t # s => pending'[t] = pending[t]
    BY <1>2, <1>6, <2>4
  <2>10. ASSUME NEW t \in Shards PROVE Len(pending'[t]) >= Len(pending[t])
    <3>1. CASE t = s
      BY <2>7, <2>8, <2>9, <3>1
    <3>2. CASE t # s
      BY <1>8, <2>9, <3>2
    <3> QED
      BY <3>1, <3>2
  <2>11. ASSUME NEW t \in Shards, Len(pending[t]) >= PendingLimit PROVE Len(pending'[t]) >= PendingLimit
    <3>1. Len(pending'[t]) \in Nat
      <4>1. CASE t = s
        BY <2>7, <2>8, <2>9, <4>1
      <4>2. CASE t # s
        BY <1>8, <2>9, <4>2
      <4> QED
        BY <4>1, <4>2
    <3> HIDE DEF len
    <3> QED
      BY <1>8, <2>10, <2>11, <3>1, InternAssumption
  <2>12. ASSUME NEW q \in seen \cup {p}
         PROVE  IF slots'[NameAt(q)] = Vacant
                  THEN overflowed' /\ Len(pending'[PlaceShard(q)]) >= PendingLimit
                  ELSE ids'[q] = slots'[NameAt(q)]
    <3>1. CASE q = p
      <4>1. slots'[NameAt(q)] = Pending(len + 1) /\ ids'[q] = Pending(len + 1)
        BY <1>2, <1>6, <1>15, <2>1, <2>2, <3>1
      <4> QED
        BY <1>10, <4>1
    <3>2. CASE q # p
      <4>1. q \in seen /\ NameAt(q) # n /\ NameAt(q) \in Names
        BY <1>6, <2>5, <3>2
      <4>2. slots'[NameAt(q)] = slots[NameAt(q)] /\ ids'[q] = ids[q]
        BY <2>1, <2>2, <3>2, <4>1
      <4>3. PlaceShard(q) \in Shards
        BY <1>6, <4>1
      <4> QED
        BY <1>3, <1>19, <2>11, <4>1, <4>2, <4>3
    <3> QED
      BY <3>1, <3>2
  <2>13. ASSUME overflowed' PROVE \E m \in New : slots'[m] = Vacant /\ Len(pending'[ShardOf[m]]) >= PendingLimit
    <3>1. PICK m \in New : slots[m] = Vacant /\ Len(pending[ShardOf[m]]) >= PendingLimit
      BY <1>3, <1>19, <2>13
    <3>2. m \in Names
      BY DEF New
    <3>3. m # n
      BY <1>19, <2>7, <3>1, InternAssumption
    <3> QED
      BY <1>6, <2>2, <2>11, <3>1, <3>2, <3>3
  <2>14. ASSUME NEW t \in Shards, NEW k \in DOMAIN pending'[t] PROVE FirstSeen(pending'[t][k], seen \cup {p})
    <3>1. CASE t = s /\ k = len + 1
      BY <2>6, <2>8, <2>9, <3>1
    <3>2. CASE ~(t = s /\ k = len + 1)
      <4>1. k \in DOMAIN pending[t] /\ pending'[t][k] = pending[t][k]
        <5>1. CASE t = s
          <6>1. k \in 1..len
            BY <2>7, <2>8, <2>9, <3>2, <5>1
          <6> QED
            BY <2>7, <2>8, <2>9, <5>1, <6>1
        <5>2. CASE t # s
          BY <2>9, <5>2
        <5> QED
          BY <5>1, <5>2
      <4>2. pending[t][k].name # n
        BY <1>9, <1>10, <1>19, <4>1
      <4> QED
        BY <1>16, <4>1, <4>2
    <3> QED
      BY <3>1, <3>2
  <2> QED
    BY <2>1, <2>12, <2>13, <2>14
<1>20. CASE /\ slots[n] = Vacant /\ len >= PendingLimit
            /\ ids' = [ids EXCEPT ![p] = Unresolvable] /\ overflowed' = TRUE
            /\ UNCHANGED <<slots, pending>>
  <2>1. ids' = [q \in Places |-> ids'[q]] /\ \A q \in Places : q # p => ids'[q] = ids[q]
    BY <1>7, <1>20
  <2>2. n \in New
    <3>1. ~Known(n)
      BY <1>2, <1>6, <1>20, KnownIs
    <3> QED
      BY <1>2, <1>6, <1>15, <3>1 DEF New
  <2>3. \A t \in Shards : \A l \in DOMAIN pending[t] : pending[t][l].name # n
    BY <1>9, <1>10, <1>20
  <2>4. ASSUME NEW q \in seen \cup {p}
        PROVE  IF slots'[NameAt(q)] = Vacant
                 THEN overflowed' /\ Len(pending'[PlaceShard(q)]) >= PendingLimit
                 ELSE ids'[q] = slots'[NameAt(q)]
    <3>1. CASE q = p
      BY <1>6, <1>15, <1>20, <3>1
    <3>2. CASE q # p
      BY <1>3, <1>20, <2>1, <3>2
    <3> QED
      BY <3>1, <3>2
  <2>5. \E m \in New : slots'[m] = Vacant /\ Len(pending'[ShardOf[m]]) >= PendingLimit
    BY <1>20, <2>2
  <2> QED
    BY <1>16, <1>20, <2>1, <2>3, <2>4, <2>5
<1> QED
  BY <1>17, <1>18, <1>19, <1>20 DEF LookupOrPend, n

LEMMA SameOrder ==
  ASSUME UNCHANGED <<batches, base, names>>
  PROVE  (InFirstOrder' <=> InFirstOrder) /\ (Complete' <=> Complete)
<1>1. Added' = Added
  BY DEF Added
<1>2. /\ New' = New /\ \A m : First(m)' = First(m)
      /\ \A a, m : IsFirst(a, m)' <=> IsFirst(a, m)
      /\ \A l, m : Earlier(l, m)' <=> Earlier(l, m)
  BY SameBatch
<1>3. InFirstOrder' <=> InFirstOrder
  BY <1>1, <1>2 DEF InFirstOrder
<1>4. Complete' <=> Complete
  BY <1>1, <1>2 DEF Complete
<1> QED
  BY <1>3, <1>4

(* After pass 1 every pending list holds new names with their first        *)
(* occurrences; unless a list was full, all of the new names.              *)
NameOf(r) == pending[r[1]][r[2]].name

LEMMA PassOneFacts ==
  ASSUME InternInv, Refining, PassOneDone
  PROVE  /\ InternTypeOK /\ Kept /\ phase = "look_up" /\ Len(names) = base /\ Added = {}
         /\ \A r \in PendingRecords :
              /\ r = <<r[1], r[2]>> /\ r[1] \in Shards /\ r[2] \in DOMAIN pending[r[1]]
              /\ NameOf(r) \in New /\ NameOf(r) \in Names
              /\ ShardOf[NameOf(r)] = r[1] /\ slots[NameOf(r)] = Pending(r[2])
              /\ IsFirst(pending[r[1]][r[2]].first, NameOf(r))
              /\ First(NameOf(r)) = pending[r[1]][r[2]].first
         /\ \A r, q \in PendingRecords : NameOf(r) = NameOf(q) => r = q
         /\ \A p \in Places : ~overflowed => slots[NameAt(p)] # Vacant /\ ids[p] = slots[NameAt(p)]
         /\ ~overflowed => \A n \in New : \E r \in PendingRecords : NameOf(r) = n
<1>1. /\ phase = "look_up" /\ work = {} /\ Len(names) = base /\ InternTypeOK /\ Kept /\ PassOne
  BY DEF PassOneDone, InternInv, Kept
<1>2. Added = {}
  BY <1>1, TableFacts DEF Added
<1>3. /\ \A p \in Places : IF slots[NameAt(p)] = Vacant THEN overflowed ELSE ids[p] = slots[NameAt(p)]
      /\ \A s \in Shards : \A l \in DOMAIN pending[s] : FirstSeen(pending[s][l], Places)
  BY <1>1 DEF Refining, PassOneRef
<1>4. ASSUME NEW r \in PendingRecords
      PROVE /\ r = <<r[1], r[2]>> /\ r[1] \in Shards /\ r[2] \in DOMAIN pending[r[1]]
            /\ NameOf(r) \in New /\ NameOf(r) \in Names
            /\ ShardOf[NameOf(r)] = r[1] /\ slots[NameOf(r)] = Pending(r[2])
            /\ IsFirst(pending[r[1]][r[2]].first, NameOf(r))
            /\ First(NameOf(r)) = pending[r[1]][r[2]].first
  <2>1. r = <<r[1], r[2]>> /\ r[1] \in Shards /\ r[2] \in DOMAIN pending[r[1]]
    BY DEF PendingRecords
  <2>2. ShardOf[NameOf(r)] = r[1] /\ slots[NameOf(r)] = Pending(r[2])
    BY <1>1, <2>1 DEF PassOne, NameOf
  <2>3. IsFirst(pending[r[1]][r[2]].first, NameOf(r))
    BY <1>3, <2>1 DEF FirstSeen, IsFirst, NameOf
  <2>4. First(NameOf(r)) = pending[r[1]][r[2]].first
    BY <1>1, <2>3, FirstIs
  <2>5. PICK q \in Places : NameAt(q) = NameOf(r)
    BY <2>3 DEF IsFirst
  <2>6. NameOf(r) \in Names
    BY <1>1, <2>5, OccurrenceFacts
  <2>7. ~KnownSlot(NameOf(r))
    <3>1. slots[NameOf(r)].tag = "pending"
      BY <2>2 DEF Pending
    <3> QED
      BY <1>1, <3>1, KnownIs
  <2>8. NameOf(r) \in New
    BY <1>1, <2>5, <2>6, <2>7, KnownIs DEF New
  <2> QED
    BY <2>1, <2>2, <2>3, <2>4, <2>6, <2>8
<1>5. ASSUME NEW r \in PendingRecords, NEW q \in PendingRecords, NameOf(r) = NameOf(q) PROVE r = q
  <2>1. r[1] = q[1] /\ Pending(r[2]) = Pending(q[2])
    BY <1>4, <1>5
  <2>2. r[2] = q[2]
    BY <2>1 DEF Pending
  <2> QED
    BY <1>4, <2>1, <2>2
<1>6. ASSUME NEW n \in New, ~overflowed PROVE \E r \in PendingRecords : NameOf(r) = n
  <2>1. PICK p \in Places : NameAt(p) = n
    BY DEF New
  <2>2. slots[n] # Vacant /\ ~KnownSlot(n) /\ n \in Names
    BY <1>1, <1>3, <1>6, <2>1, KnownIs DEF New
  <2>3. PICK l \in DOMAIN pending[ShardOf[n]] : pending[ShardOf[n]][l].name = n
    BY <1>1, <2>2 DEF PassOne
  <2>4. ShardOf[n] \in Shards
    BY <2>2, InternAssumption
  <2>5. <<ShardOf[n], l>> \in PendingRecords
    BY <2>4 DEF PendingRecords
  <2>6. NameOf(<<ShardOf[n], l>>) = n
    BY <2>3 DEF NameOf
  <2> QED
    BY <2>5, <2>6
<1> QED
  BY <1>1, <1>2, <1>3, <1>4, <1>5, <1>6

LEMMA AllKnownRef ==
  ASSUME InternInv, Refining, AllKnown
  PROVE  Refining' /\ Abstract!Next
<1>1. PassOneDone /\ PendingRecords = {} /\ Succeed /\ UNCHANGED names
  BY DEF AllKnown, tableVars
<1>2. /\ InternTypeOK /\ Kept /\ PassOne /\ phase = "look_up" /\ Len(names) = base /\ Added = {} /\ work = {}
  BY <1>1, PassOneFacts DEF InternInv, PassOneDone
<1>3. \A n \in Names : ShardOf[n] \in Shards
  BY InternAssumption
<1>4. \A s \in Shards : pending[s] \in Seq(PendingName) /\ DOMAIN pending[s] = {}
  <2>1. \A s \in Shards : pending[s] \in Seq(PendingName)
    BY <1>2 DEF InternTypeOK
  <2>2. ASSUME NEW s \in Shards, NEW l \in DOMAIN pending[s] PROVE FALSE
    <3>1. <<s, l>> \in PendingRecords
      BY DEF PendingRecords
    <3> QED
      BY <1>1, <3>1
  <2> QED
    BY <2>1, <2>2
<1>5. ~overflowed
  <2> SUFFICES ASSUME overflowed PROVE FALSE
    OBVIOUS
  <2>1. PICK n \in New : Len(pending[ShardOf[n]]) >= PendingLimit
    BY <1>2 DEF Refining, PassOneRef
  <2>2. ShardOf[n] \in Shards
    BY <1>3 DEF New
  <2>3. Len(pending[ShardOf[n]]) \in Nat /\ DOMAIN pending[ShardOf[n]] = 1..Len(pending[ShardOf[n]])
    BY <1>4, <2>2
  <2>4. 1 \in DOMAIN pending[ShardOf[n]]
    BY <2>1, <2>3, InternAssumption
  <2> QED
    BY <1>4, <2>2, <2>4
<1>6. \A p \in Places : slots[NameAt(p)] # Vacant /\ ids[p] = slots[NameAt(p)]
  BY <1>1, <1>5, PassOneFacts
<1>7. \A n \in Names : slots[n] = Vacant \/ KnownSlot(n)
  BY <1>2, <1>3, <1>4 DEF PassOne
<1>8. \A n \in Names : slots[n] = Vacant \/ \E k \in DOMAIN names : slots[n] = Final(k) /\ names[k] = n
  BY <1>2, <1>7, TableFacts DEF KnownSlot, Kept
<1>9. InFirstOrder
  BY <1>2 DEF InFirstOrder
<1>10. Finished
  BY <1>2, <1>6, <1>8, <1>9, ResolvedIsFinished
<1> QED
  BY <1>1, <1>2, <1>10, SucceedStep

LEMMA DiscardPendingRef ==
  ASSUME InternInv, Refining, DiscardPending
  PROVE  Refining' /\ Abstract!Next
<1>1. PassOneDone /\ PassOverflow /\ Fail /\ UNCHANGED names
  BY DEF DiscardPending
<1>2. InternTypeOK /\ Kept /\ phase = "look_up" /\ Len(names) = base /\ Len(names) <= Limit
  BY <1>1, PassOneFacts DEF Refining, Bounded
<1>3. base \in Nat /\ IsFiniteSet(New) /\ Cardinality(New) \in Nat
  BY <1>2, NewFacts, TableFacts
<1>4. CASE NewCount > Free(Limit, base)
  <2> DEFINE f == [r \in PendingRecords |-> NameOf(r)]
  <2>1. f \in [PendingRecords -> New] /\ \A r, q \in PendingRecords : f[r] = f[q] => r = q
    BY <1>1, PassOneFacts
  <2> HIDE DEF f
  <2>2. f \in Injection(PendingRecords, New)
    BY <2>1 DEF Injection, IsInjective
  <2>3. NewCount <= Cardinality(New)
    BY <1>3, <2>2, FS_Injection DEF NewCount
  <2>4. NewCount \in Nat
    BY <1>2, PendingRanks
  <2>5. NewCount > Limit - base
    BY <1>2, <1>3, <1>4, <2>4, InternAssumption DEF Free
  <2> QED
    <3>1. base + Cardinality(New) > Limit
      BY <1>3, <2>3, <2>4, <2>5, InternAssumption
    <3> QED
      BY <1>1, <1>2, <3>1, OverflowStep
<1>5. CASE overflowed
  <2>1. PICK n \in New : slots[n] = Vacant /\ Len(pending[ShardOf[n]]) >= PendingLimit
    BY <1>1, <1>2, <1>5 DEF Refining, PassOneRef
  <2> DEFINE s == ShardOf[n]
             len == Len(pending[s])
             f == [l \in 1..(len + 1) |-> IF l = len + 1 THEN n ELSE NameOf(<<s, l>>)]
  <2>2. s \in Shards
    BY InternAssumption DEF New
  <2>3. pending[s] \in Seq(PendingName)
    BY <1>2, <2>2 DEF InternTypeOK
  <2> HIDE DEF s
  <2>4. len \in Nat /\ DOMAIN pending[s] = 1..len /\ len >= PendingLimit
    BY <2>1, <2>3 DEF s
  <2>5. ASSUME NEW l \in 1..(len + 1), l # len + 1
        PROVE  /\ <<s, l>> \in PendingRecords
               /\ NameOf(<<s, l>>) \in New /\ NameOf(<<s, l>>) # n
    <3>1. l \in DOMAIN pending[s]
      BY <2>4, <2>5
    <3>2. <<s, l>> \in PendingRecords
      BY <2>2, <3>1 DEF PendingRecords
    <3>3. NameOf(<<s, l>>) \in New /\ slots[NameOf(<<s, l>>)] = Pending(<<s, l>>[2])
      BY <1>1, <3>2, PassOneFacts
    <3>4. slots[NameOf(<<s, l>>)] # Vacant
      BY <3>3 DEF Pending, Vacant
    <3> QED
      BY <2>1, <3>2, <3>3, <3>4
  <2> HIDE DEF len
  <2>6. f \in [1..(len + 1) -> New]
    BY <2>5
  <2>7. ASSUME NEW j \in 1..(len + 1), NEW k \in 1..(len + 1), f[j] = f[k] PROVE j = k
    <3>1. CASE j # len + 1 /\ k # len + 1
      <4>1. NameOf(<<s, j>>) = NameOf(<<s, k>>)
        BY <2>7, <3>1
      <4>2. <<s, j>> = <<s, k>>
        BY <1>1, <2>5, <3>1, <4>1, PassOneFacts
      <4> QED
        BY <4>2
    <3>2. CASE ~(j # len + 1 /\ k # len + 1)
      BY <2>5, <2>7, <3>2
    <3> QED
      BY <3>1, <3>2
  <2> HIDE DEF f
  <2>8. f \in Injection(1..(len + 1), New)
    BY <2>6, <2>7 DEF Injection, IsInjective
  <2>9. Cardinality(1..(len + 1)) <= Cardinality(New)
    BY <1>3, <2>8, FS_Injection
  <2>10. Cardinality(1..(len + 1)) = len + 1
    BY <2>4, FS_Interval
  <2>11. base + Cardinality(New) > Limit
    BY <1>3, <2>4, <2>9, <2>10, InternAssumption
  <2> QED
    BY <1>1, <1>2, <2>11, OverflowStep
<1> QED
  BY <1>1, <1>4, <1>5 DEF PassOverflow

LEMMA AssignPendingRef ==
  ASSUME InternInv, Refining, AssignPending
  PROVE  Refining'
<1>1. /\ PassOneDone /\ PendingRecords # {} /\ ~PassOverflow /\ phase' = "rewrite" /\ work' = Places
      /\ UNCHANGED <<batches, base, ids>>
      /\ cells' = cells + NewCount
      /\ assigned' = [s \in Shards |-> [l \in DOMAIN pending[s] |-> base + RankOf(<<s, l>>)]]
      /\ slots' = [n \in Names |-> IF slots[n].tag = "pending"
                     THEN Final(assigned'[ShardOf[n]][slots[n].at]) ELSE slots[n]]
  BY DEF AssignPending
<1>2. /\ InternTypeOK /\ Kept /\ phase = "look_up" /\ Len(names) = base /\ Len(names) <= Limit
      /\ base \in Nat /\ NewCount \in Nat
  BY <1>1, PassOneFacts, PendingRanks, TableFacts DEF Refining, Bounded
<1>3. ~overflowed /\ NewCount <= Free(Limit, base)
  BY <1>1, <1>2, InternAssumption DEF PassOverflow, Free
<1>4. InternTypeOK' /\ Kept' /\ Direct'
  BY AssignPendingInv DEF InternInv
<1>5. Len(names') = base + NewCount /\ Added' = (base + 1)..(base + NewCount) /\ DOMAIN names' = 1..(base + NewCount)
  <2>1. cells' = Len(names') /\ cells = base
    BY <1>1, <1>2, <1>4 DEF Kept
  <2>2. names' \in Seq(Names)
    BY <1>4 DEF InternTypeOK
  <2> QED
    BY <1>1, <2>1, <2>2 DEF Added
<1>6. Len(names') <= Limit
  BY <1>2, <1>3, <1>5, InternAssumption DEF Free
<1>7. \A k : Final(k).tag = "id" /\ Final(k) # Vacant
  BY DEF Final, Vacant
<1>8. ASSUME NEW k \in 1..base PROVE names'[k] = names[k]
  <2>1. names[k] \in Names
    BY <1>2, TableFacts
  <2>2. slots[names[k]] = Final(k)
    BY <1>2, <2>1 DEF Kept
  <2>3. slots'[names[k]] = Final(k)
    BY <1>1, <1>7, <2>1, <2>2
  <2> QED
    BY <1>1, <1>4, <2>1, <2>3 DEF Kept
<1>9. /\ Places' = Places /\ New' = New
      /\ \A q : NameAt(q)' = NameAt(q) /\ PlaceShard(q)' = PlaceShard(q)
      /\ \A m : First(m)' = First(m)
      /\ \A a, m : IsFirst(a, m)' <=> IsFirst(a, m)
      /\ \A l, m : Earlier(l, m)' <=> Earlier(l, m)
  BY <1>1, <1>8, SameBatch
<1>10. ASSUME NEW r \in PendingRecords
       PROVE  /\ RankOf(r) \in 1..NewCount /\ base + RankOf(r) \in Added'
              /\ names'[base + RankOf(r)] = NameOf(r)
  <2>1. RankOf(r) \in 1..NewCount
    BY <1>2, PendingRanks
  <2>2. base + RankOf(r) \in Added' /\ base + RankOf(r) \in DOMAIN names'
    BY <1>2, <1>5, <2>1
  <2>3. /\ r = <<r[1], r[2]>> /\ r[1] \in Shards /\ r[2] \in DOMAIN pending[r[1]] /\ NameOf(r) \in Names
        /\ ShardOf[NameOf(r)] = r[1] /\ slots[NameOf(r)] = Pending(r[2])
    BY <1>1, PassOneFacts
  <2>4. slots[NameOf(r)].tag = "pending" /\ slots[NameOf(r)].at = r[2]
    BY <2>3 DEF Pending
  <2>5. slots'[NameOf(r)] = Final(assigned'[r[1]][r[2]])
    BY <1>1, <2>3, <2>4
  <2>6. assigned'[r[1]][r[2]] = base + RankOf(<<r[1], r[2]>>)
    BY <1>1, <2>3
  <2>7. slots'[NameOf(r)] = Final(base + RankOf(r))
    BY <2>3, <2>5, <2>6
  <2>8. names'[base + RankOf(r)] = NameOf(r)
    BY <1>1, <1>4, <2>2, <2>3, <2>7 DEF Direct
  <2> QED
    BY <2>1, <2>2, <2>8
<1>11. ASSUME NEW k \in Added' PROVE \E r \in PendingRecords : k = base + RankOf(r)
  <2>1. k - base \in 1..NewCount /\ k = base + (k - base)
    BY <1>2, <1>5
  <2>2. PICK r \in PendingRecords : RankOf(r) = k - base
    BY <1>2, <2>1, PendingRanks
  <2> QED
    BY <2>1, <2>2
<1>12. ASSUME NEW k \in Added' PROVE names'[k] \in New /\ IsFirst(First(names'[k]), names'[k])
  <2>1. PICK r \in PendingRecords : k = base + RankOf(r)
    BY <1>11
  <2>2. NameOf(r) \in New /\ IsFirst(First(NameOf(r)), NameOf(r))
    BY <1>1, PassOneFacts
  <2> QED
    BY <1>10, <2>1, <2>2
<1>13. ASSUME NEW j \in Added', NEW k \in Added', j < k PROVE Earlier(names'[j], names'[k])
  <2>1. PICK r \in PendingRecords : j = base + RankOf(r)
    BY <1>11
  <2>2. PICK q \in PendingRecords : k = base + RankOf(q)
    BY <1>11
  <2>3. RankOf(r) < RankOf(q)
    BY <1>2, <1>10, <1>13, <2>1, <2>2
  <2>4. RecordBefore(r, q)
    BY <1>2, <2>3, PendingRanks
  <2>5. /\ First(NameOf(r)) = pending[r[1]][r[2]].first /\ First(NameOf(q)) = pending[q[1]][q[2]].first
    BY <1>1, PassOneFacts
  <2>6. Earlier(NameOf(r), NameOf(q))
    BY <2>4, <2>5 DEF RecordBefore, Earlier, NameOf
  <2> QED
    BY <1>10, <2>1, <2>2, <2>6
<1>14. InFirstOrder'
  BY <1>9, <1>12, <1>13 DEF InFirstOrder
<1>15. ASSUME NEW n \in New PROVE \E k \in Added' : names'[k] = n
  <2>1. PICK r \in PendingRecords : NameOf(r) = n
    BY <1>1, <1>3, PassOneFacts
  <2> QED
    BY <1>10, <2>1
<1>16. Complete'
  BY <1>9, <1>15 DEF Complete
<1>17. ASSUME NEW p \in Places
       PROVE  /\ slots'[NameAt(p)] # Vacant
              /\ \/ ids'[p] = slots'[NameAt(p)]
                 \/ /\ p \in work' /\ ids'[p].tag = "pending"
                    /\ slots'[NameAt(p)] = Final(assigned'[PlaceShard(p)][ids'[p].at])
  <2>1. slots[NameAt(p)] # Vacant /\ ids[p] = slots[NameAt(p)]
    BY <1>1, <1>3, PassOneFacts
  <2>2. NameAt(p) \in Names
    BY <1>2, OccurrenceFacts
  <2>3. CASE slots[NameAt(p)].tag = "pending"
    <3>1. slots'[NameAt(p)] = Final(assigned'[PlaceShard(p)][ids'[p].at])
      BY <1>1, <2>1, <2>2, <2>3 DEF PlaceShard
    <3> QED
      BY <1>1, <1>7, <2>1, <2>3, <3>1
  <2>4. CASE slots[NameAt(p)].tag # "pending"
    BY <1>1, <2>1, <2>2, <2>4
  <2> QED
    BY <2>3, <2>4
<1>18. RewriteRef'
  BY <1>9, <1>14, <1>16, <1>17 DEF RewriteRef
<1>19. Bounded'
  BY <1>1, <1>2, <1>6, <1>9 DEF Bounded, Refining
<1> QED
  BY <1>1, <1>18, <1>19, NotPartitioned DEF Refining, FindRef, InOrderRef, PassOneRef

LEMMA RewriteRefines ==
  ASSUME InternInv, Refining, NEW p \in work, Rewrite(p)
  PROVE  Refining'
<1>1. /\ phase = "rewrite" /\ phase' = "rewrite" /\ work' = work \ {p}
      /\ UNCHANGED <<batches, base, names, slots, assigned>>
      /\ ids' = IF ids[p].tag = "pending"
                  THEN [ids EXCEPT ![p] = Final(assigned[PlaceShard(p)][ids[p].at])] ELSE ids
  BY DEF Rewrite, tableVars, passVars
<1>2. InternTypeOK /\ Direct /\ p \in Places
  BY <1>1 DEF InternInv, InternTypeOK
<1>3. ids = [q \in Places |-> ids[q]] /\ Len(names) <= Limit
  BY <1>1 DEF Refining, Bounded
<1>4. /\ InFirstOrder /\ Complete
      /\ \A q \in Places :
           /\ slots[NameAt(q)] # Vacant
           /\ \/ ids[q] = slots[NameAt(q)]
              \/ /\ q \in work /\ ids[q].tag = "pending"
                 /\ slots[NameAt(q)] = Final(assigned[PlaceShard(q)][ids[q].at])
  BY <1>1 DEF Refining, RewriteRef
<1>5. /\ Places' = Places /\ \A q : NameAt(q)' = NameAt(q) /\ PlaceShard(q)' = PlaceShard(q)
  BY <1>1, SameBatch
<1>6. InFirstOrder' /\ Complete'
  BY <1>1, <1>4, SameOrder
<1>7. ids' = [q \in Places |-> ids'[q]]
  BY <1>1, <1>3
<1>8. \A q \in Places : q # p => ids'[q] = ids[q]
  BY <1>1, <1>3
<1>9. ids'[p] = slots[NameAt(p)]
  <2>1. NameAt(p) \in Names
    BY <1>1, <1>2, OccurrenceFacts
  <2>2. slots[NameAt(p)].tag # "pending"
    <3>1. PICK k \in DOMAIN names : slots[NameAt(p)] = Final(k)
      BY <1>1, <1>2, <1>4, <2>1 DEF Direct
    <3> QED
      BY <3>1 DEF Final
  <2>3. CASE ids[p].tag = "pending"
    <3>1. ids'[p] = Final(assigned[PlaceShard(p)][ids[p].at])
      BY <1>1, <1>2, <1>3, <2>3
    <3> QED
      BY <1>2, <1>4, <2>2, <2>3, <3>1
  <2>4. CASE ids[p].tag # "pending"
    BY <1>1, <1>2, <1>4, <2>4
  <2> QED
    BY <2>3, <2>4
<1>10. ASSUME NEW q \in Places
       PROVE  /\ slots'[NameAt(q)] # Vacant
              /\ \/ ids'[q] = slots'[NameAt(q)]
                 \/ /\ q \in work' /\ ids'[q].tag = "pending"
                    /\ slots'[NameAt(q)] = Final(assigned'[PlaceShard(q)][ids'[q].at])
  <2>1. CASE q = p
    BY <1>1, <1>4, <1>9, <2>1
  <2>2. CASE q # p
    BY <1>1, <1>4, <1>8, <2>2
  <2> QED
    BY <2>1, <2>2
<1>11. RewriteRef'
  BY <1>5, <1>6, <1>10 DEF RewriteRef
<1>12. Bounded'
  BY <1>1, <1>3, <1>5, <1>7 DEF Bounded
<1> QED
  BY <1>1, <1>11, <1>12, NotPartitioned DEF Refining, FindRef, InOrderRef, PassOneRef

(* A step of the partitioned path that leaves the batch, the sequence and  *)
(* what is known alone.                                                    *)
LEMMA PartitionStep ==
  ASSUME InternInv, Refining, Partitioning, Partitioning', UNCHANGED <<batches, base, sequence>>,
         \A k \in 1..base : names'[k] = names[k], Len(names') <= Limit,
         ids' = [p \in Places |-> ids'[p]], \A p \in Places \ Waiting : ids'[p] = ids[p],
         \A n \in Names : KnownSlot(n) => slots'[n] = slots[n]
  PROVE  /\ Bounded' /\ InOrderRef' /\ FindRef' /\ PassOneRef' /\ RewriteRef' /\ PartitionOrder'
         /\ Places' = Places /\ Waiting' = Waiting
         /\ \A g : LeastIndex(g)' <=> LeastIndex(g)
         /\ SequenceOK /\ DistinctPositions /\ Sorted /\ InternTypeOK /\ Kept /\ phase # "idle"
<1>1. InternTypeOK /\ Kept /\ phase # "idle" /\ batches # <<>>
  BY DEF InternInv, InternTypeOK, Partitioning
<1>2. /\ Places' = Places /\ (DistinctPositions' <=> DistinctPositions)
      /\ \A p : NameAt(p)' = NameAt(p)
      /\ \A p, q : Before(p, q)' <=> Before(p, q)
      /\ \A n : Known(n)' <=> Known(n)
  BY SameBatch
<1>3. Waiting' = Waiting /\ (Sorted' <=> Sorted)
  BY <1>2 DEF Waiting, Sorted
<1>4. /\ DistinctPositions /\ Sorted
      /\ \A p \in Places \ Waiting : Known(NameAt(p)) /\ ids[p] = slots[NameAt(p)]
      /\ \A q \in Waiting : ~Known(NameAt(q))
  BY DEF Refining, PartitionRef, PartitionOrder
<1>5. \A p \in Places \ Waiting : Known(NameAt(p)) /\ ids'[p] = slots'[NameAt(p)]
  <2>1. \A p \in Places : NameAt(p) \in Names
    BY <1>1, OccurrenceFacts
  <2> QED
    BY <1>1, <1>4, <2>1, KnownIs
<1>6. PartitionOrder'
  BY <1>2, <1>3, <1>4, <1>5 DEF PartitionOrder
<1>7. Bounded'
  BY <1>2 DEF Bounded
<1>8. InOrderRef' /\ FindRef' /\ PassOneRef' /\ RewriteRef'
  BY DEF InOrderRef, FindRef, PassOneRef, RewriteRef, Partitioning
<1>9. \A g : LeastIndex(g)' <=> LeastIndex(g)
  BY <1>2 DEF LeastIndex
<1>10. SequenceOK
  BY <1>1 DEF SequenceOK, InternTypeOK
<1> QED
  BY <1>1, <1>2, <1>3, <1>4, <1>6, <1>7, <1>8, <1>9, <1>10

LEMMA ScatterRef ==
  ASSUME InternInv, Refining, (\E c : Scatter(c)) \/ ScatterEnd
  PROVE  Refining'
<1>1. /\ phase = "scatter" /\ phase' \in {"scatter", "probe"}
      /\ UNCHANGED <<batches, base, names, slots, ids, sequence>>
  BY DEF Scatter, ScatterEnd, tableVars
<1>2. Partitioning /\ Partitioning' /\ ids = [p \in Places |-> ids[p]] /\ Len(names) <= Limit
  BY <1>1 DEF Partitioning, Refining, Bounded
<1>3. Bounded' /\ InOrderRef' /\ FindRef' /\ PassOneRef' /\ RewriteRef' /\ PartitionOrder'
  BY <1>1, <1>2, PartitionStep
<1>4. \A n \in Names : \A g : slots[n] # Pending(g)
  <2>1. \A n \in Names : slots[n] = Vacant \/ KnownSlot(n)
    BY <1>1 DEF InternInv, Scattered
  <2>2. \A g, k : Vacant # Pending(g) /\ Final(k) # Pending(g)
    BY DEF Final, Pending, Vacant
  <2> QED
    BY <2>1, <2>2 DEF KnownSlot
<1>5. ClaimsLeast'
  BY <1>1, <1>4 DEF ClaimsLeast, Pending
<1>6. ClaimsAll' /\ NumberRef'
  BY <1>1 DEF ClaimsAll, NumberRef
<1> QED
  BY <1>3, <1>5, <1>6 DEF Refining, PartitionRef

(* A name met later in a region has a higher rank in it. *)
LEMMA RegionRankGrows ==
  ASSUME SequenceOK, NEW g \in DOMAIN sequence, NEW h \in DOMAIN sequence, ShardAt(g) = ShardAt(h), h < g
  PROVE  RegionRank(h) < RegionRank(g)
<1> DEFINE R == Region(ShardAt(g))
           A == {x \in R : x <= h}
           B == {x \in R : x <= g}
<1>1. g \in R /\ h \in R /\ g \in Nat /\ h \in Nat /\ R \subseteq Nat
  BY SequenceFacts DEF Region
<1>2. RegionRank(h) = Cardinality(A) /\ RegionRank(g) = Cardinality(B)
  BY DEF RegionRank
<1>3. A \in SUBSET B /\ B \in SUBSET R /\ g \in B /\ g \notin A
  BY <1>1
<1>4. IsFiniteSet(R)
  BY RegionRanks
<1> HIDE DEF A, B, R
<1>5. IsFiniteSet(B)
  BY <1>3, <1>4, FS_Subset
<1>6. IsFiniteSet(A) /\ Cardinality(A) <= Cardinality(B) /\ Cardinality(A) # Cardinality(B)
  BY <1>3, <1>5, FS_Subset
<1>7. Cardinality(A) \in Nat /\ Cardinality(B) \in Nat
  BY <1>5, <1>6, FS_CardinalityType
<1> QED
  BY <1>2, <1>6, <1>7

LEMMA ProbeRef ==
  ASSUME InternInv, Refining, NEW s \in Shards, Probe(s)
  PROVE  Refining'
<1> DEFINE k == probed[s] + 1
<1>1. /\ phase = "probe" /\ phase' = "probe" /\ probed[s] < Len(entries[s])
      /\ UNCHANGED <<batches, base, names, ids, sequence>>
  BY DEF Probe
<1>2. /\ InternTypeOK /\ Regions /\ Scattered /\ Partitioning /\ Partitioning' /\ SequenceOK
      /\ slots \in [Names -> SlotValue]
  BY <1>1 DEF InternInv, InternTypeOK, Partitioning, SequenceOK
<1>3. PICK g \in Region(s) : RegionRank(g) = k
  <2>1. entries[s] \in Seq(SlotValue) /\ probed[s] \in 0..Len(entries[s]) /\ DOMAIN entries[s] = 1..Cardinality(Region(s))
    BY <1>2 DEF Regions
  <2>2. Len(entries[s]) \in Nat /\ DOMAIN entries[s] = 1..Len(entries[s])
    BY <2>1
  <2>3. k \in 1..Len(entries[s])
    <3>1. probed[s] \in 0..Len(entries[s])
      BY <2>1
    <3>2. Len(entries[s]) \in Nat
      BY <2>2
    <3>3. probed[s] < Len(entries[s])
      BY <1>1
    <3> QED
      BY <3>1, <3>2, <3>3
  <2> QED
    BY <1>2, <2>1, <2>2, <2>3, RegionRanks
<1>4. g \in DOMAIN sequence /\ ShardAt(g) = s /\ g \in Nat /\ probed[s] \in Nat
  <2>1. g \in DOMAIN sequence /\ ShardAt(g) = s
    BY DEF Region
  <2>2. entries[s] \in Seq(SlotValue) /\ probed[s] \in 0..Len(entries[s])
    BY <1>2 DEF Regions
  <2> QED
    BY <1>2, <2>1, <2>2, SequenceFacts
<1>5. entries[s][k].at = g
  <2>1. ~(RegionRank(g) <= probed[ShardAt(g)])
    BY <1>3, <1>4
  <2>2. EntryOf(g) = Index(g)
    BY <1>1, <1>2, <1>4, <2>1 DEF Scattered
  <2> QED
    BY <1>3, <1>4, <2>2 DEF EntryOf, Index
<1> DEFINE n == NameAt(sequence[g])
<1>6. n \in Names /\ ShardOf[n] = s
  BY <1>2, <1>4, SequenceFacts
<1>7. slots' = [slots EXCEPT ![n] = IF slots[n] = Vacant THEN Pending(g) ELSE slots[n]]
  BY <1>5 DEF Probe
<1>8. \A m \in Names : slots'[m] = IF m = n /\ slots[m] = Vacant THEN Pending(g) ELSE slots[m]
  BY <1>2, <1>6, <1>7
<1>9. \A m : KnownSlot(m) => slots[m] # Vacant
  BY DEF KnownSlot, Final, Vacant
<1>10. /\ Bounded' /\ InOrderRef' /\ FindRef' /\ PassOneRef' /\ RewriteRef' /\ PartitionOrder'
       /\ \A h : LeastIndex(h)' <=> LeastIndex(h)
  <2>1. ids = [p \in Places |-> ids[p]] /\ Len(names) <= Limit
    BY <1>1 DEF Refining, Bounded
  <2> HIDE DEF n
  <2> QED
    BY <1>1, <1>2, <1>8, <1>9, <2>1, PartitionStep
<1>11. ASSUME slots[n] = Vacant PROVE LeastIndex(g)
  <2> SUFFICES ASSUME NEW h \in DOMAIN sequence, NameAt(sequence[h]) = n, h < g PROVE FALSE
    BY <1>2, <1>4, SequenceFacts DEF LeastIndex
  <2>1. ShardAt(h) = s /\ h \in Region(s)
    BY <1>2, <1>6, SequenceFacts DEF Region
  <2>2. RegionRank(h) < RegionRank(g)
    BY <1>2, <1>4, <2>1, RegionRankGrows
  <2>3. RegionRank(h) \in Nat
    BY <1>2, <2>1, RegionRanks
  <2>4. RegionRank(h) <= probed[ShardAt(h)]
    BY <1>3, <1>4, <2>1, <2>2, <2>3
  <2>5. SlotOf(h) # Vacant
    BY <1>1, <1>2, <2>4 DEF Scattered
  <2> QED
    BY <1>11, <2>5 DEF SlotOf
<1>12. ASSUME NEW m \in Names, NEW h \in DOMAIN sequence, slots'[m] = Pending(h) PROVE LeastIndex(h)
  <2>1. CASE m = n /\ slots[n] = Vacant
    <3>1. Pending(g) = Pending(h)
      BY <1>8, <1>12, <2>1
    <3>2. g = h
      BY <3>1 DEF Pending
    <3> QED
      BY <1>11, <2>1, <3>2
  <2>2. CASE ~(m = n /\ slots[n] = Vacant)
    <3>1. slots[m] = Pending(h)
      BY <1>8, <1>12, <2>2
    <3> QED
      BY <1>1, <3>1 DEF Refining, PartitionRef, ClaimsLeast
  <2> QED
    BY <2>1, <2>2
<1> HIDE DEF n
<1>13. ClaimsLeast'
  BY <1>1, <1>10, <1>12 DEF ClaimsLeast, Pending
<1>14. ClaimsAll' /\ NumberRef'
  BY <1>1 DEF ClaimsAll, NumberRef
<1> QED
  BY <1>10, <1>13, <1>14 DEF Refining, PartitionRef

LEMMA ProbeEndRef ==
  ASSUME InternInv, Refining, ProbeEnd
  PROVE  Refining'
<1>1. /\ phase = "probe" /\ phase' = "mark" /\ \A s \in Shards : probed[s] = Len(entries[s])
      /\ UNCHANGED <<batches, base, names, slots, ids, sequence>>
  BY DEF ProbeEnd, tableVars
<1>2. /\ Regions /\ Scattered /\ Partitioning /\ Partitioning' /\ ids = [p \in Places |-> ids[p]] /\ Len(names) <= Limit
  BY <1>1 DEF InternInv, Partitioning, Refining, Bounded
<1>3. /\ Bounded' /\ InOrderRef' /\ FindRef' /\ PassOneRef' /\ RewriteRef' /\ PartitionOrder'
      /\ SequenceOK /\ \A h : LeastIndex(h)' <=> LeastIndex(h)
  BY <1>1, <1>2, PartitionStep
<1>4. ClaimsLeast'
  BY <1>1, <1>3 DEF ClaimsLeast, Refining, PartitionRef, Pending
<1>5. ASSUME NEW g \in DOMAIN sequence PROVE SlotOf(g) # Vacant
  <2>1. ShardAt(g) \in Shards /\ g \in Region(ShardAt(g))
    BY <1>3, SequenceFacts DEF Region
  <2>2. entries[ShardAt(g)] \in Seq(SlotValue) /\ RegionRank(g) \in DOMAIN entries[ShardAt(g)]
    BY <1>2, <1>3, <2>1, RegionRanks DEF Regions
  <2>3. RegionRank(g) <= probed[ShardAt(g)]
    BY <1>1, <2>1, <2>2
  <2> QED
    BY <1>1, <1>2, <2>3 DEF Scattered
<1>6. \A g : SlotOf(g)' = SlotOf(g)
  BY <1>1 DEF SlotOf, NameAt, Jobs
<1>7. ClaimsAll'
  BY <1>1, <1>5, <1>6 DEF ClaimsAll, Vacant
<1>8. NumberRef'
  BY <1>1 DEF NumberRef
<1> QED
  BY <1>3, <1>4, <1>7, <1>8 DEF Refining, PartitionRef

LEMMA MarkRef ==
  ASSUME InternInv, Refining, NEW c, Mark(c)
  PROVE  Refining'
<1>1. /\ phase = "mark" /\ phase' = "mark"
      /\ UNCHANGED <<batches, base, names, slots, ids, sequence>>
  BY DEF Mark, tableVars
<1>2. /\ Partitioning /\ Partitioning' /\ ids = [p \in Places |-> ids[p]] /\ Len(names) <= Limit
  BY <1>1 DEF Partitioning, Refining, Bounded
<1>3. /\ Bounded' /\ InOrderRef' /\ FindRef' /\ PassOneRef' /\ RewriteRef' /\ PartitionOrder'
      /\ \A h : LeastIndex(h)' <=> LeastIndex(h)
  BY <1>1, <1>2, PartitionStep
<1>4. ClaimsLeast'
  BY <1>1, <1>3 DEF ClaimsLeast, Refining, PartitionRef, Pending
<1>5. \A g : SlotOf(g)' = SlotOf(g)
  BY <1>1 DEF SlotOf, NameAt, Jobs
<1>6. ClaimsAll'
  BY <1>1, <1>5 DEF ClaimsAll, Refining, PartitionRef, Vacant
<1>7. NumberRef'
  BY <1>1 DEF NumberRef
<1> QED
  BY <1>3, <1>4, <1>6, <1>7 DEF Refining, PartitionRef

(* When all chunks are marked, the bitmap is the set of first occurrences. *)
LEMMA MarkFacts ==
  ASSUME InternInv, Refining, phase = "mark", tasks = {}
  PROVE  /\ firsts = {g \in DOMAIN sequence : LeastIndex(g)}
         /\ \A g \in DOMAIN sequence : \E h \in firsts : /\ EntryOf(g) = Pending(h)
                                                         /\ NameAt(sequence[h]) = NameAt(sequence[g])
<1>1. /\ InternTypeOK /\ Kept /\ Scattered /\ Marked /\ SequenceOK
  BY DEF InternInv, InternTypeOK, SequenceOK
<1>2. /\ firsts \subseteq DOMAIN sequence
      /\ \A g \in DOMAIN sequence : EntryOf(g) = SlotOf(g) /\ (g \in firsts <=> SlotOf(g) = Pending(g))
  BY <1>1 DEF InternTypeOK, Marked
<1>3. /\ \A n \in Names : \A g \in DOMAIN sequence : slots[n] = Pending(g) => LeastIndex(g)
      /\ \A g \in DOMAIN sequence : SlotOf(g) # Vacant
      /\ \A q \in Waiting : ~Known(NameAt(q))
  BY DEF Refining, PartitionRef, ClaimsLeast, ClaimsAll, PartitionOrder, Partitioning
<1>4. ASSUME NEW g \in DOMAIN sequence
      PROVE  \E h \in firsts : /\ SlotOf(g) = Pending(h) /\ LeastIndex(h)
                               /\ NameAt(sequence[h]) = NameAt(sequence[g])
  <2> DEFINE n == NameAt(sequence[g])
  <2>1. n \in Names /\ SlotOf(g) = slots[n]
    BY <1>1, SequenceFacts DEF SlotOf
  <2>2. ~KnownSlot(n)
    <3>1. sequence[g] \in Waiting
      BY DEF Waiting
    <3>2. ~Known(n)
      BY <1>3, <3>1
    <3> QED
      BY <1>1, <2>1, <3>2, KnownIs
  <2>3. PICK h \in DOMAIN sequence : slots[n] = Pending(h) /\ NameAt(sequence[h]) = n
    BY <1>1, <1>3, <2>1, <2>2 DEF Scattered
  <2>4. SlotOf(h) = Pending(h)
    BY <2>3 DEF SlotOf
  <2>5. LeastIndex(h)
    BY <1>3, <2>1, <2>3
  <2> QED
    BY <1>2, <2>1, <2>3, <2>4, <2>5
<1>5. ASSUME NEW g \in firsts PROVE LeastIndex(g)
  <2>1. g \in DOMAIN sequence /\ SlotOf(g) = Pending(g)
    BY <1>2
  <2>2. NameAt(sequence[g]) \in Names
    BY <1>1, <2>1, SequenceFacts
  <2> QED
    BY <1>3, <2>1, <2>2 DEF SlotOf
<1>6. ASSUME NEW g \in DOMAIN sequence, LeastIndex(g) PROVE g \in firsts
  <2>1. PICK h \in firsts : LeastIndex(h) /\ NameAt(sequence[h]) = NameAt(sequence[g])
    BY <1>4
  <2>2. g \in Nat /\ h \in Nat /\ h \in DOMAIN sequence
    BY <1>1, <1>2, SequenceFacts
  <2>3. g <= h /\ h <= g
    BY <1>6, <2>1, <2>2 DEF LeastIndex
  <2>4. g = h
    BY <2>2, <2>3
  <2> QED
    BY <2>4
<1>7. firsts = {g \in DOMAIN sequence : LeastIndex(g)}
  BY <1>2, <1>5, <1>6
<1> QED
  BY <1>2, <1>4, <1>7

LEMMA MarkEndRef ==
  ASSUME InternInv, Refining, MarkEnd
  PROVE  Refining'
<1>1. /\ phase = "mark" /\ phase' = "number" /\ tasks = {}
      /\ Cardinality(firsts) <= Free(Limit, base)
      /\ tasks' = {<<"chunk", c>> : c \in 1..ChunksOf(Len(sequence))}
                  \cup {<<"shard", s>> : s \in {t \in Shards : entries[t] # <<>>}}
                  \cup {<<"names", 0>>}
      /\ UNCHANGED <<batches, base, names, slots, ids, sequence, entries, firsts>>
  BY DEF MarkEnd, tableVars
<1>2. /\ Partitioning /\ Partitioning' /\ ids = [p \in Places |-> ids[p]] /\ Len(names) <= Limit
      /\ InternTypeOK /\ Kept
  BY <1>1 DEF Partitioning, Refining, Bounded, InternInv
<1>3. /\ Bounded' /\ InOrderRef' /\ FindRef' /\ PassOneRef' /\ RewriteRef' /\ PartitionOrder'
      /\ \A h : LeastIndex(h)' <=> LeastIndex(h)
  BY <1>1, <1>2, PartitionStep
<1>4. /\ SequenceOK
      /\ \A g : /\ ShardAt(g)' = ShardAt(g) /\ RegionRank(g)' = RegionRank(g)
                /\ ChunkAt(g)' = ChunkAt(g) /\ NameAt(sequence[g])' = NameAt(sequence[g])
  BY <1>1, <1>2, SameSequence
<1>5. base + Cardinality(firsts) <= Limit
  <2>1. firsts \subseteq DOMAIN sequence /\ base \in Nat /\ base <= Len(names) /\ Len(names) \in Nat
    BY <1>2, TableFacts DEF InternTypeOK
  <2>2. Cardinality(firsts) \in Nat
    BY <1>4, <2>1, NewRanks
  <2> QED
    BY <1>1, <1>2, <2>1, <2>2, InternAssumption DEF Free
<1>6. \A t \in tasks' : t[1] = "chunk" => t[2] \in Nat
  <2> SUFFICES ASSUME NEW t \in tasks', t[1] = "chunk" PROVE t[2] \in Nat
    OBVIOUS
  <2>1. CASE t \in {<<"chunk", c>> : c \in 1..ChunksOf(Len(sequence))}
    <3>1. PICK c \in 1..ChunksOf(Len(sequence)) : t = <<"chunk", c>>
      BY <2>1
    <3> QED
      BY <3>1
  <2>2. CASE t \in {<<"shard", s>> : s \in {u \in Shards : entries[u] # <<>>}}
    BY <2>2
  <2>3. CASE t = <<"names", 0>>
    BY <2>3
  <2> QED
    BY <1>1, <2>1, <2>2, <2>3
<1>7. \A g \in DOMAIN sequence : <<"chunk", ChunkAt(g)>> \in tasks'
  BY <1>1, <1>4, SequenceFacts
<1>8. /\ firsts = {g \in DOMAIN sequence : LeastIndex(g)}
      /\ \A g \in DOMAIN sequence : \E h \in firsts : /\ EntryOf(g) = Pending(h)
                                                      /\ NameAt(sequence[h]) = NameAt(sequence[g])
  BY <1>1, MarkFacts
<1>9. \A g : EntryOf(g)' = EntryOf(g)
  BY <1>1, <1>4 DEF EntryOf
<1>10. \A g : Pending(g)' = Pending(g)
  BY DEF Pending
<1>11. NumberRef'
  BY <1>1, <1>3, <1>4, <1>5, <1>6, <1>7, <1>8, <1>9, <1>10 DEF NumberRef
<1>12. ClaimsLeast' /\ ClaimsAll'
  BY <1>1 DEF ClaimsLeast, ClaimsAll
<1> QED
  BY <1>3, <1>11, <1>12 DEF Refining, PartitionRef

(* Different indices hold different places. *)
LEMMA SequenceInjective ==
  ASSUME SequenceOK, DistinctPositions, Sorted
  PROVE  \A g, h \in DOMAIN sequence : sequence[g] = sequence[h] => g = h
<1> SUFFICES ASSUME NEW g \in DOMAIN sequence, NEW h \in DOMAIN sequence, sequence[g] = sequence[h], g < h
             PROVE  FALSE
  BY SequenceFacts
<1>1. sequence[g] \in Places /\ sequence[h] \in Places
  BY SequenceFacts
<1>2. ~Before(sequence[g], sequence[g])
  BY <1>1, BeforeFacts DEF SequenceOK
<1> QED
  BY <1>2 DEF Sorted

LEMMA RetainFinalRef ==
  ASSUME InternInv, Refining, RetainFinal
  PROVE  Refining' /\ Abstract!Next
<1>1. /\ phase = "mark" /\ tasks = {} /\ Cardinality(firsts) > Free(Limit, base) /\ Fail /\ UNCHANGED names
  BY DEF RetainFinal
<1>2. InternTypeOK /\ Kept /\ SequenceOK /\ firsts \subseteq DOMAIN sequence
  BY <1>1 DEF InternInv, InternTypeOK, SequenceOK
<1>3. \A g \in firsts : LeastIndex(g)
  BY <1>1, MarkFacts
<1>4. \A q \in Waiting : ~Known(NameAt(q))
  BY <1>1 DEF Refining, PartitionRef, PartitionOrder, Partitioning
<1> DEFINE f == [g \in firsts |-> NameAt(sequence[g])]
<1>5. ASSUME NEW g \in firsts PROVE NameAt(sequence[g]) \in New
  <2>1. g \in DOMAIN sequence /\ sequence[g] \in Places /\ NameAt(sequence[g]) \in Names
    BY <1>2, SequenceFacts
  <2>2. sequence[g] \in Waiting
    BY <2>1 DEF Waiting
  <2> QED
    BY <1>4, <2>1, <2>2 DEF New
<1>6. ASSUME NEW g \in firsts, NEW h \in firsts, NameAt(sequence[g]) = NameAt(sequence[h]) PROVE g = h
  <2>1. g \in DOMAIN sequence /\ h \in DOMAIN sequence /\ g \in Nat /\ h \in Nat
    BY <1>2, SequenceFacts
  <2>2. g <= h /\ h <= g
    BY <1>3, <1>6, <2>1 DEF LeastIndex
  <2> QED
    BY <2>1, <2>2
<1>7. f \in Injection(firsts, New)
  BY <1>5, <1>6 DEF Injection, IsInjective
<1> HIDE DEF f
<1>8. IsFiniteSet(New) /\ Cardinality(New) \in Nat
  BY <1>1, <1>2, NewFacts
<1>9. Cardinality(firsts) <= Cardinality(New)
  BY <1>7, <1>8, FS_Injection
<1>10. base \in Nat /\ Cardinality(firsts) \in Nat
  BY <1>2, NewRanks, TableFacts
<1>11. base + Cardinality(New) > Limit
  BY <1>1, <1>8, <1>9, <1>10, InternAssumption DEF Free
<1> QED
  BY <1>1, <1>11, OverflowStep

LEMMA WriteChunkRef ==
  ASSUME InternInv, Refining, NEW c, WriteChunk(c)
  PROVE  Refining'
<1>1. /\ phase = "number" /\ phase' = "number" /\ <<"chunk", c>> \in tasks /\ tasks' = tasks \ {<<"chunk", c>>}
      /\ ids' = [p \in DOMAIN ids |->
           IF \E g \in ChunkRange(c) : sequence[g] = p
             THEN IdOf(ResultAt(c, CHOOSE g \in ChunkRange(c) : sequence[g] = p))
             ELSE ids[p]]
      /\ UNCHANGED <<batches, base, names, slots, sequence, entries, firsts>>
  BY DEF WriteChunk, tableVars
<1>2. /\ Partitioning /\ Partitioning' /\ ids = [p \in Places |-> ids[p]] /\ Len(names) <= Limit
      /\ InternTypeOK /\ Kept /\ NumberRef /\ DistinctPositions /\ Sorted
  BY <1>1 DEF Partitioning, Refining, Bounded, InternInv, PartitionRef, PartitionOrder
<1>3. /\ SequenceOK
      /\ \A g : /\ ShardAt(g)' = ShardAt(g) /\ RegionRank(g)' = RegionRank(g)
                /\ ChunkAt(g)' = ChunkAt(g) /\ NameAt(sequence[g])' = NameAt(sequence[g])
  BY <1>1, <1>2, SameSequence
<1>4. c \in Nat
  <2>1. <<"chunk", c>>[1] = "chunk" /\ <<"chunk", c>>[2] = c
    OBVIOUS
  <2> QED
    BY <1>1, <1>2, <2>1 DEF NumberRef
<1>5. \A g \in ChunkRange(c) : /\ g \in DOMAIN sequence /\ c = ChunkAt(g)
                               /\ ResultAt(c, g) = EntryOf(g)
  BY <1>3, <1>4, CursorIsRank DEF ResultAt, EntryOf
<1>6. \A g \in DOMAIN sequence : ChunkAt(g) = c => g \in ChunkRange(c)
  <2> SUFFICES ASSUME NEW g \in DOMAIN sequence, ChunkAt(g) = c PROVE g \in ChunkRange(c)
    OBVIOUS
  <2>1. g - 1 \in Nat
    BY <1>3, SequenceFacts
  <2>2. (g - 1) \div Chunk \in Nat
    BY <2>1, ChunkMonotone
  <2>3. (g - 1) \div Chunk = c - 1
    BY <2>2 DEF ChunkAt
  <2> QED
    BY <2>3 DEF ChunkRange
<1>7. DOMAIN ids = Places
  BY <1>2
<1>8. ids' = [p \in Places |-> ids'[p]]
  BY <1>1, <1>7
<1>9. ASSUME NEW g \in DOMAIN sequence, ChunkAt(g) = c PROVE ids'[sequence[g]] = IdOf(EntryOf(g))
  <2>1. g \in ChunkRange(c) /\ sequence[g] \in Places
    BY <1>3, <1>6, <1>9, SequenceFacts
  <2>2. \A h \in ChunkRange(c) : sequence[h] = sequence[g] => h = g
    BY <1>2, <1>3, <1>5, SequenceInjective
  <2>3. (CHOOSE h \in ChunkRange(c) : sequence[h] = sequence[g]) = g
    BY <2>1, <2>2
  <2>4. ids'[sequence[g]] = IdOf(ResultAt(c, CHOOSE h \in ChunkRange(c) : sequence[h] = sequence[g]))
    BY <1>1, <1>7, <2>1
  <2> QED
    BY <1>5, <2>1, <2>3, <2>4
<1>10. ASSUME NEW g \in DOMAIN sequence, ChunkAt(g) # c PROVE ids'[sequence[g]] = ids[sequence[g]]
  <2>1. sequence[g] \in Places
    BY <1>3, SequenceFacts
  <2>2. ~ \E h \in ChunkRange(c) : sequence[h] = sequence[g]
    BY <1>2, <1>3, <1>5, <1>10, SequenceInjective
  <2> QED
    BY <1>1, <1>7, <2>1, <2>2
<1>11. \A p \in Places \ Waiting : ids'[p] = ids[p]
  <2> SUFFICES ASSUME NEW p \in Places \ Waiting PROVE ids'[p] = ids[p]
    OBVIOUS
  <2>1. ~ \E h \in ChunkRange(c) : sequence[h] = p
    BY <1>5 DEF Waiting
  <2> QED
    BY <1>1, <1>7, <2>1
<1>12. /\ Bounded' /\ InOrderRef' /\ FindRef' /\ PassOneRef' /\ RewriteRef' /\ PartitionOrder'
       /\ \A h : LeastIndex(h)' <=> LeastIndex(h)
  BY <1>1, <1>2, <1>8, <1>11, PartitionStep
<1>13. /\ \A g : EntryOf(g)' = EntryOf(g)
       /\ \A g : IdOf(EntryOf(g))' = IdOf(EntryOf(g))
       /\ \A g : Pending(g)' = Pending(g)
  <2>1. \A g : EntryOf(g)' = EntryOf(g)
    BY <1>1, <1>3 DEF EntryOf
  <2> QED
    BY <1>1, <2>1 DEF IdOf, Pending, Final
<1>14. ASSUME NEW g \in DOMAIN sequence
       PROVE  <<"chunk", ChunkAt(g)>> \in tasks' \/ ids'[sequence[g]] = IdOf(EntryOf(g))
  <2>1. CASE ChunkAt(g) = c
    BY <1>9, <2>1
  <2>2. CASE ChunkAt(g) # c
    <3>1. <<"chunk", ChunkAt(g)>>[2] = ChunkAt(g) /\ <<"chunk", c>>[2] = c
      OBVIOUS
    <3>2. <<"chunk", ChunkAt(g)>> # <<"chunk", c>>
      BY <2>2, <3>1
    <3> QED
      BY <1>1, <1>2, <1>10, <2>2, <3>2 DEF NumberRef
  <2> QED
    BY <2>1, <2>2
<1>15. /\ firsts = {g \in DOMAIN sequence : LeastIndex(g)}
       /\ base + Cardinality(firsts) <= Limit
       /\ \A t \in tasks : t[1] = "chunk" => t[2] \in Nat
       /\ \A g \in DOMAIN sequence : \E h \in firsts : /\ EntryOf(g) = Pending(h)
                                                       /\ NameAt(sequence[h]) = NameAt(sequence[g])
  BY <1>1, <1>2 DEF NumberRef
<1>16. NumberRef'
  BY <1>1, <1>3, <1>12, <1>13, <1>14, <1>15 DEF NumberRef
<1>17. ClaimsLeast' /\ ClaimsAll'
  BY <1>1 DEF ClaimsLeast, ClaimsAll
<1> QED
  BY <1>12, <1>16, <1>17 DEF Refining, PartitionRef

LEMMA NumberShardRef ==
  ASSUME InternInv, Refining, NEW s \in Shards, NumberShard(s)
  PROVE  Refining'
<1>1. /\ phase = "number" /\ phase' = "number" /\ tasks' = tasks \ {<<"shard", s>>}
      /\ slots' = [n \in Names |-> IF ShardOf[n] = s THEN IdOf(slots[n]) ELSE slots[n]]
      /\ UNCHANGED <<batches, base, names, ids, sequence, entries, firsts>>
  BY DEF NumberShard
<1>2. /\ Partitioning /\ Partitioning' /\ ids = [p \in Places |-> ids[p]] /\ Len(names) <= Limit
      /\ NumberRef
  BY <1>1 DEF Partitioning, Refining, Bounded, InternInv, PartitionRef
<1>3. \A k : IdOf(Final(k)) = Final(k)
  BY DEF IdOf, Final
<1>4. \A n \in Names : KnownSlot(n) => slots'[n] = slots[n]
  BY <1>1, <1>3 DEF KnownSlot
<1>5. /\ Bounded' /\ InOrderRef' /\ FindRef' /\ PassOneRef' /\ RewriteRef' /\ PartitionOrder'
      /\ \A h : LeastIndex(h)' <=> LeastIndex(h)
  BY <1>1, <1>2, <1>4, PartitionStep
<1>6. /\ SequenceOK
      /\ \A g : /\ ShardAt(g)' = ShardAt(g) /\ RegionRank(g)' = RegionRank(g)
                /\ ChunkAt(g)' = ChunkAt(g) /\ NameAt(sequence[g])' = NameAt(sequence[g])
  BY <1>1, <1>2, SameSequence
<1>7. \A g : EntryOf(g)' = EntryOf(g)
  BY <1>1, <1>6 DEF EntryOf
<1>8. \A g : IdOf(EntryOf(g))' = IdOf(EntryOf(g)) /\ Pending(g)' = Pending(g)
  BY <1>1, <1>7 DEF IdOf, Pending, Final
<1>9. \A d : <<"chunk", d>> \in tasks' <=> <<"chunk", d>> \in tasks
  <2> SUFFICES ASSUME NEW d PROVE <<"chunk", d>> # <<"shard", s>>
    BY <1>1
  <2>1. <<"shard", s>>[1] = "shard" /\ <<"chunk", d>>[1] = "chunk"
    OBVIOUS
  <2> QED
    BY <2>1
<1>10. NumberRef'
  <2>1. /\ firsts = {g \in DOMAIN sequence : LeastIndex(g)}
        /\ base + Cardinality(firsts) <= Limit
        /\ \A t \in tasks : t[1] = "chunk" => t[2] \in Nat
        /\ \A g \in DOMAIN sequence :
             /\ \E h \in firsts : /\ EntryOf(g) = Pending(h)
                                  /\ NameAt(sequence[h]) = NameAt(sequence[g])
             /\ <<"chunk", ChunkAt(g)>> \in tasks \/ ids[sequence[g]] = IdOf(EntryOf(g))
    BY <1>1, <1>2 DEF NumberRef
  <2>2. UNCHANGED <<base, ids, sequence, firsts>> /\ \A t \in tasks' : t \in tasks
    BY <1>1
  <2> QED
    BY <1>5, <1>6, <1>7, <1>8, <1>9, <2>1, <2>2 DEF NumberRef
<1>11. ClaimsLeast' /\ ClaimsAll'
  BY <1>1 DEF ClaimsLeast, ClaimsAll
<1> QED
  BY <1>5, <1>10, <1>11 DEF Refining, PartitionRef

LEMMA AppendNamesRef ==
  ASSUME InternInv, Refining, AppendNames
  PROVE  Refining'
<1>1. /\ phase = "number" /\ phase' = "number"
      /\ <<"names", 0>> \in tasks /\ tasks' = tasks \ {<<"names", 0>>}
      /\ UNCHANGED <<batches, base, slots, ids, sequence, entries, firsts>>
  BY DEF AppendNames
<1>2. /\ Partitioning /\ Partitioning' /\ ids = [p \in Places |-> ids[p]]
      /\ NumberRef /\ InternTypeOK /\ Kept
  BY <1>1 DEF Partitioning, Refining, Bounded, PartitionRef, InternInv
<1>3. InternInv'
  BY AppendNamesInv
<1>4. Len(names') = base + Cardinality(firsts) /\ InternTypeOK' /\ Kept'
  <2>1. Len(names') = base' + Cardinality(firsts')
    BY <1>1, <1>3 DEF InternInv, Numbered
  <2> QED
    BY <1>1, <1>3, <2>1 DEF InternInv
<1>5. Len(names') <= Limit
  BY <1>1, <1>2, <1>4 DEF NumberRef
<1>6. ASSUME NEW k \in 1..base PROVE names'[k] = names[k]
  <2>1. names[k] \in Names
    BY <1>2, TableFacts
  <2>2. slots[names[k]] = Final(k)
    BY <1>2, <2>1 DEF Kept
  <2>3. \A n \in Names : \A j \in 1..base : slots[n] = Final(j) <=> names'[j] = n
    BY <1>1, <1>4 DEF Kept, Final
  <2> QED
    BY <2>1, <2>2, <2>3
<1>7. /\ Bounded' /\ InOrderRef' /\ FindRef' /\ PassOneRef' /\ RewriteRef' /\ PartitionOrder'
      /\ \A h : LeastIndex(h)' <=> LeastIndex(h)
  BY <1>1, <1>2, <1>5, <1>6, PartitionStep
<1>8. /\ SequenceOK
      /\ \A g : /\ ShardAt(g)' = ShardAt(g) /\ RegionRank(g)' = RegionRank(g)
                /\ ChunkAt(g)' = ChunkAt(g) /\ NameAt(sequence[g])' = NameAt(sequence[g])
  BY <1>1, <1>2, SameSequence
<1>9. \A g : EntryOf(g)' = EntryOf(g)
  BY <1>1, <1>8 DEF EntryOf
<1>10. \A g : IdOf(EntryOf(g))' = IdOf(EntryOf(g)) /\ Pending(g)' = Pending(g)
  BY <1>1, <1>9 DEF IdOf, Pending, Final
<1>11. \A d : <<"chunk", d>> \in tasks' <=> <<"chunk", d>> \in tasks
  <2> SUFFICES ASSUME NEW d PROVE <<"chunk", d>> # <<"names", 0>>
    BY <1>1
  <2>1. <<"names", 0>>[1] = "names" /\ <<"chunk", d>>[1] = "chunk"
    OBVIOUS
  <2> QED
    BY <2>1
<1>12. NumberRef'
  BY <1>1, <1>2, <1>7, <1>8, <1>9, <1>10, <1>11 DEF NumberRef
<1>13. ClaimsLeast' /\ ClaimsAll'
  BY <1>1 DEF ClaimsLeast, ClaimsAll
<1> QED
  BY <1>7, <1>12, <1>13 DEF Refining, PartitionRef

LEMMA NewRankOrder ==
  ASSUME SequenceOK, firsts \subseteq DOMAIN sequence, NEW g \in firsts, NEW h \in firsts, NewRank(g) < NewRank(h)
  PROVE  g < h
<1> SUFFICES ASSUME h <= g PROVE FALSE
  BY SequenceFacts
<1> DEFINE A == {x \in firsts : x <= h}
           B == {x \in firsts : x <= g}
<1>1. firsts \subseteq Nat /\ IsFiniteSet(firsts)
  BY SequenceFacts, NewRanks
<1>2. A \in SUBSET B /\ B \in SUBSET firsts
  BY <1>1
<1>3. NewRank(h) = Cardinality(A) /\ NewRank(g) = Cardinality(B)
  BY DEF NewRank
<1> HIDE DEF A, B
<1>4. IsFiniteSet(B) /\ IsFiniteSet(A) /\ Cardinality(A) <= Cardinality(B)
  BY <1>1, <1>2, FS_Subset
<1>5. Cardinality(A) \in Nat /\ Cardinality(B) \in Nat
  BY <1>4, FS_CardinalityType
<1> QED
  BY <1>3, <1>4, <1>5

(* The least index of a new name is its first occurrence. *)
LEMMA LeastIsFirst ==
  ASSUME InternTypeOK, phase # "idle", SequenceOK, DistinctPositions, Sorted,
         \A p \in Places \ Waiting : Known(NameAt(p)), \A q \in Waiting : ~Known(NameAt(q)),
         NEW g \in DOMAIN sequence, LeastIndex(g)
  PROVE  /\ NameAt(sequence[g]) \in New
         /\ IsFirst(Occurrence(sequence[g]), NameAt(sequence[g]))
         /\ First(NameAt(sequence[g])) = Occurrence(sequence[g])
<1> DEFINE n == NameAt(sequence[g])
<1>1. sequence[g] \in Places /\ n \in Names /\ sequence[g] \in Waiting
  BY SequenceFacts DEF Waiting
<1>2. n \in New
  BY <1>1 DEF New
<1>3. ASSUME NEW p \in Places, NameAt(p) = n PROVE ~Less(Occurrence(p), Occurrence(sequence[g]))
  <2>1. p \in Waiting
    BY <1>1, <1>3
  <2>2. PICK h \in DOMAIN sequence : sequence[h] = p
    BY <2>1 DEF Waiting
  <2>3. g <= h /\ g \in Nat /\ h \in Nat
    BY <1>3, <2>2, SequenceFacts DEF LeastIndex
  <2>4. g = h \/ Before(sequence[g], p)
    BY <2>2, <2>3 DEF Sorted
  <2>5. ~Before(p, sequence[g])
    <3>1. /\ \A a \in Places : ~Before(a, a)
          /\ \A a, b, d \in Places : Before(a, b) /\ Before(b, d) => Before(a, d)
      BY BeforeFacts DEF SequenceOK
    <3> QED
      BY <1>1, <2>2, <2>4, <3>1
  <2> QED
    BY <1>1, <2>5, BeforeFacts DEF SequenceOK
<1>4. IsFirst(Occurrence(sequence[g]), n)
  BY <1>1, <1>3 DEF IsFirst
<1>5. First(n) = Occurrence(sequence[g])
  BY <1>4, FirstIs
<1> QED
  BY <1>2, <1>4, <1>5

LEMMA NumberEndRef ==
  ASSUME InternInv, Refining, NumberEnd
  PROVE  Refining' /\ Abstract!Next
<1> DEFINE count == Cardinality(firsts)
<1>1. phase = "number" /\ tasks = {} /\ Succeed /\ UNCHANGED names
  BY DEF NumberEnd
<1>2. /\ InternTypeOK /\ Kept /\ Numbered /\ SequenceOK /\ NumberRef /\ firsts \subseteq DOMAIN sequence
  BY <1>1 DEF InternInv, InternTypeOK, SequenceOK, Refining, PartitionRef
<1>3. /\ DistinctPositions /\ Sorted
      /\ \A p \in Places \ Waiting : Known(NameAt(p)) /\ ids[p] = slots[NameAt(p)]
      /\ \A q \in Waiting : ~Known(NameAt(q))
  BY <1>1 DEF Refining, PartitionRef, PartitionOrder, Partitioning
<1>4. /\ Len(names) = base + count
      /\ \A g \in firsts : names[base + NewRank(g)] = NameAt(sequence[g])
  BY <1>1, <1>2 DEF Numbered
<1>5. /\ count \in Nat /\ \A g \in firsts : NewRank(g) \in 1..count
      /\ \A k \in 1..count : \E g \in firsts : NewRank(g) = k
  BY <1>2, NewRanks
<1> HIDE DEF count
<1>6. base \in Nat /\ DOMAIN names = 1..(base + count) /\ Added = (base + 1)..(base + count)
  BY <1>2, <1>4, TableFacts DEF Added
<1>7. ASSUME NEW k \in Added
      PROVE  \E g \in firsts : k = base + NewRank(g) /\ names[k] = NameAt(sequence[g])
  <2>1. k - base \in 1..count
    BY <1>5, <1>6
  <2>2. PICK g \in firsts : NewRank(g) = k - base
    BY <1>5, <2>1
  <2>3. k = base + NewRank(g)
    BY <1>6, <2>1, <2>2
  <2> QED
    BY <1>4, <2>3
<1>8. ASSUME NEW g \in firsts
      PROVE  /\ base + NewRank(g) \in Added /\ base + NewRank(g) \in DOMAIN names
             /\ names[base + NewRank(g)] = NameAt(sequence[g])
             /\ NameAt(sequence[g]) \in New
             /\ IsFirst(Occurrence(sequence[g]), NameAt(sequence[g]))
             /\ First(NameAt(sequence[g])) = Occurrence(sequence[g])
             /\ g \in DOMAIN sequence
  <2>1. g \in DOMAIN sequence /\ LeastIndex(g)
    BY <1>1, <1>2 DEF NumberRef
  <2>2. base + NewRank(g) \in Added /\ base + NewRank(g) \in DOMAIN names
    BY <1>5, <1>6
  <2> QED
    BY <1>1, <1>2, <1>3, <1>4, <2>1, <2>2, LeastIsFirst
<1>9. InFirstOrder
  <2>1. \A k \in Added : names[k] \in New /\ IsFirst(First(names[k]), names[k])
    BY <1>7, <1>8
  <2>2. ASSUME NEW j \in Added, NEW k \in Added, j < k PROVE Earlier(names[j], names[k])
    <3>1. PICK g \in firsts : j = base + NewRank(g) /\ names[j] = NameAt(sequence[g])
      BY <1>7
    <3>2. PICK h \in firsts : k = base + NewRank(h) /\ names[k] = NameAt(sequence[h])
      BY <1>7
    <3>3. NewRank(g) \in Nat /\ NewRank(h) \in Nat
      BY <1>5
    <3>4. NewRank(g) < NewRank(h)
      BY <1>6, <2>2, <3>1, <3>2, <3>3
    <3>5. g < h
      BY <1>2, <3>4, NewRankOrder
    <3>6. g \in DOMAIN sequence /\ h \in DOMAIN sequence /\ sequence[g] \in Places /\ sequence[h] \in Places
      BY <1>2, <1>8, SequenceFacts
    <3>7. Before(sequence[g], sequence[h])
      BY <1>3, <3>5, <3>6 DEF Sorted
    <3>8. Less(Occurrence(sequence[g]), Occurrence(sequence[h]))
      BY <1>2, <1>3, <3>6, <3>7, BeforeFacts DEF SequenceOK
    <3> QED
      BY <1>8, <3>1, <3>2, <3>8 DEF Earlier
  <2> QED
    BY <2>1, <2>2 DEF InFirstOrder
<1>10. ASSUME NEW g \in DOMAIN sequence
       PROVE  \E k \in Added : names[k] = NameAt(sequence[g]) /\ ids[sequence[g]] = Final(k)
  <2>1. /\ ids[sequence[g]] = IdOf(EntryOf(g))
        /\ \E h \in firsts : EntryOf(g) = Pending(h) /\ NameAt(sequence[h]) = NameAt(sequence[g])
    BY <1>1, <1>2 DEF NumberRef
  <2>2. PICK h \in firsts : EntryOf(g) = Pending(h) /\ NameAt(sequence[h]) = NameAt(sequence[g])
    BY <2>1
  <2>3. IdOf(Pending(h)) = Final(base + NewRank(h))
    BY DEF IdOf, Pending, NewRank
  <2> QED
    BY <1>8, <2>1, <2>2, <2>3
<1>11. Complete
  <2> SUFFICES ASSUME NEW n \in New PROVE \E k \in Added : names[k] = n
    BY DEF Complete
  <2>1. PICK p \in Places : NameAt(p) = n /\ ~Known(n)
    BY DEF New
  <2>2. p \in Waiting
    BY <1>3, <2>1
  <2>3. PICK g \in DOMAIN sequence : sequence[g] = p
    BY <2>2 DEF Waiting
  <2> QED
    BY <1>10, <2>1, <2>3
<1>12. ASSUME NEW p \in Places PROVE \E k \in DOMAIN names : names[k] = NameAt(p) /\ ids[p] = Final(k)
  <2>1. CASE p \in Waiting
    <3>1. PICK g \in DOMAIN sequence : sequence[g] = p
      BY <2>1 DEF Waiting
    <3>2. Added \subseteq DOMAIN names
      BY <1>5, <1>6
    <3> QED
      BY <1>10, <3>1, <3>2
  <2>2. CASE p \notin Waiting
    <3>1. Known(NameAt(p)) /\ ids[p] = slots[NameAt(p)] /\ NameAt(p) \in Names
      BY <1>1, <1>2, <1>3, <2>2, OccurrenceFacts
    <3>2. PICK k \in 1..base : names[k] = NameAt(p)
      BY <3>1 DEF Known
    <3>3. slots[NameAt(p)] = Final(k)
      BY <1>2, <3>1, <3>2 DEF Kept
    <3>4. k \in DOMAIN names
      BY <1>5, <1>6
    <3> QED
      BY <3>1, <3>2, <3>3, <3>4
  <2> QED
    BY <2>1, <2>2
<1>13. Finished
  BY <1>9, <1>11, <1>12 DEF Finished
<1> QED
  BY <1>1, <1>13, SucceedStep

-----------------------------------------------------------------------------
(***************************************************************************)
(* Every step refines                                                      *)
(***************************************************************************)

LEMMA RefiningInit == Init => Refining /\ Abstract!Init
<1> SUFFICES ASSUME Init PROVE Refining /\ Abstract!Init
  OBVIOUS
<1>1. phase = "idle" /\ names = <<>> /\ base = 0
  BY DEF Init
<1>2. Len(names) = 0 /\ 0 <= Limit
  BY <1>1, InternAssumption
<1>3. Bounded
  BY <1>1, <1>2 DEF Bounded
<1>4. InOrderRef /\ FindRef /\ PassOneRef /\ RewriteRef /\ PartitionRef
  BY <1>1 DEF InOrderRef, FindRef, PassOneRef, RewriteRef, PartitionRef, PartitionOrder, ClaimsLeast,
              ClaimsAll, NumberRef, Partitioning
<1>5. SubSeq(names, 1, base) = <<>>
  BY <1>1
<1>6. Abstract!Init
  BY <1>5 DEF Init, Abstract!Init
<1> QED
  BY <1>3, <1>4, <1>6 DEF Refining

(* A step inside a batch is not seen from outside. *)
LEMMA InsideBatch ==
  ASSUME InternInv, InternInv', UNCHANGED <<batches, base, outcome>>, \A k \in 1..base : names'[k] = names[k]
  PROVE  UNCHANGED <<batches, SubSeq(names, 1, base), outcome>>
<1>1. names \in Seq(Names) /\ base \in Nat /\ base <= Len(names) /\ Len(names) \in Nat
  BY DEF InternInv, InternTypeOK
<1>2. names' \in Seq(Names) /\ base <= Len(names') /\ Len(names') \in Nat
  BY DEF InternInv, InternTypeOK
<1>3. SubSeq(names, 1, base) = [k \in 1..base |-> names[k]]
  BY <1>1
<1>4. SubSeq(names', 1, base) = [k \in 1..base |-> names'[k]]
  BY <1>1, <1>2
<1>5. [k \in 1..base |-> names[k]] = [k \in 1..base |-> names'[k]]
  OBVIOUS
<1> QED
  BY <1>3, <1>4, <1>5

(* The names with an ID from before keep it. *)
LEMMA KnownNamesStay ==
  ASSUME InternInv, InternInv', UNCHANGED base, \A n \in Names : KnownSlot(n) => slots'[n] = slots[n]
  PROVE  \A k \in 1..base : names'[k] = names[k]
<1> SUFFICES ASSUME NEW k \in 1..base PROVE names'[k] = names[k]
  OBVIOUS
<1>1. InternTypeOK /\ Kept /\ Kept'
  BY DEF InternInv
<1>2. names[k] \in Names
  BY <1>1, TableFacts
<1>3. slots[names[k]] = Final(k)
  BY <1>1, <1>2 DEF Kept
<1>4. slots'[names[k]] = Final(k)
  BY <1>2, <1>3 DEF KnownSlot
<1>5. \A n \in Names : \A j \in 1..base : slots'[n] = Final(j) <=> names'[j] = n
  BY <1>1 DEF Kept, Final
<1> QED
  BY <1>2, <1>4, <1>5

LEMMA AppendingSteps ==
  ASSUME InternInv, InternInv', InternName \/ AssignPending \/ AppendNames
  PROVE  UNCHANGED <<batches, SubSeq(names, 1, base), outcome>>
<1>1. UNCHANGED <<batches, base, outcome>>
  BY DEF InternName, AssignPending, AppendNames
<1>2. \A n : KnownSlot(n) => slots[n] # Vacant /\ slots[n].tag # "pending"
  BY DEF KnownSlot, Final, Vacant
<1>3. slots \in [Names -> SlotValue]
  BY DEF InternInv, InternTypeOK
<1>4. ASSUME NEW n \in Names, KnownSlot(n) PROVE slots'[n] = slots[n]
  <2>1. CASE InternName
    BY <1>2, <1>3, <1>4, <2>1 DEF InternName
  <2>2. CASE AssignPending
    BY <1>2, <1>3, <1>4, <2>2 DEF AssignPending
  <2>3. CASE AppendNames
    BY <2>3 DEF AppendNames
  <2> QED
    BY <2>1, <2>2, <2>3
<1>5. \A k \in 1..base : names'[k] = names[k]
  BY <1>1, <1>4, KnownNamesStay
<1> QED
  BY <1>1, <1>5, InsideBatch

LEMMA RefiningStutter ==
  ASSUME InternInv, Refining, UNCHANGED vars
  PROVE  Refining'
<1>1. UNCHANGED <<batches, phase, base, names, slots, pending, assigned, overflowed, ids, work,
                  tasks, sequence, entries, firsts>>
  BY DEF vars
<1>2. \A k \in 1..base : names'[k] = names[k]
  BY <1>1
<1>3. /\ Places' = Places /\ New' = New
      /\ \A p : NameAt(p)' = NameAt(p) /\ Occurrence(p)' = Occurrence(p) /\ PlaceShard(p)' = PlaceShard(p)
      /\ \A p, q : Before(p, q)' <=> Before(p, q)
      /\ \A n : (Known(n)' <=> Known(n)) /\ First(n)' = First(n)
      /\ DistinctPositions' <=> DistinctPositions
  BY <1>1, <1>2, SameBatch
<1>4. (InFirstOrder' <=> InFirstOrder) /\ (Complete' <=> Complete)
  BY <1>1, SameOrder
<1>5. /\ Waiting' = Waiting /\ (Sorted' <=> Sorted) /\ Added' = Added
      /\ \A g : LeastIndex(g)' <=> LeastIndex(g)
  BY <1>1, <1>3 DEF Waiting, Sorted, Added, LeastIndex
<1>6. Bounded'
  BY <1>1, <1>3 DEF Refining, Bounded
<1>7. InOrderRef'
  BY <1>1, <1>3, <1>4, <1>5 DEF Refining, InOrderRef, Vacant
<1>8. FindRef'
  BY <1>1, <1>3 DEF Refining, FindRef
<1>9. PassOneRef'
  BY <1>1, <1>3 DEF Refining, PassOneRef, FirstSeen, Vacant, Less
<1>10. RewriteRef'
  BY <1>1, <1>3, <1>4 DEF Refining, RewriteRef, Vacant, Final
<1>11. PartitionOrder' /\ ClaimsLeast'
  BY <1>1, <1>3, <1>5 DEF Refining, PartitionRef, PartitionOrder, ClaimsLeast, Partitioning, Pending
<1>12. /\ \A g : /\ ShardAt(g)' = ShardAt(g) /\ NameAt(sequence[g])' = NameAt(sequence[g])
                 /\ RegionRank(g)' = RegionRank(g) /\ EntryOf(g)' = EntryOf(g) /\ SlotOf(g)' = SlotOf(g)
                 /\ ChunkAt(g)' = ChunkAt(g)
  BY <1>1, <1>3 DEF ShardAt, RegionRank, Region, EntryOf, SlotOf, ChunkAt
<1>13. \A g : IdOf(EntryOf(g))' = IdOf(EntryOf(g)) /\ Pending(g)' = Pending(g)
  BY <1>1, <1>12 DEF IdOf, Pending, Final
<1>14. ClaimsAll'
  BY <1>1, <1>12 DEF Refining, PartitionRef, ClaimsAll, Vacant
<1>15. NumberRef'
  BY <1>1, <1>5, <1>12, <1>13 DEF Refining, PartitionRef, NumberRef
<1> QED
  BY <1>6, <1>7, <1>8, <1>9, <1>10, <1>11, <1>14, <1>15 DEF Refining, PartitionRef

LEMMA RefiningNext ==
  ASSUME InternInv, Refining, [Next]_vars
  PROVE  Refining' /\ [Abstract!Next]_<<batches, SubSeq(names, 1, base), outcome>>
<1> DEFINE Goal == Refining' /\ [Abstract!Next]_<<batches, SubSeq(names, 1, base), outcome>>
           Quiet == UNCHANGED <<batches, base, names, outcome>>
<1> SUFFICES Goal
  OBVIOUS
<1>1. InternInv'
  BY InternNext
<1>2. ASSUME Refining', Quiet PROVE Goal
  <2>1. \A k \in 1..base : names'[k] = names[k]
    BY <1>2
  <2>2. UNCHANGED <<batches, SubSeq(names, 1, base), outcome>>
    BY <1>1, <1>2, <2>1, InsideBatch
  <2> QED
    BY <1>2, <2>2
<1>3. ASSUME Refining' /\ Abstract!Next PROVE Goal
  BY <1>3
<1>4. CASE BeginInOrder \/ BeginLookUp \/ BeginPasses \/ BeginPartitioned \/ MissingInOrder \/ MissingPartitioned
  <2>1. Refining'
    BY <1>4, BeginInOrderRef, BeginPassesRef, BeginPartitionRef
  <2>2. Quiet
    BY <1>4 DEF BeginInOrder, BeginLookUp, BeginPasses, BeginPartitioned, Begin, MissingInOrder,
                MissingPartitioned, tableVars
  <2> HIDE DEF Goal, Quiet
  <2> QED
    BY <1>2, <2>1, <2>2
<1>5. CASE InternName \/ AssignPending \/ AppendNames
  BY <1>1, <1>5, InternNameRef, AssignPendingRef, AppendNamesRef, AppendingSteps
<1>6. CASE ForgetNames \/ InOrderEnd \/ AllKnown \/ DiscardPending \/ RewriteEnd \/ AllFound \/ RetainFinal \/ NumberEnd
  <2>1. Refining' /\ Abstract!Next
    BY <1>6, ForgetNamesRef, InOrderEndRef, AllKnownRef, DiscardPendingRef, RewriteEndRef, AllFoundRef,
       RetainFinalRef, NumberEndRef
  <2> HIDE DEF Goal
  <2> QED
    BY <1>3, <2>1
<1>7. ASSUME NEW p \in work, LookupOrPend(p) \/ Rewrite(p) \/ Find(p) PROVE Goal
  <2>1. Refining'
    BY <1>7, LookupOrPendRef, RewriteRefines, FindRefines
  <2>2. Quiet
    BY <1>7 DEF LookupOrPend, Rewrite, Find, tableVars
  <2> HIDE DEF Goal, Quiet
  <2> QED
    BY <1>2, <2>1, <2>2
<1>8. ASSUME NEW d, Scatter(d) \/ Mark(d) \/ WriteChunk(d) PROVE Goal
  <2>1. Refining'
    BY <1>8, ScatterRef, MarkRef, WriteChunkRef
  <2>2. Quiet
    BY <1>8 DEF Scatter, Mark, WriteChunk, tableVars
  <2> HIDE DEF Goal, Quiet
  <2> QED
    BY <1>2, <2>1, <2>2
<1>9. ASSUME NEW s \in Shards, Probe(s) \/ NumberShard(s) PROVE Goal
  <2>1. Refining'
    BY <1>9, ProbeRef, NumberShardRef
  <2>2. Quiet
    BY <1>9 DEF Probe, NumberShard, tableVars
  <2> HIDE DEF Goal, Quiet
  <2> QED
    BY <1>2, <2>1, <2>2
<1>10. CASE ScatterEnd \/ ProbeEnd \/ MarkEnd
  <2>1. Refining'
    BY <1>10, ScatterRef, ProbeEndRef, MarkEndRef
  <2>2. Quiet
    BY <1>10 DEF ScatterEnd, ProbeEnd, MarkEnd, tableVars
  <2> HIDE DEF Goal, Quiet
  <2> QED
    BY <1>2, <2>1, <2>2
<1>11. CASE UNCHANGED vars
  <2>1. Refining'
    BY <1>11, RefiningStutter
  <2>2. Quiet
    BY <1>11 DEF vars
  <2> HIDE DEF Goal, Quiet
  <2> QED
    BY <1>2, <2>1, <2>2
<1> HIDE DEF Goal
<1>12. CASE InOrderNext
  BY <1>4, <1>5, <1>6, <1>12 DEF InOrderNext
<1>13. CASE PassesNext
  BY <1>4, <1>5, <1>6, <1>7, <1>13 DEF PassesNext
<1>14. CASE PartitionNext
  <2>1. ASSUME NEW t \in tasks, Scatter(t[2]) \/ Mark(t[2]) \/ WriteChunk(t[2]) PROVE Goal
    <3>1. PICK d : d = t[2]
      OBVIOUS
    <3>2. Scatter(d) \/ Mark(d) \/ WriteChunk(d)
      BY <2>1, <3>1
    <3> QED
      BY <1>8, <3>2
  <2> QED
    BY <1>4, <1>5, <1>6, <1>7, <1>9, <1>10, <1>14, <2>1 DEF PartitionNext
<1> QED
  BY <1>11, <1>12, <1>13, <1>14 DEF Next, Terminating

(* Whichever path a batch takes, however its tasks are scheduled and       *)
(* whatever the batches: the table changes only when a call returns, which *)
(* numbers the new names from the table's length upward in order of their  *)
(* first occurrence and gives every place the ID of its name, or, exactly  *)
(* when the new names do not fit, fails and leaves the table unchanged     *)
(* (SymbolTable::try_intern_batch).                                        *)
THEOREM InternImplements == Spec => ImplementsFirstOccurrence
<1>1. Init => InternInv /\ Refining /\ Abstract!Init
  BY InternInit, RefiningInit
<1>2. InternInv /\ Refining /\ [Next]_vars => InternInv' /\ Refining' /\ [Abstract!Next]_<<batches, SubSeq(names, 1, base), outcome>>
  BY InternNext, RefiningNext
<1> QED
  BY <1>1, <1>2, PTL DEF Spec, ImplementsFirstOccurrence, Abstract!Spec
=============================================================================
