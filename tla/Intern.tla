------------------------------- MODULE Intern -------------------------------
(***************************************************************************)
(* Interning batches of symbol names (SymbolTable::try_intern_batch): the  *)
(* in-order path, the three-pass path whose first pass runs under shard    *)
(* locks, and the partitioned path, which looks names up without locks and *)
(* numbers them by counting.  Tasks of a pass run in any order.            *)
(*                                                                         *)
(* SymbolIds count from 1 here: symbol n is names[n].  A slot value or a   *)
(* job's ID is an ID or carries the PENDING bit.  Which path a batch takes *)
(* depends on its size and the number of threads, and is a choice here.    *)
(***************************************************************************)
EXTENDS Integers, Sequences, FiniteSets

CONSTANTS
  NumNames,      \* names are 1..NumNames, in the order of their contents
  NumShards,     \* shards are 1..NumShards
  ShardOf,       \* ShardOf[n]: the shard of name n, chosen by its hash
  Limit,         \* the most symbols the table may hold
  PendingLimit,  \* the most names a shard's pending list may hold
  Chunk,         \* names per chunk of a partitioned sequence
  Workloads      \* sequences of batches; a batch is a sequence of jobs

Names == 1..NumNames
Shards == 1..NumShards

(* A pending list may become as long as the table (both 2^31). *)
ASSUME InternAssumption ==
  /\ NumNames \in Nat /\ Limit \in Nat
  /\ NumShards \in Nat \ {0} /\ Chunk \in Nat \ {0}
  /\ PendingLimit \in Nat \ {0} /\ PendingLimit >= Limit
  /\ ShardOf \in [Names -> Shards]
  /\ Workloads \subseteq Seq(Seq([position: Nat, names: Seq(Names)]))

VARIABLES
  batches,    \* the batches to intern; the first one is under way
  phase,      \* the pass under way, or "idle" between batches
  base,       \* the length of the table when the batch began
  names,      \* names by ID
  cells,      \* number of per-symbol flag words and definition cells
  slots,      \* slots[n]: the value of the hash table slot of name n
  pending,    \* pending[s]: the names first seen in this batch
  assigned,   \* assigned[s]: the final IDs of the pending names
  overflowed, \* a pending list was full
  ids,        \* ids[p]: the ID the batch has for place p
  work,       \* places the pass has not processed
  tasks,      \* tasks of the partitioned path that have not run
  sequence,   \* places whose names are interned in this order
  entries,    \* entries[s]: shard s's region of the partitioned sequence
  probed,     \* probed[s]: how many entries of the region were probed
  firsts,     \* the bitmap: sequence indices that are first occurrences
  outcome     \* what the last batch returned

vars == <<batches, phase, base, names, cells, slots, pending, assigned,
          overflowed, ids, work, tasks, sequence, entries, probed, firsts,
          outcome>>

tableVars == <<names, cells, slots>>
passVars == <<pending, assigned, overflowed>>
partitionVars == <<tasks, entries, probed, firsts>>

Vacant == [tag |-> "vacant", at |-> 0]
Final(n) == [tag |-> "id", at |-> n]
Pending(n) == [tag |-> "pending", at |-> n]
Unresolvable == [tag |-> "max", at |-> 0]

(* A place <<j, i>> is name i of job j. *)
Jobs == Head(batches)
Places == UNION {{<<j, i>> : i \in DOMAIN Jobs[j].names} : j \in DOMAIN Jobs}
NameAt(p) == Jobs[p[1]].names[p[2]]
PlaceShard(p) == ShardOf[NameAt(p)]

DistinctPositions ==
  \A j, k \in DOMAIN Jobs : Jobs[j].position = Jobs[k].position => j = k

(* Jobs by position, names in job order (positions are distinct). *)
Before(p, q) == \/ Jobs[p[1]].position < Jobs[q[1]].position
                \/ p[1] = q[1] /\ p[2] < q[2]

InOrder(places) ==
  [k \in 1..Cardinality(places) |->
     CHOOSE p \in places : Cardinality({q \in places : Before(q, p)}) = k - 1]

Free(limit, used) == IF limit > used THEN limit - used ELSE 0

Init ==
  /\ batches \in Workloads
  /\ phase = "idle"
  /\ base = 0
  /\ names = <<>>
  /\ cells = 0
  /\ slots = [n \in Names |-> Vacant]
  /\ pending = [s \in Shards |-> <<>>]
  /\ assigned = [s \in Shards |-> <<>>]
  /\ overflowed = FALSE
  /\ ids = <<>>
  /\ work = {}
  /\ tasks = {}
  /\ sequence = <<>>
  /\ entries = [s \in Shards |-> <<>>]
  /\ probed = [s \in Shards |-> 0]
  /\ firsts = {}
  /\ outcome = [status |-> "none"]

-----------------------------------------------------------------------------
(***************************************************************************)
(* The choice of a path, and the end of a batch.                           *)
(***************************************************************************)

Begin ==
  /\ phase = "idle" /\ batches # <<>>
  /\ ids' = [p \in Places |-> Vacant]
  /\ UNCHANGED <<batches, base, tableVars, passVars, outcome>>

(* A small batch, or one thread: the names in order on this thread. *)
BeginInOrder ==
  /\ Begin
  /\ DistinctPositions
  /\ phase' = "in_order"
  /\ sequence' = InOrder(Places)
  /\ UNCHANGED <<work, partitionVars>>

(* A large batch into a table with names: look the known ones up first. *)
BeginLookUp ==
  /\ Begin
  /\ DistinctPositions /\ names # <<>>
  /\ phase' = "find"
  /\ work' = Places
  /\ UNCHANGED <<sequence, partitionVars>>

(* Jobs that share a position (or 2^31 names): the three passes. *)
BeginPasses ==
  /\ Begin
  /\ phase' = "look_up"
  /\ work' = Places
  /\ UNCHANGED <<sequence, partitionVars>>

(* The call returns: what is local to it is gone. *)
Return ==
  /\ phase' = "idle"
  /\ batches' = Tail(batches)
  /\ ids' = <<>> /\ work' = {} /\ tasks' = {} /\ sequence' = <<>>
  /\ entries' = [s \in Shards |-> <<>>] /\ probed' = [s \in Shards |-> 0]
  /\ firsts' = {}

(* The batch succeeds: the table is what `names' has become. *)
Succeed ==
  /\ Return
  /\ base' = Len(names)
  /\ outcome' = [status |-> "ok", ids |-> [p \in DOMAIN ids |-> ids[p].at]]

(* The batch would take the table past its limit. *)
Fail ==
  /\ Return
  /\ outcome' = [status |-> "overflow"]
  /\ UNCHANGED <<base, cells>>

DropProvisional == [n \in Names |-> IF slots[n].tag = "pending" THEN Vacant ELSE slots[n]]

-----------------------------------------------------------------------------
(***************************************************************************)
(* intern_in_order, and the small case of intern_missing.                  *)
(***************************************************************************)

(* intern_name for the next name of the sequence. *)
InternName ==
  /\ phase = "in_order"
  /\ sequence # <<>>
  /\ LET p == Head(sequence)
         n == NameAt(p)
         next == Len(names) + 1
     IN \/ /\ slots[n] # Vacant
           /\ ids' = [ids EXCEPT ![p] = slots[n]]
           /\ UNCHANGED <<names, slots>>
        \/ /\ slots[n] = Vacant /\ Len(names) < Limit
           /\ ids' = [ids EXCEPT ![p] = Final(next)]
           /\ slots' = [slots EXCEPT ![n] = Final(next)]
           /\ names' = Append(names, n)
  /\ sequence' = Tail(sequence)
  /\ UNCHANGED <<batches, phase, base, cells, passVars, work, partitionVars,
                 outcome>>

(* The name is new and the table full: forget_names_from(base). *)
ForgetNames ==
  /\ phase = "in_order"
  /\ sequence # <<>>
  /\ slots[NameAt(Head(sequence))] = Vacant /\ Len(names) >= Limit
  /\ slots' = [n \in Names |-> IF slots[n].at > base THEN Vacant ELSE slots[n]]
  /\ names' = SubSeq(names, 1, base)
  /\ Fail
  /\ UNCHANGED passVars

InOrderEnd ==
  /\ phase = "in_order"
  /\ sequence = <<>>
  /\ cells' = cells + (Len(names) - base)
  /\ Succeed
  /\ UNCHANGED <<names, slots, passVars>>

-----------------------------------------------------------------------------
(***************************************************************************)
(* The three passes.                                                       *)
(***************************************************************************)

Occurrence(p) == <<Jobs[p[1]].position, p[2]>>

Less(a, b) == a[1] < b[1] \/ (a[1] = b[1] /\ a[2] < b[2])

\* Slip: the place that pends a name stays its first occurrence.
LookupOrPendFirst(p) ==
  /\ phase = "look_up"
  /\ p \in work
  /\ LET n == NameAt(p)
         s == ShardOf[n]
         handle == Pending(Len(pending[s]) + 1)
     IN IF slots[n] # Vacant
          THEN ids' = [ids EXCEPT ![p] = slots[n]] /\ UNCHANGED <<slots, passVars>>
          ELSE /\ Len(pending[s]) < PendingLimit
               /\ ids' = [ids EXCEPT ![p] = handle]
               /\ slots' = [slots EXCEPT ![n] = handle]
               /\ pending' = [pending EXCEPT ![s] =
                     Append(@, [name |-> n, first |-> Occurrence(p)])]
               /\ UNCHANGED <<assigned, overflowed>>
  /\ work' = work \ {p}
  /\ UNCHANGED <<batches, phase, base, names, cells, sequence, partitionVars,
                 outcome>>

(* Pass 1, lookup_or_pend of one name under its shard's lock: a known name *)
(* gives its ID; a pending one gives its handle and lowers its first       *)
(* occurrence; a new one is appended to the pending list, unless that is   *)
(* full.                                                                   *)
LookupOrPend(p) ==
  /\ phase = "look_up"
  /\ p \in work
  /\ LET n == NameAt(p)
         s == ShardOf[n]
         at == slots[n].at
         handle == Pending(Len(pending[s]) + 1)
     IN \/ /\ slots[n].tag = "id"
           /\ ids' = [ids EXCEPT ![p] = slots[n]]
           /\ UNCHANGED <<slots, pending, overflowed>>
        \/ /\ slots[n].tag = "pending"
           /\ ids' = [ids EXCEPT ![p] = slots[n]]
           /\ pending' = IF Less(Occurrence(p), pending[s][at].first)
                THEN [pending EXCEPT ![s][at].first = Occurrence(p)]
                ELSE pending
           /\ UNCHANGED <<slots, overflowed>>
        \/ /\ slots[n] = Vacant /\ Len(pending[s]) < PendingLimit
           /\ ids' = [ids EXCEPT ![p] = handle]
           /\ slots' = [slots EXCEPT ![n] = handle]
           /\ pending' = [pending EXCEPT ![s] =
                Append(@, [name |-> n, first |-> Occurrence(p)])]
           /\ UNCHANGED overflowed
        \/ /\ slots[n] = Vacant /\ Len(pending[s]) >= PendingLimit
           /\ ids' = [ids EXCEPT ![p] = Unresolvable]
           /\ overflowed' = TRUE
           /\ UNCHANGED <<slots, pending>>
  /\ work' = work \ {p}
  /\ UNCHANGED <<batches, phase, base, names, cells, assigned, sequence,
                 partitionVars, outcome>>

(* The pending names: <<s, l>> is entry l of shard s's list. *)
PendingRecords ==
  UNION {{<<s, l>> : l \in DOMAIN pending[s]} : s \in Shards}

NewCount == Cardinality(PendingRecords)
PassOverflow == overflowed \/ NewCount > Free(Limit, base)

PassOneDone == phase = "look_up" /\ work = {}

(* No shard received a new name. *)
AllKnown ==
  /\ PassOneDone
  /\ PendingRecords = {}
  /\ overflowed' = FALSE
  /\ Succeed
  /\ UNCHANGED <<tableVars, pending, assigned>>

\* Slip: the pending lists are dropped, the provisional slots are not.
DiscardLists ==
  /\ PassOneDone
  /\ PendingRecords # {} /\ PassOverflow
  /\ pending' = [s \in Shards |-> <<>>]
  /\ overflowed' = FALSE
  /\ Fail
  /\ UNCHANGED <<names, slots, assigned>>

(* discard_pending: undo pass 1. *)
DiscardPending ==
  /\ PassOneDone
  /\ PendingRecords # {} /\ PassOverflow
  /\ slots' = DropProvisional
  /\ pending' = [s \in Shards |-> <<>>]
  /\ overflowed' = FALSE
  /\ Fail
  /\ UNCHANGED <<names, assigned>>

(* The order of pass 2: by first occurrence, then by contents. *)
RecordBefore(r, q) ==
  LET a == pending[r[1]][r[2]]
      b == pending[q[1]][q[2]]
  IN Less(a.first, b.first) \/ (a.first = b.first /\ a.name < b.name)

RankOf(r) == Cardinality({q \in PendingRecords : RecordBefore(q, r)}) + 1

(* Pass 2, assign_pending: number the pending names, append them to the    *)
(* table and replace the provisional slots.                                *)
AssignPending ==
  /\ PassOneDone
  /\ PendingRecords # {} /\ ~PassOverflow
  /\ names' = names \o
       [k \in 1..NewCount |->
          LET r == CHOOSE q \in PendingRecords : RankOf(q) = k
          IN pending[r[1]][r[2]].name]
  /\ assigned' = [s \in Shards |->
       [l \in DOMAIN pending[s] |-> base + RankOf(<<s, l>>)]]
  /\ slots' = [n \in Names |-> IF slots[n].tag = "pending"
                 THEN Final(assigned'[ShardOf[n]][slots[n].at]) ELSE slots[n]]
  /\ pending' = [s \in Shards |-> <<>>]
  /\ cells' = cells + NewCount
  /\ phase' = "rewrite"
  /\ work' = Places
  /\ UNCHANGED <<batches, base, overflowed, ids, sequence, partitionVars, outcome>>

(* Pass 3: a provisional handle becomes a final ID. *)
Rewrite(p) ==
  /\ phase = "rewrite"
  /\ p \in work
  /\ work' = work \ {p}
  /\ ids' = IF ids[p].tag = "pending"
       THEN [ids EXCEPT ![p] = Final(assigned[PlaceShard(p)][ids[p].at])]
       ELSE ids
  /\ UNCHANGED <<batches, phase, base, tableVars, passVars, sequence,
                 partitionVars, outcome>>

RewriteEnd ==
  /\ phase = "rewrite"
  /\ work = {}
  /\ assigned' = [s \in Shards |-> <<>>]
  /\ Succeed
  /\ UNCHANGED <<tableVars, pending, overflowed>>

-----------------------------------------------------------------------------
(***************************************************************************)
(* intern_partitioned: look known names up, then number the missing ones.  *)
(***************************************************************************)

(* find_raw: the ID, or MISSING. *)
Find(p) ==
  /\ phase = "find"
  /\ p \in work
  /\ work' = work \ {p}
  /\ ids' = [ids EXCEPT ![p] = slots[NameAt(p)]]
  /\ UNCHANGED <<batches, phase, base, tableVars, passVars, sequence,
                 partitionVars, outcome>>

Missing == {p \in Places : ids[p] = Vacant}

AllFound ==
  /\ phase = "find" /\ work = {}
  /\ Missing = {}
  /\ Succeed
  /\ UNCHANGED <<tableVars, passVars>>

(* Few misses are interned in order; more are numbered by partitioning. *)
MissingInOrder ==
  /\ phase = "find" /\ work = {}
  /\ Missing # {}
  /\ phase' = "in_order"
  /\ sequence' = InOrder(Missing)
  /\ UNCHANGED <<batches, base, tableVars, passVars, ids, work, partitionVars,
                 outcome>>

(* number_sequence over `places': the chunks are counted (FirstCursor) and *)
(* about to be scattered.                                                  *)
ChunksOf(n) == IF n = 0 THEN 1 ELSE (n + Chunk - 1) \div Chunk

NumberSequence(places) ==
  LET seq == InOrder(places)
  IN /\ phase' = "scatter"
     /\ sequence' = seq
     /\ entries' = [s \in Shards |->
          [k \in 1..Cardinality({g \in DOMAIN seq : PlaceShard(seq[g]) = s}) |->
             Vacant]]
     /\ probed' = [s \in Shards |-> 0]
     /\ firsts' = {}
     /\ tasks' = {<<"chunk", c>> : c \in 1..ChunksOf(Len(seq))}

MissingPartitioned ==
  /\ phase = "find" /\ work = {}
  /\ Missing # {}
  /\ NumberSequence(Missing)
  /\ UNCHANGED <<batches, base, tableVars, passVars, ids, work, outcome>>

(* A large first batch is partitioned whole. *)
BeginPartitioned ==
  /\ Begin
  /\ DistinctPositions /\ names = <<>>
  /\ NumberSequence(Places)
  /\ UNCHANGED work

ChunkRange(c) == {g \in DOMAIN sequence : (g - 1) \div Chunk = c - 1}
ShardAt(g) == PlaceShard(sequence[g])

(* Where chunk c starts in the region of shard s: the prefix sum of the    *)
(* chunks' counts.                                                         *)
FirstCursor(c, s) ==
  Cardinality({g \in DOMAIN sequence :
                 (g - 1) \div Chunk < c - 1 /\ ShardAt(g) = s})

(* The entry chunk c's walk reaches at name g: its cursors advance by one  *)
(* per name of their shard.                                                *)
Cursor(c, g) ==
  FirstCursor(c, ShardAt(g))
    + Cardinality({h \in ChunkRange(c) : h <= g /\ ShardAt(h) = ShardAt(g)})

(* The chunk writes its names' indices into the regions. *)
Scatter(c) ==
  /\ phase = "scatter"
  /\ <<"chunk", c>> \in tasks
  /\ tasks' = tasks \ {<<"chunk", c>>}
  /\ entries' = [s \in Shards |-> [k \in DOMAIN entries[s] |->
       IF \E g \in ChunkRange(c) : ShardAt(g) = s /\ Cursor(c, g) = k
         THEN [tag |-> "index",
               at |-> CHOOSE g \in ChunkRange(c) :
                        ShardAt(g) = s /\ Cursor(c, g) = k]
         ELSE entries[s][k]]]
  /\ UNCHANGED <<batches, phase, base, tableVars, passVars, ids, work,
                 sequence, probed, firsts, outcome>>

ScatterEnd ==
  /\ phase = "scatter" /\ tasks = {}
  /\ phase' = "probe"
  /\ UNCHANGED <<batches, base, tableVars, passVars, ids, work, sequence,
                 partitionVars, outcome>>

(* The task of shard s probes the next entry of its region. *)
Probe(s) ==
  /\ phase = "probe"
  /\ probed[s] < Len(entries[s])
  /\ LET k == probed[s] + 1
         g == entries[s][k].at
         n == NameAt(sequence[g])
         value == IF slots[n] = Vacant THEN Pending(g) ELSE slots[n]
     IN /\ slots' = [slots EXCEPT ![n] = value]
        /\ entries' = [entries EXCEPT ![s][k] = value]
        /\ probed' = [probed EXCEPT ![s] = k]
  /\ UNCHANGED <<batches, phase, base, names, cells, passVars, ids, work,
                 tasks, sequence, firsts, outcome>>

ProbeEnd ==
  /\ phase = "probe"
  /\ \A s \in Shards : probed[s] = Len(entries[s])
  /\ phase' = "mark"
  /\ tasks' = {<<"chunk", c>> : c \in 1..ChunksOf(Len(sequence))}
  /\ UNCHANGED <<batches, base, tableVars, passVars, ids, work, sequence,
                 entries, probed, firsts, outcome>>

ResultAt(c, g) == entries[ShardAt(g)][Cursor(c, g)]

(* The chunk marks the names that are their own first occurrence. *)
Mark(c) ==
  /\ phase = "mark"
  /\ <<"chunk", c>> \in tasks
  /\ tasks' = tasks \ {<<"chunk", c>>}
  /\ firsts' = firsts \cup {g \in ChunkRange(c) : ResultAt(c, g) = Pending(g)}
  /\ UNCHANGED <<batches, phase, base, tableVars, passVars, ids, work,
                 sequence, entries, probed, outcome>>

RetainFinal ==
  /\ phase = "mark" /\ tasks = {}
  /\ Cardinality(firsts) > Free(Limit, base)
  /\ slots' = DropProvisional
  /\ Fail
  /\ UNCHANGED <<names, passVars>>

MarkEnd ==
  /\ phase = "mark" /\ tasks = {}
  /\ Cardinality(firsts) <= Free(Limit, base)
  /\ phase' = "number"
  /\ tasks' = {<<"chunk", c>> : c \in 1..ChunksOf(Len(sequence))}
              \cup {<<"shard", s>> : s \in {t \in Shards : entries[t] # <<>>}}
              \cup {<<"names", 0>>}
  /\ UNCHANGED <<batches, base, tableVars, passVars, ids, work, sequence,
                 entries, probed, firsts, outcome>>

(* id_of: the rank of a first occurrence among the new names. *)
IdOf(value) ==
  IF value.tag = "pending"
    THEN Final(base + Cardinality({g \in firsts : g <= value.at}))
    ELSE value

(* Side by side: final IDs in the shards, IDs to the jobs, names to the    *)
(* table.                                                                  *)
NumberShard(s) ==
  /\ phase = "number"
  /\ <<"shard", s>> \in tasks
  /\ tasks' = tasks \ {<<"shard", s>>}
  /\ slots' = [n \in Names |-> IF ShardOf[n] = s THEN IdOf(slots[n]) ELSE slots[n]]
  /\ UNCHANGED <<batches, phase, base, names, cells, passVars, ids, work,
                 sequence, entries, probed, firsts, outcome>>

WriteChunk(c) ==
  /\ phase = "number"
  /\ <<"chunk", c>> \in tasks
  /\ tasks' = tasks \ {<<"chunk", c>>}
  /\ ids' = [p \in DOMAIN ids |->
       IF \E g \in ChunkRange(c) : sequence[g] = p
         THEN IdOf(ResultAt(c, CHOOSE g \in ChunkRange(c) : sequence[g] = p))
         ELSE ids[p]]
  /\ UNCHANGED <<batches, phase, base, tableVars, passVars, work, sequence,
                 entries, probed, firsts, outcome>>

AppendNames ==
  /\ phase = "number"
  /\ <<"names", 0>> \in tasks
  /\ tasks' = tasks \ {<<"names", 0>>}
  /\ names' = names \o
       [k \in 1..Cardinality(firsts) |->
          NameAt(sequence[CHOOSE g \in firsts :
                            Cardinality({h \in firsts : h <= g}) = k])]
  /\ UNCHANGED <<batches, phase, base, cells, slots, passVars, ids, work,
                 sequence, entries, probed, firsts, outcome>>

NumberEnd ==
  /\ phase = "number" /\ tasks = {}
  /\ cells' = cells + Cardinality(firsts)
  /\ Succeed
  /\ UNCHANGED <<names, slots, passVars>>

-----------------------------------------------------------------------------
Terminating == phase = "idle" /\ batches = <<>> /\ UNCHANGED vars

InOrderNext == BeginInOrder \/ InternName \/ ForgetNames \/ InOrderEnd

PassesNext ==
  \/ BeginPasses
  \/ \E p \in work : LookupOrPend(p) \/ Rewrite(p)
  \/ AllKnown \/ DiscardPending \/ AssignPending \/ RewriteEnd

PartitionNext ==
  \/ BeginLookUp \/ BeginPartitioned
  \/ \E p \in work : Find(p)
  \/ AllFound \/ MissingInOrder \/ MissingPartitioned
  \/ \E t \in tasks : Scatter(t[2]) \/ Mark(t[2]) \/ WriteChunk(t[2])
  \/ \E s \in Shards : Probe(s) \/ NumberShard(s)
  \/ ScatterEnd \/ ProbeEnd \/ RetainFinal \/ MarkEnd \/ AppendNames \/ NumberEnd

Next == InOrderNext \/ PassesNext \/ PartitionNext \/ Terminating

Spec == Init /\ [][Next]_vars

-----------------------------------------------------------------------------
(***************************************************************************)
(* Properties                                                              *)
(***************************************************************************)

(* Between batches, after success or overflow, the hash slots and the name *)
(* list are inverse, no provisional handle, pending name or assignment is  *)
(* left behind, and every symbol has its state.                            *)
TableConsistent ==
  phase = "idle" =>
    /\ \A n \in Names, k \in DOMAIN names : slots[n] = Final(k) <=> names[k] = n
    /\ \A n \in Names :
         slots[n] = Vacant \/ \E k \in DOMAIN names : slots[n] = Final(k)
    /\ \A s \in Shards : pending[s] = <<>> /\ assigned[s] = <<>>
    /\ ~overflowed
    /\ cells = Len(names) /\ base = Len(names)

Abstract == INSTANCE InternAbs WITH table <- SubSeq(names, 1, base)

(* Whatever the path and the scheduling, a batch numbers its new names in  *)
(* order of first occurrence and gives every name its ID, or fails and     *)
(* leaves the table unchanged exactly when the new names do not fit        *)
(* (try_intern_batch: "The IDs are the same for every thread count and     *)
(* scheduling", "The table is then unchanged").                            *)
ImplementsFirstOccurrence == Abstract!Spec
=============================================================================
