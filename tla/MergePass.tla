----------------------------- MODULE MergePass -----------------------------
(***************************************************************************)
(* Merging of SHF_MERGE sections: passes/merge/split.rs, passes/merge.rs   *)
(* and elf/merge.rs.                                                       *)
(*                                                                         *)
(* Sections are split into pieces as they are loaded; live ones are put in *)
(* groups; equal pieces of a group get one leader, found shard by shard in *)
(* parallel; leaders are laid out, in parallel runs or with tail merging;  *)
(* followers take their leader's offset; the groups are written by tasks   *)
(* that share out one buffer.  Every parallel task is one step.            *)
(*                                                                         *)
(* A section is a sequence of bytes with its kind and alignment; hash      *)
(* values, shards and task sizes are small.                                *)
(***************************************************************************)
EXTENDS Integers, FiniteSets, SequencesExt

CONSTANTS
  Cases,          \* the sections of a link, with its options
  MergeShards,    \* SHARDS
  PiecesPerRun,   \* PIECES_PER_RUN
  PiecesPerTask,  \* MIN_PIECES_PER_TASK
  MaxHint         \* the largest piece number a thread may remember

ASSUME MergeAssumption ==
  /\ MergeShards \in Nat \ {0} /\ PiecesPerRun \in Nat \ {0} /\ PiecesPerTask \in Nat \ {0}
  /\ MaxHint \in Nat

VARIABLES
  case,     \* constant: sections, tail (tail_merge), live (of pieces)
  splits,   \* splits[i]: the starts of the pieces of section i, or Unsplit
  stage,
  groups,   \* the MergeGroups, with their member sections
  leader,   \* leader[p]: the leader of piece p, 0 while it is dead
  shards,   \* shards of deduplicate that are done
  runs,     \* runs[g]: the layouts of the runs of group g that are done
  offset,   \* offset[p]: output offset of piece p, or Dead
  sizes,    \* sizes[g]: size of group g, or Dead
  placed,   \* placed[g]: the OutputPieces of group g
  writes,   \* write_pieces calls not yet made: <<group, from, to, base, limit>>
  image,    \* image[g]: the bytes of group g
  hint,     \* LAST_PIECE: the split (its address) and piece looked up last by a thread
  found     \* the answer of the last lookup

mergeVars == <<case, splits, stage, groups, leader, shards, runs, offset, sizes, placed, writes,
          image, hint, found>>

Dead == -1
Unsplit == <<-1>>
MergeSections == DOMAIN case.sections
Sec(i) == case.sections[i]
Data(i) == Sec(i).data

(***************************************************************************)
(* split.rs                                                                *)
(***************************************************************************)
(* The characters of a string section that are NUL, by their last byte.    *)
Nuls(data, unit) ==
  {e \in 1 .. Len(data) : e % unit = 0 /\ \A k \in 0 .. unit - 1 : data[e - k] = 0}

(* count_pieces refuses a torn unit and an unterminated string. *)
Malformed(s) ==
  \/ Len(s.data) % s.unit # 0
  \/ s.strings /\ Len(s.data) > 0 /\ Len(s.data) \notin Nuls(s.data, s.unit)

(* split_section: offsets count from 0. *)
Starts(s) ==
  LET ends == IF s.strings THEN Nuls(s.data, s.unit)
              ELSE {e \in 1 .. Len(s.data) : e % s.unit = 0}
      starts == {b \in 0 .. Len(s.data) - 1 : b = 0 \/ b \in ends}
  IN SetToSortSeq(starts, <)

NumPieces(i) == Len(splits[i])
StartOf(i, k) == splits[i][k]
EndOf(i, k) == IF k < NumPieces(i) THEN splits[i][k + 1] ELSE Len(Data(i))
Bytes(i, k) == SubSeq(Data(i), StartOf(i, k) + 1, EndOf(i, k))

(* Pieces are numbered through all inputs of the merge, from 1. *)
Pieces == UNION {{<<i, k>> : k \in 1 .. NumPieces(i)} : i \in MergeSections}
BytesOf(p) == Bytes(p[1], p[2])

(***************************************************************************)
(* Loading and grouping                                                    *)
(***************************************************************************)
MergeInit ==
  /\ case \in Cases
  /\ splits = [i \in DOMAIN case.sections |-> Unsplit]
  /\ stage = "split" /\ groups = <<>> /\ leader = <<>> /\ shards = {} /\ runs = <<>>
  /\ offset = <<>> /\ sizes = <<>> /\ placed = <<>> /\ writes = {} /\ image = <<>>
  /\ hint = <<0, 0>> /\ found = <<>>

Split(i) ==
  /\ stage = "split" /\ splits[i] = Unsplit
  /\ IF Malformed(Sec(i))
       THEN stage' = "failed" /\ UNCHANGED splits
       ELSE splits' = [splits EXCEPT ![i] = Starts(Sec(i))] /\ UNCHANGED stage
  /\ UNCHANGED <<case, groups, leader, shards, runs, offset, sizes, placed, writes, image, hint, found>>

(* elf/merge.rs: sections of one output, kind and alignment share a group. *)
Key(s) == <<s.output, s.strings, s.unit, s.align>>

GroupOf(i) == CHOOSE g \in DOMAIN groups : i \in ToSet(groups[g].members)

Merge ==
  /\ stage = "split" /\ \A i \in MergeSections : splits[i] # Unsplit
  /\ LET live == SetToSortSeq({i \in MergeSections : Sec(i).live}, <)
         heads == SelectSeq(live, LAMBDA i : \A j \in ToSet(live) :
                                    j < i => Key(Sec(j)) # Key(Sec(i)))
     IN groups' = [g \in DOMAIN heads |->
                     [align |-> Sec(heads[g]).align, strings |-> Sec(heads[g]).strings,
                      members |-> SelectSeq(live, LAMBDA i : Key(Sec(i)) = Key(Sec(heads[g])))]]
  /\ leader' = [p \in {q \in Pieces : Sec(q[1]).live} |-> <<0, 0>>]
  /\ offset' = [p \in {q \in Pieces : Sec(q[1]).live} |-> Dead]
  /\ stage' = "deduplicate"
  /\ UNCHANGED <<case, splits, shards, runs, sizes, placed, writes, image, hint, found>>

(***************************************************************************)
(* deduplicate                                                             *)
(***************************************************************************)
PieceOrder(p, q) == p[1] < q[1] \/ (p[1] = q[1] /\ p[2] < q[2])

(* Content hashes collide; the group is hashed in. *)
GroupHash(p) == (FoldLeft(+, 0, BytesOf(p)) + GroupOf(p[1])) % (2 * MergeShards)
ShardOfHash(h) == h % MergeShards

SamePiece(p, q) ==
  GroupHash(p) = GroupHash(q) /\ GroupOf(p[1]) = GroupOf(q[1]) /\ BytesOf(p) = BytesOf(q)

(* One shard: its live pieces, bucketed in input order whatever the runs,  *)
(* are looked up in its table one by one.                                  *)
Deduplicate(s) ==
  /\ stage = "deduplicate" /\ s \in 0 .. MergeShards - 1 \ shards
  /\ \E mine \in {{p \in DOMAIN leader : p \notin case.dead /\ ShardOfHash(GroupHash(p)) = s}} :
     leader' = [p \in DOMAIN leader |->
       IF p \notin mine THEN leader[p]
       ELSE CHOOSE q \in mine : SamePiece(p, q)
              /\ \A r \in mine : SamePiece(p, r) /\ r # q => PieceOrder(q, r)]
  /\ shards' = shards \cup {s}
  /\ stage' = IF shards' = 0 .. MergeShards - 1 THEN "layout" ELSE stage
  /\ runs' = [g \in DOMAIN groups |-> <<>>]
  /\ sizes' = [g \in DOMAIN groups |-> Dead]
  /\ placed' = [g \in DOMAIN groups |-> <<>>]
  /\ UNCHANGED <<case, splits, groups, offset, writes, image, hint, found>>

(***************************************************************************)
(* Layout                                                                  *)
(***************************************************************************)
AlignTo(v, align) == ((v + align - 1) \div align) * align

(* The leaders of a group, in input order. *)
Leaders(members) ==
  SetToSortSeq({p \in DOMAIN leader : leader[p] = p /\ p[1] \in ToSet(members)}, PieceOrder)

Placed(p, at) == [piece |-> p, at |-> at, len |-> Len(BytesOf(p))]

(* Pieces one behind the other from 0, each aligned. *)
Laid(list, align) ==
  FoldLeft(LAMBDA acc, p :
             LET at == AlignTo(acc.span, align)
             IN [pieces |-> Append(acc.pieces, Placed(p, at)), span |-> at + Len(BytesOf(p))],
           [pieces |-> <<>>, span |-> 0], list)

(* layout_group_in_runs: a run ends with the section that fills it. *)
RunsOf(members) ==
  LET cut == FoldLeft(LAMBDA acc, i :
               LET n == acc.n + NumPieces(i)
                   run == Append(acc.run, i)
               IN IF n >= PiecesPerRun THEN [runs |-> Append(acc.runs, run), run |-> <<>>, n |-> 0]
                  ELSE [acc EXCEPT !.run = run, !.n = n],
             [runs |-> <<>>, run |-> <<>>, n |-> 0], members)
  IN IF cut.run = <<>> THEN cut.runs ELSE Append(cut.runs, cut.run)

InRuns(g) == ~(case.tail /\ groups[g].strings)

LayOutRun(g, r) ==
  /\ stage = "layout" /\ sizes[g] = Dead /\ InRuns(g)
  /\ r \in DOMAIN RunsOf(groups[g].members) /\ \A d \in ToSet(runs[g]) : d.run # r
  /\ runs' = [runs EXCEPT ![g] = Append(@,
                [run |-> r, laid |-> Laid(Leaders(RunsOf(groups[g].members)[r]), groups[g].align)])]
  /\ UNCHANGED <<case, splits, stage, groups, leader, shards, offset, sizes, placed, writes,
                 image, hint, found>>

LaidOf(g, r) == (CHOOSE d \in ToSet(runs[g]) : d.run = r).laid

(* The bases of the runs; an empty run takes no room. *)
BasesOf(g) ==
  FoldLeft(LAMBDA acc, r :
             LET lay == LaidOf(g, r)
                 size == acc.next + lay.span
             IN IF lay.pieces = <<>> THEN [acc EXCEPT !.base = Append(@, acc.next)]
                ELSE [base |-> Append(acc.base, acc.next), size |-> size,
                      next |-> AlignTo(size, groups[g].align)],
           [base |-> <<>>, size |-> 0, next |-> 0],
           [r \in DOMAIN RunsOf(groups[g].members) |-> r])

Moved(lay, base) == [k \in DOMAIN lay.pieces |-> [lay.pieces[k] EXCEPT !.at = @ + base]]

(* What a group's layout leaves: its pieces, their offsets, its size. *)
SetGroup(g, pieces, offsetOf, size) ==
  /\ placed' = [placed EXCEPT ![g] = pieces]
  /\ offset' = [p \in DOMAIN offset |-> IF p \in DOMAIN offsetOf THEN offsetOf[p] ELSE offset[p]]
  /\ sizes' = [sizes EXCEPT ![g] = size]

JoinRuns(g) ==
  /\ stage = "layout" /\ sizes[g] = Dead /\ InRuns(g)
  /\ Len(runs[g]) = Len(RunsOf(groups[g].members))
  /\ \E bases \in {BasesOf(g)} :
     \E pieces \in {FlattenSeq([r \in DOMAIN bases.base |-> Moved(LaidOf(g, r), bases.base[r])])} :
       SetGroup(g, pieces,
                [p \in {pieces[k].piece : k \in DOMAIN pieces} |->
                   (CHOOSE d \in ToSet(pieces) : d.piece = p).at], bases.size)
  /\ UNCHANGED <<case, splits, stage, groups, leader, shards, runs, writes, image, hint, found>>

(* layout_group with tail merging: the strings sorted by their reversed    *)
(* bytes, longest of a suffix family first; an aligned suffix of the last  *)
(* string that stands alone is placed inside it.                           *)
Above(x, y) ==
  \E n \in 0 .. Len(x) - 1 :
    /\ n <= Len(y) /\ SubSeq(x, Len(x) - n + 1, Len(x)) = SubSeq(y, Len(y) - n + 1, Len(y))
    /\ n = Len(y) \/ x[Len(x) - n] > y[Len(y) - n]

TailOrder(p, q) ==
  Above(BytesOf(p), BytesOf(q)) \/ (BytesOf(p) = BytesOf(q) /\ PieceOrder(p, q))

\* Slip: a suffix is shared whatever its alignment.
FitsInAnywhere(p, owner, align) == IsSuffix(BytesOf(p), BytesOf(owner))

FitsIn(p, owner, align) ==
  /\ IsSuffix(BytesOf(p), BytesOf(owner))
  /\ (Len(BytesOf(owner)) - Len(BytesOf(p))) % align = 0

Links(list, align) ==
  FoldLeft(LAMBDA acc, p :
             IF acc.owner # <<>> /\ FitsIn(p, acc.owner, align)
               THEN [acc EXCEPT !.of = @ \cup {<<p, acc.owner>>}]
               ELSE [owner |-> p, of |-> acc.of \cup {<<p, p>>}],
           [owner |-> <<>>, of |-> {}], SortSeq(list, TailOrder)).of

LayOutTails(g) ==
  /\ stage = "layout" /\ sizes[g] = Dead /\ ~InRuns(g)
  /\ \E list \in {Leaders(groups[g].members)} : \E links \in {Links(list, groups[g].align)} :
     LET ownerOf(p) == (CHOOSE l \in links : l[1] = p)[2]
         laid == Laid(SelectSeq(list, LAMBDA p : ownerOf(p) = p), groups[g].align)
         at(p) == (CHOOSE d \in ToSet(laid.pieces) : d.piece = p).at
     IN SetGroup(g, laid.pieces,
                 [p \in ToSet(list) |->
                    at(ownerOf(p)) + Len(BytesOf(ownerOf(p))) - Len(BytesOf(p))], laid.span)
  /\ UNCHANGED <<case, splits, stage, groups, leader, shards, runs, writes, image, hint, found>>

(* The pieces that are not leaders; then the writer starts. *)
Follow ==
  /\ stage = "layout" /\ \A g \in DOMAIN groups : sizes[g] # Dead
  /\ offset' = [p \in DOMAIN offset |->
                  IF leader[p] = <<0, 0>> THEN Dead ELSE offset[leader[p]]]
  /\ image' = [g \in DOMAIN groups |-> [k \in 1 .. sizes[g] |-> -1]]
  /\ writes' = {<<g, 1, Len(placed[g]), 0, sizes[g]>> : g \in DOMAIN groups}
  /\ stage' = "write"
  /\ UNCHANGED <<case, splits, groups, leader, shards, runs, sizes, placed, hint, found>>

(***************************************************************************)
(* write_pieces                                                            *)
(***************************************************************************)
(* A long list is cut in two, and the buffer where the second half starts. *)
SplitTask(t) ==
  /\ stage = "write" /\ t \in writes /\ t[3] - t[2] + 1 > PiecesPerTask
  /\ LET mid == t[2] + (t[3] - t[2] + 1) \div 2
         cut == placed[t[1]][mid].at
     IN writes' = (writes \ {t}) \cup {<<t[1], t[2], mid - 1, t[4], cut>>,
                                     <<t[1], mid, t[3], cut, t[5]>>}
  /\ UNCHANGED <<case, splits, stage, groups, leader, shards, runs, offset, sizes, placed, image,
                 hint, found>>

GapFilled(old) == 0

(* A short one copies its pieces and clears what lies between them. *)
WriteTask(t) ==
  /\ stage = "write" /\ t \in writes /\ t[3] - t[2] + 1 <= PiecesPerTask
  /\ LET mine == {placed[t[1]][k] : k \in t[2] .. t[3]}
         covers(d, b) == d.at <= b /\ b < d.at + d.len
         byte(b) == IF \E d \in mine : covers(d, b)
                      THEN LET d == CHOOSE e \in mine : covers(e, b)
                           IN BytesOf(d.piece)[b - d.at + 1]
                      ELSE GapFilled(image[t[1]][b + 1])
     IN image' = [image EXCEPT ![t[1]] =
                    [k \in DOMAIN @ |-> IF t[4] <= k - 1 /\ k - 1 < t[5] THEN byte(k - 1) ELSE @[k]]]
  /\ writes' = writes \ {t}
  /\ UNCHANGED <<case, splits, stage, groups, leader, shards, runs, offset, sizes, placed, hint, found>>

(* The thread that looks up next may remember a piece of any number: of    *)
(* another split that was at the same address before this one.             *)
Written ==
  /\ stage = "write" /\ writes = {}
  /\ stage' = "done"
  /\ hint' \in {<<0, 0>>} \cup (MergeSections \X (1 .. MaxHint))
  /\ UNCHANGED <<case, splits, groups, leader, shards, runs, offset, sizes, placed, writes, image, found>>

(***************************************************************************)
(* Lookups, by the relocations                                             *)
(***************************************************************************)
Covers(i, k, off) == k \in 1 .. NumPieces(i) /\ StartOf(i, k) <= off /\ off < EndOf(i, k)

(* string_piece_at: the piece found last by this thread and the next one   *)
(* are tried before the search.                                            *)
PieceAt(i, off) ==
  LET near == {k \in {hint[2], hint[2] + 1} : hint[1] = i /\ Covers(i, k, off)}
  IN IF ~Sec(i).strings THEN off \div Sec(i).unit + 1
     ELSE IF near # {} THEN Min(near)
     ELSE Max({k \in 1 .. NumPieces(i) : StartOf(i, k) <= off})

(* MergedSections::output_offset, for an offset inside a live section. *)
Lookup(i, off) ==
  /\ stage = "done" /\ Sec(i).live /\ off \in 0 .. Len(Data(i)) - 1
  /\ \E k \in {PieceAt(i, off)} :
       /\ found' = <<i, off, IF offset[<<i, k>>] = Dead THEN Dead
                             ELSE offset[<<i, k>>] + off - StartOf(i, k)>>
       /\ hint' = IF Sec(i).strings THEN <<i, k>> ELSE hint
  /\ UNCHANGED <<case, splits, stage, groups, leader, shards, runs, offset, sizes, placed, writes, image>>

Ended == stage \in {"failed", "done"} /\ UNCHANGED mergeVars

MergeNext ==
  \/ \E i \in MergeSections : Split(i)
  \/ Merge
  \/ \E s \in 0 .. MergeShards - 1 : Deduplicate(s)
  \/ \E g \in DOMAIN groups : \E r \in DOMAIN RunsOf(groups[g].members) : LayOutRun(g, r)
  \/ \E g \in DOMAIN groups : JoinRuns(g) \/ LayOutTails(g)
  \/ Follow
  \/ \E t \in writes : SplitTask(t) \/ WriteTask(t)
  \/ Written
  \/ \E i \in MergeSections : \E off \in 0 .. Len(Data(i)) - 1 : Lookup(i, off)
  \/ Ended

MergeSpec == MergeInit /\ [][MergeNext]_mergeVars

(***************************************************************************)
(* Properties                                                              *)
(***************************************************************************)
LivePieces == {p \in DOMAIN leader : p \notin case.dead}
GroupBytes(g, at, len) == SubSeq(image[g], at + 1, at + len)

(* A reference into a merged section finds the bytes it found before: in   *)
(* the written group, at the offset of the piece, are the piece's bytes,   *)
(* shared or not.                                                          *)
PieceBytesKept ==
  stage = "done" =>
    \A p \in LivePieces :
      GroupBytes(GroupOf(p[1]), offset[p], Len(BytesOf(p))) = BytesOf(p)

(* The same for any offset the relocations ask for, whatever the thread    *)
(* looked up before.                                                       *)
LookupFindsByte ==
  (found # <<>> /\ found[3] # Dead) =>
    /\ found[3] + 1 \in DOMAIN image[GroupOf(found[1])]
    /\ image[GroupOf(found[1])][found[3] + 1] = Data(found[1])[found[2] + 1]

(* Every piece starts at a multiple of its group's alignment. *)
PiecesAligned ==
  stage = "done" => \A p \in LivePieces : offset[p] % groups[GroupOf(p[1])].align = 0

(* The output does not depend on the order of the writes: every byte that   *)
(* belongs to no piece is 0 and none is left over from another output.     *)
ImageDetermined ==
  stage = "done" =>
    \A g \in DOMAIN groups : \A k \in DOMAIN image[g] :
      LET over == {p \in LivePieces : /\ GroupOf(p[1]) = g
                                      /\ offset[p] < k /\ k <= offset[p] + Len(BytesOf(p))}
      IN image[g][k] = IF over = {} THEN 0
                       ELSE LET p == CHOOSE q \in over : TRUE IN BytesOf(p)[k - offset[p]]

(* Nothing is stored twice: two pieces of a group with the same bytes have *)
(* the same place, and without tail merging two places hold different      *)
(* bytes and do not overlap.                                               *)
EachPieceOnce ==
  stage = "done" =>
    \A p, q \in LivePieces : GroupOf(p[1]) = GroupOf(q[1]) =>
      /\ BytesOf(p) = BytesOf(q) => offset[p] = offset[q]
      /\ (InRuns(GroupOf(p[1])) /\ BytesOf(p) # BytesOf(q))
           => \/ offset[p] + Len(BytesOf(p)) <= offset[q]
              \/ offset[q] + Len(BytesOf(q)) <= offset[p]

(* What merging writes is the pieces and nothing else: each found whole    *)
(* and aligned where its references go, by any lookup, stored once, the    *)
(* rest zero, in whatever order shards, runs and copies were done.         *)
MergedImageSound ==
  /\ PieceBytesKept /\ LookupFindsByte /\ PiecesAligned
  /\ ImageDetermined /\ EachPieceOnce
=============================================================================
