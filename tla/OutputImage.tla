---------------------------- MODULE OutputImage ----------------------------
(***************************************************************************)
(* The contents of an output being written: write_chunks, write_at,        *)
(* as_mut_slice, reserve_build_id and apply_build_id, with the write        *)
(* backing (positional writes by region, block digests computed while      *)
(* writing) beside an in-memory backing that receives the same calls.      *)
(*                                                                         *)
(* A byte is 0, CHUNK (written by a chunk writer), PATCH (by write_at) or  *)
(* ID (part of a build-id).  A digest is the bytes hashed, so that two     *)
(* digests are equal exactly when the bytes are.                           *)
(***************************************************************************)
EXTENDS Integers, Sequences, FiniteSets, SequencesExt

CONSTANTS
  ImageLen,     \* length of the image
  Block,        \* BLOCK_SIZE
  RetainLimit,  \* RETAIN_LIMIT
  Layouts,      \* the layouts write_chunks is called with
  Fields,       \* build-id fields
  PatchOffsets, \* where write_at writes
  MaxFills,     \* calls of write_chunks
  MaxPatches,   \* calls of write_at and as_mut_slice
  Refills       \* the layouts that are also written after another write

Offsets == 0..ImageLen - 1
ByteRange == [offset: 0..ImageLen, size: 0..ImageLen]
End(range) == range.offset + range.size

(* validate_layout: in bounds, in order, no overlap. *)
ValidLayout(ranges) ==
  /\ \A i \in DOMAIN ranges : End(ranges[i]) <= ImageLen
  /\ \A i \in DOMAIN ranges : i > 1 => ranges[i].offset >= End(ranges[i - 1])

ASSUME ImageAssumption ==
  /\ ImageLen \in Nat /\ Block \in Nat \ {0} /\ RetainLimit \in Nat
  /\ Layouts \subseteq {l \in Seq(ByteRange) : ValidLayout(l)}
  /\ Fields \subseteq {f \in ByteRange : f.size > 0 /\ End(f) <= ImageLen}
  /\ PatchOffsets \subseteq Offsets
  /\ MaxFills \in Nat /\ MaxPatches \in Nat /\ Refills \subseteq Layouts

CHUNK == 1
PATCH == 2
ID == 3

NoField == [offset |-> 0, size |-> 0]
NoDigests == [field |-> NoField, parts |-> {}]

VARIABLES
  storage,      \* "positional" or, once materialized, "buffer"
  image,        \* the bytes of the file, or of the buffer
  memory,       \* the bytes of an in-memory backing after the same calls
  written,      \* Positional::written
  plan,         \* the field reserve_build_id announced, or NoField
  precomputed,  \* Positional::precomputed, or NoDigests
  layout,       \* the layout being written
  hashing,      \* the plan in force while it is written
  tasks,        \* regions (by first chunk) not written yet
  parts,        \* block parts the regions returned
  phase,        \* "open", "chunks", "failed" or "done"
  fills, patches, \* calls made so far
  rewritten,    \* offsets written by chunks over what was written before
  id            \* the build-id applied, or <<>>

imageVars == <<storage, image, memory, written, plan, precomputed, layout, hashing,
              tasks, parts, phase, fills, patches, rewritten, id>>

chunkVars == <<layout, hashing, tasks, parts>>

ImageInit ==
  /\ storage = "positional"
  /\ image = [x \in Offsets |-> 0]
  /\ memory = image
  /\ written = FALSE
  /\ plan = NoField
  /\ precomputed = NoDigests
  /\ layout = <<>> /\ hashing = NoField /\ tasks = {} /\ parts = {}
  /\ phase = "open"
  /\ fills = 0 /\ patches = 0 /\ rewritten = {}
  /\ id = <<>>

-----------------------------------------------------------------------------
(***************************************************************************)
(* Bytes, blocks and digests.                                              *)
(***************************************************************************)
Minimum(a, b) == IF a < b THEN a ELSE b
Maximum(a, b) == IF a > b THEN a ELSE b
Monus(a, b) == IF a > b THEN a - b ELSE 0

Zeros(n) == [i \in 1..n |-> 0]
Slice(bytes, lo, hi) == [i \in 1..(hi - lo) |-> bytes[lo + i - 1]]

(* zero_overlap *)
ZeroField(bytes, field) ==
  [x \in DOMAIN bytes |->
     IF field.offset <= x /\ x < End(field) THEN 0 ELSE bytes[x]]

NumBlocks == (ImageLen + Block - 1) \div Block
BlockStart(b) == b * Block
BlockEnd(b) == Minimum((b + 1) * Block, ImageLen)

(* compute_build_id: the digests of the blocks of the image, in order. *)
TreeHash(bytes) ==
  [b \in 1..NumBlocks |-> Slice(bytes, BlockStart(b - 1), BlockEnd(b - 1))]

(* What a chunk writer does with the chunk it receives: it fills it, but   *)
(* for the last byte of a longer chunk, which it leaves as it was.         *)
Render(bytes, range) ==
  [x \in DOMAIN bytes |->
     IF /\ range.offset <= x /\ x < End(range)
        /\ range.size = 1 \/ x < End(range) - 1
       THEN CHUNK ELSE bytes[x]]

RenderAll(bytes, ranges) == FoldLeft(Render, bytes, ranges)

-----------------------------------------------------------------------------
(***************************************************************************)
(* Regions (plan_regions) of the layout: runs of chunks whose last byte is *)
(* in the same block, named by their first chunk.                          *)
(***************************************************************************)
Key(ranges, i) == (ranges[i].offset + Monus(ranges[i].size, 1)) \div Block

Regions(ranges) ==
  {i \in DOMAIN ranges : i = 1 \/ Key(ranges, i) # Key(ranges, i - 1)}

(* The offsets the regions cover, the gaps inside them included. *)
Spanned(ranges) ==
  {x \in Offsets : \E i, j \in DOMAIN ranges :
     /\ i <= j /\ Key(ranges, i) = Key(ranges, j)
     /\ ranges[i].offset <= x /\ x < End(ranges[j])}

ChunksOf(r) ==
  {i \in DOMAIN layout : i >= r /\ \A j \in r..i : Key(layout, j) = Key(layout, r)}

RegionStart(r) == layout[r].offset

\* Slip: a region ends where its first chunk does.
RegionEndOfFirst(r) == End(layout[r])

RegionEnd(r) ==
  LET ends == {End(layout[i]) : i \in ChunksOf(r)}
  IN CHOOSE e \in ends : \A f \in ends : f <= e

HasBytes(r) == RegionEnd(r) > RegionStart(r)

(* The end of the last region with bytes before r, the start of the first  *)
(* one after it.                                                           *)
PreviousEnd(r) ==
  LET before == {q \in Regions(layout) : q < r /\ HasBytes(q)}
  IN IF before = {} THEN 0
     ELSE RegionEnd(CHOOSE q \in before : \A p \in before : p <= q)

NextStart(r) ==
  LET after == {q \in Regions(layout) : q > r /\ HasBytes(q)}
  IN IF after = {} THEN ImageLen
     ELSE RegionStart(CHOOSE q \in after : \A p \in after : q <= p)

(* Blocks whose non-leading head is too large to keep. *)
MissingBlocks ==
  {RegionStart(r) \div Block : r \in
     {q \in Regions(layout) :
        LET b == RegionStart(q) \div Block
        IN /\ HasBytes(q)
           /\ PreviousEnd(q) > BlockStart(b)
           /\ Monus(Minimum(BlockEnd(b), RegionEnd(q)), RegionStart(q))
                > RetainLimit}}

(* The region's buffer: its chunks over zeros. *)
Buffer(r) ==
  RenderAll([x \in RegionStart(r)..RegionEnd(r) - 1 |-> 0],
            SubSeq(layout, r, r + Cardinality(ChunksOf(r)) - 1))

\* Slip: a region with bytes in a block leads it, whatever comes before.
BlockPartLeader(r, buffer, b) ==
  LET lo == Maximum(BlockStart(b), RegionStart(r))
      hi == Minimum(BlockEnd(b), RegionEnd(r))
      until == Minimum(BlockEnd(b), NextStart(r))
      hashed == Zeros(lo - BlockStart(b)) \o Slice(buffer, lo, hi)
  IN IF b \in MissingBlocks THEN [kind |-> "missing", block |-> b]
     ELSE [kind |-> "digest", block |-> b,
           bytes |-> hashed \o Zeros(Monus(BlockEnd(b), hi))]

(* hash_region for one block: missing, a piece of a later region, or what  *)
(* the leading region hashed: its digest, or an open hasher.               *)
BlockPart(r, buffer, b) ==
  LET lo == Maximum(BlockStart(b), RegionStart(r))
      hi == Minimum(BlockEnd(b), RegionEnd(r))
      until == Minimum(BlockEnd(b), NextStart(r))
      hashed == Zeros(Monus(lo, BlockStart(b))) \o Slice(buffer, lo, hi)
      padded == hashed \o Zeros(Monus(until, hi))
  IN IF b \in MissingBlocks THEN [kind |-> "missing", block |-> b]
     ELSE IF PreviousEnd(r) > BlockStart(b)
       THEN [kind |-> "piece", block |-> b, at |-> lo,
             bytes |-> Slice(buffer, lo, hi)]
     ELSE IF hi = BlockEnd(b) THEN [kind |-> "digest", block |-> b, bytes |-> hashed]
     ELSE IF until = BlockEnd(b)
       THEN [kind |-> "digest", block |-> b, bytes |-> padded]
     ELSE [kind |-> "open", block |-> b, at |-> until, bytes |-> padded]

HashRegion(r) ==
  LET buffer == ZeroField(Buffer(r), hashing)
  IN {BlockPart(r, buffer, b) :
        b \in (RegionStart(r) \div Block)..((RegionEnd(r) - 1) \div Block)}

-----------------------------------------------------------------------------
(***************************************************************************)
(* Calls.                                                                  *)
(***************************************************************************)

(* reserve_build_id; the buffer backing ignores it. *)
ReserveBuildId(field) ==
  /\ phase = "open" /\ id = <<>> /\ plan = NoField
  /\ plan' = IF storage = "positional" THEN field ELSE plan
  /\ plan' # plan
  /\ UNCHANGED <<storage, image, memory, written, precomputed, chunkVars,
                 phase, fills, patches, rewritten, id>>

\* The bounds on calls of write_chunks.
MayFill == phase = "open" /\ fills < MaxFills /\ id = <<>>
Callable == IF fills + patches = 0 THEN Layouts ELSE Refills

(* write_chunks, write backing: digests are computed only if nothing was   *)
(* written before.                                                         *)
WriteChunks(ranges) ==
  /\ MayFill
  /\ storage = "positional"
  /\ phase' = "chunks"
  /\ fills' = fills + 1
  /\ layout' = ranges
  /\ hashing' = IF written THEN NoField ELSE plan
  /\ tasks' = Regions(ranges)
  /\ parts' = {}
  /\ memory' = RenderAll(memory, ranges)
  /\ rewritten' = IF written THEN rewritten \cup Spanned(ranges) ELSE rewritten
  /\ UNCHANGED <<storage, image, written, plan, precomputed, patches, id>>

(* run_region: render the chunks into a zeroed buffer, write it, hash it. *)
RunRegion(r) ==
  /\ phase = "chunks" /\ r \in tasks
  /\ tasks' = tasks \ {r}
  /\ LET buffer == Buffer(r)
     IN image' = [x \in Offsets |-> IF x \in DOMAIN buffer THEN buffer[x] ELSE image[x]]
  /\ parts' = IF hashing = NoField \/ ~HasBytes(r) THEN parts
              ELSE parts \cup HashRegion(r)
  /\ UNCHANGED <<storage, memory, written, plan, precomputed, layout, hashing,
                 phase, fills, patches, rewritten, id>>

(* A chunk writer or a write fails: write_chunks returns the error, and    *)
(* the output is dropped.                                                  *)
RegionFails ==
  /\ phase = "chunks" /\ tasks # {}
  /\ phase' = "failed"
  /\ UNCHANGED <<storage, image, memory, written, plan, precomputed, chunkVars,
                 fills, patches, rewritten, id>>

WriteChunksEnd ==
  /\ phase = "chunks" /\ tasks = {}
  /\ phase' = "open"
  /\ written' = TRUE
  /\ precomputed' = IF hashing = NoField THEN NoDigests
                    ELSE [field |-> hashing, parts |-> parts]
  /\ layout' = <<>> /\ hashing' = NoField /\ parts' = {}
  /\ UNCHANGED <<storage, image, memory, plan, tasks, fills, patches, rewritten, id>>

(* write_chunks on a buffer (run_chunks): the chunks are slices of it. *)
WriteBuffer(ranges) ==
  /\ MayFill
  /\ storage = "buffer"
  /\ fills' = fills + 1
  /\ image' = RenderAll(image, ranges)
  /\ memory' = RenderAll(memory, ranges)
  /\ UNCHANGED <<storage, written, plan, precomputed, chunkVars, phase,
                 patches, rewritten, id>>

MayPatch ==
  phase = "open" /\ patches < MaxPatches /\ id = <<>>

(* write_at of one byte. *)
WriteAt(x) ==
  /\ MayPatch
  /\ patches' = patches + 1
  /\ image' = [image EXCEPT ![x] = PATCH]
  /\ memory' = [memory EXCEPT ![x] = PATCH]
  /\ IF storage = "positional"
       THEN written' = TRUE /\ precomputed' = NoDigests
       ELSE UNCHANGED <<written, precomputed>>
  /\ UNCHANGED <<storage, plan, chunkVars, phase, fills, rewritten, id>>

(* as_mut_slice: the file is read into a buffer, if it holds anything, and *)
(* the caller changes a byte of it.                                        *)
Materialize(x) ==
  /\ MayPatch
  /\ patches' = patches + 1
  /\ storage' = "buffer"
  /\ image' = [(IF storage = "buffer" \/ written THEN image
                ELSE [y \in Offsets |-> 0]) EXCEPT ![x] = PATCH]
  /\ memory' = [memory EXCEPT ![x] = PATCH]
  /\ written' = FALSE /\ plan' = NoField /\ precomputed' = NoDigests
  /\ UNCHANGED <<chunkVars, phase, fills, rewritten, id>>

(* block_digest: read back, taken as it is, or the leader's state resumed  *)
(* with the pieces in offset order.                                        *)
BlockDigest(field, known, b) ==
  LET mine == {p \in known : p.block = b}
      of(kind) == {p \in mine : p.kind = kind}
      start == IF of("open") = {} THEN [at |-> BlockStart(b), bytes |-> <<>>]
               ELSE LET open == CHOOSE p \in of("open") : TRUE
                    IN [at |-> open.at, bytes |-> open.bytes]
      resume(state, piece) ==
        [at |-> Maximum(piece.at + Len(piece.bytes), state.at),
         bytes |-> state.bytes \o Zeros(Monus(piece.at, state.at)) \o piece.bytes]
      resumed == FoldLeft(resume, start,
                   SetToSortSeq(of("piece"), LAMBDA p, q : p.at < q.at))
  IN IF of("missing") # {}
       THEN Slice(ZeroField(image, field), BlockStart(b), BlockEnd(b))
     ELSE IF of("digest") # {} THEN (CHOOSE p \in of("digest") : TRUE).bytes
     ELSE resumed.bytes \o Zeros(Monus(BlockEnd(b), resumed.at))

(* finish_build_id: from the precomputed parts, if they are for this       *)
(* field, or by reading every block back.                                  *)
FinishBuildId(field) ==
  LET known == IF precomputed.field = field THEN precomputed.parts
               ELSE {[kind |-> "missing", block |-> b] : b \in 0..NumBlocks - 1}
  IN [b \in 1..NumBlocks |-> BlockDigest(field, known, b - 1)]

(* apply_build_id, once everything is written. *)
ApplyBuildId(field) ==
  /\ phase = "open" /\ fills > 0
  /\ id' = IF storage = "positional" THEN FinishBuildId(field)
           ELSE TreeHash(ZeroField(image, field))
  /\ image' = [x \in Offsets |-> IF field.offset <= x /\ x < End(field)
                                   THEN ID ELSE image[x]]
  /\ memory' = [x \in Offsets |-> IF field.offset <= x /\ x < End(field)
                                    THEN ID ELSE memory[x]]
  /\ precomputed' = NoDigests
  /\ phase' = "done"
  /\ UNCHANGED <<storage, written, plan, chunkVars, fills, patches, rewritten>>

ImageEnded == phase \in {"failed", "done"} /\ UNCHANGED imageVars

ImageNext ==
  \/ \E f \in Fields : ReserveBuildId(f) \/ ApplyBuildId(f)
  \/ \E l \in Callable : WriteChunks(l) \/ WriteBuffer(l)
  \/ \E r \in tasks : RunRegion(r)
  \/ RegionFails
  \/ WriteChunksEnd
  \/ \E x \in PatchOffsets : WriteAt(x) \/ Materialize(x)
  \/ ImageEnded

ImageSpec == ImageInit /\ [][ImageNext]_imageVars

-----------------------------------------------------------------------------
(***************************************************************************)
(* Properties                                                              *)
(***************************************************************************)

(* The build-id is the hash of the image that was written, with the field  *)
(* zeroed, however the digests were obtained: computed by regions while    *)
(* they were written, resumed from pieces, or read back; a digest computed *)
(* before another write is never used.                                     *)
BuildIdIsContentHash ==
  [][\A f \in Fields : ApplyBuildId(f) => id' = TreeHash(ZeroField(image, f))]_imageVars

(* Between calls the file has the bytes an in-memory output has, in        *)
(* whatever order regions were written, after every sequence of calls,     *)
(* other than where write_chunks was called over an output that held       *)
(* something: there the write backing starts from zeroed buffers and the   *)
(* others from the bytes that are there (file.rs:691).  write_at,          *)
(* as_mut_slice, which reads the file back, and apply_build_id never make  *)
(* a difference.                                                           *)
BackingsAgree ==
  phase \in {"open", "done"} => \A x \in Offsets \ rewritten : image[x] = memory[x]

=============================================================================
