# qld in TLA+

qld is a linker: it reads object files, archives and shared libraries, decides
which of them and which of their sections belong to the output, lays the output
out, and writes it. Almost every stage runs on a thread pool (rayon), and the
program's promise is that the output does not depend on the scheduling: the
same inputs give the same bytes for every thread count. This project models the
stages where that promise is hard to keep, and the two places where qld meets
other processes and failures: putting the output file in place, and `--fork`.

Paths below are relative to the repository's `src/` directory, as in the code.

## 1. The system

### Components

| Component | State | Operations | Hard part |
|---|---|---|---|
| Resolution driver (`symbols/resolve.rs`) | live files, files to load, symbol IDs per file, early results | `resolve_symbols_with`: rounds of load, hook, intern, insert and mark, choose; `prefetch`; `collect_undefined`, `collect_duplicates` | flags and definitions change concurrently in one pass; extraction candidates are collected only once |
| Precedence (`symbols/definition.rs`, `elf/resolve.rs`) | none | `rank`, `compare`, `takes_precedence`, `is_duplicate` | the result must be one total order |
| COMDAT claims (`symbols/claims.rs`, `elf/resolve.rs`) | slot words `round << 32 \| rank`; a sharded map of keys | `offer`, `holds`, `owner`, `after_load` | offers race; two representations must agree |
| Symbol table (`symbols/table.rs`, `symbols/table/partition.rs`) | names, shards of slots, pending lists, definition cells, flag words | `try_intern_batch` by three paths, `try_intern_missing`, `insert_definition`, `set_flags` | IDs must depend on first occurrence only; undo on overflow |
| Garbage collection mark (`passes/gc.rs`, `passes/bitset.rs`) | atomic bitset, per-task stacks | `mark_from`, `mark_reachable`, `AtomicBitSet::set` | claims race; tasks spawn tasks |
| Output image (`output/file.rs`, `output/written.rs`, `output/chunks.rs`, `output/build_id.rs`) | storage, plan, precomputed block parts | `write_chunks`, `write_at`, `as_mut_slice`, `reserve_build_id`, `apply_build_id` | hashing while writing, out of order; stale digests |
| Output replacement (`output/file.rs`) | destination, temporary file | `create`, `finish`, `Drop`, `CancelToken` | failures, kills and other links between two system calls |
| `--fork` (`main.rs`, `diag.rs`, `lib.rs`) | status socket, relays, diagnostic sink, `SENT` | `link_in_child`, `relay`, `read_status`, `notify`, the completion hook | two processes, bounded sockets, a parent that exits first |
| Inputs (`elf/inputs.rs`, `input/search.rs`, `input/table.rs`, `archive`) | file table, file list, walker with its work stack, deferred indexes | `load_all`, `Walker::add`, `push_inputs`, `finish` | files opened in parallel but reported in order; nested scripts; a file replaced meanwhile |
| LTO and plugins (`elf/lto.rs`, `plugin/`) | claimed files, symbols per IR file, the process-wide host | claim, resolutions told, generated objects, second resolution, cleanup | plugins call back into the state that drives them; a second resolution over changed files |
| Merging (`passes/merge.rs`, `passes/merge/`, `elf/merge.rs`) | pieces, shards, leaders, offsets | split, deduplicate, lay out, look up, write | parallel shards must agree with first occurrence; tails shared; a cached position |
| ICF (`passes/icf.rs`, `elf/icf.rs`) | classes, working set | constant round, refinement rounds, fold | the fixpoint; hashes that collide; what else refers to a folded section |
| ELF link (`elf/link.rs`, `elf/gc.rs`, `elf/scan.rs`, `elf/reloc.rs`, `elf/ehframe.rs`, `elf/synth.rs`) | live bits, symbol flags, error count, planned entries | the stages from section numbering to the completion hook | scan and writer decide the same relocation at two times, from flags that change between them |
| ELF layout (`elf/layout.rs`, `elf/arch/thunk.rs`, `elf/arch/shrink.rs`, `elf/arch/riscv/relax.rs`) | layout, thunk plan, edits | `layout_once`, `plan`, the shortening pass | two fixpoints, each changing what the other sizes depend on |
| Script layout (`script/eval.rs`, `elf/script_layout/engine.rs`, `segments.rs`) | dot, outputs, symbols, memory regions, the data segment, the snapshot of the pass before | `assignment`, `output`, `run_pass`, `relro_adjust`, `assemble`, `default_maps`, `assign` | expressions read what later statements decide; header sizes guessed before segments exist |
| Writers, other formats (`coff/`, `macho/`, `hunk/`), relocation encodings (`arch/`), script parser, command line, debug information, demangler, hints | sequential data | functions of their inputs | size rather than interleaving |

`PROJECT.json` lists every component with what is and is not modelled.

### How they interact

`main` parses the command line and, with `--fork`, starts a child that runs the
link; otherwise it links itself. `link` runs one format's pipeline: the input
stage opens files; the driver resolves symbols, calling the format's rules for
precedence and its hook for COMDAT groups, and using the symbol table
throughout (interning takes `&mut`, insertion and flags only `&`, from any
thread); with IR among the inputs, plugins claim files, compile them and
resolution runs again; garbage collection marks sections through the bitset;
the relocation scan runs beside merging and unwind-table splitting; folding
takes sections out; layout repeats until thunks, shortened code and `.relr.dyn`
stand still; writers fill disjoint chunks of one `OutputFile`, which computes
the build-id and takes the place of the old output. `link` then calls the completion hook,
through which the child tells its parent. Diagnostics of all stages go to one
sink, sorted and printed when it is flushed.

Parallel passes communicate only through atomics and locked maps, and each
ends at a barrier (the end of a rayon scope or parallel iterator). Files,
sockets and the status byte are the only state shared between processes.

### What makes each part correct

- Resolution: the result is that of a sequential rule; a cell holds the best
  definition; no member that is asked for is missed; each file is loaded once.
- Claims: one copy of each group is kept; a claim of an earlier round is final.
- Interning: an ID is the rank of the name's first occurrence; a batch that
  does not fit changes nothing.
- Mark: the marked set is the reachable set; every section is expanded once.
- Image: the build-id is the hash of the final image with its field zeroed;
  the bytes do not depend on the backing.
- Replacement: the path names a whole file at every instant; an old output
  only goes missing in the window the strategy accepts; a temporary file remains
  only if it could not be removed.
- `--fork`: the parent exits, with the real status, after everything printed
  was delivered.
- Inputs: positions follow the command line, whatever order files are opened
  in; the first error in that order is the one reported; one path is one file.
- LTO: each IR symbol has one prevailing definition, no definition the first
  resolution chose is lost, and however a link ends each plugin that asked for
  it is told to clean up, once.
- Merging: every live piece finds its bytes at its offset, aligned, once; a
  lookup returns the byte asked for from every cached position.
- Folding: the coarsest partition that equal contents and targets allow.
- Link: what is kept refers only to what is kept; planned entries are exactly
  those the writer makes; no output after an error reported before the write;
  the hook means complete.
- Layout: segments map each section once and rightly; a branch reaches its
  target or a thunk; edits fit the layout they are used with.
- Scripts: the final addresses, sizes and symbols are what the script's own
  expressions say of them; regions hold what is put in them, at its address and
  where it is loaded from; the segments map the result.

The hazards behind these are in `PROJECT.json` under `hazards`, each at its
line.

## 2. Modules

```
Definitions --- ResolveInputs --+-- Resolve --- MCResolve
     |    |                     |      |  refines
     |  DefinitionsProofs       +-- ResolveAbs
     |    |                            |
     |    +-------- ResolveProofs -----+   (extends Resolve)
     |
     +-- Lto --- MCLto              Lto extends Inputs, PluginHost, Definitions
          +--- LtoProofs
Intern --refines--> InternAbs   --+
   +--- InternProofs              |
GcMark --- GcMarkProofs         --+-- MCPasses
MergePass                       --+
IcfPass --- ElfLink --- MCElfLink   ElfLink extends IcfPass, ElfReloc, EhFrame
               +--- ElfLinkProofs
ElfLayout --+-- Thunks --+
            +-- Relax  --+-- Relayout ---+
ScriptEval --- ScriptEngine --- ScriptSegments --- ScriptLayout --- MCRelayout
                                (on ElfLayout)     (extends Relayout)
OutputImage                     --+
OutputFile -- OutputFileProofs  --+-- MCOutput
Fork --- ForkProofs             --+
```

MCPasses and MCOutput put modules that share no state side by side: a behaviour
picks one of them at the start and leaves the variables of the others alone.

A parallel pass is a set of tasks taken in any order. Each atomic operation of
the code (an update under a shard or stripe lock, a `fetch_or`, a `fetch_min`,
a `swap`) is one step; a barrier is an action that is enabled when no task is
left. Code between two atomic operations that touches only a task's own data
belongs to the step before or after it. Relaxed atomics are modelled as single
words with one total order each, which is what they guarantee; the passes never
rely on an order between two words before a barrier, with one exception that is
modelled step by step (`InsertDefinition` then `ReadFlag`, against
`MarkReference`).

**Definitions** has the candidate definitions of a symbol, `ElfRules`' rank and
comparison, the tie key, and `takes_precedence`. The auxiliary word is kept as
the two things the rules read from it.

**ResolveInputs** is what resolution reads of its files through the
`ResolveFile` trait: whether a file is live at the start, the names its archive
index lists for it, its symbols with their uses and groups, whether it may load
early, and whether loading fails. A name is the symbol it is interned to
(interning is `Intern`'s subject).

**Resolve** is `resolve_symbols_with`. `phase` is the pass: `load` (LoadFile,
OnLoad, LoadDone), `hook` (OfferKey, Settle: `after_load` and the step that
makes the files live), `insert` (MarkReference, MarkOther, InsertDefinition,
ReadFlag: the closure of `insert_and_mark`), Choose, `prefetch` (ClaimMember,
Visit, PrefetchDone), and Report. `hooked` says whether groups are claimed by
slot as files load, or by key afterwards; both are inputs. `claims` stands for
`GroupSlots` or `GroupClaims`; a claim is the round and the file.

**ResolveAbs** is the sequential rule: a round makes live the members that a
strong reference of a live file asks for; claims, flags, candidate lists and
tasks do not exist, and each quantity is a function of the rounds so far. It
has one behaviour per input. `Resolve!ImplementsSequentialRule` is the
refinement, with `rounds` mapped to the completed rounds.

**Intern** is `try_intern_batch` and `try_intern_missing`: the in-order path,
the three passes under shard locks, and the partitioned path with its
per-chunk, per-shard cursors. Which path runs depends on thresholds and threads
in the code, and is a choice in the model. IDs count from 1. **InternAbs** is
the promise: new names numbered by first occurrence, all or nothing.

**GcMark** is `GcMarker::mark_from` and `mark_reachable`: actor 0 is the scope
body that claims chunks of roots, the others are tasks. `AtomicBitSet::set` is
two steps, the plain load (Test) and the `fetch_or` (Claim).

**OutputImage** is the contents of an output: writing chunks by regions, block
parts and their combination into the build-id, with a second image (`memory`)
that goes through the same calls with an in-memory backing. The hash is
injective: a digest is the bytes it was computed from.

**OutputFile** is the directory entry: `create`, `finish` and `Drop` of any
number of links that write one path, each with its strategy, one action per
system call, each of which may fail, the removal of the temporary file after a
failure included (its result is ignored); `Cancel` and `Kill` happen at any
time. A file is partial until `commit_file` succeeds.

**Fork** is `main.rs`: the parent (Spawn, ReadStatus, Join, Wait), a relay
thread per socket, the linking process (Emit, Linked, Hook, Run, the steps of
`notify`, Exit, Crash), a process started by a plugin that keeps copies of the
streams, and readers that go away. The same linking process without a child is
included, since `link_in_child` falls back to it.

**Inputs** is `collect`: positional arguments are resolved against the search
path, opened in parallel (LoadNext in any order of the environment's changes),
then walked in order by one action per kind of input (AddObject, AddShared,
AddArchive, AddScript, AddOther, SkipIncompatible). The walker keeps the work
stack of the code; scripts push their inputs on it. Deferred archive indexes are
read at the end, in any order. `Rewrite` and `CancelLink` are the
environment.

**PluginHost** is the state behind the plugin callbacks (`STATE`'s Host), and
what a handler may do to it before it returns. Handlers are external code; the
model lets each do any of it. **Lto** drives it: rounds of resolution with
offers to each plugin in turn, TellPlugins, CompileIr, ReplaceIr, the second
resolution, the libraries that turn out to be needed, and the end of the session:
BeginCleanUp, CleanUpPlugin for each plugin that registered a handler (which may
report errors or fail itself) and the release of the host, by FinishLink where
the link gets that far and by DropSession on every other way out.

**MergePass** is merging from splitting to the writer. Shards, layout runs and
write tasks are separate steps; the lookup with its thread-local hint comes
last.

**IcfPass** is `fold_identical` with an arbitrary hash function. **ElfReloc** is
`decide` and x86-64's `classify`, without state: the scan and the writer both
call it. **EhFrame** is what the unwind tables add to garbage collection and
what is left of them. **ElfLink** is `link_inputs`: one action per stage, the
stages that run side by side as separate tasks with a Join, errors and
cancellation between all of them. After the last `.relr.dyn` attempt come
Compress, the relocations the writer applies (some of which cannot be), the
output, WriteMap and WriteDebugFile where they are asked for, and FinishLink.
The debug file and `lto.finish` report errors after the main output is in place,
as in the code.

**ElfLayout** is one `layout_once`; **Thunks** plans thunks for a layout and
answers the writer's question which one a branch uses; **Relax** decides what a
pass of RISC-V relaxation deletes and what that does to offsets. **Relayout**
is the two loops over them, and LayOutAgain: the layout `link` makes once more
when debug sections were compressed or go to a file of their own.

**ScriptEval** evaluates expressions: a value is an address, a number or an
offset into an output, and operators take the section of one operand or make
both absolute as `binary_values` does. **ScriptEngine** is one statement of a
script: assignments to dot and to symbols, the sizing of an output (its
address, alignment, region, members, data, load address), memory regions, the
program-header estimate, the adjustments of the data segment.
**ScriptSegments** makes segments from the result, its own or those of `PHDRS`,
and gives file offsets. **ScriptLayout** is the control over them: ScriptStart,
ScriptPass (one `run_pass` and what `layout_with` does with the outcome, by
stage: size, relro, reset, settle, final), Assemble (which starts over when
`SIZEOF_HEADERS` was too low), and NextRound, which hands the layout to the
thunks and the relaxation and begins again when they change. The script comes
with the input; matching input sections to its patterns has been done.

Operators introduced by a comment `Slip:` are not part of the model. Each is a
plausible mistake in the definition below it (a dropped guard, a missing reset,
an unchecked result); `PROJECT.json` under `mutants` names the property that
catches it, which shows that no property holds whatever the code does.

## 3. Runs

Every run ends on its own within two minutes with two workers.

| Run | Instance | Shows |
|---|---|---|
| `resolve` | 4 files, 2 symbols, 2 groups, 558 inputs | TableHoldsBest, NoMissedExtraction, OneCopyPerGroup, EarlyLoadingSound (each file loaded once; what is loaded early is what the rounds load), refinement of ResolveAbs, Termination |
| `passes` | interning: 5 names, 2 shards, room for 3, 192 workloads of two batches; mark: 4 sections, 54 graphs and root lists, one or two calls; merging: pairs and triples of sections of up to a few bytes, 2 shards, runs of 2 pieces, tasks of 1 | TableConsistent, refinement of InternAbs; MarkSound (marked = reachable, each section expanded once), Termination of the mark; MergedImageSound (bytes kept, aligned, independent of scheduling, each piece once, found by a lookup from every hint) |
| `output` | image: 10 bytes in blocks of 4, every valid layout of 1 to 3 chunks of the chosen sizes into a fresh output, two layouts with every order of up to 2 fills, 2 writes, materialization and reservation; file: 2 links, 3 strategies, 3 kinds of previous file; fork: 2 messages per stream, sockets that hold 1 | BuildIdIsContentHash, BackingsAgree (where chunks are written once); PathIsWhole, PathIsKept, NoStrayTemp; StatusIsReal, NothingLost, ParentExits |
| `inputs` | 44 command lines, 2 plugins, scripts nested up to 3 | FileListSound, FirstErrorReported, SamePathSameFile, ClaimsSound, LtoKeepsDefinitions, NeededLibrariesBound, SessionEndsOnce, Terminates |
| `layout` | every mix of 16 output sections; text with branches around the reach; code to relax; five kinds of linker script over such inputs; debug sections compressed or taken out afterwards | SegmentsSound (and the program headers are as many as planned), ThunksSound, RelaxationSound, CallsConverge, ScriptSettled, ScriptSound, AddressesStay |
| `link` | about a thousand small links | KeptClosed, UnwindConsistent, ScanSound, OutputsSound, FoldingIsExact, Terminates |
| `scan_agree` | links with a `--defsym` of a `--defsym` | violation: scan and writer decide differently (finding 1) |
| `icf_unwind` | two functions with equal code and different exception tables | violation: the FDE of a folded function is dropped (finding 2) |
| `previous_output` | one link over an old output | violation: the old output is gone after a failed rename (finding 3) |
| `backings` | chunks written twice | violation: the bytes depend on the backing (finding 4) |
| `thunk_pools` | PowerPC64 text, big-endian | violation: a caller has no pool in reach (finding 5) |
| `thunk_rounds` | a caller halfway between two pools | violation: the rounds end in an internal error (finding 6) |

Why the bounds are enough to meet the interesting cases:

- *Resolution.* File numbers and command-line positions differ. Three rounds
  happen: the main object asks for a member, which asks for the other one.
  Members with stale index entries (the index names a symbol the member does not
  define), members that must not load early, members that fail, weak, common and
  shared definitions and an object that defines later what an archive offers are
  all among the inputs. In the other inputs
  (`GroupInputs`) copies of a group meet within one round and across rounds, and
  the file with the lower position comes later.
- *Mark.* `SplitThreshold = 1` (256 or 32 in the code) makes every task with
  two sections split. There are cycles, self references, repeated targets and
  targets out of range, and a second call that starts from marked sections. As
  many task names as sections suffice: a running task is expanding or holds a
  section nobody else holds.
- *Interning.* Chunks of 2 names make a batch span several chunks; 3 places in
  the table for 5 names make both the first and the second batch overflow, on
  every path; jobs share a position, which rules two of the paths out.
- *Image.* The sizes 0, 1, 3 and 5 against blocks of 4 give empty chunks,
  chunks that end on a boundary, chunks over two blocks, blocks with several
  regions, blocks with none, and heads longer than `RetainLimit = 1`.
- *Replacement.* Two links are the least that race; every system call of each
  may fail, and each may be killed or cancelled between any two.
- *Fork.* Sockets that hold one of two messages make the child block while the
  parent waits, in both orders.
- *Inputs and LTO.* `MaxDepth = 3` (16 in the code) is reached by a script that
  names itself. The command lines have the searches that skip a library of
  another target, archives with good, bad and missing indexes, thin archives,
  `--as-needed` libraries, IR in objects and in archive members, and generated
  objects that need further members. `NumPlugins = 2` is the least number with
  which one plugin claims what another declined. `--save-temps`, which skips the
  cleanup handlers, is part of the command line.
- *Merging.* Hash values collide and all shards, runs and tasks hold so few
  pieces that every boundary falls between two of them; lookups start from every
  hint.
- *Layout.* Sizes are scaled: pages of 16 bytes, an ELF header of 4, program
  and section headers of 2. `PoolSpacing = 12`, `Reach = 32` and thunks of 4
  bytes keep the relation the code's numbers have (the reach exceeds spacing,
  the largest section, alignment and a pool together), so that branches fall on
  both sides of the limit. `FREE_PASSES = 4`, `MAX_ROUNDS = 8` and
  `MAX_PASSES = 30` are those of the code; which inputs may meet a cap is what
  CallsConverge and PlansSettle say. CallsConverge is about these inputs: with
  four calls at most, no chain of calls that lengthen each other is longer than
  the passes that are left once shortening is limited. PlansSettle names the
  inputs whose thunk rounds may end at the cap (finding 6, and members aligned to
  more than an instruction, whose padding swings the same way). A base that is
  not a multiple of the page is among the inputs: the code takes
  `-Ttext-segment` as it is given (`elf/layout.rs:995-1000`), so the congruence
  of offsets and addresses, of which its comment (`980-984`) speaks without
  condition, is claimed for aligned ones only.
- *Scripts.* The shape of GNU ld's own script (headers, data segment, RELRO, with
  and without a gap that makes the adjustment go back), flash and RAM regions
  that fit or overflow, addresses and symbols that refer forward and in circles,
  `PHDRS` with and without room for the headers and with `-N`, and text whose
  thunks and deletions move what the script reads. Addresses have `AddrBits =
  10` bits (64 in the code), enough that none of the layouts wraps by accident;
  `SCRIPT_PASSES = 7` (12 in the code) is reached by a symbol that grows in every
  pass, and just not by a value handed on through six symbols. No script here
  has a chain through member offsets or alignments alone, which the snapshot of a
  pass does not hold (section 6).
- *Link.* Three to four sections and symbols with every kind of definition, one
  relocation of each class, groups, link order, unwind records that share a CIE,
  and `.relr.dyn` sizes that shrink, grow or oscillate against `MaxAttempts = 4`
  (8 in the code); relocations the writer cannot apply, compressed debug
  sections, debug files that cannot be written. No `--defsym` of these links
  names another one, without which ScanSound would not hold (finding 1).

Bounds on the number of calls (`MaxFills`, `MaxPatches`, `MaxMessages`) are
named constants in guards. Deadlock is checked in every run but the three of
ElfLink, whose behaviours end when `status` is set; there Terminates is the
stronger statement. Elsewhere the end of a behaviour is an explicit step that
changes nothing.

## 4. Fairness

- `Resolve` assumes `WF_vars(Next)`, and `GcMark` the same of its own steps
  (`WF_markVars(MarkStep)` in MCPasses): while some task can take a step, one is
  taken. rayon runs every spawned task and the scope's owner goes
  on when they have ended. No fairness between tasks is assumed.
- `Fork` assumes that the parent, the linking process and each relay thread run
  on when they can (the scheduler of the operating system), and that the link
  and processes started by plugins end. Nothing assumes that a process crashes,
  that a reader goes away or that a plugin fails. MCOutput takes this `Fairness`
  over as it is.
- `Lto` assumes `WF_vars(Collect \/ LtoStep)`: the linker goes on while it can,
  and a plugin's handler returns. The environment (files replaced, cancellation)
  is not fair.
- `ElfLink` assumes weak fairness of each stage: `link_inputs` is one thread
  that goes from stage to stage, and the pool runs every task given to it.
  Nothing assumes cancellation.
- `ScriptLayout` needs none for CallsConverge, which is an invariant: the caps bound
  the rounds.
- `Intern`, `MergePass`, `OutputImage` and `OutputFile` state safety and refinement of
  safety only, and assume no fairness.

## 5. Proofs

The proofs hold for every value of the constants that satisfies the named
assumptions: any number of files, symbols, groups, links, and any input files.

**DefinitionsProofs.** `PrecedenceAsymmetric`, `PrecedenceTransitive` and
`PrecedenceTotal`: `takes_precedence` is a strict total order on candidates with
distinct tie keys. That is not evident, since `compare` is not transitive: with
two archive members around a shared library, two candidates are equal but
compare differently with a third. The tie key decides between them by position,
the same thing that decides between a member and a library, and that is why the
combination is an order.

**ResolveProofs.** `ResolveTypeOK` and `ResolveTableHoldsBest`. Assumptions:
positions are distinct (`InputAssumption`), archive members hold no shared
definitions (`InputsAssumption`). The inductive invariant is

    IInv == TypeOK /\ FilesOK /\ DoneItems /\ LoadIsNew /\ TableHoldsBest

TableHoldsBest is not inductive alone. What has been inserted is defined from
`done` and from the groups discarded *now*, so it must be known that no item of
a file has been processed when the file's groups are settled: `DoneItems` (the
items done belong to live files, or are lazy items of the first round) and
`LoadIsNew` (the files of a round are not live before). `FilesOK` carries the
input assumptions along. Each action is one step; only Settle and
InsertDefinition touch the last conjunct, the second through the order lemmas.

`ResolveNoMissedExtraction`, `ResolveOneCopyPerGroup` and
`ResolveEarlyLoadingSound` follow from the invariant of the rounds,

    RoundInv == IInv /\ Rounds /\ Extraction /\ GroupClaims /\ Loads /\ Covered

- `Rounds` says which files are live and which tasks are over in each phase.
- `Extraction` is the handshake between a definition and a reference. A task
  that inserts a lazy definition reads the symbol's flag afterwards; a task that
  meets a reference sets the flag and then reads the cell. So a flagged symbol
  with a lazy definition is a candidate, or the task that inserted the
  definition has still to read the flag (`won`).
- `GroupClaims` relates the claim of a group to offers not yet made: a claim of
  this round is held by a file of this round and may move, one of an earlier
  round stays, and a live file has discarded exactly what it does not hold.
- `Loads` counts the loads of a file: one, by its round or by the one visit that
  claimed the member. `Covered` says that the claimed members are closed under
  what their references ask for, with the visits still to come; that is why no
  later round meets a member that was not loaded early.

**GcMarkProofs.** `GcMarkSound`, for any graph, any number of actors and any
list of calls, from

    MarkInv == MarkTypeOK /\ Control /\ OnlyReachable /\ NothingForgotten /\ OnePlace

Reachability is stated with closed sets (a set that holds the roots and the
targets of its members), which needs no induction: `OnlyReachable` says that
what is marked or about to be is in every closed set, and `NothingForgotten`
that a target of a marked section is marked, in some actor's hands, or the
section itself still on a stack. When nothing is left to do, the marked set is
itself closed, so it is the least one. `OnePlace` is what the atomic `fetch_or`
gives: only the actor that set the bit pushes the section, so it is on one
stack, once, until it is expanded.

**ForkProofs.** `ForkStatusIsReal` and `ForkNothingLost`, for any number of
messages and any socket size, from

    ForkInv == ForkTypeOK /\ Control /\ Verdicts /\ Sockets /\ Accounts

`Verdicts` carries the verdict on the link from the point where it is fixed
through the exit code, the byte in the status socket and what the parent read,
whatever dies in between. `Accounts` is the conservation law: for a stream whose
reader is there, what is held, what is in the socket and what was delivered add
up to what was printed; and a relay runs until its socket is drained and shut.
It is not true for a stream whose reader is gone, which the property excludes
as well. The sum rests on three lemmas about the number of messages in a queue.

**InternProofs.** `InternTableConsistent`, for any batches, names, shards,
limits and chunk size. The invariant

    InternInv == InternTypeOK /\ Kept /\ Direct /\ PassOne
                 /\ Regions /\ Scattered /\ Marked /\ Numbered

has a part per pass: what the table keeps from before the batch (`Kept`), what
slots and names are when nothing is provisional (`Direct`), how a provisional
slot and its shard's pending list name each other (`PassOne`), and for the
partitioned path what a chunk has written into a region (`Scattered`), what the
bitmap holds (`Marked`) and which tasks have replaced what (`Numbered`). Both
parallel paths number names by counting, so the proof rests on a lemma about
finite sets, `ChainRank`: the sizes of a chain of distinct sets are the numbers
1 to n, each once. It is proved by the pigeonhole principle and used for the
sequence of places, the cursors of a chunk (`CursorIsRank`: prefix sum plus
position in the chunk is the rank in the region), the bitmap (`NewRanks`) and
the pending names (`PendingRanks`). The assumption that a pending list is no
shorter than the table may become is the code's (both are 2^31), as is that it
has room for a name at all.

`InternImplements` proves the refinement of `InternAbs` with the same
generality: `Spec => ImplementsFirstOccurrence`. The abstract table is what
`names` was up to `base`, so every step inside a batch stutters and the steps
that return are InternBatch or Overflow. That needs more than consistency: where
each pass is on its way to the one numbering. `Refining` adds, per pass,

- in order (`InOrderRef`): the sequence is sorted, what was appended is in order
  of first occurrence and was met where it first occurs, and every new name
  already met lies before what is still waiting;
- pass 1 (`PassOneRef`): a pending name carries the first of the places looked
  up so far (`FirstSeen`), in whatever order they were; when a list was full,
  some new name found no room, so the batch cannot fit either;
- pass 3 (`RewriteRef`): the table is complete, and an ID not yet rewritten is
  the handle of its slot's final ID;
- the partitioned path (`PartitionRef`): the sequence is sorted and holds exactly
  the places of new names; a claimed slot names the least index of its name,
  since a region is probed in order of rank; hence the bitmap is the set of first
  occurrences and a chunk that was written has its names' ranks.

`Finished` is what the four successful returns share (new names complete and in
order, every place its name's ID); `SucceedRefines` takes it to InternBatch by
identifying the appended names with the abstract `Numbered` (`NumberedIs`). The
three failing returns show that the new names do not fit, each by its own count:
the names appended and the one refused, the pending lists, the bitmap.

**OutputFileProofs.** `OutputTypeOK`, `OutputPathIsWhole`, `OutputPathIsKept`
and `OutputNoStrayTemp`, for any set of links, from

    IInv == TypeOK /\ DestOK /\ WholeOK /\ RemovedOK

`DestOK` ties a link's program counter to its destination, its file and its
temporary file (in particular: a link past `commit` has a whole file);
`WholeOK` says what may be at the path and who put it there; `RemovedOK` relates
a missing path to a link between removal and rename. PathIsWhole needs all of
them: a rename puts a link's file at the path, so that file must be known to be
complete from the moment of the commit on. NoStrayTemp says that the temporary
file of a link that was not killed is still there after the link only if
removing it failed, which the code ignores.

**ElfLinkProofs**, on folding: `IcfFoldingIsExact` says FoldingIsExact for any
finite set of sections, any contents and relocations and *any* hash function, so
colliding hashes are covered. It says that two sections share a class only if
their constant parts are equal and their targets pairwise share classes (sound),
that every partition with that property is at least as fine (coarsest), and that
the kept section is the lowest of its class. The inductive invariant `IcfInv`
says: classes hold sections with equal constant parts; a class number is its
lowest member; the partition is coarser than every stable one; and sections
outside the working set agree already with their class on their targets'
classes. The last is what the early exits rest on: single sections, classes
without section targets and classes left alone by the last round are never
looked at again, and it must be shown that splits elsewhere cannot separate
them. The end is reached when a round leaves the number of classes the same;
that this means that nothing was split is a fact about cardinalities of finite
sets.

**ElfLinkProofs**, on the link: `LinkKeptClosed`, `LinkUnwindConsistent`,
`LinkOutputsSound` and, for folding as a stage of the link,
`LinkFoldingIsExact`. The assumption (`LinkAssumption`) says that what
resolution hands over is a link: relocations name symbols, symbols and unwind
records name sections, and the layout for a size of .relr.dyn has an encoding of
some size. Nothing is assumed of how that size depends on the layout, of the
groups, or of which unwind records share a CIE. The invariant has a part per
piece of shared state:

    LinkInv == LinkTypeOK /\ Path /\ Folding /\ Gathered /\ Unwinding /\ Outputs

- `Gathered` says that from garbage collection on the kept sections are closed
  under relocations, unwind records, groups and the names that export. It is
  stated of "kept, as itself or folded", so that it survives folding: the leader
  of a class is live because everything that folds is (`FoldedStaysKept`). The
  mark is closed because it is the least closed set, as GcMarkProofs shows of
  the code's mark; for groups it takes the ring of `collect`, which leads from
  any member to all of them (`RingIsClosed`, by the least member missed).
- The flag words grow during the scan, and export marks among them would add
  roots after the collection; `DecideExportsNothing` shows that no decision of
  `decide` sets one, `ReclassifyExportsNothing` the same for --defsym.
- `Unwinding` with `Gathered` gives UnwindConsistent: the canonical CIE of a
  record is used by some record whose function is live, so its personality
  routine was reached from that function, though the record at hand belongs to
  another one (`UnwindAgrees`).
- `Path` keeps the order of stages that this rests on (records are split, and
  found well formed, before the passes join), `Outputs` what has been reported
  and put in place, and that only the debug file and `lto.finish` report once the
  main output is there.

UnwindFollowsFolds and PlanMatchesWrite, which the runs icf_unwind and
scan_agree refute, are of course not among the theorems; ScanSound, which holds
of the inputs of the run link, includes the second and is false in general.

**LtoProofs.** `SessionEndsOnceAlways`, `SamePathSameFileAlways`,
`FirstErrorReportedAlways`, `ClaimsSoundAlways` and `NeededLibrariesBoundAlways`,
for any command line, any files and any behaviour of the plugins the model
allows. The assumption (`JobsAssumption`) types a job: its lists are finite, a
path leads to some content, an archive's members are contents, symbols have one
of the uses `symbol_use` returns, and only a shared library's are Shared ones
(the model's `dyn` contents; `symbol_use` decides by the file's kind). It says
nothing of how the files relate to each other, so broken indexes, scripts that
include each other and archives that repeat members are covered.

SessionEndsOnce and SamePathSameFile have small invariants of their own
(`Session`, `Opens`). The first types the host and says that a cleanup handler
has been called once if its plugin's turn has passed, and not at all before
(`CallsMade`), also when the session fails in the middle of the handlers; the
second says that while the inputs are opened each one holds what the first
mention of its path holds, or has failed. The others rest on

    Sound == Records /\ (stage # "failed" => Stored /\ Working /\ Deferring
                            /\ Listed /\ Alive /\ Claiming /\ Resolved)

- `Stored`, `Working` and `Listed` type contents, work list and file list, with
  what the later stages take for granted: a file that was loaded has an entry in
  the table, a native object is never a shared library, a shared library is
  never lazy and never IR. They survive ReplaceIr, which adds contents, drops
  the IR files and puts the objects in their place, because the lists are
  flattened (`FlattenSteps` says what `FlattenSeq` returns for any list; it is
  proved from the function that defines it).
- `Deferring` keeps the deferred indexes in command-line order, which is why the
  first bad one is the first error.
- `Alive` says which files are live at each stage, `Resolved` that a resolution
  that settled holds the best definition of every symbol and has taken in every
  file that was to be there from the start. A best definition exists at all
  because precedence is an order with a least element on what competes here
  (`BestCompetes`, by `TieLeast`), although archive members and shared libraries
  compare by position alone.
- `Claiming` ties the claim records, the file list and the record that is open
  to each other: a file's claim number leads to a record, and that record's
  handle back to the file. Uniqueness of the prevailing definition is that round
  trip: a file claimed twice has two records, and only the one its number names
  is `Included`.
- `Records` holds in failed links too; SymbolsOfClaimer is a part of it.

NeededLibrariesBound is reached at one step, PlanLibraries: what the native
files refer to is `Wanted`, so in every set plan_needed_with's rounds may end
at; the owner of a strong reference is among the needed libraries, and
`rebind_unneeded` leaves that symbol alone.

TLC checks these properties on the instances of section 3 as well.

**Only model-checked:** liveness (`Termination`, `Terminates`, `ParentExits`
and the fair parts of the specifications), which is beyond the proof system used
here; the refinement of `ResolveAbs`; ScanSound of `ElfLink`; FileListSound and
LtoKeepsDefinitions of `Lto`; and the properties of
`OutputImage`, `MergePass`, `Relayout` and `ScriptLayout`. Script
expressions are recursive, which puts `ScriptEval` and what rests on it out of
the prover's reach; what `MergePass` and the layout compute are sums and folds
over lists of any length, which need induction over data. The refinement of
`ResolveAbs` needs the candidates of all rounds as a function of the rounds.

## 6. Findings

Six places where a run shows that the code and its text disagree;
`PROJECT.json` quotes them.

1. `scan_agree`: scan and writer are said to decide the same, but a `--defsym`
   that names another one with a number counts as an address during the scan and
   as absolute when the output is written. A relative relocation is planned that
   the writer does not make.
2. `icf_unwind`: the FDEs of folded sections are said to go to the kept section;
   they are dropped instead, and folding does not compare them, so a function
   with an exception table of its own unwinds by the kept section's.
3. `previous_output`: `finish` promises that the previous output stays in place
   on failure. With the Rename strategy it is removed first; a rename that fails
   then leaves neither output.
4. `backings`: the bytes are said not to depend on the backing, and chunks to be
   zeroed when they are written. A second `write_chunks` finds zeroes with the
   write backing and the earlier bytes with the others. The linker's writers
   never write twice.
5. `thunk_pools`: every caller is said to have a pool within reach, but
   `thunk_pool_spacing` has no entry for big-endian PowerPC64, which needs
   thunks; its only pool is at the end of the output.
6. `thunk_rounds`: internal errors are said never to be caused by input files.
   The thunk of a caller about halfway between two pools goes to the nearest,
   which moves the caller so that the other pool is nearest; the plans alternate
   until the round cap and the link ends with "range-extension thunks did not
   converge".

Other disagreements met while modelling, which no run is spent on:

- `elf/resolve.rs:99`: `ElfRules::compare` is not the total preorder that the
  `Resolver` trait requires (`symbols/definition.rs:122`). The result is right
  all the same (section 5).
- `output/file.rs:437`: when no temporary file can be created, the old output is
  removed first, so a cancelled link does not leave it untouched
  (`options.rs:874`).
- `elf/lto.rs:363`: a fatal plugin error exits without flushing the sink, so
  earlier diagnostics are not printed (`diag.rs:637`).
- `elf/arch/thunk.rs`: a pool's position is said not to move as pools grow;
  padding after a pool counts as content and can move the next one. The rounds
  then end in agreement, or swing to the cap as in finding 6.
- `elf/layout.rs:983`: offsets are said to be congruent to addresses modulo the
  page size; with an unaligned `-Ttext-segment`, used as it is, they are not.
- `elf/layout.rs:1085`: when no section follows the RELRO sections, the end of
  PT_GNU_RELRO may not be on a page boundary.
- `elf/script_layout/engine.rs:1108`: the snapshot two passes must agree on has no
  offsets of members and no alignments. A chain of forward references through
  those alone, longer than the passes that run in any case, would be accepted
  before it has settled.
- `elf/script_layout/engine.rs:1018`: only the end of a section is compared with
  its region, and sections with addresses of their own are not checked for
  overlap; RegionsHold leaves those out.
- `elf/script_layout/engine.rs:1592`: SORT_BY_INIT_PRIORITY compares two
  numbered names by number and all others by name, which is not transitive when
  both kinds are sorted together.
- `passes/icf.rs` and `elf/icf.rs`: a folded section's dynamic relocations are
  still counted; `--icf=safe` looks at the address-significance table of the
  target's file.

## 7. Not modelled

- Bytes of file formats, instruction encodings and relocation arithmetic beyond
  the decisions above, the parser of linker scripts, option tables, debug
  information, compression, demangling: sequential functions of large inputs,
  where small instances say little and tests say much.
- COFF, Mach-O and Hunk: their resolution runs the driver modelled in Resolve
  with other rules, and their writers use OutputImage's interface; what is their
  own is mostly tables and encodings.
- These two groups are four fifths of the source. That is why the map covers a
  small share of its lines: the share counts every parser, table and encoder,
  and a state machine has nothing to say about most of them.
- Memory orders beyond single words: no pass relies on them before a barrier.
  `SymbolTable::definition` (`symbols/table.rs:903`) reads a cell's words without
  its lock and is called after the pass that writes them; no property covers it.
- In ElfLink: relocatable output beyond its control flow, the contents of map
  files, symbol versions, hash tables, section ordering, decision tables other than x86-64's.
  `--defsym` passes are capped at 9 in the code; the model's alias chains are
  shorter than that. GC edges may mark a section that a COMDAT group discarded;
  it is not owned, and stays out.
- In Relayout: errata patches, TLSDESC and LoongArch relaxation, Arm mapping
  symbols.
- In ScriptLayout: the matching of input sections and files to patterns
  (`matching.rs`, `plan.rs`), scripts in a relocatable link, raw output formats,
  fill patterns, warnings, the choice of a nearby section for a symbol that is in
  none, and the layout of orphans beyond the place they are given.
- In Lto: the transfer vector's layout, COMDAT groups (Resolve has them).
- The output stage's background release of the old file (no directory entry
  changes), statistics, permissions.
- Sorting and rendering of diagnostics, the error limit, texts of reports.

## 8. Plan

Done: resolution with COMDAT claims and early loading, its abstract rule and its
proofs; the mark, interning and `--fork` with their proofs; interning's abstract
rule and the proof that it is implemented; the output image; output replacement
and its proofs; the inputs, plugins and LTO and their proofs; merging; folding
and its proof; the ELF link from sections to hook and its proofs; layout with
its rounds, without and with a linker script, and laid out again without its
debug sections.

Next modules, in this order: COFF's and Mach-O's rules as
further instances of Definitions; diagnostics (emission from many tasks, sorting
by order, the error limit) composed with Fork's sink; the why-live search.

Next proofs: FileListSound of Lto; the refinement of ResolveAbs.
