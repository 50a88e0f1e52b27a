------------------------------ MODULE Relayout ------------------------------
(***************************************************************************)
(* The rounds of layout.  Layout decides addresses, addresses decide which*)
(* branches need a thunk and which instructions can be shortened, and both*)
(* change the layout: `layout` of src/elf/layout.rs repeats layout_once   *)
(* until the thunks stop changing, and that of src/elf/arch/shrink.rs     *)
(* until the deleted bytes stop changing, each up to a cap.  When the     *)
(* layout is final, elf/link.rs may start all over: with the debug        *)
(* sections compressed, or without them for --separate-debug-file.        *)
(***************************************************************************)
EXTENDS Thunks, Relax, TLC

CONSTANTS
  Inputs,          \* the inputs of layout that are explored
  MAX_ROUNDS,      \* rounds of thunk planning before giving up
  MAX_PASSES       \* passes of relaxation before giving up

ASSUME RoundConstants == {MAX_ROUNDS, MAX_PASSES} \subseteq Nat \ {0}

VARIABLES
  input,           \* LayoutInput
  thunks,          \* the plan the next round places
  relax,           \* the edits the next pass lays out with
  round,           \* rounds or passes done
  lay,             \* the last layout, or <<>>
  first,           \* the layout of the complete output, once it is made again
  pc               \* "lay", "plan", "shrink", "done" or the error

vars == <<input, thunks, relax, round, lay, first, pc>>

Errors == {"phnum changed", "thunks did not converge",
           "relaxation did not converge", "insufficient padding"}

Shrinks(arch) == arch \in {"RiscV64", "RiscV32", "LoongArch64"}

Init ==
  /\ input \in Inputs
  /\ thunks = {}
  /\ relax = <<>>
  /\ round = 0
  /\ lay = <<>>
  /\ first = <<>>
  /\ pc = "lay"

\* A layout is looked at for code to shorten, else for branches to extend.
AfterLayout ==
  IF Shrinks(input.arch) /\ DOMAIN input.relocs # {} THEN "shrink"
  ELSE IF Thunked(input.arch) THEN "plan" ELSE "done"

\* One layout_once with the current thunks and edits; with a linker script it
\* is that of ScriptLayout.
LayOut ==
  /\ pc = "lay"
  /\ input.script = <<>>
  /\ \E sized \in {SizedOutputs(input, thunks, relax)} :
     \E all \in {OutSections(input, sized)} :
     \E done \in {AssignAddresses(input, all)} :
     \E rest \in {PlaceRest(all, done.fileEnd)} :
     \E segments \in {Segments(input, done.secs \o rest.secs, done, Phnum(input, all))} :
       /\ lay' = LayoutOnce(input, thunks, sized, done, rest, segments)
       /\ pc' = IF Len(segments) # Phnum(input, all) THEN "phnum changed" ELSE AfterLayout
  /\ UNCHANGED <<input, thunks, relax, round, first>>

\* The thunks of this layout are planned; a layout that placed exactly these
\* is final.
PlanThunks ==
  /\ pc = "plan"
  /\ \E next \in {Plan(input, lay)} :
       IF next = thunks
       THEN pc' = "done" /\ UNCHANGED <<thunks, round>>
       ELSE /\ thunks' = next
            /\ round' = round + 1
            /\ pc' = IF round + 1 < MAX_ROUNDS THEN "lay" ELSE "thunks did not converge"
  /\ UNCHANGED <<input, relax, lay, first>>

\* The edits are decided again with these addresses; when they delete the
\* bytes the layout left out, the layout is final, with the new edits.
Shrink ==
  /\ pc = "shrink"
  /\ \E next \in {RelaxPass(input, lay, relax, round)} :
       IF ~next.ok
       THEN pc' = "insufficient padding" /\ UNCHANGED <<relax, round>>
       ELSE /\ relax' = next.relax
            /\ IF SameShape(next.relax, relax)
               THEN pc' = "done" /\ UNCHANGED round
               ELSE /\ round' = round + 1
                    /\ pc' = IF round + 1 < MAX_PASSES THEN "lay"
                             ELSE "relaxation did not converge"
  /\ UNCHANGED <<input, thunks, lay, first>>

DebugOutputs(in) == {o \in DOMAIN in.outs : in.outs[o].debug /\ in.outs[o].keys # {}}

\* --compress-debug-sections: the debug sections that shrink, and their index.
Compressed(in) ==
  [in EXCEPT !.compressed = [o \in DebugOutputs(in) |-> 3], !.indexes = @ \div 2]

\* Slip: every section that is not loaded is left out.
StrippedOfRest(in) ==
  [in EXCEPT !.outs = [o \in DOMAIN in.outs |->
                         IF in.outs[o].alloc THEN in.outs[o]
                         ELSE [in.outs[o] EXCEPT !.keys = {}]],
             !.compressed = <<>>, !.symtab = 0, !.indexes = 0, !.debuglink = 6]

\* --separate-debug-file: without the debug sections, their indexes and the
\* symbol table, with a link to the debug file.
Stripped(in) ==
  [in EXCEPT !.outs = [o \in DOMAIN in.outs |->
                         IF in.outs[o].debug THEN [in.outs[o] EXCEPT !.keys = {}]
                         ELSE in.outs[o]],
             !.compressed = <<>>, !.symtab = 0, !.indexes = 0, !.debuglink = 6]

\* The rounds start again, with what is known of the code forgotten.
LayOutAgain ==
  /\ pc = "done" /\ DebugOutputs(input) # {}
  /\ \/ input.compressed = <<>> /\ input' = Compressed(input)
     \/ input' = Stripped(input)
  /\ first' = IF first = <<>> THEN lay ELSE first
  /\ thunks' = {} /\ relax' = <<>> /\ round' = 0 /\ lay' = <<>>
  /\ pc' = "lay"

\* A link whose layout is final, or that failed, takes no further step.
Finished == pc \in {"done"} \cup Errors /\ UNCHANGED vars

Next == LayOut \/ PlanThunks \/ Shrink \/ LayOutAgain \/ Finished

Spec == Init /\ [][Next]_vars

-----------------------------------------------------------------------------
Done == pc = "done"

\* What the addresses promise is, without a script, layout's own doing.
DefaultDone == Done /\ input.script = <<>>

Secs == lay.secs
Loads == {i \in DOMAIN lay.segments : lay.segments[i].type = "LOAD"}
Disjoint(a, m, b, n) == a + m <= b \/ b + n <= a
PageOf(a) == a \div Page

\* The number of program headers is fixed before any address is, because it
\* decides where the first section starts; the headers made afterwards are
\* never more or fewer (layout.rs:1383).
HeadersAsPromised == pc # "phnum changed"

\* No two loaded sections share an address (.tbss, which is only a template,
\* aside), and nothing in the file shares a byte: sections, the ELF and program
\* headers, the section header table.
NoOverlap ==
  DefaultDone =>
    LET mem == {i \in DOMAIN Secs : Secs[i].alloc /\ ~Tbss(Secs[i])}
        file == {i \in DOMAIN Secs : ~Secs[i].nobits}
        head == lay.segments[CHOOSE i \in Loads : \A j \in Loads : i <= j]
    IN /\ \A i, j \in mem : i < j =>
            Disjoint(Secs[i].addr, Secs[i].size, Secs[j].addr, Secs[j].size)
       /\ \A i, j \in file : i < j =>
            Disjoint(Secs[i].offset, Secs[i].size, Secs[j].offset, Secs[j].size)
       /\ \A i \in file : /\ Secs[i].offset >= EhdrSize + PhdrSize * Len(lay.segments)
                          /\ Secs[i].offset + Secs[i].size <= lay.shoff
       /\ head.filesz >= EhdrSize + PhdrSize * Len(lay.segments)

\* Every loaded section is mapped by a PT_LOAD with its permissions, at its
\* address, with its bytes from its place in the file; and two segments whose
\* permissions differ share no page, so that no page is mapped both writable
\* and executable.  File offsets are congruent to addresses when the base is on
\* a page boundary (-Ttext-segment is taken as it is given).
Mapped ==
  DefaultDone =>
    /\ \A i \in {j \in DOMAIN Secs : Secs[j].alloc /\ Secs[j].size > 0 /\ ~Tbss(Secs[j])} :
         \E l \in Loads :
           LET g == lay.segments[l]
           IN /\ g.flags = Perm(input, Secs[i])
              /\ g.vaddr <= Secs[i].addr
              /\ Secs[i].addr + Secs[i].size <= g.vaddr + g.memsz
              /\ ~Secs[i].nobits =>
                   /\ Secs[i].offset - g.offset = Secs[i].addr - g.vaddr
                   /\ Secs[i].addr + Secs[i].size <= g.vaddr + g.filesz
    /\ \A l \in Loads :
         LET g == lay.segments[l]
         IN /\ input.base % Page = 0 => g.offset % Page = g.vaddr % Page
            /\ g.filesz <= g.memsz
    /\ \A k, l \in Loads :
         LET g == lay.segments[k]
             h == lay.segments[l]
         IN k < l /\ h.memsz > 0 => PageOf(g.vaddr + g.memsz - 1) < PageOf(h.vaddr)

\* Making the pages of PT_GNU_RELRO read-only covers every RELRO byte that
\* another section follows and freezes no other writable section.
RelroSealed ==
  DefaultDone =>
    \A s \in {i \in DOMAIN lay.segments : lay.segments[i].type = "GNU_RELRO"} :
      LET g == lay.segments[s]
          stop == g.vaddr + g.memsz
          other == {i \in DOMAIN Secs : /\ Secs[i].alloc /\ Secs[i].size > 0
                                        /\ ~IsRelro(input, Secs[i])}
          sealed == {i \in DOMAIN Secs : /\ Secs[i].alloc /\ Secs[i].size > 0
                                         /\ IsRelro(input, Secs[i]) /\ ~Tbss(Secs[i])}
      IN /\ \A i \in other : \/ PageOf(Secs[i].addr + Secs[i].size - 1) < PageOf(g.vaddr)
                             \/ PageOf(Secs[i].addr) > PageOf(stop - 1)
         /\ \A i \in sealed : g.vaddr <= Secs[i].addr /\ Secs[i].addr + Secs[i].size <= stop
         /\ (\E i \in other : Secs[i].addr >= stop /\ Secs[i].write) => stop % Page = 0

\* PT_TLS starts on the boundary the dynamic linker assumes, and covers every
\* TLS section in order, so the offsets from the thread pointer agree.
TlsBlock ==
  DefaultDone =>
    \A s \in {i \in DOMAIN lay.segments : lay.segments[i].type = "TLS"} :
      LET g == lay.segments[s]
          tls == TlsIndexes(Secs)
      IN /\ g.vaddr % g.align = 0
         /\ g.filesz <= g.memsz
         /\ \A i \in tls : /\ Secs[i].addr % Secs[i].align = 0
                           /\ g.vaddr <= Secs[i].addr
                           /\ Secs[i].addr + Secs[i].size <= g.vaddr + g.memsz
                           /\ Secs[i].nobits \/
                                Secs[i].addr + Secs[i].size <= g.vaddr + g.filesz
         /\ \A i, j \in tls : i < j =>
              Disjoint(Secs[i].addr, Secs[i].size, Secs[j].addr, Secs[j].size)

\* A symbol in an input section whose output was dropped gets an address
\* between the outputs around it: start and stop symbols of an empty section
\* stay in order with the others.
DroppedInPlace ==
  DefaultDone =>
    \A o \in {p \in DOMAIN input.outs : input.outs[p].alloc /\ lay.places[p].shndx = NONE} :
      /\ \A i \in DOMAIN Secs :
           (Secs[i].alloc /\ ~Tbss(Secs[i]) /\ Secs[i].output < o) =>
             Secs[i].addr + Secs[i].size <= lay.places[o].addr
      /\ \A i \in DOMAIN Secs :
           (Secs[i].alloc /\ ~Tbss(Secs[i]) /\ Secs[i].output > o) =>
             lay.places[o].addr <= Secs[i].addr

\* The file a loader maps is the layout: the headers are as many as it was
\* made for, nothing overlaps, every section is
\* in a segment of its own permissions, RELRO pages hold nothing else, the TLS
\* block is whole and what was dropped still has a place.
SegmentsSound ==
  HeadersAsPromised /\ NoOverlap /\ Mapped /\ RelroSealed /\ TlsBlock /\ DroppedInPlace

\* "layout puts a pool every `thunk_pool_spacing` bytes, plus one at the end, so
\* that every caller has one within reach" (elf/arch/mod.rs): at the end every
\* branch goes where the writer's instruction can express, to its target in
\* range, or to a thunk in range that leads there.
BranchesReach ==
  (Done /\ Thunked(input.arch)) =>
    \A b \in input.branches :
      ~lay.inputs[b.id].dropped =>
        InRange(BranchPlace(lay, b), BranchGoes(input, lay, b))

\* The thunks the writer uses stand in the room the layout gave to pools:
\* none covers a member, another thunk or what follows the section.
ThunksInPools ==
  Done =>
    \A t \in lay.thunks :
      LET s == Secs[lay.places[t.output].shndx]
          at == t.address - s.addr
      IN /\ at % 4 = 0 /\ at + ThunkSize <= s.size
         /\ \A m \in DOMAIN s.members :
              Disjoint(at, ThunkSize, s.members[m].offset, s.members[m].size)
         /\ \A u \in lay.thunks : u # t => Disjoint(t.address, ThunkSize, u.address, ThunkSize)

\* "An internal invariant was violated: a bug in qld ... Never caused by input
\* files" (error.rs): no layout ends in one of these errors.
NoInternalError == pc \notin Errors \ {"insufficient padding"}

\* A branch about halfway between two pools of its section: nearer to the one
\* or to the other, according to where its thunk is.
Halfway(b) ==
  LET pools == {p \in lay.pools : p.output = lay.inputs[b.id].output}
      distance(p) == AbsDiff(p.address, BranchPlace(lay, b))
  IN \E p \in pools : \E q \in pools \ {p} :
       AbsDiff(distance(p), distance(q)) <= ThunkSize

\* Placing thunks moves code, and can put other branches out of range, but the
\* rounds settle on a plan unless what is placed takes back its own reason: a
\* thunk moves its branch nearer to another pool, or alignment absorbs its room.
PlansSettle ==
  pc = "thunks did not converge" =>
    \/ \E b \in input.branches : Halfway(b)
    \/ \E o \in DOMAIN input.outs : \E k \in input.outs[o].keys : k.align > 4

\* Thunks, planned on one layout and placed by the next, are where the last
\* one needs them, on the targets that have pools between the sections, and
\* the rounds end with a plan unless it swings.
ThunksSound ==
  /\ ThunkPoolSpacing(input.arch) # 0 => BranchesReach
  /\ ThunksInPools
  /\ PlansSettle

\* The edits written are those of the last pass, the layout that of the pass
\* before: every section is as long as the layout says, every address the
\* layout gave to a label is where the copy puts the label's byte, and code
\* that asked for alignment is aligned.
EditsFitLayout ==
  (Done /\ Shrinks(input.arch)) =>
    \A id \in Candidates(input) :
      LET edits == EditsOf(relax, id)
          key == CHOOSE k \in UNION {input.outs[o].keys : o \in DOMAIN input.outs} : k.id = id
          out == Copy(key.size, edits)
          s == Secs[lay.places[lay.inputs[id].output].shndx]
          room == {s.members[m].size : m \in {n \in DOMAIN s.members : s.members[n].id = id}}
      IN ~lay.inputs[id].dropped =>
         /\ room = {Len(out)}
         /\ \A i \in DOMAIN out : out[i] >= 0 => Map(edits, out[i]) = i - 1
         /\ \A r \in DOMAIN input.relocs[id] :
              LET rel == input.relocs[id][r]
              IN rel.type = "Align" =>
                   (lay.inputs[id].addr + Map(edits, rel.offset + rel.addend))
                     % NextPowerOfTwo(rel.addend + 2) = 0

\* A shortened call still reaches its target in the final layout, and an
\* access addresses its symbol from a short base exactly when the instruction
\* that would have loaded the high part is gone.
ShortenedStillReach ==
  (Done /\ Shrinks(input.arch)) =>
    \A id \in DOMAIN relax : \A i \in DOMAIN relax[id] :
      LET e == relax[id][i]
          rel == input.relocs[id][e.seq]
          loc == lay.inputs[id].addr + Map(relax[id], rel.offset)
          dest == TargetAddress(lay, relax, rel)
      IN /\ rel.type = "Call" => Fits(dest - loc, IF e.kept = 2 THEN ShortReach ELSE JumpReach)
         /\ rel.type \in {"Hi20", "Lo12"} =>
              \A r \in DOMAIN input.relocs[id] :
                LET other == input.relocs[id][r]
                IN (other.type \in {"Hi20", "Lo12"} /\ other.target = rel.target
                     /\ other.value = rel.value)
                   => \E k \in DOMAIN relax[id] : relax[id][k].seq = r

\* Relaxation, decided on one layout and applied to the next, fits the last.
RelaxationSound == EditsFitLayout /\ ShortenedStillReach

\* Only accesses to data can keep relaxation from settling: the calls and
\* alignments of these inputs, which swing between two layouts in the free
\* passes, reach a fixpoint before the cap, because a call may not shrink again
\* after them.  (A chain of calls that grow one after the other, longer than
\* the passes that are left, is not among them.)
CallsConverge ==
  (\A id \in DOMAIN input.relocs : \A r \in DOMAIN input.relocs[id] :
     input.relocs[id][r].type \in {"Align", "Call"})
    => pc # "relaxation did not converge"
=============================================================================
