---------------------------- MODULE ScriptLayout ----------------------------
(***************************************************************************)
(* Layout with a linker script, beside the default one.  Expressions read  *)
(* addresses and sizes that later statements decide, so layout_with of     *)
(* src/elf/script_layout/engine.rs runs the script again and again: until  *)
(* two passes agree, then with the data segment moved for RELRO or to save *)
(* a page, then until they agree again, and a last time for good.  The     *)
(* program headers made from the result may need more room than            *)
(* SIZEOF_HEADERS said: then once more, with the room.  All of this is one *)
(* round of layout to the thunks and the relaxation of Relayout.           *)
(***************************************************************************)
EXTENDS Relayout, ScriptSegments

CONSTANT SCRIPT_PASSES      \* passes before giving up (MAX_PASSES)

ASSUME PassConstants == SCRIPT_PASSES \in Nat \ {0, 1}

VARIABLES
  eng,             \* the engine of this round, or <<>>
  ctl              \* where its passes stand, or <<>>

layoutVars == <<input, thunks, relax, round, lay, first, pc, eng, ctl>>

Scripted == input.script # <<>>

LayoutErrors == Errors \cup {"script errors", "no room for program headers"}

LayoutInit == Init /\ eng = <<>> /\ ctl = <<>>

\* The input without the bytes the edits delete.
Current ==
  LET left(k) == [k EXCEPT !.size = @ - (IF k.id \in DOMAIN relax THEN Last(relax[k.id]).delta ELSE 0)]
  IN [input EXCEPT !.outs = [o \in DOMAIN input.outs |->
                               [input.outs[o] EXCEPT !.keys = {left(k) : k \in @}]]]

\* The engine of a round; bad regions end the link.
StartEngine(headers) ==
  \E e \in {EvalRegions(NewEngine(Current, headers))} :
    /\ eng' = e
    /\ ctl' = [stage |-> "size", passes |-> 0, last |-> <<>>, stable |-> FALSE, expected |-> 0,
               initial |-> 0, range |-> <<>>]
    /\ pc' = IF e.errors = {} THEN "lay" ELSE "script errors"

ScriptStart ==
  /\ pc = "lay" /\ Scripted /\ eng = <<>>
  /\ StartEngine(0)
  /\ UNCHANGED <<input, thunks, relax, round, lay, first>>

\* All statements once, from the start of the address space.
Pass(st, final) ==
  LET in == Current
  IN FoldLeft(LAMBDA acc, s : Statement(in, thunks, acc, s), ResetPass(st, final),
              ScriptOf(st).stmts)

GoOn(e, stage) ==
  /\ eng' = e
  /\ ctl' = [ctl EXCEPT !.stage = stage, !.passes = 0, !.last = <<>>, !.stable = TRUE]

\* A pass that the one before does not confirm is followed by another, up to
\* the cap; then by the final pass, which reports.
GoAround(e, snapshot) ==
  /\ eng' = e
  /\ ctl' = [ctl EXCEPT !.passes = @ + 1, !.last = <<snapshot>>, !.stable = FALSE,
                        !.stage = IF ctl.passes + 1 < SCRIPT_PASSES THEN @ ELSE "final"]

\* The data segment is first where DATA_SEGMENT_ALIGN guesses; with RELRO it
\* then moves up to a page boundary, else down if that saves a page.
AfterSize(e, snapshot) ==
  /\ ctl.stage = "size"
  /\ CASE ctl.last # <<snapshot>> -> GoAround(e, snapshot)
       [] ctl.last = <<snapshot>> /\ e.seg.phase # "endSeen" ->
            GoOn([e EXCEPT !.seg.phase = "done"], "settle")
       [] ctl.last = <<snapshot>> /\ e.seg.phase = "endSeen" /\ e.relro /\ e.seg.relroEnd # 0 ->
            LET adjusted == RelroAdjust(input, e)
            IN /\ eng' = adjusted.st
               /\ ctl' = [ctl EXCEPT !.stage = "relro", !.expected = adjusted.expected,
                                     !.initial = e.seg.base]
       [] OTHER ->
            IF SizeSegment(e.seg) THEN GoOn([e EXCEPT !.seg.phase = "adjust"], "reset")
            ELSE GoOn([e EXCEPT !.seg.phase = "done"], "settle")
  /\ UNCHANGED pc

\* When the sections moved up no longer end where they were meant to, they go
\* back.
AfterRelro(e) ==
  /\ ctl.stage = "relro"
  /\ IF e.seg.relroEnd > ctl.expected
     THEN GoOn([e EXCEPT !.seg.base = ctl.initial], "reset")
     ELSE GoOn(e, "settle")
  /\ UNCHANGED pc

AfterReset(e) ==
  /\ ctl.stage = "reset"
  /\ GoOn(e, "settle")
  /\ UNCHANGED pc

\* The data segment stays; the rest settles around it.
AfterSettle(e, snapshot) ==
  /\ ctl.stage = "settle"
  /\ IF ctl.last = <<snapshot>> THEN GoOn([e EXCEPT !.seg = eng.seg], "final")
     ELSE GoAround([e EXCEPT !.seg = eng.seg], snapshot)
  /\ UNCHANGED pc

\* Errors that earlier passes could not know of are errors now.
AfterFinal(e) ==
  /\ ctl.stage = "final"
  /\ eng' = [e EXCEPT !.seg = eng.seg]
  /\ ctl' = [ctl EXCEPT !.stage = "assemble"]
  /\ pc' = IF e.errors = {} /\ ctl.stable THEN "lay" ELSE "script errors"

\* The next pass of the round, and what follows from it.
ScriptPass ==
  /\ pc = "lay" /\ Scripted /\ eng # <<>> /\ ctl.stage # "assemble"
  /\ \E e \in {Pass(IF ctl.stage = "size" THEN [eng EXCEPT !.seg = NoSeg] ELSE eng,
                    ctl.stage = "final")} :
     \E snapshot \in {Snapshot(e)} :
       \/ AfterSize(e, snapshot) \/ AfterRelro(e) \/ AfterReset(e) \/ AfterSettle(e, snapshot)
       \/ AfterFinal(e)
  /\ UNCHANGED <<input, thunks, relax, round, lay, first>>

\* Where every output is; one that is not emitted keeps its address but has no
\* section.
ScriptPlaces(st, secs) ==
  [o \in DOMAIN st.outs |->
     LET at == {n \in DOMAIN secs : secs[n].output = o}
         known == st.outs[o].exists /\ Stmt(st, o).enabled
     IN [addr |-> IF known THEN st.outs[o].vma ELSE 0,
         end |-> IF known THEN (st.outs[o].vma + st.outs[o].size) % AddrLimit ELSE 0,
         shndx |-> IF at = {} THEN NONE ELSE CHOOSE n \in at : TRUE]]

\* The layout, in the shape of the default one.
ScriptResult(in, st, offsets) ==
  LET all == AddTrailers(in, offsets.secs)
      rest == PlaceRest(SubSeq(all, Len(offsets.secs) + 1, Len(all)), offsets.fileEnd)
      secs == offsets.secs \o rest.secs
      places == ScriptPlaces(st, offsets.secs)
      kept == {o \in DOMAIN places : places[o].shndx # NONE}
      ids == UNION {{<<o, k.id>> : k \in in.outs[o].keys} : o \in DOMAIN in.outs}
      shoff == AlignUp(rest.end, WordSize)
  IN [secs |-> secs, segments |-> offsets.segments, places |-> places,
      inputs |-> [id \in {p[2] : p \in ids} |->
                    LET o == (CHOOSE p \in ids : p[2] = id)[1]
                    IN [output |-> o, addr |-> (places[o].addr + st.offsets[id]) % AddrLimit,
                        dropped |-> o \notin kept]],
      pools |-> UNION {{[output |-> o, index |-> q.index, content |-> q.content,
                         start |-> q.start, address |-> places[o].addr + q.start] :
                          q \in ToSet(st.outs[o].pools)} : o \in kept},
      thunks |-> {[output |-> t.output, target |-> t.target,
                   address |-> places[t.output].addr + t.offset] :
                    t \in {u \in thunks : u.output \in kept}},
      etext |-> 0, edata |-> 0, bssStart |-> 0, end |-> 0, shoff |-> shoff,
      fileSize |-> shoff + ShdrSize * (Len(secs) + 1)]

\* PT_GNU_RELRO covers what DATA_SEGMENT_RELRO_END said.
RelroRange(st) ==
  IF st.relro /\ st.seg.relroEnd # 0 THEN <<st.seg.base, st.seg.relroEnd>> ELSE <<>>

ScriptMaps(st, secs) ==
  IF ScriptOf(st).hasPhdrs THEN UserMaps(st, secs, SectionPhdrs(st, secs))
  ELSE DefaultMaps(input, st, secs, RelroRange(st))

\* SIZEOF_HEADERS was a guess, and too low.
Outgrown(st, maps) ==
  /\ st.estimated /\ ~ScriptOf(st).hasPhdrs /\ UsesHeaders(ScriptOf(st))
  /\ st.headers < EhdrSize + PhdrSize * Len(maps)

Assemble ==
  /\ pc = "lay" /\ Scripted /\ eng # <<>> /\ ctl.stage = "assemble"
  /\ \E secs \in {EmittedSections(input, eng)} :
     \E maps \in {ScriptMaps(eng, secs)} :
     \E offsets \in {AssignOffsets(input, eng, secs, maps, RelroRange(eng))} :
       CASE offsets.short ->
              /\ pc' = "no room for program headers"
              /\ UNCHANGED <<lay, eng, ctl>>
         [] ~offsets.short /\ Outgrown(eng, maps) ->
              StartEngine(EhdrSize + PhdrSize * Len(maps)) /\ UNCHANGED lay
         [] OTHER ->
              /\ lay' = ScriptResult(Current, eng, offsets)
              /\ pc' = AfterLayout
              /\ UNCHANGED <<eng, ctl>>
  /\ UNCHANGED <<input, thunks, relax, round, first>>

\* Thunks and edits that changed are laid out in a round of their own; so is
\* an output with other debug sections.
NextRound ==
  /\ PlanThunks \/ Shrink \/ LayOutAgain
  /\ IF pc' = "lay" THEN eng' = <<>> /\ ctl' = <<>> ELSE UNCHANGED <<eng, ctl>>

DefaultRound == LayOut /\ UNCHANGED <<eng, ctl>>

LayoutFinished == pc \in {"done"} \cup LayoutErrors /\ UNCHANGED layoutVars

LayoutNext ==
  \/ DefaultRound \/ NextRound \/ ScriptStart \/ ScriptPass \/ Assemble \/ LayoutFinished

LayoutSpec == LayoutInit /\ [][LayoutNext]_layoutVars

-----------------------------------------------------------------------------
ScriptDone == Done /\ Scripted

\* What the script computed is what its own expressions say of the result:
\* running it once more on the final addresses, sizes and symbols changes no
\* address, size or symbol, no byte of data it writes and no member's place.
\* Expressions read values of the pass before; a pass too few, or one that
\* compares too little, leaves some of them behind.
ScriptSettled ==
  ScriptDone =>
    \A again \in {Pass(eng, TRUE)} :
      /\ Snapshot(again) = Snapshot(eng)
      /\ again.offsets = eng.offsets
      /\ \A o \in DOMAIN eng.outs : again.outs[o].data = eng.outs[o].data

\* The outputs that take bytes of an address space.
Filling == {o \in DOMAIN eng.outs : /\ lay.places[o].shndx # NONE
                                    /\ Secs[lay.places[o].shndx].alloc
                                    /\ ~Tbss(Secs[lay.places[o].shndx])
                                    /\ eng.outs[o].size > 0
                                    /\ ~HasAddress(eng, o) /\ Stmt(eng, o).overlay = "none"}

\* Where an output is in the regions: at its address, and where it is loaded.
InRegions(o) ==
  LET out == eng.outs[o]
      stored == /\ out.lmaRegion \notin {0, out.region}
                /\ "LOAD" \in out.flags \/ out.hasData
      at == {[r |-> out.region, at |-> out.vma, size |-> out.size, o |-> o]}
              \cup (IF stored THEN {[r |-> out.lmaRegion, at |-> out.lma, size |-> out.size, o |-> o]}
                    ELSE {})
  IN {q \in at : q.r # DefaultRegion(eng)}

\* Memory regions hold what is put in them, code and the initial values of
\* data alike: nothing ends outside its region, and no two outputs share a
\* byte of one.
RegionsHold ==
  ScriptDone =>
    \A o \in Filling : \A q \in InRegions(o) :
      LET g == eng.regions[q.r]
      IN /\ g.origin <= q.at /\ q.at + q.size <= g.origin + g.length
         /\ \A p \in Filling : \A b \in InRegions(p) :
              (b # q /\ b.r = q.r) => Disjoint(q.at, q.size, b.at, b.size)

\* The loads of a script without PHDRS: each loaded section is in one, at its
\* address, load address and place in the file; each load
\* starts at an offset congruent to its address.
ScriptMapped ==
  /\ \A i \in {j \in DOMAIN Secs : Secs[j].alloc /\ Secs[j].size > 0 /\ ~Tbss(Secs[j])} :
       \E l \in Loads :
         LET g == lay.segments[l]
             s == Secs[i]
         IN /\ g.vaddr <= s.addr /\ s.addr + s.size <= g.vaddr + g.memsz
            /\ s.lma - g.paddr = s.addr - g.vaddr
            /\ (s.write => "W" \in g.flags) /\ (s.exec => "X" \in g.flags)
            /\ ~s.nobits => /\ s.offset - g.offset = s.addr - g.vaddr
                            /\ s.offset + s.size <= g.offset + g.filesz
  /\ \A l \in Loads :
       LET g == lay.segments[l]
       IN g.filesz <= g.memsz /\ (Paged(input) => g.offset % Page = g.vaddr % Page)

\* Sections share no byte of the file with each other, with the ELF header and
\* the program header table, whose size SIZEOF_HEADERS only guessed, or with the
\* section header table.
ScriptFile ==
  LET file == {i \in DOMAIN Secs : ~Secs[i].nobits /\ Secs[i].size > 0}
  IN /\ \A i, j \in file : i < j => Disjoint(Secs[i].offset, Secs[i].size, Secs[j].offset, Secs[j].size)
     /\ \A i \in file : /\ Secs[i].offset >= EhdrSize + PhdrSize * Len(lay.segments)
                        /\ Secs[i].offset + Secs[i].size <= lay.shoff

\* With DATA_SEGMENT_RELRO_END, the pages of PT_GNU_RELRO end on a boundary
\* and hold nothing of later sections but the bytes its offset asks for.
ScriptSealed ==
  \A s \in {i \in DOMAIN lay.segments : lay.segments[i].type = "GNU_RELRO"} :
    LET g == lay.segments[s]
        stop == g.vaddr + g.memsz
    IN /\ stop % Page = 0
       /\ \A i \in {j \in DOMAIN Secs : Secs[j].alloc /\ Secs[j].write /\ Secs[j].size > 0} :
            \/ Secs[i].addr + Secs[i].size <= stop
            \/ Secs[i].addr >= stop - eng.seg.relroOffset

\* The image a script describes: regions hold, and without PHDRS of its own
\* the segments map it.
ScriptSound ==
  /\ RegionsHold
  /\ ScriptDone /\ ~ScriptOf(eng).hasPhdrs => ScriptMapped /\ ScriptFile /\ ScriptSealed

\* "they follow every allocated section, so no address moves", "allocated
\* sections do not move" (elf/link.rs): laying out again, with compressed
\* debug sections or without any, succeeds and gives every allocated section,
\* input section, thunk and load the address it had.  Debug information is
\* rendered with the addresses of one layout and written beside the other, and
\* .relr.dyn is not encoded again.
AddressesStay ==
  first # <<>> =>
    /\ pc \notin LayoutErrors
    /\ Done =>
         LET loaded == {o \in DOMAIN input.outs : input.outs[o].alloc}
             loads(l) == SelectSeq(l.segments, LAMBDA g : g.type = "LOAD")
         IN /\ \A o \in loaded : lay.places[o] = first.places[o]
            /\ \A id \in DOMAIN lay.inputs :
                 lay.inputs[id].output \in loaded => lay.inputs[id] = first.inputs[id]
            /\ lay.thunks = first.thunks /\ loads(lay) = loads(first)
=============================================================================
