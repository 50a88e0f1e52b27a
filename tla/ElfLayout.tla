------------------------------ MODULE ElfLayout ------------------------------
(***************************************************************************)
(* One address assignment of the ELF linker (layout_once of               *)
(* src/elf/layout.rs): members are placed in their output sections with   *)
(* the thunk pools between them, empty outputs are dropped, the program   *)
(* headers are counted, every section gets an address and a file offset,  *)
(* and the program headers are made.  The module has no state: the rounds *)
(* that repeat it are in Relayout.                                        *)
(*                                                                         *)
(* An input `in` is a record: outs, the output sections in the order of   *)
(* their ranks; arch; and the options separate, relro, emit, gnuStack,    *)
(* bindNow, base, pgste.  An output has its attributes (alloc, write,     *)
(* exec, tls, nobits, note, relro, debug, and special for the types that  *)
(* get a program header of their own), the synthetic contents it holds    *)
(* (synth), whose sizes are in.synths, and its live input sections as a   *)
(* set of keys.  in.compressed gives the sizes of outputs that are        *)
(* written compressed.  Sizes and addresses are scaled down.              *)
(***************************************************************************)
EXTENDS Integers, Sequences, FiniteSets, SequencesExt

CONSTANTS
  Page,            \* the maximum page size of the target
  EhdrSize,        \* bytes of the ELF header
  PhdrSize,        \* bytes of one program header
  ShdrSize,        \* bytes of one section header
  WordSize,        \* alignment of the tables
  ThunkSize,       \* bytes of one range-extension thunk
  PoolSpacing      \* content bytes between two thunk pools

ASSUME LayoutConstants ==
  /\ Page \in {2 ^ n : n \in 1 .. 16}
  /\ {EhdrSize, PhdrSize, ShdrSize, WordSize, ThunkSize, PoolSpacing}
       \subseteq Nat \ {0}

NONE == 0

AlignUp(value, align) ==
  LET a == IF align > 1 THEN align ELSE 1
  IN ((value + a - 1) \div a) * a

AlignDown(value, align) == (value \div align) * align

MaxOf(a, b) == IF a >= b THEN a ELSE b

Thunked(arch) == arch \in {"AArch64", "Ppc64", "Ppc64Be", "Arm"}

\* Half the shortest reach of a thunked branch; the big-endian PowerPC64 has
\* no entry of its own and falls to the last case.
ThunkPoolSpacing(arch) ==
  IF arch \in {"AArch64", "Arm", "Ppc64"} THEN PoolSpacing ELSE 0

-----------------------------------------------------------------------------
(* Members of one output section.                                          *)

\* Keys sort by the sub-rule that matched, then by constructor priority, then
\* by input order.
KeyBefore(a, b) ==
  \/ a.sub < b.sub
  \/ a.sub = b.sub /\ a.priority < b.priority
  \/ a.sub = b.sub /\ a.priority = b.priority /\ a.id < b.id

SortedKeys(out) == SetToSortSeq(out.keys, KeyBefore)

SyntheticGoesLast(kind) == kind \in {"Common", "Comment", "EhFrameEnd"}

SyntheticMember(in, kind) ==
  [id |-> NONE, size |-> in.synths[kind].size, align |-> in.synths[kind].align, synth |-> kind]

InputMember(key, relax) ==
  [id |-> key.id, align |-> key.align, synth |-> "None",
   size |-> key.size - (IF key.id \in DOMAIN relax
                        THEN Last(relax[key.id]).delta ELSE 0)]

\* With -z now .got.plt is part of .got; .bss starts with copied symbols and
\* ends with the commons.
SyntheticsBefore(in, kind) ==
  CASE kind = "None" \/ SyntheticGoesLast(kind) -> <<>>
    [] kind = "GotPlt" /\ in.bindNow -> <<>>
    [] kind = "Got" /\ in.bindNow -> <<"GotPlt", "Got">>
    [] OTHER -> <<kind>>

SyntheticsAfter(kind) ==
  IF SyntheticGoesLast(kind) THEN <<kind>>
  ELSE IF kind = "DynBss" THEN <<"Common">> ELSE <<>>

MemberList(in, out, relax) ==
  LET keys == SortedKeys(out)
      inputs == [i \in DOMAIN keys |-> InputMember(keys[i], relax)]
      synthetic(kinds) == [i \in DOMAIN kinds |-> SyntheticMember(in, kinds[i])]
  IN SelectSeq(synthetic(SyntheticsBefore(in, out.synth)) \o inputs
                 \o synthetic(SyntheticsAfter(out.synth)),
               LAMBDA m : m.synth = "None" \/ m.size > 0)

PoolBytes(thunks, output, index) ==
  ThunkSize * Cardinality({t \in thunks : t.output = output /\ t.pool = index})

\* A pool with no thunk takes no byte and does not align.
PutPool(acc, output, thunks) ==
  LET index == Len(acc.pools)
      bytes == PoolBytes(thunks, output, index)
      start == IF bytes = 0 THEN acc.offset ELSE AlignUp(acc.offset, 4)
  IN [acc EXCEPT
        !.pools = Append(@, [index |-> index, content |-> acc.offset - acc.taken,
                             start |-> start]),
        !.align = IF bytes = 0 THEN @ ELSE MaxOf(@, 4),
        !.taken = @ + (start + bytes - acc.offset),
        !.offset = start + bytes]

PoolDue(acc, arch) ==
  /\ ThunkPoolSpacing(arch) # 0
  /\ acc.offset - acc.taken >= (Len(acc.pools) + 1) * ThunkPoolSpacing(arch)

PutMember(acc, m) ==
  LET at == AlignUp(acc.offset, m.align)
  IN [acc EXCEPT !.offset = at + m.size,
                 !.align = MaxOf(@, m.align),
                 !.placed = Append(@, [id |-> m.id, offset |-> at, size |-> m.size,
                                       synth |-> m.synth])]

PlaceMembers(in, output, thunks, relax) ==
  LET Step(acc, m) == PutMember(IF PoolDue(acc, in.arch)
                                THEN PutPool(acc, output, thunks) ELSE acc, m)
      all == FoldLeft(Step, [offset |-> 0, align |-> 1, taken |-> 0,
                             placed |-> <<>>, pools |-> <<>>],
                      MemberList(in, in.outs[output], relax))
  IN IF Thunked(in.arch) THEN PutPool(all, output, thunks) ELSE all

-----------------------------------------------------------------------------
(* The output sections.                                                    *)

\* Outputs with no member vanish; one whose members are all empty is dropped,
\* and its input sections remember where it would have been.
IsEmpty(in, sized) ==
  /\ sized.offset = 0
  /\ ~(in.emit /\ \E i \in DOMAIN sized.placed : sized.placed[i].synth = "None")

Dropped(in, sized) ==
  {o \in DOMAIN in.outs : sized[o].placed # <<>> /\ IsEmpty(in, sized[o])}

OutSection(in, o, sized) ==
  [output |-> o, alloc |-> in.outs[o].alloc, write |-> in.outs[o].write,
   exec |-> in.outs[o].exec, tls |-> in.outs[o].tls, nobits |-> in.outs[o].nobits,
   note |-> in.outs[o].note, relro |-> in.outs[o].relro, special |-> in.outs[o].special,
   size |-> sized.offset, align |-> sized.align, members |-> sized.placed,
   addr |-> 0, offset |-> 0]

\* Of a compressed section only the size changes, its members stay.
Squeezed(in, sec) ==
  IF sec.output \notin DOMAIN in.compressed THEN sec
  ELSE [sec EXCEPT !.size = in.compressed[sec.output], !.align = 8]

Trailer(size, align) ==
  [output |-> NONE, alloc |-> FALSE, write |-> FALSE, exec |-> FALSE, tls |-> FALSE,
   nobits |-> FALSE, note |-> FALSE, relro |-> FALSE, special |-> "None",
   size |-> size, align |-> align, members |-> <<>>, addr |-> 0, offset |-> 0]

\* The sections that follow every output: with --emit-relocs one relocation
\* section per section with relocations, the debug indexes and the debug
\* link, the symbol table (which then has a symbol per section) and its
\* strings, and the section names.
AddTrailers(in, secs) ==
  LET relas == IF in.emit /\ in.symtab > 0
               THEN [i \in 1 .. Len(SelectSeq(secs, LAMBDA s : s.members # <<>>)) |->
                       Trailer(WordSize, WordSize)]
               ELSE <<>>
      generated == SelectSeq(<<Trailer(in.indexes, 4), Trailer(in.debuglink, 4)>>,
                             LAMBDA t : t.size > 0)
      symbols == IF in.symtab > 0
                 THEN <<Trailer(in.symtab + (IF in.emit THEN Len(secs) ELSE 0), WordSize),
                        Trailer(in.symtab, 1)>>
                 ELSE <<>>
      before == secs \o relas \o generated \o symbols
  IN before \o <<Trailer(Len(before) + 2, 1)>>

TlsIndexes(secs) == {i \in DOMAIN secs : secs[i].alloc /\ secs[i].tls}

\* The first TLS section takes the alignment of the whole TLS segment.
AlignTlsStart(secs) ==
  IF TlsIndexes(secs) = {} THEN secs
  ELSE LET first == CHOOSE i \in TlsIndexes(secs) : \A j \in TlsIndexes(secs) : i <= j
           most == CHOOSE a \in {secs[i].align : i \in TlsIndexes(secs)} :
                     \A j \in TlsIndexes(secs) : secs[j].align <= a
       IN [secs EXCEPT ![first].align = MaxOf(@, most)]

OutSections(in, sized) ==
  LET kept == SelectSeq([o \in DOMAIN in.outs |-> o],
                        LAMBDA o : sized[o].placed # <<>> /\ ~IsEmpty(in, sized[o]))
      secs == [i \in DOMAIN kept |-> Squeezed(in, OutSection(in, kept[i], sized[kept[i]]))]
  IN AlignTlsStart(AddTrailers(in, secs))

-----------------------------------------------------------------------------
(* Program headers, counted before they are made.                          *)

\* Without -z separate-code, read-only data shares the text segment.
Perm(in, sec) ==
  {"R"} \cup (IF sec.write THEN {"W"} ELSE {})
        \cup (IF sec.exec \/ (~in.separate /\ ~sec.write) THEN {"X"} ELSE {})

FirstPerm(in) == IF in.separate THEN {"R"} ELSE {"R", "X"}

IsRelro(in, sec) == in.relro /\ sec.write /\ sec.relro

Alloc(secs) == SelectSeq(secs, LAMBDA s : s.alloc)

LoadCount(in, alloc) ==
  LET before(i) == IF i = 1 THEN FirstPerm(in) ELSE Perm(in, alloc[i - 1])
  IN 1 + Cardinality({i \in DOMAIN alloc : Perm(in, alloc[i]) # before(i)})

\* A run of adjacent notes of one alignment is one PT_NOTE.
NoteGroups(alloc) ==
  Cardinality({i \in DOMAIN alloc :
                 /\ alloc[i].note
                 /\ i = 1 \/ ~alloc[i - 1].note \/ alloc[i - 1].align # alloc[i].align})

HasSynthetic(secs, kind) ==
  \E i \in DOMAIN secs : \E m \in DOMAIN secs[i].members : secs[i].members[m].synth = kind

One(condition) == IF condition THEN 1 ELSE 0

\* Program headers of one target only: .riscv.attributes, .ARM.exidx, and
\* --s390-pgste.
RiscV(arch) == arch \in {"RiscV64", "RiscV32"}

SpecialSections(in, secs) ==
  SelectSeq(secs, LAMBDA s : \/ s.special = "Attributes" /\ RiscV(in.arch)
                             \/ s.special = "Exidx" /\ in.arch = "Arm")

HasSpecial(in, secs, kind) ==
  \E i \in DOMAIN SpecialSections(in, secs) : SpecialSections(in, secs)[i].special = kind

Pgste(in) == in.arch = "S390x" /\ in.pgste

Phnum(in, secs) ==
  LET alloc == Alloc(secs)
  IN LoadCount(in, alloc)
     + 2 * One(HasSynthetic(secs, "Interp"))
     + One(HasSynthetic(secs, "Dynamic"))
     + NoteGroups(alloc)
     + One(\E i \in DOMAIN alloc : alloc[i].tls)
     + One(in.property)
     + One(in.ehHdr)
     + One(in.gnuStack)
     + One(\E i \in DOMAIN alloc : IsRelro(in, alloc[i]))
     + One(HasSpecial(in, secs, "Attributes")) + One(HasSpecial(in, secs, "Exidx"))
     + One(Pgste(in))

-----------------------------------------------------------------------------
(* Addresses.                                                              *)

Tbss(sec) == sec.tls /\ sec.nobits

Segment(type, flags, offset, vaddr, filesz, memsz, align) ==
  [type |-> type, flags |-> flags, offset |-> offset, vaddr |-> vaddr,
   filesz |-> filesz, memsz |-> memsz, align |-> align]

\* Slip: the RELRO sections start where the segment can start.
RelroStartForward(in, rest, start) ==
  LET relro == SelectSeq(rest, LAMBDA s : IsRelro(in, s))
      Forward(dot, s) == IF Tbss(s) THEN dot ELSE AlignUp(dot, s.align) + s.size
  IN [start |-> start, end |-> FoldLeft(Forward, start, relro)]

\* The leading RELRO sections of a segment are placed backwards from the
\* first page boundary after their forward layout, or from the next one.
RelroStart(in, rest, start) ==
  LET relro == SubSeq(rest, 1,
                 CHOOSE n \in 0 .. Len(rest) :
                   /\ \A i \in 1 .. n : IsRelro(in, rest[i])
                   /\ n < Len(rest) => ~IsRelro(in, rest[n + 1]))
      Forward(dot, s) == IF Tbss(s) THEN dot ELSE AlignUp(dot, s.align) + s.size
      Backward(s, position) ==
        IF Tbss(s) THEN position ELSE AlignDown(position - s.size, MaxOf(s.align, 1))
      end == AlignUp(FoldLeft(Forward, start, relro), Page)
      From(boundary) == FoldRight(Backward, relro, boundary)
  IN IF From(end) >= start THEN [start |-> From(end), end |-> end]
     ELSE IF From(end + Page) >= start
     THEN [start |-> From(end + Page), end |-> end + Page]
     ELSE [start |-> start, end |-> end]

\* A section whose permissions differ from the last one's opens a segment: on
\* the next page, for a writable one at the same place in the page.  Its file
\* offset is the next one congruent to its address.
OpenSegment(in, acc, sec, rest) ==
  LET p == Perm(in, sec)
      page == AlignUp(acc.dot, Page)
      data == IF "W" \in p THEN page + (acc.dot % Page) ELSE page
      seal == RelroStart(in, rest, data)
      sealed == "W" \in p /\ IsRelro(in, sec)
      vaddr == IF sealed THEN seal.start ELSE data
      offset == acc.fileEnd + ((vaddr - acc.fileEnd) % Page)
  IN [acc EXCEPT !.dot = vaddr, !.delta = vaddr - offset, !.previous = p,
                 !.relroEnd = IF sealed THEN seal.end ELSE @,
                 !.loads = Append(@, Segment("LOAD", p, offset, vaddr, 0, 0, Page))]

\* The first section after the RELRO ones starts on the page after them.
LeaveRelro(in, acc, sec) ==
  IF IsRelro(in, sec) \/ acc.relroEnd = NONE THEN acc
  ELSE [acc EXCEPT !.dot = MaxOf(@, acc.relroEnd), !.relroEnd = NONE,
                   !.relro = IF @ = <<>> THEN @ ELSE <<acc.relro[1], acc.relroEnd>>]

\* The outputs before this one that have no section are where it can start.
PlaceEmpty(acc, upTo) ==
  [acc EXCEPT !.places = @ \o [i \in 1 .. upTo - Len(acc.places) - 1 |->
     [addr |-> acc.dot, end |-> acc.dot, shndx |-> NONE]]]

\* .tbss has addresses of its own that no other section gives up.
Advances(sec) == ~Tbss(sec)

GrowSegment(seg, sec, end) ==
  [seg EXCEPT !.filesz = IF sec.nobits THEN @ ELSE end - seg.vaddr,
              !.memsz = IF Advances(sec) THEN end - seg.vaddr ELSE @]

PlaceSection(in, acc, sec, shndx) ==
  LET addr == AlignUp(acc.dot, sec.align)
      end == addr + sec.size
      tls == IF acc.tls = <<>> THEN [start |-> addr, memsz |-> 0, align |-> 1]
             ELSE acc.tls
      region == IF acc.relro = <<>> THEN <<addr, addr>> ELSE acc.relro
  IN [acc EXCEPT
        !.secs = Append(@, [sec EXCEPT !.addr = addr, !.offset = addr - acc.delta]),
        !.tls = IF sec.tls
                THEN [tls EXCEPT !.memsz = end - tls.start, !.align = MaxOf(@, sec.align)]
                ELSE @,
        !.relro = IF ~IsRelro(in, sec) THEN @
                  ELSE <<region[1], IF Tbss(sec) THEN MaxOf(region[2], addr) ELSE end>>,
        !.loads = [acc.loads EXCEPT ![Len(acc.loads)] = GrowSegment(Last(acc.loads), sec, end)],
        !.fileEnd = IF sec.nobits THEN @ ELSE MaxOf(@, addr - acc.delta + sec.size),
        !.etext = IF "X" \in acc.previous THEN end ELSE @,
        !.bssStart = IF @ = NONE /\ sec.nobits /\ sec.write /\ ~Tbss(sec) THEN addr ELSE @,
        !.edata = IF sec.write /\ ~sec.nobits THEN end ELSE @,
        !.places = Append(@, [addr |-> addr, end |-> end, shndx |-> shndx]),
        !.dot = IF Advances(sec) THEN end ELSE @]

AssignAddresses(in, secs) ==
  LET alloc == Alloc(secs)
      headers == EhdrSize + PhdrSize * Phnum(in, secs)
      start == [dot |-> in.base + headers, fileEnd |-> headers, delta |-> in.base,
                previous |-> FirstPerm(in), secs |-> <<>>, tls |-> <<>>, relro |-> <<>>,
                relroEnd |-> NONE, etext |-> in.base + headers,
                edata |-> in.base + headers, bssStart |-> NONE, places |-> <<>>,
                loads |-> <<Segment("LOAD", FirstPerm(in), 0, in.base, headers,
                                    headers, Page)>>]
      Step(acc, i) ==
        LET opened == IF Perm(in, alloc[i]) # acc.previous
                      THEN OpenSegment(in, acc, alloc[i], SubSeq(alloc, i, Len(alloc)))
                      ELSE acc
            left == LeaveRelro(in, opened, alloc[i])
        IN PlaceSection(in, PlaceEmpty(left, alloc[i].output), alloc[i], i)
      placed == FoldLeft(Step, start, [i \in DOMAIN alloc |-> i])
  IN PlaceEmpty(placed, Len(in.outs) + 1)

\* What is not loaded follows the segments in the file.
PlaceRest(secs, fileEnd) ==
  LET Step(acc, sec) ==
        LET at == AlignUp(acc.end, sec.align)
        IN [secs |-> Append(acc.secs, [sec EXCEPT !.offset = at]), end |-> at + sec.size]
  IN FoldLeft(Step, [secs |-> <<>>, end |-> fileEnd],
              SelectSeq(secs, LAMBDA s : ~s.alloc))

-----------------------------------------------------------------------------
(* The program headers, and the result.                                    *)

SyntheticSegment(secs, kind, type, flags, align) ==
  IF ~HasSynthetic(secs, kind) THEN <<>>
  ELSE LET s == secs[CHOOSE i \in DOMAIN secs : HasSynthetic(<<secs[i]>>, kind)]
           m == s.members[CHOOSE i \in DOMAIN s.members : s.members[i].synth = kind]
       IN <<Segment(type, flags, s.offset + m.offset, s.addr + m.offset,
                    m.size, m.size, align)>>

NoteSegments(alloc) ==
  LET Step(acc, sec) ==
        IF ~sec.note THEN [acc EXCEPT !.open = FALSE]
        ELSE IF acc.open /\ Last(acc.segs).align = sec.align
        THEN LET size == sec.addr + sec.size - Last(acc.segs).vaddr
             IN [acc EXCEPT !.segs[Len(acc.segs)].filesz = size,
                            !.segs[Len(acc.segs)].memsz = size]
        ELSE [open |-> TRUE,
              segs |-> Append(acc.segs, Segment("NOTE", {"R"}, sec.offset, sec.addr,
                                                sec.size, sec.size, sec.align))]
  IN FoldLeft(Step, [open |-> FALSE, segs |-> <<>>], alloc).segs

TlsSegment(alloc, tls) ==
  IF tls = <<>> THEN <<>>
  ELSE LET first == alloc[CHOOSE i \in TlsIndexes(alloc) :
                            \A j \in TlsIndexes(alloc) : i <= j]
           filled == {i \in TlsIndexes(alloc) : ~alloc[i].nobits}
           filesz == IF filled = {} THEN 0
                     ELSE LET last == CHOOSE i \in filled : \A j \in filled : j <= i
                          IN alloc[last].addr + alloc[last].size - tls.start
       IN <<Segment("TLS", {"R"}, first.offset, tls.start, filesz, tls.memsz, tls.align)>>

RelroSegment(in, alloc, relro, loads) ==
  IF ~\E i \in DOMAIN alloc : IsRelro(in, alloc[i]) THEN <<>>
  ELSE LET holds == SelectSeq(loads, LAMBDA l : /\ l.vaddr <= relro[1]
                                                /\ relro[1] <= l.vaddr + l.memsz)
           offset == IF holds = <<>> THEN 0
                     ELSE relro[1] - holds[1].vaddr + holds[1].offset
       IN <<Segment("GNU_RELRO", {"R"}, offset, relro[1], relro[2] - relro[1],
                    relro[2] - relro[1], 1)>>

\* The first section of the kind; attributes are in the file only.
SpecialSegment(in, secs, kind) ==
  IF ~HasSpecial(in, secs, kind) THEN <<>>
  ELSE LET s == SelectSeq(SpecialSections(in, secs), LAMBDA t : t.special = kind)[1]
       IN <<Segment(kind, {"R"}, s.offset, IF kind = "Exidx" THEN s.addr ELSE 0,
                    s.size, s.size, IF kind = "Exidx" THEN 4 ELSE 1)>>

Segments(in, secs, done, phnum) ==
  LET interp == SyntheticSegment(secs, "Interp", "INTERP", {"R"}, 1)
      phdr == IF ~HasSynthetic(secs, "Interp") THEN <<>>
              ELSE <<Segment("PHDR", {"R"}, EhdrSize, in.base + EhdrSize,
                             PhdrSize * phnum, PhdrSize * phnum, WordSize)>>
      stack == IF in.gnuStack
               THEN <<Segment("GNU_STACK", {"R", "W"}, 0, 0, 0, 0, WordSize)>> ELSE <<>>
  IN phdr \o interp \o done.loads
     \o SyntheticSegment(secs, "Dynamic", "DYNAMIC", {"R", "W"}, WordSize)
     \o NoteSegments(done.secs) \o TlsSegment(done.secs, done.tls)
     \o (IF in.property THEN SyntheticSegment(secs, "GnuProperty", "GNU_PROPERTY", {"R"}, WordSize)
                        ELSE <<>>)
     \o (IF in.ehHdr THEN SyntheticSegment(secs, "EhFrameHdr", "GNU_EH_FRAME", {"R"}, 4)
                     ELSE <<>>)
     \o stack \o RelroSegment(in, done.secs, done.relro, done.loads)
     \o SpecialSegment(in, secs, "Exidx") \o SpecialSegment(in, secs, "Attributes")
     \o (IF Pgste(in) THEN <<Segment("S390_PGSTE", {}, 0, 0, 0, 0, 8)>> ELSE <<>>)

\* Where an input section is: its place in its output section, or the place
\* of the dropped output.
InputPlaces(in, secs, sized, places) ==
  LET at(o, id) ==
        LET m == sized[o].placed[CHOOSE i \in DOMAIN sized[o].placed :
                                   sized[o].placed[i].id = id]
        IN IF o \in Dropped(in, sized) THEN places[o].addr
           ELSE LET s == secs[CHOOSE i \in DOMAIN secs : secs[i].output = o]
                IN s.addr + m.offset
      ids == UNION {{<<o, k.id>> : k \in in.outs[o].keys} : o \in DOMAIN in.outs}
  IN [id \in {p[2] : p \in ids} |->
        LET p == CHOOSE q \in ids : q[2] = id
        IN [output |-> p[1], addr |-> at(p[1], id),
            dropped |-> p[1] \in Dropped(in, sized)]]

SizedOutputs(in, thunks, relax) ==
  FoldLeft(LAMBDA acc, o : Append(acc, PlaceMembers(in, o, thunks, relax)),
           <<>>, [o \in DOMAIN in.outs |-> o])

\* The layout, of the sized outputs, the loaded sections placed, the others
\* after them, and the program headers.
LayoutOnce(in, thunks, sized, done, rest, segments) ==
  LET secs == done.secs \o rest.secs
      kept == {o \in DOMAIN in.outs : done.places[o].shndx # NONE}
      shoff == AlignUp(rest.end, WordSize)
  IN [secs |-> secs, segments |-> segments, places |-> done.places,
      inputs |-> InputPlaces(in, secs, sized, done.places),
      pools |-> UNION {{[output |-> o, index |-> q.index, content |-> q.content,
                         start |-> q.start, address |-> done.places[o].addr + q.start] :
                          q \in ToSet(sized[o].pools)} : o \in kept},
      thunks |-> {[output |-> t.output, target |-> t.target,
                   address |-> done.places[t.output].addr + t.offset] :
                    t \in {u \in thunks : u.output \in kept}},
      etext |-> done.etext, edata |-> done.edata,
      bssStart |-> IF done.bssStart = NONE THEN done.edata ELSE done.bssStart,
      end |-> AlignUp(done.dot, WordSize),
      shoff |-> shoff, fileSize |-> shoff + ShdrSize * (Len(secs) + 1)]
=============================================================================
