--------------------------- MODULE ScriptSegments ---------------------------
(***************************************************************************)
(* The end of a layout with a linker script: the output sections that are  *)
(* emitted (assemble of src/elf/script_layout/engine.rs), the segments the *)
(* program headers describe and the file offsets                           *)
(* (src/elf/script_layout/segments.rs).                                    *)
(***************************************************************************)
EXTENDS ScriptEngine

Magic(in) == in.script[1].magic
Paged(in) == Magic(in) = "normal"
Separate(in) == Paged(in) /\ in.separate

-----------------------------------------------------------------------------
(* Output sections.                                                        *)

\* Its attributes: those of its members, what the script put in it and the
\* type the script gave it.
SectionAttributes(in, st, i) ==
  LET stmt == Stmt(st, i)
      out == st.outs[i]
      has == out.members # <<>>
      objects == \E m \in DOMAIN out.members : out.members[m].synth = "None"
      a == in.outs[i]
      filled == out.dotMoved \/ out.hasData
      nobits == IF has THEN a.nobits /\ ~out.hasData ELSE ~out.hasData
      write == (has /\ a.write) \/ (filled /\ ~objects /\ ~out.hasData)
      note == has /\ a.note
  IN [alloc |-> ((has /\ a.alloc) \/ filled) /\ ~NoAllocType(stmt),
      write |-> IF stmt.name = ".text" THEN Magic(in) = "omagic" ELSE write /\ stmt.type # "READONLY",
      exec |-> has /\ a.exec, tls |-> has /\ a.tls, note |-> note,
      nobits |-> nobits \/ (stmt.type = "NOLOAD" /\ ~note)]

\* -T options put their sections first in the section table.
SectionOrder(st) ==
  LET sc == ScriptOf(st)
      early == SelectSeq([n \in DOMAIN sc.starts |-> OutputByName(st, sc.starts[n].name)],
                         LAMBDA i : i # NoOut)
      first == FoldLeft(LAMBDA acc, i : IF i \in ToSet(acc) THEN acc ELSE Append(acc, i), <<>>, early)
      rest == [n \in DOMAIN SelectSeq(sc.stmts, IsOutput) |-> SelectSeq(sc.stmts, IsOutput)[n].out]
  IN first \o SelectSeq(rest, LAMBDA i : i \notin ToSet(first))

\* A section with no `:phdr` of its own is in the headers of the one before;
\* those before the first `:phdr` are in its headers.
SectionPhdrs(st, secs) ==
  LET Step(acc, s) ==
        LET stmt == Stmt(st, s.output)
            names == IF stmt.phdrs # <<>> THEN stmt.phdrs
                     ELSE IF s.alloc /\ stmt.type # "NOLOAD" THEN acc.last ELSE <<>>
        IN [last |-> IF stmt.phdrs # <<>> THEN stmt.phdrs ELSE acc.last,
            of |-> Append(acc.of, ToSet(names) \ {"NONE"})]
      of == FoldLeft(Step, [last |-> <<>>, of |-> <<>>], secs).of
      named == {n \in DOMAIN of : of[n] # {}}
      first == CHOOSE n \in named : \A m \in named : n <= m
  IN [n \in DOMAIN of |->
        IF ScriptOf(st).hasPhdrs /\ named # {} /\ n < first /\ secs[n].alloc THEN of[first] ELSE of[n]]

EmittedSections(in, st) ==
  LET order == SelectSeq(SectionOrder(st),
                         LAMBDA i : Stmt(st, i).enabled /\ Emitted(in, st.outs[i]))
      section(i) ==
        LET out == st.outs[i]
            a == SectionAttributes(in, st, i)
        IN [output |-> i, alloc |-> a.alloc, write |-> a.write, exec |-> a.exec, tls |-> a.tls,
            nobits |-> a.nobits, note |-> a.note, relro |-> FALSE, special |-> "None",
            size |-> out.size,
            align |-> MaxOf(out.align, 1), members |-> out.members, addr |-> out.vma,
            offset |-> 0, lma |-> out.lma,
            region |-> IF out.region = DefaultRegion(st) THEN 0 ELSE out.region]
  IN [n \in DOMAIN order |-> Squeezed(in, section(order[n]))]

-----------------------------------------------------------------------------
(* Which sections each program header covers.                              *)

IsLoad(s) == s.alloc /\ ~s.nobits

\* Load address, then address; contents before what has none, smaller first.
LoadBefore(secs, i, j) ==
  LET key(n) == LET s == secs[n]
                IN <<s.lma, s.addr, One(~IsLoad(s) /\ ~s.tls /\ s.size # 0),
                     IF IsLoad(s) THEN s.size ELSE 0, n>>
  IN Lexicographic(key(i), key(j))

SortSections(secs, set) == InOrder(set, LAMBDA i, j : LoadBefore(secs, i, j))

SegMap(type, members) ==
  [type |-> type, flags |-> <<>>, paddr |-> <<>>, voff |-> 0, filehdr |-> FALSE, phdrs |-> FALSE,
   secs |-> members, align |-> <<>>]

ReadOnlyMap(type, members) == [SegMap(type, members) EXCEPT !.flags = <<{"R"}>>]

SizeInLoad(s) == IF Tbss(s) THEN 0 ELSE s.size

\* Slip: a section loaded elsewhere than its neighbour stays in the segment.
NeedsNewSegmentByFlags(in, prev, hdr, exec, write) ==
  (Separate(in) /\ exec # hdr.exec) \/ (~write /\ hdr.write)

NeedsNewSegment(in, prev, hdr, exec, write) ==
  LET end == (prev.lma + SizeInLoad(prev)) % AddrLimit
      nextPage == AlignUp(end, Page) + Page
  IN \/ (prev.lma - prev.addr) % AddrLimit # (hdr.lma - hdr.addr) % AddrLimit
     \/ hdr.lma < end \/ end < prev.lma
     \/ /\ ~(Paged(in) /\ ((end - 1) % AddrLimit) \div Page = hdr.lma \div Page)
        /\ \/ nextPage > prev.lma /\ nextPage <= hdr.lma
           \/ ~IsLoad(prev) /\ ~prev.tls /\ (IsLoad(hdr) \/ hdr.tls)
           \/ Separate(in) /\ exec # hdr.exec
           \/ Paged(in) /\ ~write /\ hdr.write

\* The loaded sections in order of load address, cut where the load offset,
\* the permissions or the region change.
LoadRuns(in, secs, alloc) ==
  LET Step(acc, i) ==
        LET hdr == secs[i]
            prev == secs[acc.last]
            new == /\ acc.last # 0
                   /\ \/ NeedsNewSegment(in, prev, hdr, acc.exec, acc.write)
                      \/ hdr.region # prev.region
        IN [last |-> i,
            write |-> hdr.write \/ (~new /\ acc.write), exec |-> hdr.exec \/ (~new /\ acc.exec),
            runs |-> IF new \/ acc.runs = <<>> THEN Append(acc.runs, <<i>>)
                     ELSE [acc.runs EXCEPT ![Len(acc.runs)] = Append(@, i)]]
      runs == FoldLeft(Step, [last |-> 0, write |-> FALSE, exec |-> FALSE, runs |-> <<>>], alloc).runs
  IN SelectSeq(runs, LAMBDA r : ~(r = Last(runs) /\ Len(r) = 1 /\ Tbss(secs[r[1]])))

\* The headers are in the first segment when they fit below its first
\* section, when something asks for them (SIZEOF_HEADERS, the interpreter) and
\* the file is paged; in one of their own before code that must be alone.
HeaderPlace(in, st, secs, alloc, interp) ==
  LET size == MaxOf(st.headers, EhdrSize)
      first == secs[alloc[1]]
      asked == \/ UsesHeaders(ScriptOf(st)) \/ interp
               \/ alloc # <<>> /\ first.lma % Page >= size % Page
      low == AlignDownTo((first.lma - size) % AddrLimit, Page)
      lonely == Separate(in) /\ first.exec
      touches == (low + size - 1) \div Page = first.lma \div Page
      own == lonely /\ (~touches \/ low >= Page)
      lma == IF lonely /\ touches /\ low >= Page THEN low - Page ELSE low
      room == ~(first.lma < lma \/ first.lma < size)
  IN IF ~(asked /\ Paged(in)) THEN [own |-> <<>>, inFirst |-> FALSE]
     ELSE IF alloc = <<>> THEN [own |-> <<>>, inFirst |-> TRUE]
     ELSE [inFirst |-> room /\ ~own,
           own |-> IF ~(room /\ own) THEN <<>>
                   ELSE <<[SegMap("LOAD", <<>>) EXCEPT
                             !.paddr = <<lma>>, !.filehdr = TRUE, !.phdrs = TRUE,
                             !.voff = AlignDownTo((first.addr - size) % AddrLimit, Page)]>>]

\* Adjacent notes of one alignment share a header.
NoteMaps(secs) ==
  LET note(n) == IsLoad(secs[n]) /\ secs[n].note
      joins(n) == /\ n > 1 /\ note(n - 1) /\ secs[n].align = secs[n - 1].align
                  /\ AlignUp(secs[n - 1].lma + secs[n - 1].size, secs[n].align) = secs[n].lma
      Step(acc, n) == IF ~note(n) THEN acc
                      ELSE IF joins(n) THEN [acc EXCEPT ![Len(acc)] = Append(@, n)]
                      ELSE Append(acc, <<n>>)
      runs == FoldLeft(Step, <<>>, [n \in DOMAIN secs |-> n])
  IN [r \in DOMAIN runs |-> SegMap("NOTE", runs[r])]

Holding(secs, kind) == SelectSeq([n \in DOMAIN secs |-> n],
                                 LAMBDA n : HasSynthetic(<<secs[n]>>, kind))

RelroMaps(in, secs, loads, relro) ==
  LET found == \E l \in DOMAIN loads :
                 /\ loads[l].secs # <<>>
                 /\ relro[1] <= secs[loads[l].secs[1]].addr /\ secs[loads[l].secs[1]].addr < relro[2]
                 /\ \E n \in ToSet(loads[l].secs) : secs[n].size > 0 /\ IsLoad(secs[n])
  IN IF in.relro /\ relro # <<>> /\ found THEN <<SegMap("GNU_RELRO", <<>>)>> ELSE <<>>

One1(seq) == SubSeq(seq, 1, IF seq = <<>> THEN 0 ELSE 1)

DefaultMaps(in, st, secs, relro) ==
  LET all == [n \in DOMAIN secs |-> n]
      alloc == SortSections(secs, {n \in DOMAIN secs : secs[n].alloc})
      interp == SelectSeq(Holding(secs, "Interp"), LAMBDA n : IsLoad(secs[n]) /\ secs[n].size # 0)
      place == HeaderPlace(in, st, secs, alloc, interp # <<>>)
      runs == LoadRuns(in, secs, alloc)
      loads == [r \in DOMAIN runs |->
                  [SegMap("LOAD", runs[r]) EXCEPT !.filehdr = (r = 1 /\ place.inFirst),
                                                  !.phdrs = (r = 1 /\ place.inFirst)]]
      dynamic == SelectSeq(Holding(secs, "Dynamic"), LAMBDA n : IsLoad(secs[n]))
      tls == SelectSeq(all, LAMBDA n : secs[n].tls /\ secs[n].alloc)
      property == SelectSeq(Holding(secs, "GnuProperty"), LAMBDA n : secs[n].size # 0)
      ehHdr == SelectSeq(Holding(secs, "EhFrameHdr"), LAMBDA n : IsLoad(secs[n]))
      maps(type, seq) == [k \in DOMAIN One1(seq) |-> SegMap(type, <<seq[k]>>)]
  IN (IF interp = <<>> THEN <<>>
      ELSE <<[ReadOnlyMap("PHDR", <<>>) EXCEPT !.phdrs = TRUE]>> \o maps("INTERP", interp))
     \o place.own \o loads \o maps("DYNAMIC", dynamic) \o NoteMaps(secs)
     \o (IF tls = <<>> THEN <<>> ELSE <<ReadOnlyMap("TLS", tls)>>)
     \o [k \in DOMAIN One1(property) |-> ReadOnlyMap("GNU_PROPERTY", <<property[k]>>)]
     \o maps("GNU_EH_FRAME", ehHdr)
     \o (IF in.gnuStack THEN <<[SegMap("GNU_STACK", <<>>) EXCEPT !.flags = <<{"R", "W"}>>,
                                                                 !.align = <<WordSize>>]>>
         ELSE <<>>)
     \o RelroMaps(in, secs, place.own \o loads, relro)

\* The PHDRS of the script, each with the sections that name it.
UserMaps(st, secs, names) ==
  LET specs == ScriptOf(st).phdrs
      holds(p) == SelectSeq([n \in DOMAIN secs |-> n],
                            LAMBDA n : p.name \in names[n] /\ (secs[n].alloc \/ p.type # "LOAD"))
  IN [k \in DOMAIN specs |->
        [SegMap(specs[k].type, holds(specs[k])) EXCEPT
           !.flags = specs[k].flags, !.paddr = specs[k].at, !.filehdr = specs[k].filehdr,
           !.phdrs = specs[k].phdrs]]
-----------------------------------------------------------------------------
(* Addresses of the headers and offsets in the file.                       *)

MapTypes == <<"LOAD", "DYNAMIC", "INTERP", "NOTE", "PHDR", "TLS", "GNU_EH_FRAME", "GNU_STACK",
              "GNU_RELRO", "GNU_PROPERTY">>

\* Loads first, in order of load address, the one with the file header ahead.
MapOrder(secs, maps) ==
  LET at(map) == IF map.type # "LOAD" THEN 0
                 ELSE IF map.paddr # <<>> THEN map.paddr[1]
                 ELSE IF map.secs # <<>> THEN secs[map.secs[1]].lma ELSE 0
      rank(type) == CHOOSE n \in DOMAIN MapTypes : MapTypes[n] = type
      key(m) == <<rank(maps[m].type), One(~maps[m].filehdr), at(maps[m]), m>>
  IN InOrder(DOMAIN maps, LAMBDA a, b : Lexicographic(key(a), key(b)))

PageStep(in) == IF Paged(in) THEN Page ELSE 1

\* A program header, which here also has a load address.
Header(type, flags, offset, vaddr, paddr, filesz, memsz, align) ==
  [type |-> type, flags |-> flags, offset |-> offset, vaddr |-> vaddr, paddr |-> paddr,
   filesz |-> filesz, memsz |-> memsz, align |-> align]

NullHeader == Header("NULL", {}, 0, 0, 0, 0, 0, 0)

\* A header before its contents: its addresses, and for a load the next file
\* offset congruent to its address.  A load of no file bytes gives the offset
\* back when it is closed (adj).
OpenHeader(in, acc, m) ==
  LET map == acc.maps[m]
      load == map.type = "LOAD"
      some == map.secs # <<>>
      first == acc.secs[map.secs[1]]
      vaddr == (map.voff + (IF some THEN first.addr ELSE 0)) % AddrLimit
      paddr == IF map.paddr # <<>> THEN map.paddr[1]
               ELSE IF some THEN (first.lma + map.voff) % AddrLimit ELSE 0
      step == FoldLeft(LAMBDA a, i : MaxOf(a, acc.secs[i].align), PageStep(in), map.secs)
      off == acc.off + (IF m = acc.phdrLoad THEN acc.table ELSE 0)
      skip == IF load /\ some THEN ((vaddr - off) % AddrLimit) % step ELSE 0
      bare == load /\ some /\ \A i \in ToSet(map.secs) : acc.secs[i].nobits
      align == CASE load /\ Paged(in) -> step
                 [] ~(load /\ Paged(in)) /\ map.align # <<>> -> map.align[1]
                 [] OTHER -> IF some THEN 0 ELSE WordSize
  IN [acc EXCEPT !.off = off + skip, !.adj = IF bare THEN skip ELSE 0, !.bare = bare,
                 !.p = Header(map.type, IF map.flags = <<>> THEN {} ELSE map.flags[1],
                              0, vaddr, paddr, 0, 0, align)]

\* The file header in a load takes the segment down to offset 0; there must
\* be room, unless the layout is about to be repeated with more.
HoldFileHeader(acc, m) ==
  LET map == acc.maps[m]
      moves == map.type = "LOAD" /\ map.secs # <<>>
      short == moves /\ (acc.p.vaddr < acc.off \/ (map.paddr = <<>> /\ acc.p.paddr < acc.off))
      down(a) == IF moves THEN (a - acc.off) % AddrLimit ELSE a
  IN IF ~map.filehdr THEN acc
     ELSE [acc EXCEPT !.short = @ \/ (short /\ ~acc.defer),
                      !.p = [@ EXCEPT !.filesz = EhdrSize, !.memsz = EhdrSize,
                               !.vaddr = down(acc.p.vaddr),
                               !.paddr = IF map.paddr = <<>> THEN down(acc.p.paddr) ELSE @]]

\* The program headers in a load without the file header, or described by
\* PT_PHDR from the load that holds them.
HoldTable(acc, m) ==
  LET map == acc.maps[m]
      load == map.type = "LOAD"
      down(a) == IF map.secs = <<>> THEN a ELSE (a - acc.table) % AddrLimit
      holder == acc.segs[acc.phdrLoad]
      base == IF acc.maps[acc.phdrLoad].filehdr THEN EhdrSize ELSE 0
      put(offset, vaddr, paddr) ==
        [acc.p EXCEPT !.filesz = @ + acc.table, !.memsz = @ + acc.table, !.offset = offset,
                      !.vaddr = vaddr, !.paddr = IF map.paddr = <<>> THEN paddr ELSE @]
  IN CASE ~map.phdrs -> acc
       [] map.phdrs /\ map.filehdr -> [acc EXCEPT !.p = put(0, acc.p.vaddr, acc.p.paddr)]
       [] map.phdrs /\ ~map.filehdr /\ load ->
            [acc EXCEPT !.phoff = acc.off - acc.table,
                        !.p = put(acc.off - acc.table, down(acc.p.vaddr), down(acc.p.paddr))]
       [] map.phdrs /\ ~map.filehdr /\ ~load /\ acc.phdrLoad # 0 ->
            [acc EXCEPT !.p = put(holder.offset + base, holder.vaddr + base, holder.paddr + base)]
       [] OTHER -> [acc EXCEPT !.p = put(EhdrSize, acc.p.vaddr, acc.p.paddr)]

\* A load starts at the offset reached, or covers what lies between the
\* headers it holds and that offset.
StartLoad(in, acc, m) ==
  LET map == acc.maps[m]
      step == MaxOf(MaxOf(PageStep(in), acc.p.align), 1)
      gap == acc.off - (acc.p.offset + acc.p.filesz)
      headers == IF map.flags = <<>> /\ (map.filehdr \/ map.phdrs) THEN {"R"} ELSE {}
      p == [acc.p EXCEPT !.flags = @ \cup headers]
  IN [acc EXCEPT !.p =
        CASE map.type # "LOAD" -> p
          [] map.type = "LOAD" /\ (map.filehdr \/ map.phdrs) ->
               [p EXCEPT !.filesz = IF acc.bare THEN @ ELSE @ + gap, !.memsz = @ + gap]
          [] OTHER -> [p EXCEPT !.offset = IF acc.bare THEN ((acc.off + step - 1) % step) + 1
                                           ELSE acc.off]]

\* Section k of the segment: memory grows to its load address, the file with
\* it up to the last section that has bytes.
PutInSegment(in, acc, m, k) ==
  LET map == acc.maps[m]
      i == map.secs[k]
      s == acc.secs[i]
      p == acc.p
      load == map.type = "LOAD"
      tls == map.type = "TLS"
      inMemory == s.alloc /\ (~s.tls \/ tls)
      counted == (load \/ tls) /\ (~s.nobits \/ inMemory)
      end == (p.paddr + p.memsz) % AddrLimit
      below == s.lma # end /\ (s.lma < end \/ end < p.paddr)
      gap == IF ~counted \/ below THEN 0 ELSE (s.lma - end) % AddrLimit
      fileGap == IF load /\ ~s.nobits /\ p.filesz < p.memsz THEN p.memsz + gap - p.filesz ELSE gap
      off == acc.off + (IF counted /\ load /\ (~s.nobits \/ k = 1) THEN fileGap ELSE 0)
      template == Tbss(s) /\ i \notin acc.placed
      offset == IF template THEN off + (((s.addr - off) % AddrLimit) % s.align)
                ELSE IF load THEN off ELSE s.offset
      grow == IF s.nobits THEN One(inMemory) ELSE One(s.alloc)
      flags == {"R"} \cup (IF s.exec THEN {"X"} ELSE {}) \cup (IF s.write THEN {"W"} ELSE {})
  IN [acc EXCEPT
        !.off = off + (IF load /\ ~s.nobits THEN s.size ELSE 0),
        !.adj = CASE ~(counted /\ load) -> @
                  [] counted /\ load /\ ~s.nobits -> 0
                  [] OTHER -> IF k = 1 THEN @ + fileGap ELSE @,
        !.placed = IF template \/ load THEN @ \cup {i} ELSE @,
        !.secs[i] = [s EXCEPT !.lma = IF counted /\ below THEN end ELSE @, !.offset = offset],
        !.p = [p EXCEPT !.memsz = @ + gap + grow * s.size,
                        !.filesz = IF s.nobits THEN @
                                   ELSE @ + (IF counted THEN fileGap ELSE 0) + s.size,
                        !.align = IF (~load \/ ~Paged(in)) /\ map.align = <<>>
                                  THEN MaxOf(@, s.align) ELSE @,
                        !.flags = IF map.flags = <<>> THEN @ \cup flags ELSE @]]

AssignHeader(in, acc, m) ==
  LET held == HoldTable(HoldFileHeader(OpenHeader(in, acc, m), m), m)
      all == FoldLeft(LAMBDA a, k : PutInSegment(in, a, m, k), StartLoad(in, held, m),
                      [k \in DOMAIN acc.maps[m].secs |-> k])
  IN [all EXCEPT !.off = @ - all.adj, !.segs[m] = all.p]

\* Sections of no load, in section order.
PutUnplaced(in, acc, i) ==
  LET s == acc.secs[i]
      step == IF Paged(in) /\ s.size # 0 THEN Page ELSE s.align
      off == IF s.alloc THEN acc.off + (((s.addr - acc.off) % AddrLimit) % step)
             ELSE AlignUp(acc.off, s.align)
  IN IF i \in acc.placed THEN acc
     ELSE [acc EXCEPT !.secs[i].offset = off, !.off = off + (IF s.nobits THEN 0 ELSE s.size)]


\* PT_GNU_RELRO: from the first section of the range to its end, with no more
\* of the file than its load has.
RelroHeader(acc, relro) ==
  LET Touches(m) ==
        LET map == acc.maps[m]
            s == acc.secs[Last(map.secs)]
        IN /\ map.type = "LOAD" /\ map.secs # <<>>
           /\ (s.addr + SizeInLoad(s)) % AddrLimit > relro[1]
           /\ acc.secs[map.secs[1]].addr < relro[2]
      touching == {m \in DOMAIN acc.maps : Touches(m)}
      load == CHOOSE m \in touching : \A n \in touching : m <= n
      inside == SelectSeq(acc.maps[load].secs,
                          LAMBDA i : /\ relro[1] <= acc.secs[i].addr /\ acc.secs[i].addr < relro[2]
                                     /\ acc.secs[i].size # 0)
      s == acc.secs[inside[1]]
      loads == SelectSeq([m \in DOMAIN acc.maps |-> m], LAMBDA m : acc.maps[m].type = "LOAD")
      over == SelectSeq(loads, LAMBDA m : /\ acc.segs[m].vaddr <= s.addr
                                          /\ s.addr < acc.segs[m].vaddr + MaxOf(acc.segs[m].memsz, 1))
      g == acc.segs[over[1]]
      size == relro[2] - s.addr
      limit == (g.vaddr + g.filesz - s.addr) % AddrLimit
      file == IF over # <<>> /\ limit < size THEN limit ELSE size
  IN IF touching = {} \/ inside = <<>> THEN NullHeader
     ELSE Header("GNU_RELRO", {"R"}, s.offset, s.addr, s.lma, file, size, 1)

\* The other headers take their offsets from their sections.
FinishHeader(acc, m, relro) ==
  LET map == acc.maps[m]
      p == acc.segs[m]
      filled == SelectSeq(map.secs, LAMBDA i : ~acc.secs[i].nobits)
      s == acc.secs[Last(filled)]
      offset == acc.secs[map.secs[1]].offset
      filesz == IF filled = <<>> THEN 0 ELSE s.offset - offset + s.size
  IN CASE map.type = "GNU_RELRO" /\ relro # <<>> -> RelroHeader(acc, relro)
       [] map.type \in {"LOAD", "PHDR", "GNU_RELRO", "GNU_STACK"} \/ map.secs = <<>> -> p
       [] OTHER -> [p EXCEPT !.offset = offset, !.filesz = filesz,
                             !.memsz = IF map.type = "NOTE" /\ filled # <<>> /\ s.alloc
                                       THEN filesz ELSE @]

\* The headers of the maps and the offsets of the sections.  The table has
\* at least the room the addresses were computed with.
AssignOffsets(in, st, secs, unsorted, relro) ==
  LET maps == [m \in DOMAIN unsorted |->
                 [unsorted[m] EXCEPT !.secs = SortSections(secs, ToSet(@))]]
      order == MapOrder(secs, maps)
      estimate == MaxOf(st.headers, EhdrSize) - EhdrSize
      table == MaxOf(PhdrSize * Len(maps), estimate)
      holders == SelectSeq(order, LAMBDA m : maps[m].type = "LOAD" /\ maps[m].phdrs)
      phdrLoad == IF holders = <<>> THEN 0 ELSE holders[1]
      start == [maps |-> maps, secs |-> secs, segs |-> [m \in DOMAIN maps |-> NullHeader],
                off |-> EhdrSize + (IF phdrLoad = 0 THEN table ELSE 0), adj |-> 0, bare |-> FALSE,
                p |-> NullHeader, placed |-> {}, phoff |-> EhdrSize, phdrLoad |-> phdrLoad,
                table |-> table, short |-> FALSE,
                defer |-> /\ st.estimated /\ ~ScriptOf(st).hasPhdrs /\ UsesHeaders(ScriptOf(st))
                          /\ table > estimate]
      loaded == FoldLeft(LAMBDA a, m : AssignHeader(in, a, m), start, order)
      all == FoldLeft(LAMBDA a, i : PutUnplaced(in, a, i), loaded, [i \in DOMAIN secs |-> i])
      ends == {all.secs[i].offset + all.secs[i].size : i \in {j \in DOMAIN secs : ~secs[j].nobits}}
      top(set) == CHOOSE n \in set : \A k \in set : k <= n
  IN [secs |-> all.secs, short |-> all.short, phoff |-> all.phoff,
      segments |-> [m \in DOMAIN maps |-> FinishHeader(all, m, relro)],
      fileEnd |-> top(ends \cup {EhdrSize + table, all.off})]
=============================================================================
