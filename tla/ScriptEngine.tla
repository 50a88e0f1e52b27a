---------------------------- MODULE ScriptEngine ----------------------------
(***************************************************************************)
(* Address assignment with a linker script                                 *)
(* (src/elf/script_layout/engine.rs): what one statement of the script     *)
(* does to the engine, and the engine a link starts with.  The passes that *)
(* repeat the statements are in ScriptLayout.                              *)
(*                                                                         *)
(* The layout input `in` is that of ElfLayout: its outputs are those of    *)
(* the script, in.outs[i] the sections that statement i placed, and        *)
(* in.script holds the statements.                                         *)
(***************************************************************************)
EXTENDS ScriptEval

-----------------------------------------------------------------------------
(* The members of an output, and the steps that place them.                *)

SyntheticClass(kind) == CASE kind = "Common" -> 2 [] kind = "EhFrameEnd" -> 3 [] OTHER -> 0

\* The order the SORT of an input description asks for.
RuleKey(rule, k) ==
  LET name == IF rule.reverse THEN -k.name ELSE k.name
      align == IF rule.reverse THEN k.align ELSE -k.align
      priority == IF rule.reverse THEN -k.priority ELSE k.priority
  IN (IF rule.files THEN <<k.file>> ELSE <<>>)
     \o CASE rule.mode = "None" -> <<>>
          [] rule.mode = "Name" -> <<name>>
          [] rule.mode = "Alignment" -> <<align>>
          [] rule.mode = "NameAlignment" -> <<name, align>>
          [] rule.mode = "AlignmentName" -> <<align, name>>
          [] rule.mode = "InitPriority" -> <<priority, name>>

\* Members sort by their input description, commons last; with a SORT the
\* other synthetic ones come first.
SortKey(stmt, e) ==
  LET rule == IF e.sub \in DOMAIN stmt.sort THEN <<stmt.sort[e.sub]>> ELSE <<>>
  IN <<e.sub, One(e.class >= 2)>>
     \o (IF rule = <<>> THEN <<>> ELSE <<e.class>>)
     \o (IF rule = <<>> \/ e.class # 1 THEN <<>> ELSE RuleKey(rule[1], e))
     \o <<e.id, e.class>>

Lexicographic(s, t) ==
  \E n \in DOMAIN s \cap DOMAIN t : s[n] < t[n] /\ \A m \in 1 .. n - 1 : s[m] = t[m]

\* A set in a strict order of its elements, by their ranks.
InOrder(set, Before(_, _)) ==
  [n \in 1 .. Cardinality(set) |->
     CHOOSE e \in set : Cardinality({f \in set : Before(f, e)}) = n - 1]

\* The live inputs of an output and what the linker adds to it.  A synthetic
\* member ranks after the sections of the first file.
Entries(in, stmt, o) ==
  LET input(k) == [id |-> k.id, sub |-> k.sub, size |-> k.size, align |-> k.align,
                   class |-> 1, name |-> k.name, file |-> k.file, priority |-> k.priority,
                   synth |-> "None"]
      synthetic(kind) ==
        [id |-> IF SyntheticClass(kind) >= 2 THEN AddrLimit ELSE in.firstFile,
         sub |-> stmt.synthSub, size |-> in.synths[kind].size, align |-> in.synths[kind].align,
         class |-> SyntheticClass(kind), name |-> 0, file |-> 0, priority |-> 0, synth |-> kind]
      kinds == IF in.outs[o].synth = "None" THEN {}
               ELSE {in.outs[o].synth} \cup (IF in.outs[o].synth = "DynBss" THEN {"Common"} ELSE {})
  IN InOrder({input(k) : k \in in.outs[o].keys}
                    \cup {synthetic(kind) : kind \in {c \in kinds : in.synths[c].size > 0}},
                  LAMBDA a, b : Lexicographic(SortKey(stmt, a), SortKey(stmt, b)))

\* The items of the statement, an input description standing for its run of
\* members; what no description holds (orphans) is a run at the end.
Program(stmt, entries) ==
  LET inputs == Len(SelectSeq(stmt.items, LAMBDA item : item.t = "input"))
      run(item) == SelectSeq(entries, LAMBDA e : e.sub = item.sub)
      tail == SelectSeq(entries, LAMBDA e : e.sub > inputs)
      steps == [n \in DOMAIN stmt.items |->
                  [item |-> stmt.items[n],
                   run |-> IF stmt.items[n].t = "input" THEN run(stmt.items[n]) ELSE <<>>]]
  IN IF tail = <<>> THEN steps
     ELSE Append(steps, [item |-> [t |-> "input"], run |-> tail])

-----------------------------------------------------------------------------
(* What the engine knows of an output.                                     *)

\* The flags of BFD.
GnuFlags(s) ==
  LET load == s.alloc /\ ~s.nobits
  IN {f \in {"ALLOC", "LOAD", "CONTENTS", "READONLY", "CODE", "DATA", "TLS"} :
        \/ f = "ALLOC" /\ s.alloc
        \/ f = "LOAD" /\ load
        \/ f = "CONTENTS" /\ ~s.nobits
        \/ f = "READONLY" /\ ~s.write
        \/ f = "CODE" /\ s.exec
        \/ f = "DATA" /\ load /\ ~s.exec
        \/ f = "TLS" /\ s.tls}

NoAllocType(stmt) == stmt.type \in {"INFO", "COPY", "DSECT", "OVERLAY"}

AllocOf(st, i) ==
  /\ ~NoAllocType(Stmt(st, i))
  /\ "ALLOC" \in st.outs[i].flags \/ st.outs[i].dotMoved \/ st.outs[i].hasData

IsTbss(st, i) == "TLS" \in st.outs[i].flags /\ "CONTENTS" \notin st.outs[i].flags

Emitted(in, out) == out.exists /\ (out.size # 0 \/ out.keep \/ (in.emit /\ out.hasInput))
Ignored(in, out) == ~Emitted(in, out) /\ ~out.symsIn

DefaultRegion(st) == Len(st.regions)

\* An output without a region goes to the first region whose attributes it
\* has.
DefaultRegionFor(st, i) ==
  LET sc == ScriptOf(st)
      bits == st.outs[i].flags
                \cup (IF st.outs[i].flags \cap {"ALLOC", "READONLY", "CODE"} = {"ALLOC"}
                      THEN {"DATA"} ELSE {})
      fit == {r \in DOMAIN sc.regions : /\ sc.regions[r].flags \cap bits # {}
                                        /\ sc.regions[r].not \cap bits = {}}
  IN IF fit = {} THEN DefaultRegion(st) ELSE CHOOSE r \in fit : \A q \in fit : r <= q

-----------------------------------------------------------------------------
(* Statements.                                                             *)

\* An error counts in the final pass only.
RecordError(st) ==
  [st EXCEPT !.err = "", !.errors = IF st.final THEN @ \cup {st.err} ELSE @]

\* The value of an optional expression as an address.
EvalAbs(st, opt, default) ==
  LET Address(r) == IF Failed(r) THEN [st |-> RecordError(r.st), val |-> default]
                    ELSE [st |-> r.st, val |-> AddressOf(r.st, r.v)]
  IN IF opt = <<>> THEN [st |-> st, val |-> default] ELSE Address(Eval(st, opt[1]))

CheckAssert(st, e) ==
  LET Check(r) == IF Failed(r) THEN RecordError(r.st)
                  ELSE IF r.v.val = 0 THEN AssertionFailed(r.st) ELSE r.st
  IN Check(Eval(st, e))

\* The location counter outside sections is that of the default region.
SetDot(st, r) ==
  IF Failed(r) THEN RecordError(r.st)
  ELSE [r.st EXCEPT !.dot = r.v.val,
                    !.regions[DefaultRegion(st)].current = IF st.cur = NoOut THEN r.v.val ELSE @]

\* A symbol taken from the location counter between sections belongs to the
\* section before it; after an assignment to it, and before `end` is seen,
\* to the one that follows.
SectionForDot(st) ==
  LET next == FirstOutput(st, AfterLast(st),
                          {i \in EnabledOuts(st) : /\ st.outs[i].exists /\ AllocOf(st, i)
                                                   /\ "TLS" \notin st.outs[i].flags})
  IN IF (st.last = NoOut \/ (st.preferNext /\ ~st.foundEnd)) /\ next # NoOut THEN next ELSE st.last

SetSymbol(st, name, r) ==
  LET Placed(out) == IF r.v.dot /\ r.v.sec = ABSOLUTE /\ out # NoOut
                     THEN Value(r.v.val - r.st.outs[out].vma, out) ELSE r.v
  IN IF Failed(r) THEN RecordError(r.st)
     ELSE [r.st EXCEPT !.syms[name] = [set |-> TRUE, v |-> Placed(SectionForDot(r.st)),
                                       pass |-> st.pass]]

NeededSymbol(st, name) == name \in ScriptOf(st).needed

\* PROVIDE assigns only what some input needs.
Assignment(st, a) ==
  LET seen == [st EXCEPT !.foundEnd = @ \/ a.target \in {"end", "_end", "__end"},
                          !.preferNext = @ \/ (a.target = "." /\ st.cur = NoOut)]
      Assign(r) == IF a.target = "." THEN SetDot(st, ForDot(st, r))
                   ELSE SetSymbol(st, a.target, ForSymbol(st, r))
  IN IF a.target # "." /\ a.provide /\ ~NeededSymbol(st, a.target) THEN seen
     ELSE Assign(AssignedValue(seen, a))

-----------------------------------------------------------------------------
(* The body of an output: b is the engine with the output being filled.    *)

ReservePool(b) ==
  LET index == Len(b.pools)
      bytes == PoolBytes(b.thunks, b.i, index)
      offset == b.st.dot - b.vma
      start == IF bytes = 0 THEN offset ELSE AlignUp(offset, 4)
  IN [b EXCEPT !.pools = Append(@, [index |-> index, content |-> offset - b.taken, start |-> start]),
               !.st.dot = b.vma + start + bytes,
               !.taken = @ + start + bytes - offset]

PlaceAt(b, e, at) ==
  [b EXCEPT !.st.dot = (at + e.size) % AddrLimit,
            !.st.offsets = IF e.id \in DOMAIN @ /\ e.class = 1 THEN [@ EXCEPT ![e.id] = at - b.vma] ELSE @,
            !.members = Append(@, [id |-> IF e.class = 1 THEN e.id ELSE NONE, offset |-> at - b.vma,
                                   size |-> e.size, synth |-> e.synth])]

\* A member goes after the pool that is due before it.
PlaceEntry(b, e) ==
  LET due == /\ b.lastRun # 0 /\ b.spacing # 0
             /\ b.st.dot - b.vma - b.taken >= (Len(b.pools) + 1) * b.spacing
      PutAfter(c) == PlaceAt(c, e, AlignN(c.st.dot, IF b.subalign < 0 THEN e.align
                                                  ELSE MaxOf(b.subalign, 1)))
  IN PutAfter(IF due THEN ReservePool(b) ELSE b)

\* The value r, or 0 where it fails.
PutData(b, item, r) ==
  [b EXCEPT !.st = [r.st EXCEPT !.dot = (@ + item.size) % AddrLimit, !.outs[b.i].hasData = TRUE],
            !.data = IF b.st.final THEN Append(@, [offset |-> b.st.dot - b.vma, val |-> r.val]) ELSE @]

AfterAssignment(b, st) ==
  [b EXCEPT !.st = [st EXCEPT !.outs[b.i].dotMoved = @ \/ st.dot # b.st.dot]]

\* With thunks the last run of the output that holds bytes ends with a pool.
BodyStep(b, n, step) ==
  LET Run(placed) == IF b.lastRun = n THEN ReservePool(placed) ELSE placed
  IN CASE step.item.t = "input" -> Run(FoldLeft(PlaceEntry, b, step.run))
       [] step.item.t = "assign" -> AfterAssignment(b, Assignment(b.st, step.item))
       [] step.item.t = "data" -> PutData(b, step.item, EvalAbs(b.st, <<step.item.expr>>, 0))
       [] step.item.t = "assert" -> [b EXCEPT !.st = CheckAssert(@, step.item.expr)]

LastRun(in, program) ==
  LET runs == {n \in DOMAIN program : program[n].item.t = "input"}
      sized == {n \in runs : \E k \in DOMAIN program[n].run : program[n].run[k].size # 0}
      from == IF sized # {} THEN sized
              ELSE IF \E n \in runs : program[n].run # <<>> THEN runs ELSE {}
  IN IF ~Thunked(in.arch) \/ from = {} THEN 0 ELSE CHOOSE n \in from : \A m \in from : m <= n

-----------------------------------------------------------------------------
(* One output section statement.  f holds what was decided on the way in.  *)

\* The address given on the command line, else by the statement.
ExplicitStart(st, i) ==
  LET starts == SelectSeq(ScriptOf(st).starts, LAMBDA s : s.name = Stmt(st, i).name)
  IN IF starts = <<>> THEN <<>> ELSE <<Last(starts).address>>

HasAddress(st, i) == ExplicitStart(st, i) # <<>> \/ Stmt(st, i).address # <<>>

Located(st, i) ==
  LET start == ExplicitStart(st, i)
      Moved(r) == [r.st EXCEPT !.dot = r.val]
  IN IF start # <<>> THEN [st EXCEPT !.dot = start[1]]
     ELSE Moved(EvalAbs([st EXCEPT !.cur = NoOut], Stmt(st, i).address, st.dot))

\* The alignment of its members, of the thunks among them and its own.
SectionAlign(in, thunks, f) ==
  LET inputAlign == FoldLeft(LAMBDA a, e : MaxOf(a, e.align), 1, f.entries)
      memberAlign == IF f.subalign < 0 THEN inputAlign ELSE MaxOf(f.subalign, 1)
      pooled == Thunked(in.arch) /\ \E t \in thunks : t.output = f.i
  IN MaxOf(MaxOf(memberAlign, f.attr), IF pooled THEN 4 ELSE 1)

\* The region it names; else, unless its address is given, one that suits it.
RegionOf(st, i) ==
  LET named == RegionNamed(st, Stmt(st, i).region)
  IN IF named # 0 THEN named
     ELSE IF HasAddress(st, i) THEN DefaultRegion(st) ELSE DefaultRegionFor(st, i)

OpenAt(f, region, base, vma) ==
  LET homeless == /\ ~f.explicit /\ region = DefaultRegion(f.st) /\ region > 1
                  /\ f.alloc /\ ~IsTbss(f.st, f.i) /\ ~f.ignored /\ f.st.final
  IN [f EXCEPT !.region = region, !.vma = vma, !.delta = vma - base,
               !.st = [@ EXCEPT !.dot = vma, !.cur = f.i,
                                !.errors = IF homeless THEN @ \cup {"no memory region"} ELSE @,
                                !.outs[f.i] = [@ EXCEPT !.vma = vma, !.align = f.align,
                                                        !.region = region]]]

\* Where its region has come to, or at the address given, aligned.
OpenIn(f, region) ==
  LET base == IF f.explicit THEN f.st.dot ELSE f.st.regions[region].current
  IN OpenAt(f, region, base, AlignN(base, f.used))

\* Its alignments, its region and its address.
OpenOutput(in, thunks, st, i, before) ==
  LET stmt == Stmt(st, i)
      Aligned(f, align) ==
        OpenIn([f EXCEPT !.align = align, !.used = IF f.explicit THEN f.attr ELSE align],
               RegionOf(st, i))
      Open(f) == Aligned(f, SectionAlign(in, thunks, f))
      Members(attr, sub) ==
        Open([i |-> i, before |-> before, entries |-> Entries(in, stmt, i), attr |-> attr,
              subalign |-> sub.val, align |-> 1, used |-> 1, region |-> 0, vma |-> 0, delta |-> 0,
              alloc |-> AllocOf(st, i), ignored |-> Ignored(in, st.outs[i]),
              explicit |-> HasAddress(st, i), st |-> sub.st])
      Attributes(attr) == Members(attr.val, EvalAbs(attr.st, stmt.subalign, -1))
  IN Attributes(EvalAbs(st, stmt.align, 1))

\* The steps of its body, one after the other.
FillOutput(in, thunks, f) ==
  LET Filled(b) == [f EXCEPT !.st = [b.st EXCEPT !.cur = NoOut, !.dot = f.vma,
                                       !.outs[f.i] = [@ EXCEPT !.size = (b.st.dot - f.vma) % AddrLimit,
                                                               !.pools = b.pools, !.members = b.members,
                                                               !.data = b.data]]]
      Fill(program) ==
        FoldLeft(LAMBDA b, n : BodyStep(b, n, program[n]),
                 [st |-> f.st, i |-> f.i, vma |-> f.vma, subalign |-> f.subalign, thunks |-> thunks,
                  lastRun |-> LastRun(in, program), spacing |-> ThunkPoolSpacing(in.arch),
                  pools |-> <<>>, taken |-> 0, members |-> <<>>, data |-> <<>>],
                 [n \in DOMAIN program |-> n])
  IN Filled(Fill(Program(Stmt(f.st, f.i), f.entries)))

\* Where it is loaded: at AT(...), in its load region, or as far from the
\* last output of its region as its address is.
LoadAddress(f) ==
  LET st == f.st
      stmt == Stmt(st, f.i)
      size == st.outs[f.i].size
      lr == st.outs[f.i].lmaRegion
      last == st.regions[f.region].last
      at == st.regions[lr].current
      o == st.outs[last]
      below == f.vma < o.vma /\ size # 0 /\ (f.vma + size) % AddrLimit <= o.vma
  IN CASE stmt.at # <<>> -> EvalAbs(st, stmt.at, f.vma)
       [] stmt.at = <<>> /\ lr # 0 ->
            [st |-> st,
             val |-> IF stmt.alignWithInput THEN (at + f.delta) % AddrLimit
                     ELSE AlignN(at, IF lr # f.region THEN f.attr ELSE f.used)]
       [] stmt.at = <<>> /\ lr = 0 /\ last # NoOut /\ f.alloc /\ ~below ->
            [st |-> st,
             val |-> AlignN((IF stmt.overlay = "rest" THEN o.lma + o.size
                             ELSE f.vma + o.lma - o.vma) % AddrLimit, f.used)]
       [] OTHER -> [st |-> st, val |-> f.vma]

\* Whether later outputs of the region take their load address from this one.
Tracks(f, lma) ==
  LET st == f.st
      last == st.regions[f.region].last
      size == st.outs[f.i].size
  IN /\ st.outs[f.i].lmaRegion = 0
     /\ \/ Stmt(st, f.i).overlay = "first"
        \/ /\ f.alloc /\ ~IsTbss(st, f.i)
           /\ \/ size # 0
              \/ last = NoOut /\ f.vma # lma
              \/ last # NoOut /\ f.vma >= st.outs[last].vma

\* In the final pass an output that ends outside its region is an error, once
\* a region.
CheckRegion(st, r, explicit, base) ==
  LET g == st.regions[r]
      outside == /\ g.current < g.origin \/ g.current - g.origin > g.length
                 /\ g.current # (g.origin + g.length) % AddrLimit \/ base = 0
  IN IF r = DefaultRegion(st) \/ ~st.final \/ ~outside THEN st
     ELSE IF explicit THEN [st EXCEPT !.errors = @ \cup {"address not within region"}]
     ELSE [st EXCEPT !.regions[r].full = TRUE,
                     !.errors = @ \cup {"section will not fit in region"}]

\* Its load address, and whether the region's next ones follow it.
PlaceLoad(f, load) ==
  [load.st EXCEPT !.regions[f.region].last = IF Tracks([f EXCEPT !.st = load.st], load.val)
                                             THEN f.i ELSE @,
                  !.outs[f.i].lma = load.val]

\* Its region has come to the location counter; the region it is loaded from
\* to the end of its contents there.
AdvanceRegions(f, lma, delta, st) ==
  LET lr == st.outs[f.i].lmaRegion
      stores == /\ lr \notin {0, f.region}
                /\ \/ "LOAD" \in st.outs[f.i].flags \/ st.outs[f.i].hasData
                   \/ Stmt(st, f.i).alignWithInput
      Stored(held) == IF ~stores THEN held
                      ELSE CheckRegion([held EXCEPT !.regions[lr].current = (lma + delta) % AddrLimit],
                                       lr, FALSE, lma)
  IN Stored(CheckRegion([st EXCEPT !.regions[f.region].current = st.dot], f.region, f.explicit, f.vma))

\* The location counter moves past the output, and so do its regions.  An
\* output that leaves nothing behind does not move it.
CloseOutput(f, st) ==
  LET delta == IF IsTbss(st, f.i) THEN 0 ELSE st.outs[f.i].size
      past == [st EXCEPT !.last = IF f.alloc THEN f.i ELSE @, !.preferNext = @ /\ ~f.alloc,
                         !.dot = (f.vma + delta) % AddrLimit]
      Regions(moved) == IF f.alloc THEN AdvanceRegions(f, st.outs[f.i].lma, delta, moved) ELSE moved
      Moved(up) == Regions([up.st EXCEPT !.dot = MaxOf(@, up.val)])
  IN IF f.ignored THEN [st EXCEPT !.dot = f.before]
     ELSE Moved(EvalAbs(past, Stmt(st, f.i).updateDot, 0))

Output(in, thunks, st, i) ==
  LET Loaded(f) == CloseOutput(f, PlaceLoad(f, LoadAddress(f)))
      Existing(at) == IF ~st.outs[i].exists THEN [at EXCEPT !.dot = st.dot]
                      ELSE Loaded(FillOutput(in, thunks, OpenOutput(in, thunks, at, i, st.dot)))
  IN IF Stmt(st, i).enabled THEN Existing(Located(st, i)) ELSE st

Statement(in, thunks, st, s) ==
  CASE s.t = "assign" -> Assignment(st, s)
    [] s.t = "assert" -> CheckAssert(st, s.expr)
    [] s.t = "output" -> Output(in, thunks, st, s.out)

-----------------------------------------------------------------------------
(* The engine a link starts with.                                          *)

RECURSIVE Mentions(_)

\* The operators and names in an expression.
Mentions(e) == {[op |-> e.op, name |-> e.name]} \cup UNION {Mentions(a) : a \in ToSet(e.args)}

\* In a statement: all its expressions, or those it assigns.
StmtMentions(sc, s, assigned) ==
  LET o == sc.outs[s.out]
      items == {o.items[n] : n \in {m \in DOMAIN o.items :
                  o.items[m].t \in IF assigned THEN {"assign"} ELSE {"assign", "data", "assert"}}}
      opts == ToSet(o.address \o o.at \o o.align \o o.subalign \o o.updateDot)
  IN CASE s.t = "assign" \/ (s.t = "assert" /\ ~assigned) -> Mentions(s.expr)
       [] s.t = "assert" /\ assigned -> {}
       [] s.t = "output" -> UNION {Mentions(item.expr) : item \in items}
                              \cup UNION {Mentions(e) : e \in IF assigned THEN {} ELSE opts}

ScriptMentions(sc) == UNION {StmtMentions(sc, sc.stmts[n], FALSE) : n \in DOMAIN sc.stmts}

UsesHeaders(sc) == \E m \in ScriptMentions(sc) : m.op = "headers"

Num(n) == [op |-> "num", args |-> <<>>, name |-> "", num |-> n]
Dot == [op |-> "dot", args |-> <<>>, name |-> "", num |-> 0]

\* Assignments to the location counter that do not keep an empty output.
TrivialDot(e) ==
  \/ e = Num(0)
  \/ e.op = "+" /\ e.args = <<Dot, Num(0)>>
  \/ e.op = "align" /\ e.args[1].op = "?" /\ e.args[1].args[3] = Num(1)
       /\ e.args[1].args[1].op = "!=" /\ e.args[1].args[1].args = <<Dot, Num(0)>>

\* The region of LMAs: the statement's own, else that of the statement before
\* if it is in the same region and says nothing of addresses.
LmaRegions(st) ==
  LET sc == ScriptOf(st)
      Step(acc, s) ==
        LET o == sc.outs[s.out]
            own == RegionNamed(st, o.loadRegion)
            inherits == /\ own = 0 /\ o.at = <<>> /\ o.address = <<>>
                        /\ acc.seen /\ acc.region = o.region
            lma == IF inherits THEN acc.lma ELSE own
        IN [seen |-> TRUE, region |-> o.region, lma |-> lma, of |-> [acc.of EXCEPT ![s.out] = lma]]
  IN FoldLeft(Step, [seen |-> FALSE, region |-> "", lma |-> 0, of |-> [i \in DOMAIN sc.outs |-> 0]],
              SelectSeq(sc.stmts, IsOutput)).of

NewOut(in, sc, i, lmaRegion, addressed) ==
  LET stmt == sc.outs[i]
      entries == Entries(in, stmt, i)
      items == ToSet([n \in DOMAIN stmt.items |-> n])
      Assigns(n) == stmt.items[n].t = "assign"
      other == \E n \in items : stmt.items[n].t # "input"
  IN [exists |-> entries # <<>> \/ other \/ addressed, hasInput |-> entries # <<>>,
      vma |-> 0, lma |-> 0, size |-> 0, align |-> 0, region |-> 0, lmaRegion |-> lmaRegion,
      keep |-> \E n \in items : Assigns(n) /\ stmt.items[n].target = "."
                                /\ ~TrivialDot(stmt.items[n].expr),
      symsIn |-> \/ stmt.updateDot # <<>>
                 \/ \E n \in items : /\ Assigns(n) /\ stmt.items[n].target # "."
                                     /\ stmt.items[n].provide => stmt.items[n].target \in sc.needed,
      dotMoved |-> FALSE, hasData |-> \E n \in items : stmt.items[n].t = "data",
      flags |-> IF entries = <<>> THEN {} ELSE GnuFlags(in.outs[i]),
      members |-> <<>>, pools |-> <<>>, data |-> <<>>]

\* Something between DATA_SEGMENT_ALIGN and DATA_SEGMENT_RELRO_END is to be
\* made read-only.
HasRelroSection(in, sc) ==
  LET with(op) == {n \in DOMAIN sc.stmts : \E m \in StmtMentions(sc, sc.stmts[n], TRUE) : m.op = op}
      start == CHOOSE n \in with("dataAlign") : \A m \in with("dataAlign") : n <= m
      inside == {n \in DOMAIN sc.stmts : n >= start /\ \A m \in with("relroEnd") : m >= start => n < m}
  IN /\ with("dataAlign") # {}
     /\ \E n \in inside :
          /\ IsOutput(sc.stmts[n])
          /\ LET i == sc.stmts[n].out
                 entries == Entries(in, sc.outs[i], i)
             IN /\ ~Tbss(in.outs[i])
                /\ \E k \in DOMAIN entries : /\ entries[k].size > 0
                                             /\ in.outs[i].alloc \/ entries[k].class # 1

\* SIZEOF_HEADERS is guessed before any segment is made: two PT_LOADs and
\* what the inputs show.
HeadersEstimate(in, sc, relro) ==
  LET has(kind) == in.synths[kind].size > 0 /\ \E i \in DOMAIN in.outs : in.outs[i].synth = kind
      order == SelectSeq([n \in DOMAIN sc.stmts |-> sc.stmts[n]], IsOutput)
      entries(n) == Entries(in, sc.outs[order[n].out], order[n].out)
      shown == SelectSeq([n \in DOMAIN order |-> n], LAMBDA n : entries(n) # <<>>)
      out(k) == in.outs[order[shown[k]].out]
      align(k) == FoldLeft(LAMBDA a, e : MaxOf(a, e.align), 1, entries(shown[k]))
      Note(k) == out(k).note /\ out(k).alloc
      notes == {k \in DOMAIN shown : /\ Note(k)
                                     /\ k = 1 \/ ~Note(k - 1) \/ align(k - 1) # align(k)}
      segs == 2 + 2 * One(has("Interp")) + One(has("Dynamic")) + One(relro) + One(in.ehHdr)
                + One(in.gnuStack) + One(has("GnuProperty")) + Cardinality(notes)
                + One(\E k \in DOMAIN shown : out(k).tls)
  IN EhdrSize + PhdrSize * (IF sc.hasPhdrs THEN Len(sc.phdrs) ELSE segs)

NoSeg == [phase |-> "none", base |-> 0, relroEnd |-> 0, relroOffset |-> 0, end |-> 0,
          maxPage |-> 0, commonPage |-> 0]

\* The engine, with SIZEOF_HEADERS as given or (0) as estimated.
NewEngine(in, headers) ==
  LET sc == in.script[1]
      relro == in.relro /\ HasRelroSection(in, sc)
      blank == [origin |-> 0, length |-> 0, current |-> 0, last |-> NoOut, full |-> FALSE]
      ids == UNION {{k.id : k \in in.outs[o].keys} : o \in DOMAIN in.outs}
      bare == [script |-> in.script, outs |-> sc.outs]
      addressed == {OutputByName(bare, m.name) :
                      m \in {n \in ScriptMentions(sc) : /\ n.op \in {"addr", "loadaddr"}
                                                        /\ n.name # "NEXT_SECTION"}}
      lmas == LmaRegions(bare)
  IN [script |-> in.script,
      outs |-> [i \in DOMAIN sc.outs |-> NewOut(in, sc, i, lmas[i], i \in addressed)],
      regions |-> [r \in 1 .. Len(sc.regions) + 1 |->
                     IF r <= Len(sc.regions) THEN blank ELSE [blank EXCEPT !.length = AddrLimit - 1]],
      syms |-> [name \in sc.symbols |-> [set |-> FALSE, v |-> Number(0), pass |-> 0]],
      offsets |-> [id \in ids |-> 0], dot |-> 0, cur |-> NoOut, last |-> NoOut,
      preferNext |-> FALSE, foundEnd |-> FALSE, pass |-> 0, final |-> FALSE, seg |-> NoSeg,
      relro |-> relro, errors |-> {}, err |-> "", estimated |-> headers = 0,
      headers |-> IF headers > 0 THEN headers ELSE HeadersEstimate(in, sc, relro)]

\* Origins and lengths may read the regions before.
EvalRegions(st) ==
  LET Set(acc, r, origin, length) ==
        IF Failed(origin) \/ Failed(length) THEN [acc EXCEPT !.errors = @ \cup {"bad region"}]
        ELSE [acc EXCEPT !.regions[r] = [@ EXCEPT !.origin = AddressOf(acc, origin.v),
                                                  !.length = AddressOf(acc, length.v)]]
      Step(acc, r) == Set(acc, r, Eval(acc, ScriptOf(st).regions[r].origin),
                          Eval(acc, ScriptOf(st).regions[r].length))
  IN FoldLeft(Step, st, [r \in DOMAIN ScriptOf(st).regions |-> r])

-----------------------------------------------------------------------------
(* Passes.                                                                 *)

ResetPass(st, final) ==
  [st EXCEPT !.dot = 0, !.cur = NoOut, !.last = NoOut, !.preferNext = FALSE, !.foundEnd = FALSE,
             !.pass = @ + 1, !.final = final,
             !.regions = [r \in DOMAIN st.regions |->
                            [st.regions[r] EXCEPT !.current = st.regions[r].origin, !.last = NoOut,
                                                  !.full = FALSE]]]

\* Slip: symbols are not compared.
SnapshotOfSections(st) ==
  [outs |-> [i \in DOMAIN st.outs |->
               <<st.outs[i].vma, st.outs[i].lma, st.outs[i].size>>],
   syms |-> <<>>]

\* What two passes must agree on.
Snapshot(st) ==
  [outs |-> [i \in DOMAIN st.outs |->
               <<st.outs[i].vma, st.outs[i].lma, st.outs[i].size,
                 st.outs[i].keep \/ st.outs[i].symsIn>>],
   syms |-> [name \in DOMAIN st.syms |->
               <<st.syms[name].set, AddressOf(st, st.syms[name].v),
                 st.syms[name].v.sec \in {NUMBER, ABSOLUTE}>>]]

AlignDownTo(a, align) == a - (a % align)

\* The data segment moves up so that its RELRO sections end on a page: from
\* their end backwards.  The result is the end to expect.
RelroAdjust(in, st) ==
  LET page == MaxOf(st.seg.maxPage, 1)
      expected == AlignN(st.seg.relroEnd, page)
      limit == (st.seg.relroEnd - st.seg.relroOffset) % AddrLimit
      Moves(i) == /\ Emitted(in, st.outs[i]) /\ AllocOf(st, i) /\ Stmt(st, i).enabled
                  /\ st.seg.base <= st.outs[i].vma /\ st.outs[i].vma < limit
      Back(s, end) ==
        LET o == st.outs[s.out]
            bump == end - (o.vma + (IF IsTbss(st, s.out) THEN 0 ELSE o.size))
        IN IF ~Moves(s.out) THEN end
           ELSE AlignDownTo((o.vma + bump) % AddrLimit, MaxOf(o.align, 1))
      base == FoldRight(Back, SelectSeq(ScriptOf(st).stmts, IsOutput),
                        (expected - st.seg.relroOffset) % AddrLimit)
  IN [expected |-> expected,
      st |-> [st EXCEPT !.seg = [@ EXCEPT !.phase = "relroAdjust", !.base = MaxOf(@, base)]]]

\* Without RELRO, the data segment starts on the next page when that saves
\* one.
SizeSegment(seg) ==
  LET page == MaxOf(seg.commonPage, 1)
      first == (-seg.base) % page
      last == seg.end % page
  IN first # 0 /\ last # 0 /\ seg.base \div page # seg.end \div page /\ first + last <= page
=============================================================================
