------------------------------ MODULE ElfLink ------------------------------
(***************************************************************************)
(* The ELF pipeline after resolution: elf/link.rs link_inputs, with the    *)
(* stages it calls: placement and linker symbols, --gc-sections, the       *)
(* relocation scan beside merging and .eh_frame splitting, identical code  *)
(* folding (IcfPass), planning of GOT, PLT and dynamic relocations, layout *)
(* with the .relr.dyn loop, and the writer.                                *)
(*                                                                         *)
(* The stages communicate through three pieces of state that each of them  *)
(* changes in place: the live bits of the sections, the flag words of the  *)
(* symbols, and the count of errors reported.  Scan, merge, split and      *)
(* index run side by side; so do planning and .eh_frame finalizing.        *)
(***************************************************************************)
EXTENDS IcfPass, ElfReloc, EhFrame, SequencesExt

CONSTANTS
  Symbols,      \* global and local symbols
  LinkInputs,   \* what resolution hands over, and the options (see MCElfLink)
  MaxAttempts   \* layouts tried for .relr.dyn (8 in the code)

(* What resolution hands over is a link: relocations name symbols, symbols *)
(* and unwind records name sections, files are told from tasks, and the    *)
(* layout for each size of .relr.dyn gives an encoding of some size.       *)
LinkReloc == [type : RelocTypes, sym : Symbols, even : BOOLEAN]

IsLink(l) ==
  /\ l.opt.icf \in {"none", "all", "safe"}
  /\ l.duplicates \in Nat
  /\ \A s \in Sections :
       /\ l.sec[s].relocs \in Seq(LinkReloc)
       /\ l.sec[s].file \notin {"split", "merge", "index", "entries", "frames"}
       /\ l.sec[s].kind \in {"code", "rodata"} =>
            <<l.sec[s].kind, l.sec[s].contents>> \in Keys
  /\ \A x \in Symbols : l.sym[x].def = "section" => l.sym[x].sec \in Sections
  /\ RecordsOf(l.frames) \subseteq Nat \X Nat
  /\ \A x \in RecordsOf(l.frames) : Rec(l.frames, x).needs \subseteq Sections
  /\ LET sizes == DOMAIN l.relrEncoding IN
     /\ sizes \subseteq Nat /\ l.relrEstimate \in sizes
     /\ \A n \in sizes : l.relrEncoding[n] \in sizes

ASSUME LinkAssumption ==
  /\ <<>> \in Keys /\ RelocTypes \X (Symbols \cup {"section"}) \subseteq Shapes
  /\ MaxAttempts \in Nat \ {0}
  /\ \A l \in LinkInputs : IsLink(l)

VARIABLES
  link,      \* the inputs and options, constant
  stage,     \* the stage link_inputs is in, or "end"
  live,      \* Sections.live
  fold,      \* Sections.fold_into: the section itself when not folded
  flags,     \* flags[x]: the flag word of symbol x
  ran,       \* the tasks of the stage that have finished
  failed,    \* the tasks of the stage that returned an error
  scan,      \* scan[f]: the FileScan of file f
  eh,        \* the finalized .eh_frame records
  synth,     \* Synth: planned entries and relocation counts
  relr,      \* .relr.dyn: reserved and encoded size, attempt, shrunk
  errors,    \* errors reported so far
  out,       \* output files put in place
  hook,      \* calls of the completion hook
  cancel,    \* the link was cancelled
  status     \* "running", "ok" or the error link_inputs returned

linkVars == <<link, stage, live, fold, flags, ran, failed, scan, eh, synth, relr,
              errors, out, hook, cancel, status>>
vars == <<linkVars, icfVars>>

Opt == link.opt
LinkMode == ModeOf(Opt.kind, \E x \in Symbols : link.sym[x].def = "shared")
Context == [mode |-> LinkMode, relax |-> Opt.relax, copyRelocs |-> Opt.copyRelocs]
Files == {link.sec[s].file : s \in Sections}
SecRelocs(s) == link.sec[s].relocs
Alloc(s) == link.sec[s].kind \in {"code", "rodata", "data"}

(***************************************************************************)
(* Relocation targets: elf/refs.rs.  A --defsym symbol is defined by the   *)
(* linker.                                                                 *)
(***************************************************************************)
Target(x) ==
  LET d == link.sym[x] IN
  [global |-> d.global, type |-> d.type,
   def |-> IF d.def = "defsym" THEN "linker" ELSE d.def]

TargetSection(x) == IF link.sym[x].def = "section" THEN {link.sym[x].sec} ELSE {}

SectionTargets(s) == UNION {TargetSection(SecRelocs(s)[i].sym) : i \in DOMAIN SecRelocs(s)}

(***************************************************************************)
(* --defsym: elf/defined.rs.  An expression is "number" or the name of     *)
(* another symbol.                                                         *)
(***************************************************************************)
Defsyms == {x \in Symbols : link.sym[x].def = "defsym"}

(* defsym_is_absolute, before layout: another --defsym counts as an        *)
(* address, as the internal file has no object to look it up in.           *)
AbsoluteBefore(x) ==
  LET e == link.sym[x].expr IN
  e = "number" \/ link.sym[e].def \in {"absolute", "undefined", "weak"}

(* evaluate_defsyms, one pass in command-line order: the values of this    *)
(* pass first, then those of the pass before, then the flag.               *)
DefsymPass(old, fl) ==
  FoldLeft(LAMBDA new, x :
             LET e == link.sym[x].expr
                 absolute ==
                   \/ e = "number"
                   \/ /\ e # "number"
                      /\ LET d == link.sym[e] IN
                         CASE d.def = "defsym"  -> new[e] = "absolute"
                                                     \/ (new[e] = "none" /\ "ABSOLUTE" \in fl[e])
                           [] d.def = "section" -> d.sec \notin live /\ fold[d.sec] = d.sec
                           [] OTHER             -> d.def \in {"absolute", "undefined", "weak"}
             IN [new EXCEPT ![x] = IF absolute THEN "absolute" ELSE "address"],
           old, link.defsyms)

(* Passes until forward references settle: one more than there are         *)
(* --defsym options (at most 8 count).                                     *)
AbsoluteAfter(fl) ==
  LET pass[n \in 0 .. 1 + Len(link.defsyms)] ==
        IF n = 0 THEN [x \in Defsyms |-> "none"] ELSE DefsymPass(pass[n - 1], fl)
      settled == pass[1 + Len(link.defsyms)]
  IN {x \in Defsyms : settled[x] = "absolute"}

(* Addresses::new: the flag of every --defsym symbol is set or cleared     *)
(* from its value.                                                         *)
Reclassify(fl) ==
  [x \in Symbols |->
     IF x \notin Defsyms THEN fl[x]
     ELSE IF x \in AbsoluteAfter(fl) THEN fl[x] \cup {"ABSOLUTE"} ELSE fl[x] \ {"ABSOLUTE"}]

(***************************************************************************)
(* Exports: elf/export.rs plan                                             *)
(***************************************************************************)
ExportFlags(x) ==
  LET d == link.sym[x]
      m == LinkMode
      visible == d.global /\ ~d.hidden IN
  CASE ~d.global \/ ~m.dynamic -> {}
    [] d.global /\ m.dynamic /\ d.def = "shared" -> {"PREEMPTIBLE"}
    [] d.global /\ m.dynamic /\ d.def \in {"undefined", "weak"} ->
         IF visible /\ (m.shared \/ d.def = "weak") /\ m.kind # "staticpie"
           THEN {"PREEMPTIBLE"} ELSE {}
    [] OTHER ->
         IF visible /\ (m.shared \/ d.refDynamic)
           THEN {"EXPORTED"} \cup
                (IF m.shared /\ d.def # "absolute" THEN {"PREEMPTIBLE"} ELSE {})
           ELSE {}
(***************************************************************************)
(* --gc-sections: elf/gc.rs collect                                        *)
(***************************************************************************)
(* Members of one group keep each other, in a ring. *)
GroupEdges(g, S) ==
  IF Cardinality(S) < 2 THEN {}
  ELSE {e \in S \X S : \/ e[1] < e[2] /\ ~\E c \in S : e[1] < c /\ c < e[2]
                       \/ e[1] = Lowest({x \in S : \A y \in S : y <= x})
                            /\ e[2] = Lowest(S)}

GroupMembers(g) == {s \in Sections : link.sec[s].group = g /\ s \in live}

\* Slip: only code leads on to what it refers to.
GcEdgesOfCode ==
  (UNION {{s} \X SectionTargets(s) : s \in {x \in Sections : link.sec[x].kind = "code"}})
    \cup EhGcEdges(link.frames)
    \cup {<<link.sec[s].order, s>> : s \in {x \in Sections : link.sec[x].order # 0}}
    \cup (UNION {GroupEdges(g, GroupMembers(g)) :
                   g \in {link.sec[s].group : s \in Sections} \ {0}})

(* Relocations, .eh_frame, SHF_LINK_ORDER and groups. *)
GcEdges ==
  (UNION {{s} \X SectionTargets(s) : s \in {x \in Sections : Alloc(x)}})
    \cup EhGcEdges(link.frames)
    \cup {<<link.sec[s].order, s>> : s \in {x \in Sections : link.sec[x].order # 0}}
    \cup (UNION {GroupEdges(g, GroupMembers(g)) :
                   g \in {link.sec[s].group : s \in Sections} \ {0}})

(* InternalNames: the entry point, -u and --require-defined names, and the *)
(* symbols that --defsym expressions use.                                  *)
InternalNames == link.entry \cup ({link.sym[x].expr : x \in Defsyms} \ {"number"})

GcRoots(fl) ==
  {s \in live : link.sec[s].keep}
    \cup (UNION {TargetSection(x) :
                   x \in {y \in Symbols : "EXPORTED" \in fl[y] \/ link.sym[y].refDynamic}})
    \cup (UNION {TargetSection(x) : x \in InternalNames})
    \cup (IF Opt.kind = "relocatable" THEN {} ELSE link.startStop)

(* What the mark (GcMark) reaches: the least set that holds the roots and  *)
(* is closed under the edges.                                              *)
Reachable(roots, edges) ==
  {s \in Sections : \A R \in SUBSET Sections :
     /\ roots \cap Sections \subseteq R
     /\ \A e \in edges : e[1] \in R /\ e[2] \in Sections => e[2] \in R
     => s \in R}

(***************************************************************************)
(* The relocation scan: elf/scan.rs scan_file.  A decided relocation is    *)
(* named by its section and position.                                      *)
(***************************************************************************)
Positions(S) == UNION {{s} \X DOMAIN SecRelocs(s) : s \in S}

DecisionsOf(S, fl) ==
  LET ctx == Context IN
  {LET r == SecRelocs(p[1])[p[2]] IN
   [sec |-> p[1], at |-> p[2], sym |-> r.sym, type |-> r.type, even |-> r.even,
    d |-> Decide(ctx, r.type, Target(r.sym), fl[r.sym], link.sec[p[1]].kind = "data")] :
   p \in Positions(S)}

(* A TLS relaxation takes the relocation after it (the call) along.        *)
WithoutSwallowed(D) ==
  LET skips(sec, at) == \E x \in D : x.sec = sec /\ x.at = at /\ x.d.class.skip
      swallowed[p \in Sections \X (0 .. 9)] ==
        p[2] > 1 /\ skips(p[1], p[2] - 1) /\ ~swallowed[<<p[1], p[2] - 1>>]
  IN {x \in D : ~swallowed[<<x.sec, x.at>>]}

(* The relocations of S that are looked at, and those without a problem.   *)
Decided(S, fl) == UNION {WithoutSwallowed(D) : D \in {DecisionsOf(S, fl)}}
Fine(D) == {x \in D : x.d.problem = "none"}

Where(D) == {<<x.sec, x.at>> : x \in D}
Makes(D, kind) == {x \in Fine(D) : x.d.dynamic = kind}
Even(D) == {x \in D : x.even}

Scanned(f) == {s \in live : link.sec[s].file = f /\ Alloc(s)}

(* The flags that relocations give symbol x: what they need, and that its  *)
(* address is taken.                                                       *)
FlagsFrom(D, x) ==
  UNION {y.d.flags \cup (IF y.type = "PLT32" THEN {} ELSE {"TAKEN"}) :
           y \in {z \in Fine(D) : z.sym = x}}

EntryFlags == {"GOT", "TLSGD", "GOTTPOFF", "TLSDESC", "IPLT"}

(* FileScan: the dynamic relocations of the file's sections, the entries   *)
(* its local symbols need, and what there is to report.                    *)
FileScan(D) ==
  [relative  |-> Where(Makes(D, "relative")),
   symbolic  |-> Where(Makes(D, "symbolic")),
   packable  |-> Where(Even(Makes(D, "relative"))),
   locals    |-> {e \in {y \in Symbols : ~link.sym[y].global} \X EntryFlags :
                    e[2] \in FlagsFrom(D, e[1])},
   tlsld     |-> \E x \in D : x.d.slot = "TLSLD",
   undefined |-> {x.sym : x \in {y \in D : /\ y.type # "NONE" /\ link.sym[y.sym].global
                                           /\ link.sym[y.sym].def = "undefined"}},
   problems  |-> Where(D \ Fine(D)),
   text      |-> \E x \in Fine(D) : x.d.text]

(***************************************************************************)
(* Planning: elf/synth.rs plan_entries                                     *)
(***************************************************************************)
GlobalsWith(fl, wanted, without) ==
  {x \in Symbols : link.sym[x].global /\ wanted \subseteq fl[x] /\ fl[x] \cap without = {}}
PltGot(F) == LinkMode.dynamic /\ {"PLT", "GOT"} \subseteq F /\ "CANONICAL" \notin F

OverFiles(get(_)) == UNION {get(f) : f \in Files}

LocalOwners(slot) ==
  {x \in Symbols : <<x, slot>> \in OverFiles(LAMBDA f : scan[f].locals)}

EntryList(fl, slot) == GlobalsWith(fl, {slot}, {}) \cup LocalOwners(slot)

(* plan_copies: symbols at one address of a library share a copy. *)
Copies(fl) == {<<link.sym[x].file, link.sym[x].at>> :
                 x \in GlobalsWith(fl, {"COPY"}, {})}

GotSlots == {"GOT", "TLSGD", "GOTTPOFF", "TLSDESC"}
NonRelative == {"symbolic", "module"}

(* The number of dynamic relocations of the GOT entries and of the         *)
(* module's TLS pair, of the kinds wanted; lists are those planned.        *)
SlotRelocs(lists, tlsld, fl, wanted) ==
  LET m == LinkMode
      made == UNION {LET k == GotSlotRelocs(m, Target(e[1]), fl[e[1]], e[2])
                     IN {<<e, i>> : i \in {j \in DOMAIN k : k[j] \in wanted}} :
                     e \in UNION {lists[slot] \X {slot} : slot \in GotSlots}} IN
  Cardinality(made) + (IF tlsld /\ m.shared /\ "module" \in wanted THEN 1 ELSE 0)

PlanEntries(fl) ==
  LET lists == [slot \in GotSlots \cup {"IPLT"} |-> EntryList(fl, slot)]
      tlsld == \E f \in Files : scan[f].tlsld
      copies == Copies(fl) IN
  [lists    |-> lists,
   plt      |-> {x \in GlobalsWith(fl, {"PLT", "PREEMPTIBLE"}, {"IPLT"}) :
                   LinkMode.dynamic /\ ~PltGot(fl[x])},
   pltGot   |-> {x \in GlobalsWith(fl, {"PLT", "GOT"}, {"IPLT"}) : PltGot(fl[x])},
   copies   |-> copies,
   tlsld    |-> tlsld,
   gotDyn   |-> IF LinkMode.dynamic
                  THEN <<SlotRelocs(lists, tlsld, fl, {"relative"}),
                         SlotRelocs(lists, tlsld, fl, NonRelative) + Cardinality(copies)>>
                  ELSE <<0, 0>>,
   secDyn   |-> <<Cardinality(OverFiles(LAMBDA f : scan[f].relative)),
                  Cardinality(OverFiles(LAMBDA f : scan[f].symbolic))>>,
   packable |-> Cardinality(OverFiles(LAMBDA f : scan[f].packable))]

RelrOn == Opt.relr /\ LinkMode.pic
RelrCount == IF RelrOn THEN synth.gotDyn[1] + synth.packable ELSE 0
RelaDynCount ==
  synth.gotDyn[1] + synth.gotDyn[2] + synth.secDyn[1] + synth.secDyn[2] - RelrCount

(***************************************************************************)
(* The writer: elf/write.rs.  collect_dyn_relocs decides the sections the  *)
(* scan listed again, with the flags of now.                               *)
(***************************************************************************)
Listed == {p[1] : p \in OverFiles(LAMBDA f : scan[f].relative \cup scan[f].symbolic)}

(* write_rela_dyn: how many go to .rela.dyn. *)
MadeRelaDyn(fl) ==
  LET D == Decided(Listed, fl) IN
  SlotRelocs(synth.lists, synth.tlsld, fl, {"relative"} \cup NonRelative)
    + Cardinality(synth.copies)
    + Cardinality(Makes(D, "relative") \cup Makes(D, "symbolic"))
    - (IF RelrOn THEN SlotRelocs(synth.lists, synth.tlsld, fl, {"relative"})
                        + Cardinality(Even(Makes(D, "relative")))
                 ELSE 0)

(* A relocation that reads a GOT entry nobody planned is an error. *)
MissingSlots(fl) ==
  {x \in Fine(Decided({s \in live : Alloc(s)}, fl)) :
     x.d.slot \in GotSlots /\ x.sym \notin synth.lists[x.d.slot]}

-----------------------------------------------------------------------------
(***************************************************************************)
(* link_inputs                                                             *)
(***************************************************************************)
NoScan == [relative |-> {}, symbolic |-> {}, packable |-> {}, locals |-> {}, tlsld |-> FALSE,
           undefined |-> {}, problems |-> {}, text |-> FALSE]

NoSynth == [lists |-> [slot \in GotSlots \cup {"IPLT"} |-> {}], plt |-> {}, pltGot |-> {},
            copies |-> {}, tlsld |-> FALSE, gotDyn |-> <<0, 0>>, secDyn |-> <<0, 0>>,
            packable |-> 0]

IcfIdle == /\ class = [s \in Sections |-> s] /\ work = {}
           /\ part = [s \in Sections |-> s] /\ before = 0 /\ round = "start"

Init ==
  /\ link \in LinkInputs
  /\ stage = "sections"
  /\ live = {} /\ fold = [s \in Sections |-> s]
  /\ flags = [x \in Symbols |-> {}]
  /\ ran = {} /\ failed = {}
  /\ scan = [f \in Files |-> NoScan]
  /\ eh = <<>> /\ synth = NoSynth
  /\ relr = [size |-> 0, encoded |-> 0, attempt |-> 0, shrunk |-> FALSE]
  /\ errors = 0 /\ out = {} /\ hook = 0 /\ cancel = FALSE /\ status = "running"
  /\ icf = [s \in Sections |-> [key |-> <<>>, foldable |-> FALSE, significant |-> FALSE,
                                relocs |-> <<>>]]
  /\ mode = "all"
  /\ IcfIdle

End(result) == status' = result /\ stage' = "end"

(* options.check_cancelled()? at the end of a stage. *)
GoTo(next) ==
  IF cancel THEN End("cancelled") ELSE stage' = next /\ UNCHANGED status

(* The token is set by the caller at any time. *)
Cancel ==
  /\ status = "running" /\ ~cancel
  /\ cancel' = TRUE
  /\ UNCHANGED <<link, stage, live, fold, flags, ran, failed, scan, eh, synth, relr,
                 errors, out, hook, status, icfVars>>

Inhibited(n) == n > 0 /\ ~Opt.noinhibit

(* Sections::new, deduplicate_comdat and report_duplicates; -r has a path  *)
(* of its own.                                                             *)
NumberSections ==
  /\ stage = "sections"
  /\ IF cancel
       THEN End("cancelled") /\ UNCHANGED <<live, errors>>
       ELSE /\ live' = {s \in Sections : link.sec[s].kind # "none" /\ link.sec[s].owned}
            /\ errors' = link.duplicates
            /\ IF Opt.kind # "relocatable" THEN stage' = "place" /\ UNCHANGED status
               ELSE IF Inhibited(errors') THEN End("reported")
               ELSE stage' = "relocatable" /\ UNCHANGED status
  /\ UNCHANGED <<link, fold, flags, ran, failed, scan, eh, synth, relr, out, hook, cancel, icfVars>>

(* place, /DISCARD/, register and export::plan. *)
Place ==
  /\ stage = "place"
  /\ live' = {s \in live : ~link.sec[s].discarded}
  /\ flags' = [x \in Symbols |->
                 ExportFlags(x) \cup
                 (IF x \in Defsyms /\ AbsoluteBefore(x) THEN {"ABSOLUTE"} ELSE {})]
  /\ GoTo(IF Opt.gc THEN "gc" ELSE "passes")
  /\ UNCHANGED <<link, fold, ran, failed, scan, eh, synth, relr, errors, out, hook, cancel, icfVars>>

(* With --gc-sections the .eh_frame records are split first. *)
CollectGarbage ==
  /\ stage = "gc"
  /\ \/ /\ ~WellFormed(link.frames)
        /\ End("malformed")
        /\ UNCHANGED <<live, ran>>
     \/ /\ WellFormed(link.frames)
        /\ ran' = {"split"}
        /\ \E edges \in {GcEdges} : live' = live \cap Reachable(GcRoots(flags), edges)
        /\ GoTo("passes")
  /\ UNCHANGED <<link, fold, flags, failed, scan, eh, synth, relr, errors, out, hook, cancel, icfVars>>

(* link_relocatable: sections are dropped by the script and, with a root,  *)
(* by --gc-sections.                                                       *)
LinkRelocatable ==
  /\ stage = "relocatable"
  /\ \E placed \in {{s \in live : ~link.sec[s].discarded}} :
     \/ ~Opt.gc /\ live' = placed /\ stage' = "copy" /\ UNCHANGED status
     \/ Opt.gc /\ link.entry = {} /\ live' = placed /\ End("option")
     \/ Opt.gc /\ link.entry # {} /\ ~WellFormed(link.frames) /\ live' = placed /\ End("malformed")
     \/ /\ Opt.gc /\ link.entry # {} /\ WellFormed(link.frames)
        /\ \E edges \in {GcEdges} : live' = placed \cap Reachable(GcRoots(flags), edges)
        /\ GoTo("copy")
  /\ UNCHANGED <<link, fold, flags, ran, failed, scan, eh, synth, relr, errors, out, hook, cancel,
                 icfVars>>

(* relocatable::write. *)
CopySections ==
  /\ stage = "copy"
  /\ \/ out' = out \cup {"main"} /\ stage' = "after" /\ UNCHANGED status
     \/ "write" \in link.mayFail /\ End("io") /\ UNCHANGED out
  /\ UNCHANGED <<link, live, fold, flags, ran, failed, scan, eh, synth, relr, errors, hook, cancel,
                 icfVars>>

\* Slip: the flag word is stored, not merged into the one that is there.
ScanFileStoring(f) ==
  /\ stage = "passes" /\ f \notin ran
  /\ ran' = ran \cup {f}
  /\ \E D \in {Decided(Scanned(f), flags)} :
     /\ scan' = [scan EXCEPT ![f] = FileScan(D)]
     /\ flags' = [x \in Symbols |->
                    IF link.sym[x].global /\ FlagsFrom(D, x) # {}
                      THEN (flags[x] \cap {"PREEMPTIBLE", "EXPORTED", "ABSOLUTE"})
                             \cup FlagsFrom(D, x)
                      ELSE flags[x]]
  /\ UNCHANGED <<link, stage, live, fold, failed, eh, synth, relr, errors, out, hook, cancel,
                 status, icfVars>>

(* The relocation scan of one file, beside those of the others. *)
ScanFile(f) ==
  /\ stage = "passes" /\ f \notin ran
  /\ ran' = ran \cup {f}
  /\ \E D \in {Decided(Scanned(f), flags)} :
     /\ scan' = [scan EXCEPT ![f] = FileScan(D)]
     /\ flags' = [x \in Symbols |->
                    IF link.sym[x].global THEN flags[x] \cup FlagsFrom(D, x) ELSE flags[x]]
  /\ UNCHANGED <<link, stage, live, fold, failed, eh, synth, relr, errors, out, hook, cancel,
                 status, icfVars>>

(* ehframe::split (malformed records), merge::merge and                    *)
(* DebugIndexes::build, which may fail.                                    *)
RunPass(task) ==
  /\ stage = "passes" /\ task \notin ran
  /\ ran' = ran \cup {task}
  /\ failed' \in CASE task = "split" -> {IF WellFormed(link.frames) THEN failed
                                                                 ELSE failed \cup {task}}
                   [] OTHER -> {failed, failed \cup ({task} \cap link.mayFail)}
  /\ UNCHANGED <<link, stage, live, fold, flags, scan, eh, synth, relr, errors, out, hook, cancel,
                 status, icfVars>>

ScanErrors ==
  Cardinality(OverFiles(LAMBDA f : scan[f].problems))
    + (IF LinkMode.shared THEN 0 ELSE Cardinality(UNION {scan[f].undefined : f \in Files}))
    + (IF Opt.errorTextrel /\ LinkMode.dynamic /\ \E f \in Files : scan[f].text THEN 1 ELSE 0)

StopAfterScan(n) == Inhibited(n)

PassTasks == {"split", "merge", "index"}

(* The passes end together; a merge error counts only if the scan reports  *)
(* none.                                                                   *)
Join ==
  /\ stage = "passes" /\ Files \cup PassTasks \subseteq ran
  /\ errors' = IF "split" \in failed THEN errors ELSE errors + ScanErrors
  /\ IF "split" \in failed THEN End("malformed")
     ELSE IF StopAfterScan(errors') THEN End("reported")
     ELSE IF cancel THEN End("cancelled")
     ELSE IF "merge" \in failed THEN End("merge")
     ELSE GoTo(IF Opt.icf = "none" THEN "index" ELSE "icf")
  /\ UNCHANGED <<link, live, fold, flags, ran, failed, scan, eh, synth, relr, out, hook, cancel,
                 icfVars>>

(***************************************************************************)
(* --icf: elf/icf.rs fold around passes/icf.rs (IcfPass)                   *)
(***************************************************************************)
(* foldable_section: live read-only sections of the link's code and data.  *)
Foldable(s) == s \in live /\ link.sec[s].kind \in {"code", "rodata"} /\ ~link.sec[s].keepOutput

(* Code whose address matters: named by an .llvm_addrsig section, or, if   *)
(* its file has none, the target of any relocation but a call -- the ones  *)
(* of .eh_frame (function, LSDA, personality) and other live sections too. *)
Significant(s) ==
  /\ link.sec[s].kind = "code"
  /\ \/ \E f \in Files : \E x \in link.addrsig[f].symbols : s \in TargetSection(x)
     \/ /\ ~link.addrsig[link.sec[s].file].present
        /\ \/ \E t \in live : \E i \in DOMAIN SecRelocs(t) :
                SecRelocs(t)[i].type # "PLT32" /\ s \in TargetSection(SecRelocs(t)[i].sym)
           \/ \E x \in Fdes(link.frames) : Rec(link.frames, x).pc = s
           \/ \E x \in RecordsOf(link.frames) : s \in Rec(link.frames, x).needs

(* icf_target: a section, or else the symbol or value itself. *)
IcfRelocOf(r) ==
  LET d == link.sym[r.sym]
      inSection == d.def = "section" /\ ~(d.type = "ifunc" /\ d.global) IN
  [shape  |-> <<r.type, IF inSection THEN "section" ELSE r.sym>>,
   target |-> IF inSection THEN d.sec ELSE Outside]

IcfInputOf(s) ==
  [key         |-> IF Foldable(s) THEN <<link.sec[s].kind, link.sec[s].contents>> ELSE <<>>,
   foldable    |-> Foldable(s),
   significant |-> Significant(s),
   relocs      |-> IF Foldable(s) THEN [i \in DOMAIN SecRelocs(s) |-> IcfRelocOf(SecRelocs(s)[i])]
                                  ELSE <<>>]

StartFolding ==
  /\ stage = "icf"
  /\ icf' = [s \in Sections |-> IcfInputOf(s)]
  /\ mode' = Opt.icf
  /\ stage' = "folding"
  /\ UNCHANGED <<link, live, fold, flags, ran, failed, scan, eh, synth, relr, errors, out, hook,
                 cancel, status, class, work, part, before, round>>

(* The rounds of fold_identical. *)
FoldRound ==
  /\ stage = "folding" /\ round # "done"
  /\ IcfNext
  /\ UNCHANGED linkVars

(* apply_folding: folded sections are no longer live.  fold_identical's    *)
(* own data is dropped.                                                    *)
ApplyFolding ==
  /\ stage = "folding" /\ round = "done"
  /\ fold' = class
  /\ live' = {s \in live : class[s] = s}
  /\ class' = [s \in Sections |-> s] /\ work' = {}
  /\ part' = [s \in Sections |-> s] /\ before' = 0 /\ round' = "start"
  /\ GoTo("index")
  /\ UNCHANGED <<link, flags, ran, failed, scan, eh, synth, relr, errors, out, hook, cancel,
                 icf, mode>>

(* debug_indexes?, then the order of sections. *)
UseIndexes ==
  /\ stage = "index"
  /\ IF "index" \in failed THEN End("index") ELSE stage' = "plan" /\ UNCHANGED status
  /\ ran' = {}
  /\ UNCHANGED <<link, live, fold, flags, failed, scan, eh, synth, relr, errors, out, hook, cancel,
                 icfVars>>

(***************************************************************************)
(* Planning and layout                                                     *)
(***************************************************************************)
Plan ==
  /\ stage = "plan" /\ "entries" \notin ran
  /\ ran' = ran \cup {"entries"}
  /\ synth' = PlanEntries(flags)
  /\ UNCHANGED <<link, stage, live, fold, flags, failed, scan, eh, relr, errors, out, hook, cancel,
                 status, icfVars>>

FinalizeFrames ==
  /\ stage = "plan" /\ "frames" \notin ran
  /\ eh' = Finalize(link.frames, live)
  /\ ran' = ran \cup {"frames"}
  /\ UNCHANGED <<link, stage, live, fold, flags, failed, scan, synth, relr, errors, out, hook,
                 cancel, status, icfVars>>

(* plan_entries again, the estimate for .relr.dyn, the dynamic symbols.    *)
PlanDynamic ==
  /\ stage = "plan" /\ {"entries", "frames"} \subseteq ran
  /\ synth' = PlanEntries(flags)
  /\ relr' = [relr EXCEPT !.size = link.relrEstimate]
  /\ GoTo("layout")
  /\ UNCHANGED <<link, live, fold, flags, ran, failed, scan, eh, errors, out, hook, cancel, icfVars>>

AfterLayout == IF Opt.compress THEN "compress" ELSE "write"

(* The first layout; without .relr.dyn it is the only one. *)
Layout ==
  /\ stage = "layout"
  /\ IF RelrCount > 0 THEN stage' = "relr" /\ UNCHANGED status ELSE GoTo(AfterLayout)
  /\ UNCHANGED <<link, live, fold, flags, ran, failed, scan, eh, synth, relr, errors, out, hook,
                 cancel, icfVars>>

(* The size of .relr.dyn when the layout leaves `size' words for it.       *)
Encoded(size) == link.relrEncoding[size]

Settled(size) ==
  \/ size = relr.size
  \/ size < relr.size /\ (relr.shrunk \/ relr.attempt = MaxAttempts - 1)

\* Slip: lay out again until the encoding has the size that was reserved.
RelrAttemptUntilEqual ==
  /\ stage = "relr"
  /\ flags' = Reclassify(flags)
  /\ LET size == Encoded(relr.size) IN
     /\ relr' = [relr EXCEPT !.size = size, !.encoded = size]
     /\ IF size = relr.size THEN GoTo(AfterLayout) ELSE UNCHANGED <<stage, status>>
  /\ UNCHANGED <<link, live, fold, ran, failed, scan, eh, synth, errors, out, hook, cancel, icfVars>>

(* One pass of the .relr.dyn loop: the addresses of this layout give the   *)
(* encoding; if it does not fit, lay out again with its size.  A smaller   *)
(* encoding is used once to shrink, later it is padded.                    *)
RelrAttempt ==
  /\ stage = "relr"
  /\ flags' = Reclassify(flags)
  /\ LET size == Encoded(relr.size) IN
     IF Settled(size)
       THEN relr' = [relr EXCEPT !.encoded = size] /\ GoTo(AfterLayout)
     ELSE IF relr.attempt = MaxAttempts - 1
       THEN relr' = [relr EXCEPT !.encoded = size] /\ End("internal")
     ELSE /\ relr' = [size |-> size, encoded |-> size, attempt |-> relr.attempt + 1,
                      shrunk |-> relr.shrunk \/ size < relr.size]
          /\ UNCHANGED <<stage, status>>
  /\ UNCHANGED <<link, live, fold, ran, failed, scan, eh, synth, errors, out, hook, cancel, icfVars>>

(***************************************************************************)
(* Writing.  Relocations that cannot be applied (out of range, outside     *)
(* their section) are reported where their section is rendered:            *)
(* link.unappliable holds "alloc" and "debug" for the two sorts of         *)
(* sections that have one.                                                 *)
(***************************************************************************)
SeparateDebug == Opt.separateDebug /\ Opt.kind # "relocatable"
MapFirst == IF SeparateDebug THEN {"map"} ELSE {}
Unappliable(sort) == sort \in link.unappliable

(* --compress-debug-sections: the debug sections are rendered with the     *)
(* final addresses and laid out again with their compressed sizes; the     *)
(* write does not render them again.                                       *)
Compress ==
  /\ stage = "compress"
  /\ flags' = Reclassify(flags)
  /\ errors' = errors + (IF Unappliable("debug") THEN 1 ELSE 0)
  /\ IF Unappliable("debug") /\ Inhibited(errors') THEN End("reported") ELSE GoTo("write")
  /\ UNCHANGED <<link, live, fold, ran, failed, scan, eh, synth, relr, out, hook, cancel, icfVars>>

(* What the write of the output reports: entries it does not find, and     *)
(* what cannot be applied in the sections it renders.                      *)
Problems(fl) ==
  \/ MissingSlots(fl) # {} \/ Unappliable("alloc")
  \/ Unappliable("debug") /\ ~Opt.compress /\ ~SeparateDebug

(* The final addresses; with --separate-debug-file the map comes first.    *)
(* write: counts are checked, chunks report problems, the file replaces    *)
(* the old output.                                                         *)
WriteOutput ==
  /\ stage = "write"
  /\ \E fl \in {Reclassify(flags)} :
     /\ flags' = fl
     /\ \/ /\ LinkMode.dynamic /\ MadeRelaDyn(fl) # RelaDynCount
           /\ End("internal")
           /\ out' = out \cup MapFirst
           /\ UNCHANGED errors
        \/ /\ LinkMode.dynamic => MadeRelaDyn(fl) = RelaDynCount
           /\ errors' = errors + (IF Problems(fl) THEN 1 ELSE 0)
           /\ IF Problems(fl) /\ Inhibited(errors')
                THEN /\ End("reported")
                     /\ out' = out \cup MapFirst
                ELSE /\ out' = out \cup {"main"} \cup MapFirst
                     /\ stage' = "after" /\ UNCHANGED status
        \/ /\ "write" \in link.mayFail
           /\ End("io")
           /\ out' \in {out, out \cup MapFirst}
           /\ UNCHANGED errors
  /\ UNCHANGED <<link, live, fold, ran, failed, scan, eh, synth, relr, hook, cancel, icfVars>>

(* The map; for -r, the cross reference. *)
WriteMap ==
  /\ stage = "after" /\ ~SeparateDebug
  /\ \/ out' = out \cup {"map"} /\ stage' = "finish" /\ UNCHANGED status
     \/ "rest" \in link.mayFail /\ End("io") /\ UNCHANGED out
  /\ UNCHANGED <<link, live, fold, flags, ran, failed, scan, eh, synth, relr, errors, hook, cancel,
                 icfVars>>

(* --separate-debug-file: finish_output patches the output that is in      *)
(* place, then the debug file is written -- its relocations are reported   *)
(* only now, unless Compress rendered them -- and finish_debug_file        *)
(* patches it.                                                             *)
WriteDebugFile ==
  LET problems == Unappliable("debug") /\ ~Opt.compress IN
  /\ stage = "after" /\ SeparateDebug
  /\ \/ /\ flags' = Reclassify(flags)
        /\ errors' = errors + (IF problems THEN 1 ELSE 0)
        /\ IF problems /\ Inhibited(errors')
             THEN End("reported") /\ UNCHANGED out
             ELSE out' = out \cup {"debug"} /\ stage' = "finish" /\ UNCHANGED status
     \/ /\ "rest" \in link.mayFail /\ End("io")
        /\ out' \in {out, out \cup {"debug"}}
        /\ UNCHANGED <<flags, errors>>
  /\ UNCHANGED <<link, live, fold, ran, failed, scan, eh, synth, relr, hook, cancel, icfVars>>

\* Slip: the hook is called as soon as the output is in place.
FinishEarly ==
  /\ stage \in {"after", "finish"}
  /\ hook' = hook + 1 /\ End("ok")
  /\ UNCHANGED <<link, live, fold, flags, ran, failed, scan, eh, synth, relr, errors, out, cancel,
                 icfVars>>

(* lto.finish, where plugins may report errors as they clean up, then the  *)
(* completion hook.                                                        *)
FinishLink ==
  /\ stage = "finish"
  /\ \/ "lto" \in link.mayFail /\ errors' = errors + 1 /\ End("lto") /\ UNCHANGED hook
     \/ hook' = hook + 1 /\ End("ok") /\ UNCHANGED errors
  /\ UNCHANGED <<link, live, fold, flags, ran, failed, scan, eh, synth, relr, out, cancel, icfVars>>

-----------------------------------------------------------------------------
LinkStep ==
  \/ NumberSections \/ LinkRelocatable \/ CopySections \/ Place \/ CollectGarbage
  \/ \E task \in {"split", "merge", "index"} : RunPass(task)
  \/ \E f \in Files : ScanFile(f)
  \/ Join \/ StartFolding \/ FoldRound \/ ApplyFolding \/ UseIndexes
  \/ Plan \/ FinalizeFrames \/ PlanDynamic \/ Layout \/ RelrAttempt
  \/ Compress \/ WriteOutput \/ WriteMap \/ WriteDebugFile \/ FinishLink

Next == LinkStep \/ Cancel

(* Every stage is a call that returns, and the pool runs every task of a   *)
(* parallel stage; nothing makes the caller cancel.                        *)
Fairness ==
  /\ WF_vars(NumberSections) /\ WF_vars(LinkRelocatable) /\ WF_vars(CopySections)
  /\ WF_vars(Place) /\ WF_vars(CollectGarbage)
  /\ WF_vars(\E task \in {"split", "merge", "index"} : RunPass(task))
  /\ WF_vars(\E f \in Files : ScanFile(f))
  /\ WF_vars(Join) /\ WF_vars(StartFolding) /\ WF_vars(FoldRound)
  /\ WF_vars(ApplyFolding) /\ WF_vars(UseIndexes) /\ WF_vars(Plan)
  /\ WF_vars(FinalizeFrames) /\ WF_vars(PlanDynamic) /\ WF_vars(Layout)
  /\ WF_vars(RelrAttempt) /\ WF_vars(Compress) /\ WF_vars(WriteOutput)
  /\ WF_vars(WriteMap) /\ WF_vars(WriteDebugFile) /\ WF_vars(FinishLink)

Spec == Init /\ [][Next]_vars /\ Fairness

-----------------------------------------------------------------------------
(***************************************************************************)
(* Properties                                                              *)
(***************************************************************************)
Planned == {"layout", "relr", "compress", "write", "after", "finish"}

(* The section that stands for s in the output. *)
Kept(s) == fold[s] \in live

(* Sections that only --gc-sections or --icf could take out of the link.   *)
Candidate(s) == link.sec[s].kind # "none" /\ link.sec[s].owned /\ ~link.sec[s].discarded

(* Once sections are collected and folded, whatever a section of the       *)
(* output refers to -- and every exported or named symbol -- is in the     *)
(* output, folded or not: gc.rs's edges and roots miss nothing that        *)
(* decide and the writer will look up (values.rs section_address gives a   *)
(* dropped section address 0 without a word).                              *)
NoDanglingReference ==
  stage \in {"copy", "plan"} \cup Planned =>
    \A t \in Sections : Candidate(t) /\ ~Kept(t) =>
      /\ \A s \in live : Alloc(s) => t \notin SectionTargets(s)
      /\ \A x \in Symbols : t \in TargetSection(x) =>
           "EXPORTED" \notin flags[x] /\ ~link.sym[x].refDynamic /\ x \notin InternalNames

(* --gc-sections keeps or drops the sections of a group together, however  *)
(* few of them are reached (collect's ring of edges).                      *)
GroupsKeptWhole ==
  stage \in {"copy", "plan"} \cup Planned =>
    \A a, b \in Sections :
      link.sec[a].group = link.sec[b].group /\ link.sec[a].group # 0
        /\ Candidate(a) /\ Candidate(b) => (Kept(a) <=> Kept(b))

(* The sections of the output are closed under everything that refers to   *)
(* them, and none of them is also folded away.                             *)
KeptClosed ==
  NoDanglingReference /\ GroupsKeptWhole /\ \A s \in live : fold[s] = s

(* Every unwind record of the output describes a function of the output,   *)
(* names only sections of the output (its LSDA, its CIE's personality      *)
(* routine), and finds a kept CIE with its own CIE's bytes, although equal *)
(* CIEs are merged across files after garbage collection and folding.      *)
UnwindConsistent ==
  stage \in Planned /\ Opt.kind # "relocatable" =>
    \A x \in Fdes(link.frames) : eh[x].live =>
      LET cie == CieOf(link.frames, eh, x) IN
      /\ Rec(link.frames, x).pc \in live
      /\ eh[cie].live /\ Rec(link.frames, cie).key = Rec(link.frames, CiePosition(link.frames, x)).key
      /\ \A t \in Rec(link.frames, x).needs \cup Rec(link.frames, cie).needs :
           Candidate(t) => Kept(t)

(* "Folded sections leave the output; references to them, their symbols    *)
(* and their .eh_frame FDEs go to the kept section" (elf/icf.rs): a     *)
(* function that is folded is still unwound the way its FDE says, by an    *)
(* FDE of the kept section with the same tables.                           *)
UnwindFollowsFolds ==
  stage \in Planned /\ Opt.kind # "relocatable" =>
    \A x \in Fdes(link.frames) :
      LET r == Rec(link.frames, x) IN
      r.pc \notin live /\ fold[r.pc] # r.pc =>
        \E y \in Fdes(link.frames) :
          eh[y].live /\ Rec(link.frames, y).pc = fold[r.pc] /\ Rec(link.frames, y).needs = r.needs

(* The scan is a parallel pass over the files that merges what it finds    *)
(* into shared flag words; in whatever order the files run, a GOT entry is *)
(* planned exactly for the targets some section in the link at that time   *)
(* needs one for.                                                          *)
EntriesExact ==
  stage = "layout" =>
    \A slot \in GotSlots :
      synth.lists[slot] =
        {x.sym : x \in {y \in Fine(Decided({s \in Sections :
                                             Alloc(s) /\ (s \in live \/ fold[s] # s)}, flags)) :
                           y.d.slot = slot}}

(* The writer makes as many dynamic relocations as were planned, and finds *)
(* every GOT entry it reads: reloc.rs promises that scan and writer        *)
(* "always agree", though symbol flags and live sections change between    *)
(* them.                                                                   *)
PlanMatchesWrite ==
  stage = "write" =>
    LET fl == Reclassify(flags) IN
    /\ LinkMode.dynamic => MadeRelaDyn(fl) = RelaDynCount
    /\ MissingSlots(fl) = {}

(* What the scan planned is what the writer needs. True of links in which  *)
(* no --defsym changes its class between the two (run link has none that   *)
(* names another --defsym); MCElfLinkAgree has the links where it is not.  *)
ScanSound == EntriesExact /\ PlanMatchesWrite

(* An error reported before the output is put in place keeps it from being *)
(* put there (unless --noinhibit-exec asks for it), whichever stage it is; *)
(* what is reported later -- relocations of a debug file of its own, and   *)
(* plugins that clean up -- ends the link with an error, and the debug     *)
(* file that has the problem is not put in place.                          *)
ErrorsStopOutput ==
  errors > 0 /\ ~Opt.noinhibit =>
    /\ status # "ok" /\ hook = 0
    /\ "main" \in out =>
         \/ status = "lto"
         \/ /\ status = "reported" /\ SeparateDebug /\ "debug" \notin out
            /\ Unappliable("debug") /\ ~Opt.compress

(* The completion hook (what --fork's parent waits for) runs once, and     *)
(* only in a link that succeeds: every output is in place and nothing can  *)
(* fail any more.                                                          *)
HookMeansComplete ==
  /\ status = "ok" <=> hook = 1
  /\ hook > 0 => /\ hook = 1
                 /\ {"main", "map"} \cup (IF SeparateDebug THEN {"debug"} ELSE {}) \subseteq out

(* Outputs appear only where nothing was reported before, and are all      *)
(* there when the caller is told.                                          *)
OutputsSound == ErrorsStopOutput /\ HookMeansComplete

(* The link ends, though the size of .relr.dyn depends on the addresses it *)
(* encodes and these on its size, which may go up and down for ever, and   *)
(* though folding refines its classes until they settle.                   *)
Terminates == <>(status # "running")
=============================================================================
