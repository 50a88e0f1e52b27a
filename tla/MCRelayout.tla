----------------------------- MODULE MCRelayout -----------------------------
(***************************************************************************)
(* Inputs for ScriptLayout: images of every mix of output sections, text  *)
(* with branches at the edge of their reach, code to be relaxed, and      *)
(* linker scripts.                                                        *)
(***************************************************************************)
EXTENDS ScriptLayout

Key(id, size, align) == [id |-> id, sub |-> 1, priority |-> 0, size |-> size, align |-> align,
                         name |-> id, file |-> 1]

Out == [alloc |-> TRUE, write |-> FALSE, exec |-> FALSE, tls |-> FALSE, nobits |-> FALSE,
        note |-> FALSE, relro |-> FALSE, debug |-> FALSE, special |-> "None",
        synth |-> "None", keys |-> {}]

NoSynths == [kind \in {"Interp", "GnuProperty", "EhFrameHdr", "Dynamic", "Got", "GotPlt",
                       "DynBss", "Common", "Comment"} |-> [size |-> 0, align |-> 1]]

In == [arch |-> "X86_64", outs |-> <<>>, separate |-> TRUE, relro |-> TRUE, emit |-> FALSE,
       gnuStack |-> TRUE, base |-> 2 * Page, symtab |-> 0, property |-> FALSE,
       ehHdr |-> FALSE, branches |-> {}, relocs |-> <<>>, relaxGp |-> FALSE, sdata |-> NONE,
       bindNow |-> FALSE, synths |-> NoSynths, script |-> <<>>, firstFile |-> 20,
       pgste |-> FALSE, compressed |-> <<>>, indexes |-> 0, debuglink |-> 0]

\* An input section of the given size, or none for -1.
Sized(id, size, align) == IF size < 0 THEN {} ELSE {Key(id, size, align)}

(* Images: which sections there are, and how large.                        *)
ImageOuts(c) ==
  <<[Out EXCEPT !.synth = "Interp"],
    [Out EXCEPT !.note = TRUE, !.keys = Sized(1, c.note, 4)],
    [Out EXCEPT !.note = TRUE, !.synth = "GnuProperty"],
    [Out EXCEPT !.keys = Sized(2, c.rodata, 4)],
    [Out EXCEPT !.synth = "EhFrameHdr"],
    [Out EXCEPT !.exec = TRUE, !.keys = {Key(3, 3, 2)} \cup Sized(4, c.text, 4)],
    [Out EXCEPT !.write = TRUE, !.tls = TRUE, !.relro = TRUE, !.keys = Sized(5, c.tdata, 4)],
    [Out EXCEPT !.write = TRUE, !.tls = TRUE, !.relro = TRUE, !.nobits = TRUE,
                !.keys = Sized(6, c.tbss, 8)],
    [Out EXCEPT !.write = TRUE, !.relro = TRUE, !.keys = Sized(7, c.relro, 8)],
    [Out EXCEPT !.write = TRUE, !.relro = TRUE, !.synth = "Dynamic"],
    [Out EXCEPT !.write = TRUE, !.relro = TRUE, !.synth = "Got"],
    [Out EXCEPT !.write = TRUE, !.synth = "GotPlt"],
    [Out EXCEPT !.write = TRUE, !.keys = Sized(8, c.data, 4)],
    [Out EXCEPT !.write = TRUE, !.nobits = TRUE, !.synth = "DynBss", !.keys = Sized(9, c.bss, 8)],
    [Out EXCEPT !.write = TRUE, !.exec = TRUE, !.keys = Sized(10, c.wx, 4)],
    [Out EXCEPT !.alloc = FALSE, !.synth = "Comment", !.keys = Sized(11, 2, 1)]>>

ImageSynths(c) ==
  [kind \in DOMAIN NoSynths |->
     CASE kind = "Interp" /\ c.dynamic -> [size |-> 3, align |-> 1]
       [] kind \in {"Dynamic", "GotPlt"} /\ c.dynamic -> [size |-> 6, align |-> 4]
       [] kind \in {"GnuProperty", "EhFrameHdr"} /\ c.property -> [size |-> 8, align |-> 8]
       [] kind = "Got" /\ c.tdata > 0 -> [size |-> 4, align |-> 4]
       [] kind \in {"DynBss", "Common"} /\ c.bss > 0 -> [size |-> 2, align |-> 2]
       [] kind = "Comment" -> [size |-> 3, align |-> 1]
       [] OTHER -> NoSynths[kind]]

ImageChoices ==
  [dynamic : BOOLEAN, note : {-1, 4}, property : BOOLEAN, rodata : {0, 5}, text : {-1, 13},
   tdata : {-1, 3}, tbss : {-1, 4}, relro : {-1, 5, 17}, data : {-1, 0, 6}, bss : {-1, 5},
   wx : {-1, 4}]

Images ==
  {[In EXCEPT !.outs = ImageOuts(c), !.property = c.property, !.ehHdr = c.property,
              !.synths = ImageSynths(c), !.bindNow = opt[1],
              !.separate = opt[1], !.relro = opt[2], !.emit = opt[3],
              !.symtab = IF opt[3] THEN 5 ELSE 0] :
     c \in {d \in ImageChoices : /\ d.property = (d.note = 4)
                                 /\ (d.rodata = 0) => (d.text = 13)
                                 /\ d.wx = 4 => (d.bss = 5 /\ d.data = 6 /\ d.tbss = 4)
                                 /\ d.bss = -1 => d.data # 0},
     opt \in {<<TRUE, TRUE, FALSE>>, <<FALSE, TRUE, TRUE>>, <<TRUE, FALSE, FALSE>>}}

(* The headers of one target, and a base that is on no page boundary.      *)
SpecialImages ==
  {[in EXCEPT !.arch = arch, !.pgste = TRUE, !.base = base,
              !.outs = @ \o <<[Out EXCEPT !.special = "Exidx", !.keys = {Key(12, 4, 4)}],
                              [Out EXCEPT !.alloc = FALSE, !.special = "Attributes",
                                          !.keys = {Key(13, 5, 1)}]>>] :
     in \in {i \in Images : /\ i.relro /\ i.outs[3] # i.outs[4] /\ i.property
                            /\ \A o \in {4, 6, 7, 8, 13} : i.outs[o].keys # {}
                            /\ i.outs[15].keys = {}},
     arch \in {"RiscV64", "Arm", "S390x"}, base \in {0, 2 * Page + 4}}

(* Debug sections, for outputs that are laid out twice.                    *)
WithDebug(ins) ==
  {[in EXCEPT !.outs = @ \o <<[Out EXCEPT !.alloc = FALSE, !.debug = TRUE,
                                          !.keys = {Key(30, 9, 1), Key(31, 4, 2)}]>>,
              !.indexes = 5, !.symtab = 5] : in \in ins}

(* Text whose branches are near the end of their reach.                    *)
Branch(from, to) == [id |-> from, offset |-> 0, target |-> to, value |-> 0]

BranchSets == {{Branch(1, 5)}, {Branch(5, 1)}, {Branch(1, 5), Branch(2, 5)},
               {Branch(1, 5), Branch(5, 1)}, {Branch(4, 1), Branch(1, 4), Branch(5, 2)},
               {Branch(1, 7), Branch(5, 7), Branch(7, 1)}}

BranchInputs(arch) ==
  {[In EXCEPT !.arch = arch, !.branches = b,
              !.outs = <<[Out EXCEPT !.exec = TRUE,
                            !.keys = {Key(i, size[i], align[i]) : i \in 1 .. 5}],
                         [Out EXCEPT !.exec = TRUE, !.keys = {Key(6, 40, 4)}],
                         [Out EXCEPT !.exec = TRUE, !.keys = {Key(7, 4, 4)}]>>] :
     size \in [1 .. 5 -> {4, 12}], b \in BranchSets,
     align \in {f \in [1 .. 5 -> {4, 8}] : f[1] = f[2] /\ f[3] = f[4]}}

\* Branches in text that asks for no more than the alignment of thunks.
NearInputs ==
  {in \in BranchInputs("AArch64") : \A k \in in.outs[1].keys : k.align = 4}

(* Code with calls, alignment and accesses.                                *)
Rel(type, offset, addend, target, value) ==
  [type |-> type, offset |-> offset, addend |-> addend, target |-> target, value |-> value,
   short |-> TRUE, relaxable |-> TRUE]

CallInputs ==
  {[In EXCEPT !.arch = "RiscV64",
              !.outs = <<[Out EXCEPT !.exec = TRUE,
                            !.keys = {Key(1, 24, 8), Key(2, c.gap, c.align), Key(3, 24, 4)}]>>,
              !.relocs = (1 :> <<Rel("Call", 0, 0, 3, c.to),
                                 Rel("Align", 8, c.pad, 1, 0),
                                 Rel("Call", 8 + c.pad, 0, 2, 0)>>)
                         @@ (3 :> <<[Rel("Call", 0, 0, 1, 8 + c.pad) EXCEPT !.short = c.short],
                                    Rel("Call", 8, 0, 3, c.to)>>)] :
     c \in [gap : {4, 12, 20}, align : {4, 8, 16}, to : {0, 16, 22}, pad : {2, 6}, short : BOOLEAN]}

\* Two calls over one boundary, each in reach only while the other is long.
SwingInputs ==
  {[In EXCEPT !.arch = "RiscV64",
              !.outs = <<[Out EXCEPT !.exec = TRUE,
                                     !.keys = {Key(1, c.size, 16), Key(2, 24, c.align)}]>>,
              !.relocs = (1 :> <<[Rel("Call", 0, 0, 2, c.to) EXCEPT !.short = FALSE]>>)
                         @@ (2 :> <<Rel("Call", 8, 0, 1, 8)>>)] :
     c \in [size : {12, 14, 16}, align : {4, 16}, to : {16, 18, 20, 22}]}

AccessInputs ==
  {[In EXCEPT !.arch = "RiscV64", !.relaxGp = c.gp, !.sdata = 3,
              !.outs = <<[Out EXCEPT !.exec = TRUE, !.keys = {Key(1, 28, 4)}],
                         [Out EXCEPT !.write = TRUE, !.tls = TRUE, !.keys = {Key(2, c.tls, 4)}],
                         [Out EXCEPT !.write = TRUE, !.keys = Sized(3, c.sdata, 8)],
                         [Out EXCEPT !.write = TRUE, !.keys = {Key(4, 8, c.align)}]>>,
              !.relocs = 1 :> <<Rel("TprelHi", 0, 0, 2, c.tls), Rel("TprelLo", 4, 0, 2, c.tls),
                                Rel("Hi20", 8, 0, c.to, 0), Rel("Lo12", 12, 0, c.to, 0),
                                Rel("Call", 16, 0, 1, 0), Rel("Align", 24, c.pad, 1, 0)>>] :
     c \in [gp : BOOLEAN, tls : {4, 20}, align : {4, 16, 32}, sdata : {-1, 4, 12, 20, 28},
            to : {NONE, 4}, pad : {2, 4}]}

(* Linker scripts.                                                         *)
Name(op, name) == [op |-> op, args |-> <<>>, name |-> name, num |-> 0]
Fn(op, args) == [op |-> op, args |-> args, name |-> "", num |-> 0]
Sym(name) == Name("sym", name)
Plus(a, b) == Fn("+", <<a, b>>)

ItemOf(t) == [t |-> t, sub |-> 0, target |-> "", op |-> "", expr |-> Num(0), provide |-> FALSE,
              size |-> 0]
Input(sub) == [ItemOf("input") EXCEPT !.sub = sub]
Set(target, expr) == [ItemOf("assign") EXCEPT !.target = target, !.expr = expr]
Provide(target, expr) == [Set(target, expr) EXCEPT !.provide = TRUE]
Data(size, expr) == [ItemOf("data") EXCEPT !.size = size, !.expr = expr]

\* A statement of a script: an item, or an output.
StmtOf(item) == [t |-> item.t, out |-> 0, target |-> item.target, op |-> item.op,
                 expr |-> item.expr, provide |-> item.provide]
Outputs(s) == [StmtOf(ItemOf("output")) EXCEPT !.out = s]
Check(expr) == StmtOf([ItemOf("assert") EXCEPT !.expr = expr])
Let(target, expr) == StmtOf(Set(target, expr))

OutOf(name) ==
  [name |-> name, enabled |-> TRUE, address |-> <<>>, at |-> <<>>, align |-> <<>>,
   subalign |-> <<>>, updateDot |-> <<>>, region |-> "", loadRegion |-> "",
   alignWithInput |-> FALSE, overlay |-> "none", type |-> "", phdrs |-> <<>>,
   items |-> <<Input(1)>>, sort |-> <<>>, synthSub |-> 1]

ScriptBase ==
  [saneExpr |-> FALSE, regions |-> <<>>, aliases |-> <<>>, hasPhdrs |-> FALSE, phdrs |-> <<>>,
   stmts |-> <<>>, outs |-> <<>>, defs |-> <<>>, symbols |-> {}, needed |-> {},
   segmentStarts |-> <<>>, starts |-> <<>>, commonPage |-> 8, magic |-> "normal"]

MaxPage == Fn("maxpage", <<>>)

\* The shape of GNU ld's own script: the headers first, the data segment with
\* its RELRO sections (and, with a gap, room the script leaves between them),
\* `end`.
GnuScript(gap) ==
  [ScriptBase EXCEPT
     !.outs = <<OutOf(".interp"), OutOf(".note"), OutOf(".property"), OutOf(".rodata"),
                OutOf(".eh_frame_hdr"), OutOf(".text"), OutOf(".tdata"), OutOf(".tbss"),
                OutOf(".relro"), OutOf(".dynamic"), OutOf(".got"), OutOf(".got.plt"),
                [OutOf(".data") EXCEPT !.items = <<Input(1), Provide("edata", Dot)>>],
                [OutOf(".bss") EXCEPT !.items = <<Input(1), Set(".", Fn("align", <<Fn("?",
                   <<Fn("!=", <<Dot, Num(0)>>), Num(4), Num(1)>>)>>))>>],
                OutOf(".wx"), [OutOf(".comment") EXCEPT !.address = <<Num(0)>>]>>,
     !.stmts = <<Let(".", Plus([Fn("segmentStart", <<Num(2 * Page)>>) EXCEPT !.name = "text"],
                               Fn("headers", <<>>)))>>
               \o [i \in 1 .. 5 |-> Outputs(i)]
               \o <<Let(".", Fn("align", <<MaxPage>>)), Outputs(6), StmtOf(Provide("etext", Dot)),
                    Let(".", Fn("dataAlign", <<MaxPage, Fn("commonpage", <<>>)>>))>>
               \o [i \in 1 .. 3 |-> Outputs(i + 6)]
               \o (IF gap = 0 THEN <<>> ELSE <<Let(".", Plus(Dot, Num(gap)))>>)
               \o <<Outputs(10), Outputs(11)>>
               \o <<Let(".", Fn("relroEnd", <<Fn("?", <<Fn(">=", <<Name("sizeof", ".got.plt"), Num(4)>>),
                                                     Num(4), Num(0)>>), Dot>>))>>
               \o [i \in 1 .. 4 |-> Outputs(i + 11)]
               \o <<Let("end", Dot), Let(".", Fn("dataEnd", <<Dot>>)), Outputs(16)>>,
     !.symbols = {"edata", "etext", "end"}, !.needed = {"etext"}]

GnuInputs ==
  {[In EXCEPT !.script = <<GnuScript(IF c.text = -1 THEN 12 ELSE 0)>>, !.outs = ImageOuts(c),
              !.property = c.property, !.ehHdr = c.property,
              !.synths = ImageSynths(c), !.separate = opt[1], !.relro = opt[2]] :
     c \in {d \in ImageChoices : /\ d.property = (d.note = 4) /\ d.rodata = 5
                                 /\ d.property => d.dynamic
                                 /\ d.text = -1 => d.dynamic /\ d.wx = -1 /\ d.tbss = -1
                                 /\ d.wx = 4 => (d.bss = 5 /\ d.data = 6 /\ d.relro = 17)
                                 /\ d.data = 0 => d.bss = 5 /\ d.tdata = -1
                                 /\ d.tbss = 4 => d.tdata = 3 \/ d.note = 4},
     opt \in {<<TRUE, TRUE>>, <<FALSE, FALSE>>}}

\* Flash and RAM: data lives in one and is loaded from the other, a table at
\* the start reads what comes later (the last of it handed on from pass to
\* pass), unnamed sections go by their attributes.
Region(name, origin, length, flags, not) ==
  [name |-> name, origin |-> origin, length |-> length, flags |-> flags, not |-> not]

FlashScript(flash, ram) ==
  [ScriptBase EXCEPT
     !.saneExpr = TRUE,
     !.regions = <<Region("FLASH", Num(40), Num(flash), {"READONLY", "CODE"}, {}),
                   Region("RAM", Plus(Name("origin", "FLASH"), Num(200)), Num(ram), {"DATA", "ALLOC"},
                          {"READONLY"})>>,
     !.aliases = [n \in {"REGION_DATA"} |-> "RAM"],
     !.outs = <<[OutOf(".table") EXCEPT
                   !.region = "FLASH",
                   !.items = <<Data(4, Sym("data_size")), Data(2, Name("loadaddr", ".data")),
                               Data(2, Sym("end")), Data(1, Sym("hop1")), Input(1)>>],
                [OutOf(".text") EXCEPT !.region = "FLASH", !.sort = <<[mode |-> "Alignment",
                   reverse |-> FALSE, files |-> FALSE]>>],
                OutOf(".rodata"),
                [OutOf(".data") EXCEPT
                   !.region = "REGION_DATA", !.loadRegion = "FLASH", !.align = <<Num(8)>>,
                   !.items = <<Set("data_start", Dot), Input(1), Set(".", Fn("align", <<Num(4)>>)),
                               Set("data_end", Dot)>>],
                [OutOf(".more") EXCEPT !.region = "REGION_DATA", !.subalign = <<Num(2)>>],
                [OutOf(".bss") EXCEPT
                   !.region = "RAM", !.type = "NOLOAD",
                   !.items = <<Input(1), [Set(".", Num(4)) EXCEPT !.op = "+"], Set("end", Dot)>>],
                OutOf(".note")>>,
     !.stmts = [i \in 1 .. 4 |-> Outputs(i)]
               \o <<Let("data_size", Fn("-", <<Sym("data_end"), Sym("data_start")>>)),
                    Outputs(5), Outputs(6), Outputs(7),
                    Check(Fn("<=", <<Sym("end"), Plus(Name("origin", "RAM"), Name("length", "RAM"))>>)),
                    Check(Fn("||", <<Fn("==", <<Sym("room"), Num(0)>>),
                                     Fn("&&", <<Fn("!", <<Fn("<", <<Sym("room"), Num(1)>>)>>),
                                                Fn(">", <<Fn("neg", <<Num(1)>>), Sym("room")>>)>>)>>)),
                    Let("room", Fn("min", <<Fn("|", <<Fn("/", <<Fn("*", <<Name("length", "RAM"), Num(3)>>),
                                                                Num(2)>>), Num(1)>>),
                                            Fn("&", <<Fn("absolute", <<Sym("end")>>),
                                                      Fn("~", <<Num(7)>>)>>)>>)),
                    Let("hop1", Sym("hop2")), Let("hop2", Sym("hop3")), Let("hop3", Sym("hop4")),
                    Let("hop4", Sym("hop5")), Let("hop5", Sym("hop6")), Let("hop6", Sym("data_size"))>>,
     !.symbols = {"data_start", "data_end", "data_size", "end", "room",
                  "hop1", "hop2", "hop3", "hop4", "hop5", "hop6"}]

FlashInputs ==
  {[In EXCEPT !.script = <<s>>, !.separate = FALSE, !.relro = FALSE,
              !.outs = <<Out, [Out EXCEPT !.exec = TRUE, !.keys = {Key(1, c.text, 4), Key(2, 3, 8)}],
                         [Out EXCEPT !.keys = Sized(3, c.rodata, 2)],
                         [Out EXCEPT !.write = TRUE, !.keys = Sized(4, c.data, 4)],
                         [Out EXCEPT !.write = TRUE, !.keys = Sized(5, c.more, 4) \cup Sized(6, c.more, 4)],
                         [Out EXCEPT !.write = TRUE, !.nobits = TRUE, !.keys = Sized(7, c.bss, 4)],
                         [Out EXCEPT !.alloc = FALSE, !.keys = {Key(8, 3, 1)}]>>] :
     s \in {FlashScript(64, 48), FlashScript(40, 24)},
     c \in [text : {2, 14}, rodata : {-1, 5}, data : {-1, 3, 9}, more : {-1, 3},
                          bss : {-1, 10}]}

\* Addresses that depend on what follows, a section moved by an option, an
\* overlay, and symbols only some passes know.
ForwardScript(grows) ==
  [ScriptBase EXCEPT
     !.outs = <<[OutOf(".a") EXCEPT
                   !.items = <<Input(1), Set(".", Plus(Dot, Sym("pad"))),
                               Data(2, Fn("?", <<Name("defined", "late"), Sym("late"), Num(1)>>))>>],
                [OutOf(".b") EXCEPT !.address = <<Fn("alignExpr", <<Plus(Name("addr", ".c"),
                                                        Name("sizeof", ".c")), Num(8)>>)>>],
                [OutOf(".c") EXCEPT !.address = <<Fn("max", <<Plus(Dot, Num(8)), Num(160)>>)>>,
                                    !.at = <<Plus(Name("loadaddr", ".a"), Num(64))>>],
                [OutOf(".o1") EXCEPT !.address = <<Num(256)>>, !.overlay = "first"],
                [OutOf(".o2") EXCEPT !.address = <<Num(256)>>, !.overlay = "rest",
                                     !.updateDot = <<Num(288)>>],
                OutOf(".d")>>,
     !.stmts = <<Let(".", Plus(Sym("late"), Num(32))), Outputs(1), Outputs(3), Outputs(2),
                 Let(".", Fn("next", <<Num(16)>>)), Outputs(4), Outputs(5), Outputs(6),
                 Let("pad", IF grows THEN Plus(Name("sizeof", ".a"), Num(2))
                            ELSE Fn("%", <<Fn("^", <<Fn(">>", <<Fn("<<", <<Name("sizeof", ".c"),
                                                                           Num(2)>>), Num(1)>>),
                                                     Fn("log2ceil", <<Name("sizeof", ".a")>>)>>),
                                           Num(4)>>)),
                 Let("late", Plus(Sym("pad"), Name("alignof", ".d")))>>,
     !.symbols = {"pad", "late"},
     !.starts = <<[name |-> ".d", address |-> 320]>>]

ForwardInputs ==
  {[In EXCEPT !.script = <<s>>, !.outs = <<[Out EXCEPT !.exec = TRUE, !.keys = Sized(1, c.a, 4)],
                         [Out EXCEPT !.keys = Sized(2, c.b, 8)],
                         [Out EXCEPT !.write = TRUE, !.keys = Sized(3, c.c, c.align)],
                         [Out EXCEPT !.write = TRUE, !.keys = Sized(4, c.o, 4)],
                         [Out EXCEPT !.write = TRUE, !.keys = Sized(5, 6, 4)],
                         [Out EXCEPT !.write = TRUE, !.keys = Sized(6, c.b, c.align)]>>] :
     s \in {ForwardScript(FALSE), ForwardScript(TRUE)},
     c \in [a : {0, 7}, b : {-1, 5}, c : {2, 7}, o : {-1, 4, 10}, align : {2, 8}]}

\* PHDRS of the script, with room for the headers or without; magic numbers.
PhdrScript(room, magic) ==
  [ScriptBase EXCEPT
     !.hasPhdrs = TRUE, !.magic = magic,
     !.phdrs = <<[name |-> "headers", type |-> "PHDR", filehdr |-> FALSE, phdrs |-> TRUE,
                  at |-> <<>>, flags |-> <<>>],
                 [name |-> "text", type |-> "LOAD", filehdr |-> TRUE, phdrs |-> TRUE,
                  at |-> <<>>, flags |-> <<{"R", "X"}>>],
                 [name |-> "data", type |-> "LOAD", filehdr |-> FALSE, phdrs |-> FALSE,
                  at |-> <<>>, flags |-> <<>>],
                 [name |-> "tls", type |-> "TLS", filehdr |-> FALSE, phdrs |-> FALSE,
                  at |-> <<>>, flags |-> <<>>]>>,
     !.outs = <<OutOf(".rodata"), [OutOf(".text") EXCEPT !.phdrs = <<"text">>],
                [OutOf(".tdata") EXCEPT !.phdrs = <<"data", "tls">>],
                [OutOf(".tbss") EXCEPT !.phdrs = <<"data", "tls">>],
                [OutOf(".data") EXCEPT !.phdrs = <<"data">>], OutOf(".bss"),
                [OutOf(".info") EXCEPT !.type = "INFO", !.address = <<Num(0)>>]>>,
     !.stmts = <<Let(".", IF room THEN Plus(Num(32), Fn("headers", <<>>)) ELSE Num(8)),
                 Outputs(1), Outputs(2), Let(".", Fn("align", <<MaxPage>>)),
                 Outputs(3), Outputs(4), Outputs(5), Outputs(6), Outputs(7)>>]

PhdrInputs ==
  {[In EXCEPT !.script = <<s>>,
              !.outs = <<[Out EXCEPT !.keys = Sized(1, c.rodata, 4)],
                         [Out EXCEPT !.exec = TRUE, !.keys = Sized(2, 6, 4)],
                         [Out EXCEPT !.write = TRUE, !.tls = TRUE, !.keys = Sized(3, c.tdata, 4)],
                         [Out EXCEPT !.write = TRUE, !.tls = TRUE, !.nobits = TRUE,
                                     !.keys = Sized(4, c.tdata, 8)],
                         [Out EXCEPT !.write = TRUE, !.keys = Sized(5, c.data, 2)],
                         [Out EXCEPT !.write = TRUE, !.nobits = TRUE, !.keys = Sized(6, c.bss, 4)],
                         [Out EXCEPT !.keys = Sized(7, 3, 1)]>>] :
     s \in {PhdrScript(TRUE, "normal"), PhdrScript(FALSE, "normal"), PhdrScript(TRUE, "omagic")},
     c \in [rodata : {-1, 5}, tdata : {-1, 3}, data : {-1, 5}, bss : {-1, 9}]}

\* Text under a script: thunk pools and shortened code move what its
\* expressions read.
TextScript ==
  [ScriptBase EXCEPT
     !.outs = <<[OutOf(".text") EXCEPT !.items = <<Input(1), Set("etext", Dot), Data(2, Sym("size"))>>],
                [OutOf(".far") EXCEPT !.align = <<Num(8)>>], OutOf(".last")>>,
     !.stmts = <<Let(".", Fn("align", <<Sym("gap")>>)), Let(".", Plus(Dot, Num(32))),
                 Outputs(1), Outputs(2), Outputs(3),
                 Let("size", Fn("-", <<Sym("etext"), Name("addr", ".text")>>)),
                 Let("gap", Fn("+", <<Fn("&", <<Sym("size"), Num(8)>>), Num(8)>>))>>,
     !.symbols = {"etext", "size", "gap"}]

WithScript(ins, s, outs) ==
  {[in EXCEPT !.script = <<s>>, !.outs = @ \o [i \in 1 .. outs - Len(@) |-> Out]] : in \in ins}

TextInputs ==
  LET key(in, id) == CHOOSE k \in in.outs[1].keys : k.id = id
  IN WithScript({in \in BranchInputs("AArch64") :
                   /\ key(in, 1).size = key(in, 2).size /\ key(in, 1).size = key(in, 3).size
                   /\ key(in, 1).align = 8 /\ key(in, 3).align = 4 /\ key(in, 5).align = 8}, TextScript, 3)
       \cup WithScript({in \in CallInputs : /\ \A r \in {1, 2} : in.relocs[3][r].short
                                            /\ in.relocs[1][1].value = 16}, TextScript, 3)

\* A script that places debug sections at address 0, with text that thunks or
\* shortened calls move.
DebugScript ==
  [TextScript EXCEPT !.outs = @ \o <<[OutOf(".debug_info") EXCEPT !.address = <<Num(0)>>]>>,
                     !.stmts = @ \o <<Outputs(4)>>]

DebugInputs ==
  WithDebug({in \in SpecialImages : in.base = 0})
    \cup WithDebug(NearInputs)
    \cup WithDebug({in \in CallInputs : in.relocs[1][1].value = 16})
    \cup WithScript(WithDebug({[in EXCEPT !.outs = @ \o [i \in 1 .. 3 - Len(@) |-> Out]] :
                                 in \in {t \in TextInputs : t.branches # {} \/ t.relaxGp}}),
                    DebugScript, 4)

\* Text of the big-endian PowerPC64, whose branches need thunks too.
PowerInputs == BranchInputs("Ppc64Be")

AllInputs == Images \cup SpecialImages \cup DebugInputs \cup BranchInputs("AArch64") \cup CallInputs
             \cup SwingInputs \cup AccessInputs
             \cup GnuInputs \cup FlashInputs \cup ForwardInputs \cup PhdrInputs \cup TextInputs
=============================================================================
