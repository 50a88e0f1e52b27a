----------------------------- MODULE MCElfLink -----------------------------
(***************************************************************************)
(* Small links for ElfLink.  Five sections of two files: the code of start *)
(* (1), two functions with equal bytes (2 and 3), a read-only table (4)    *)
(* and data (5).                                                           *)
(***************************************************************************)
EXTENDS ElfLink

MCSections == 1 .. 5
MCSymbols == {"start", "f", "g", "table", "v", "s", "o", "w", "t", "d", "e"}
MCShapes == RelocTypes \X (MCSymbols \cup {"section"})
MCKeys == {<<>>} \cup ({"code", "rodata"} \X {"start", "same", "table"})
MCHash(k) == 0

Rel(type, sym) == [type |-> type, sym |-> sym, even |-> TRUE]
Odd(type, sym) == [type |-> type, sym |-> sym, even |-> FALSE]

Options(kind, how) ==
  [kind |-> kind, relax |-> how # "plain", copyRelocs |-> how # "fold",
   gc |-> how # "plain", icf |-> CASE how = "fold" -> "all" [] how = "safe" -> "safe"
                                   [] OTHER -> "none",
   relr |-> how \in {"safe", "gc"}, noinhibit |-> how = "gc", errorTextrel |-> how = "plain",
   separateDebug |-> how = "safe", compress |-> FALSE]

Sec(file, contents, kind, relocs) ==
  [file |-> file, contents |-> contents, kind |-> kind, relocs |-> relocs, keep |-> FALSE,
   keepOutput |-> FALSE, group |-> 0, owned |-> TRUE, order |-> 0, discarded |-> FALSE]

Sym(def, sec, type) ==
  [global |-> TRUE, def |-> def, sec |-> sec, type |-> type, hidden |-> FALSE,
   refDynamic |-> FALSE, expr |-> "number", file |-> 0, at |-> 0]

Symtab ==
  [start |-> Sym("section", 1, "func"),
   f     |-> Sym("section", 2, "func"),
   g     |-> [Sym("section", 3, "func") EXCEPT !.hidden = TRUE],
   table |-> [Sym("section", 4, "object") EXCEPT !.global = FALSE],
   v     |-> Sym("section", 5, "object"),
   s     |-> Sym("shared", 0, "func"),
   o     |-> Sym("shared", 0, "object"),
   w     |-> Sym("weak", 0, "object"),
   t     |-> Sym("section", 5, "tls"),
   d     |-> Sym("defsym", 0, "object"),
   e     |-> Sym("defsym", 0, "object")]

(* A link that has the relocations code in section 1 and data in section   *)
(* 5; sections 2 and 3 are the same function, but for its table.           *)
Frames ==
  << <<[cie |-> 0, key |-> "c", pc |-> NoPc, needs |-> {}],
       [cie |-> 1, key |-> "f", pc |-> 2, needs |-> {}]>>,
     <<[cie |-> 0, key |-> "c", pc |-> NoPc, needs |-> {}],
       [cie |-> 1, key |-> "f", pc |-> 3, needs |-> {4}]>> >>

Basic(opt, code, data) ==
  [opt |-> opt,
   sec |-> << Sec("a", "start", "code", code),
              Sec("a", "same", "code", <<Rel("PLT32", "s")>>),
              Sec("b", "same", "code", <<Rel("PLT32", "s")>>),
              Sec("b", "table", "rodata", <<>>),
              Sec("b", "data", "data", data) >>,
   sym |-> Symtab, defsyms |-> <<"d", "e">>, entry |-> {"start"}, startStop |-> {},
   frames |-> <<>>, duplicates |-> 0, mayFail |-> {}, unappliable |-> {},
   addrsig |-> [f \in {"a", "b"} |-> [present |-> FALSE, symbols |-> {}]],
   relrEstimate |-> 1, relrEncoding |-> [n \in 0 .. 6 |-> 2]]

Kinds == {"exec", "static", "pie", "shared", "staticpie"}
Hows == {"plain", "gc", "fold", "safe"}

Statically(l) ==
  IF l.opt.kind \in {"static", "staticpie"}
    THEN [l EXCEPT !.sym["s"] = Sym("section", 2, "func"), !.sym["o"] = Sym("absolute", 0, "object")]
    ELSE l

(* Every way a relocation can be decided. *)
CodeRelocs ==
  {<<>>, <<Rel("PLT32", "f"), Rel("PLT32", "g")>>, <<Rel("GOTPCREL", "v"), Rel("PC32", "table")>>,
   <<Rel("GOTPCREL", "s"), Rel("PLT32", "s")>>, <<Rel("PC32", "o"), Rel("PC32", "s")>>,
   <<Rel("TLSGD", "t"), Rel("PLT32", "s")>>, <<Rel("TLSLD", "t"), Rel("PLT32", "s")>>,
   <<Rel("TLSDESC", "t"), Rel("GOTTPOFF", "t")>>, <<Rel("GOTPCREL", "d"), Rel("TPOFF32", "t")>>,
   <<Rel("32", "v")>>, <<Rel("TLSGD", "o"), Rel("GOTPCREL", "w")>>}
DataRelocs ==
  {<<>>, <<Rel("64", "f"), Odd("64", "table")>>, <<Rel("64", "s"), Rel("64", "w"), Rel("64", "d")>>,
   <<Rel("64", "e"), Rel("64", "o")>>}

ManyRelocs ==
  {Statically(Basic(Options(kind, how), code, data)) :
     kind \in Kinds, how \in {"gc", "safe"}, code \in CodeRelocs, data \in DataRelocs}

(* Shapes of links: groups, link order, unwind tables, address            *)
(* significance, sections outside the link, failures.                      *)
Shaped(l) ==
  {l,
   [l EXCEPT !.frames = Frames, !.sec[3].group = 1, !.sec[4].group = 1],
   [l EXCEPT !.sec[3].group = 1, !.sec[4].group = 1, !.sec[5].group = 1,
                !.sec[5].keep = TRUE],
   [l EXCEPT !.frames = << <<[cie |-> 0, key |-> "c", pc |-> NoPc, needs |-> {5}]>> \o
                             << [cie |-> 1, key |-> "f", pc |-> 3, needs |-> {4}]>>,
                             Frames[1], Frames[2] >>],
   [l EXCEPT !.frames = << <<[cie |-> 2, key |-> "f", pc |-> 3, needs |-> {}]>> >>],
   [l EXCEPT !.sec[4].order = 3, !.sec[5].discarded = TRUE],
   [l EXCEPT !.sec[3].owned = FALSE, !.startStop = {4}, !.duplicates = 1],
   [l EXCEPT !.sym["g"].refDynamic = TRUE, !.sym["g"].hidden = FALSE,
                !.addrsig["a"] = [present |-> TRUE, symbols |-> {"f"}]],
   [l EXCEPT !.sym["e"].expr = "g", !.sym["w"] = Sym("undefined", 0, "object")],
   [l EXCEPT !.sym["e"].expr = "w"],
   [l EXCEPT !.entry = {}],
   [l EXCEPT !.opt.compress = TRUE],
   [l EXCEPT !.opt.compress = TRUE, !.unappliable = {"debug"}],
   [l EXCEPT !.unappliable = {"alloc"}],
   [l EXCEPT !.unappliable = {"debug"}],
   [l EXCEPT !.mayFail = {"merge", "index", "write", "rest", "lto"}],
   [l EXCEPT !.relrEncoding = [n \in 0 .. 6 |-> IF n = 3 THEN 2 ELSE 3]],
   [l EXCEPT !.relrEncoding = [n \in 0 .. 6 |-> IF n < 3 THEN n + 1 ELSE 1]],
   [l EXCEPT !.relrEncoding = [n \in 0 .. 6 |-> IF n < 6 THEN n + 1 ELSE 6]]}

ManyShapes ==
  UNION {Shaped(Basic(Options(kind, how), code, <<Rel("64", "f"), Rel("64", "v")>>)) :
           kind \in {"exec", "pie", "shared", "relocatable"}, how \in Hows,
           code \in {<<Rel("PLT32", "f"), Rel("PC32", "v")>>,
                     <<Rel("PLT32", "g"), Rel("PC32", "w"), Rel("PLT32", "f")>>,
                     <<Rel("64", "g"), Rel("GOTPCREL", "f")>>}}

(* What folding tells apart: equal code that refers to equal code, in      *)
(* chains and cycles.                                                      *)
Calls(two, three, four, five) ==
  [Basic(Options("pie", "fold"), <<Rel("PLT32", "f"), Rel("PLT32", "g")>>, <<>>) EXCEPT
     !.sec[2].relocs = <<Rel("PLT32", two)>>, !.sec[3].relocs = <<Rel("PLT32", three)>>,
     !.sec[4] = Sec("b", "table", "code", <<Rel("PLT32", four)>>),
     !.sec[5] = Sec("b", "table", "code", <<Rel("PLT32", five)>>)]

ManyCalls ==
  {Calls(two, three, four, five) :
     two, three \in {"f", "g", "table", "v"}, four, five \in {"start", "g"}}

MCLinks == ManyCalls \cup ManyRelocs \cup ManyShapes

(* e = d, d = 16. *)
AliasLinks ==
  {[Basic(Options("pie", how), <<>>, <<Rel("64", "e")>>) EXCEPT !.sym["e"].expr = "d"] :
     how \in {"plain", "gc"}}

UnwindLinks ==
  {[Basic(Options("pie", "fold"), <<Rel("PLT32", "f"), Rel("PLT32", "g")>>, <<>>)
      EXCEPT !.frames = Frames]}
=============================================================================
