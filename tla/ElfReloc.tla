------------------------------ MODULE ElfReloc ------------------------------
(***************************************************************************)
(* What one relocation needs: elf/reloc.rs decide, elf/arch/x86_64.rs      *)
(* classify and elf/synth.rs got_slot_relocs, for x86-64 (ELF64).  The     *)
(* relocation scan and the writer both call decide, each with the symbol   *)
(* flags of its own time.                                                  *)
(*                                                                         *)
(* A target is [global, def, type]: def is "section", "absolute",          *)
(* "common", "linker", "shared", "undefined" or "weak" (undefined, weak    *)
(* reference).  Instruction bytes are taken to be the sequences that each  *)
(* relocation type is for.                                                 *)
(***************************************************************************)
EXTENDS Integers

(* The relocation types. *)
RelocTypes == {"64", "32", "PC32", "PLT32", "GOTPCREL", "TPOFF32", "TLSGD", "TLSLD",
               "GOTTPOFF", "TLSDESC", "NONE"}

(* Mode::new: an executable that links no shared object is static. *)
ModeOf(kind, hasShared) ==
  [pic     |-> kind \in {"pie", "shared", "staticpie"},
   dynamic |-> kind \in {"pie", "shared", "staticpie"} \/ (kind = "exec" /\ hasShared),
   shared  |-> kind = "shared",
   kind    |-> kind]

DefinedDefs == {"section", "absolute", "common", "linker"}

(* The properties of a target that decisions depend on. *)
Props(t, flags) ==
  LET preemptible == t.global /\ "PREEMPTIBLE" \in flags IN
  [global        |-> t.global,
   preemptible   |-> preemptible,
   shared        |-> t.def = "shared",
   defined       |-> t.def \in DefinedDefs,
   absolute      |-> t.def = "absolute" \/ "ABSOLUTE" \in flags,
   function      |-> t.type \in {"func", "ifunc"},
   localIfunc    |-> t.type = "ifunc" /\ t.def = "section" /\ ~preemptible,
   undefinedWeak |-> t.def = "weak"]

RelaxGot(mode, relax, p) ==
  relax /\ p.defined /\ ~p.preemptible /\ ~p.localIfunc /\ ~(p.absolute /\ mode.pic)

(* How TLS accesses to the variable are linked. *)
TlsMode(mode, p) ==
  CASE ~mode.dynamic -> "local_exec"
    [] mode.dynamic /\ mode.shared -> "dynamic"
    [] OTHER -> IF p.preemptible THEN "initial_exec" ELSE "local_exec"

Class(kind, slot, skip) == [kind |-> kind, slot |-> slot, skip |-> skip]
Plain(kind) == Class(kind, "none", FALSE)
Slot(slot) == Class("got", slot, FALSE)

(* classify: the kind of field, the GOT entry it reads, and whether a TLS  *)
(* relaxation swallows the next relocation (the call).                     *)
Classify(type, relaxGot, tls, tlsLd) ==
  CASE type = "NONE"     -> Plain("none")
    [] type \in {"64", "32"} -> Plain("abs")
    [] type \in {"PC32", "PLT32"} -> Plain("pc")
    [] type = "GOTPCREL" -> IF relaxGot THEN Plain("relaxed") ELSE Slot("GOT")
    [] type = "TPOFF32"  -> Plain("tpoff")
    [] type = "TLSGD"    -> (CASE tls = "dynamic"      -> Slot("TLSGD")
                               [] tls = "initial_exec" -> Class("gd_ie", "none", TRUE)
                               [] tls = "local_exec"   -> Class("gd_le", "none", TRUE))
    [] type = "TLSLD"    -> IF tlsLd = "dynamic" THEN Slot("TLSLD")
                                                 ELSE Class("ld_le", "none", TRUE)
    [] type = "GOTTPOFF" -> IF tls = "local_exec" THEN Plain("ie_le") ELSE Slot("GOTTPOFF")
    [] type = "TLSDESC"  -> (CASE tls = "dynamic"      -> Slot("TLSDESC")
                               [] tls = "initial_exec" -> Plain("desc_ie")
                               [] tls = "local_exec"   -> Plain("desc_le"))

Needs(flags) == [flags |-> flags, problem |-> "none", dynamic |-> "none"]
Problem(what) == [flags |-> {}, problem |-> what, dynamic |-> "none"]
Dynamic(kind, flags) == [flags |-> flags, problem |-> "none", dynamic |-> kind]

(* A reference to a preemptible symbol that goes through neither GOT nor   *)
(* PLT: a canonical PLT entry or a copy in an executable.                  *)
DirectReference(ctx, p) ==
  CASE ctx.mode.shared -> Problem("pic")
    [] ~ctx.mode.shared /\ p.shared ->
         IF p.function THEN Needs({"PLT", "CANONICAL"})
         ELSE IF ctx.copyRelocs THEN Needs({"COPY"}) ELSE Problem("copy")
    [] OTHER -> IF p.undefinedWeak THEN Needs({}) ELSE Problem("pic")

(* The Kind::Abs arm: an address stored in a dynamic output.  An           *)
(* executable resolves an undefined weak symbol to 0 (weak_zero).          *)
DecideAbs(ctx, type, p, writable) ==
  LET mode == ctx.mode
      moves == mode.pic /\ ~p.absolute /\ (p.defined \/ ~p.global) IN
  CASE ~p.preemptible ->
         IF ~moves THEN Needs({})
         ELSE IF type = "64" THEN Dynamic("relative", {}) ELSE Problem("pic")
    [] p.preemptible /\ type = "64" ->
         IF ~mode.shared /\ p.undefinedWeak THEN Needs({})
         ELSE IF mode.shared \/ writable \/ ~p.shared THEN Dynamic("symbolic", {"DYNSYM"})
         ELSE DirectReference(ctx, p)
    [] OTHER -> DirectReference(ctx, p)

(* The Kind::Pc arm. *)
DecidePc(ctx, type, p) ==
  CASE p.preemptible ->
         IF type = "PLT32" THEN Needs({"PLT"}) ELSE DirectReference(ctx, p)
    [] ~p.preemptible /\ p.undefinedWeak /\ ctx.mode.dynamic /\ type = "PLT32" ->
         Needs({"PLT"})
    [] OTHER -> Needs({})

(* decide.  slot: the GOT entry that the target (or, for "TLSLD", the      *)
(* module) needs; flags are those a global target gets.                    *)
Decide(ctx, type, t, flags, writable) ==
  LET mode  == ctx.mode
      p     == Props(t, flags)
      class == Classify(type, RelaxGot(mode, ctx.relax, p), TlsMode(mode, p),
                        IF mode.shared THEN "dynamic" ELSE "local_exec")
      slot  == IF class.kind \in {"gd_ie", "desc_ie"} THEN "GOTTPOFF" ELSE class.slot
      arm   == CASE class.kind = "abs" -> IF mode.dynamic THEN DecideAbs(ctx, type, p, writable)
                                                          ELSE Needs({})
                 [] class.kind = "pc"  -> DecidePc(ctx, type, p)
                 [] class.kind = "tpoff" /\ mode.dynamic /\ (mode.shared \/ p.preemptible) ->
                      Problem("tls")
                 [] OTHER -> Needs({})
  IN [class   |-> class,
      slot    |-> slot,
      dynamic |-> arm.dynamic,
      problem |-> arm.problem,
      text    |-> arm.dynamic # "none" /\ ~writable,
      flags   |-> arm.flags
                    \cup (IF slot \notin {"none", "TLSLD"} THEN {slot} ELSE {})
                    \cup (IF p.localIfunc THEN {"IPLT"} ELSE {})]

(* got_slot_relocs: the dynamic relocations of an entry, in order.         *)
GotSlotRelocs(mode, t, flags, slot) ==
  LET preemptible == t.global /\ "PREEMPTIBLE" \in flags
      defined  == t.def \notin {"undefined", "weak", "shared"}
      absolute == t.def = "absolute" \/ "ABSOLUTE" \in flags IN
  CASE ~mode.dynamic -> <<>>
    [] mode.dynamic /\ slot = "GOT" ->
         IF preemptible THEN <<"symbolic">>
         ELSE IF mode.pic /\ defined /\ ~absolute THEN <<"relative">> ELSE <<>>
    [] mode.dynamic /\ slot = "TLSGD" ->
         IF preemptible THEN <<"symbolic", "symbolic">>
         ELSE IF mode.shared THEN <<"module">> ELSE <<>>
    [] mode.dynamic /\ slot = "GOTTPOFF" ->
         IF preemptible THEN <<"symbolic">> ELSE IF mode.shared THEN <<"module">> ELSE <<>>
    [] mode.dynamic /\ slot = "TLSDESC" ->
         IF preemptible THEN <<"symbolic">> ELSE <<"module">>
    [] mode.dynamic /\ slot = "TLSLD" -> IF mode.shared THEN <<"module">> ELSE <<>>
=============================================================================
