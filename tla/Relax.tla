-------------------------------- MODULE Relax --------------------------------
(***************************************************************************)
(* Linker relaxation: the edits of a section and what they do to offsets  *)
(* and bytes (src/elf/arch/shrink.rs), and the decisions of one pass for  *)
(* RISC-V (src/elf/arch/riscv/relax.rs).                                   *)
(*                                                                         *)
(* A relocation is [offset, type, addend, target, value, short, relaxable]*)
(* in processing order; the target is offset `value` of input section     *)
(* `target`.  A relaxation maps each relaxed section to its edits, a      *)
(* nonempty sequence of [seq, offset, remove, delta, kind, kept].         *)
(***************************************************************************)
EXTENDS ElfLayout

CONSTANTS
  FREE_PASSES,     \* passes in which a call may shrink freely
  ShortReach,      \* bytes a compressed jump reaches
  JumpReach,       \* bytes a single jump reaches
  LowReach         \* bytes the low part of an address reaches

ASSUME RelaxConstants ==
  {FREE_PASSES, ShortReach, JumpReach, LowReach} \subseteq Nat \ {0}

Fits(value, reach) == -reach <= value /\ value < reach

Removed(edits) == IF edits = <<>> THEN 0 ELSE Last(edits).delta

EditsOf(relax, id) == IF id \in DOMAIN relax THEN relax[id] ELSE <<>>

\* Where an offset of the input section ends up: less the bytes deleted
\* before it.
Map(edits, offset) == offset - Removed(SelectSeq(edits, LAMBDA e : e.offset < offset))

\* The deletions, which decide the layout.
Shape(edits) ==
  {<<edits[i].seq, edits[i].delta>> : i \in {j \in DOMAIN edits : edits[j].remove # 0}}

SameShape(a, b) ==
  DOMAIN a = DOMAIN b /\ \A id \in DOMAIN a : Shape(a[id]) = Shape(b[id])

\* The copy of a section with its edits applied: the input offsets of the
\* bytes copied, a filler or a new instruction being marked as -1.
Copy(size, edits) ==
  LET from(acc, until) == [i \in 1 .. until - acc.from |-> acc.from + i - 1]
      fresh(n) == [i \in 1 .. n |-> -1]
      Step(acc, e) ==
        IF e.offset < acc.from THEN acc
        ELSE LET kept == IF e.kind # "Align" THEN e.kept
                         ELSE IF e.remove % 4 # 0 \/ e.addend % 4 # 0
                         THEN e.addend - e.remove ELSE 0
             IN [out |-> acc.out \o from(acc, e.offset) \o fresh(kept),
                 from |-> e.offset + kept + e.remove]
      all == FoldLeft(Step, [out |-> <<>>, from |-> 0], edits)
  IN all.out \o from(all, size)

-----------------------------------------------------------------------------
(* One pass over one section.                                              *)

\* Addresses are those of the layout, whose sections have the previous edits;
\* an undefined weak symbol is at zero.
TargetAddress(lay, relax, rel) ==
  IF rel.target = NONE THEN rel.value
  ELSE lay.inputs[rel.target].addr + Map(EditsOf(relax, rel.target), rel.value)

NoEdit == [remove |-> 0, kind |-> "None", kept |-> 0]

NextPowerOfTwo(n) == CHOOSE p \in {2 ^ k : k \in 0 .. n} :
                       n <= p /\ \A k \in 0 .. n : n <= 2 ^ k => p <= 2 ^ k

\* Slip: the bytes deleted earlier in the section in this pass are not counted.
TrimAtInput(address, rel, delta) ==
  LET loc == address + rel.offset
  IN loc + rel.addend - AlignUp(loc, NextPowerOfTwo(rel.addend + 2))

\* Alignment padding keeps what the code after it needs; a negative trim is
\* an error in the input.
Trim(address, rel, delta) ==
  LET loc == address + rel.offset - delta
  IN loc + rel.addend - AlignUp(loc, NextPowerOfTwo(rel.addend + 2))

\* Slip: a call may shrink in every pass.
CallLimitNone(previous, id, seq, pass) == 6

\* After the free passes a call may not lose more than it lost before.
CallLimit(previous, id, seq, pass) ==
  IF pass < FREE_PASSES THEN 6
  ELSE LET e == SelectSeq(EditsOf(previous, id), LAMBDA x : x.seq = seq)
       IN IF e = <<>> THEN 0 ELSE e[1].remove

DecideCall(displace, short, limit) ==
  IF short /\ limit >= 6 /\ Fits(displace, ShortReach)
  THEN [remove |-> 6, kind |-> "Replace", kept |-> 2]
  ELSE IF limit >= 4 /\ Fits(displace, JumpReach)
  THEN [remove |-> 4, kind |-> "Replace", kept |-> 4]
  ELSE NoEdit

\* An address within reach of zero or of the global pointer needs no high part.
ShortAddress(value, gp, type) ==
  Fits(value, LowReach) \/ (gp # {} /\ \A g \in gp : Fits(value - g, LowReach))

DecideHigh(type, near) ==
  IF ~near THEN NoEdit
  ELSE IF type \in {"Hi20", "TprelHi"} THEN [remove |-> 4, kind |-> "Delete", kept |-> 0]
  ELSE IF type = "TprelLo" THEN [remove |-> 0, kind |-> "Replace", kept |-> 4]
  ELSE [remove |-> 0, kind |-> "Retype", kept |-> 0]

\* The thread pointer of RISC-V is the start of the TLS segment, the global
\* pointer an offset into .sdata, or into the image when there is none.
ThreadPointer(lay) ==
  {lay.segments[i].vaddr : i \in {j \in DOMAIN lay.segments : lay.segments[j].type = "TLS"}}

GlobalPointer(in, lay) ==
  IF ~in.relaxGp THEN {}
  ELSE {LowReach + (IF in.sdata # NONE /\ lay.places[in.sdata].shndx # NONE
                    THEN lay.places[in.sdata].addr ELSE in.base)}

DecideOne(in, lay, previous, id, seq, delta, pass) ==
  LET rel == in.relocs[id][seq]
      address == lay.inputs[id].addr
      loc == address + rel.offset - delta
      dest == TargetAddress(lay, previous, rel)
  IN CASE rel.type = "Align" ->
            LET trim == Trim(address, rel, delta)
            IN IF trim = 0 THEN NoEdit
               ELSE [remove |-> trim, kind |-> "Align", kept |-> 0]
       [] rel.type = "Call" /\ rel.relaxable ->
            DecideCall(dest - loc, rel.short, CallLimit(previous, id, seq, pass))
       [] rel.type \in {"Hi20", "Lo12"} /\ rel.relaxable ->
            DecideHigh(rel.type, ShortAddress(dest, GlobalPointer(in, lay), rel.type))
       [] rel.type \in {"TprelHi", "TprelLo"} /\ rel.relaxable ->
            DecideHigh(rel.type, \E tp \in ThreadPointer(lay) : Fits(dest - tp, LowReach))
       [] OTHER -> NoEdit

\* Padding too small for its alignment makes the link fail.
Decide(in, lay, previous, id, pass) ==
  LET Step(acc, seq) ==
        LET rel == in.relocs[id][seq]
            d == DecideOne(in, lay, previous, id, seq, acc.delta, pass)
        IN IF d.kind = "None" THEN acc
           ELSE [edits |-> Append(acc.edits,
                   [seq |-> seq, offset |-> rel.offset, remove |-> d.remove,
                    delta |-> acc.delta + d.remove, kind |-> d.kind,
                    kept |-> d.kept, addend |-> rel.addend]),
                 delta |-> acc.delta + d.remove,
                 short |-> acc.short \/ d.remove < 0]
  IN FoldLeft(Step, [edits |-> <<>>, delta |-> 0, short |-> FALSE],
              [i \in DOMAIN in.relocs[id] |-> i])

\* Live sections of code with relocations.
Candidates(in) == DOMAIN in.relocs

RelaxPass(in, lay, previous, pass) ==
  LET decided == [id \in Candidates(in) |-> Decide(in, lay, previous, id, pass)]
      relaxed == {id \in DOMAIN decided : decided[id].edits # <<>>}
  IN [ok |-> \A id \in DOMAIN decided : ~decided[id].short,
      relax |-> [id \in relaxed |-> decided[id].edits]]
=============================================================================
