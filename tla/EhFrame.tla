------------------------------ MODULE EhFrame ------------------------------
(***************************************************************************)
(* The .eh_frame records: elf/ehframe.rs.  frames is a sequence of frame   *)
(* sections, each a sequence of records [cie, key, pc, needs]:             *)
(*   cie    0 for a CIE, else the position of the FDE's CIE;               *)
(*   key    what identifies a CIE: its bytes and relocation targets;       *)
(*   pc     the section of the function an FDE describes, or NoPc;         *)
(*   needs  the sections the record's other relocations name (the LSDA of  *)
(*          an FDE, the personality routine of a CIE).                     *)
(* A record is named by <<section, record>>.                               *)
(***************************************************************************)
EXTENDS Integers, Sequences, FiniteSets

NoPc == 0

RecordsOf(frames) == UNION {{<<i, j>> : j \in DOMAIN frames[i]} : i \in DOMAIN frames}
Rec(frames, x) == frames[x[1]][x[2]]
IsCie(r) == r.cie = 0
CiePosition(frames, x) == <<x[1], Rec(frames, x).cie>>

(* split: an FDE whose CIE pointer names no CIE is an error. *)
WellFormed(frames) ==
  \A x \in RecordsOf(frames) : ~IsCie(Rec(frames, x)) =>
    /\ CiePosition(frames, x) \in RecordsOf(frames)
    /\ IsCie(Rec(frames, CiePosition(frames, x)))

(* The FDEs that describe a function of the link. *)
Fdes(frames) ==
  {x \in RecordsOf(frames) : ~IsCie(Rec(frames, x)) /\ Rec(frames, x).pc # NoPc}

\* Slip: what the CIE refers to (the personality routine) is not an edge.
FdeEdgesOnly(frames) ==
  UNION {{<<Rec(frames, x).pc, t>> : t \in Rec(frames, x).needs} : x \in Fdes(frames)}

(* gc_edges: a function needs what its FDE and the FDE's CIE refer to. *)
EhGcEdges(frames) ==
  UNION {{<<Rec(frames, x).pc, t>> :
            t \in Rec(frames, x).needs \cup Rec(frames, CiePosition(frames, x)).needs} :
         x \in Fdes(frames)}

(* finalize, first pass: an FDE lives with its function, a CIE with an FDE *)
(* of its section.                                                         *)
Used(frames, live, x) ==
  IF IsCie(Rec(frames, x))
    THEN \E y \in Fdes(frames) : CiePosition(frames, y) = x /\ Rec(frames, y).pc \in live
    ELSE x \in Fdes(frames) /\ Rec(frames, x).pc \in live

Earlier(x, y) == x[1] < y[1] \/ (x[1] = y[1] /\ x[2] < y[2])

First(S) == CHOOSE x \in S : \A y \in S \ {x} : Earlier(x, y)

(* Second pass, sequential: the first used CIE with the same bytes and     *)
(* relocation targets.                                                     *)
Canonical(frames, live, x) ==
  First({y \in RecordsOf(frames) : /\ IsCie(Rec(frames, y)) /\ Used(frames, live, y)
                                   /\ Rec(frames, y).key = Rec(frames, x).key})

RecordKept(frames, live, x) ==
  /\ Used(frames, live, x)
  /\ IsCie(Rec(frames, x)) => Canonical(frames, live, x) = x

(* finalize: which records stay, at which offset of their section's        *)
(* contribution (records have size 1), and the copy a CIE stands for.      *)
Finalize(frames, live) ==
  [x \in RecordsOf(frames) |->
     [live      |-> RecordKept(frames, live, x),
      offset    |-> Cardinality({y \in RecordsOf(frames) :
                      y[1] = x[1] /\ y[2] < x[2] /\ RecordKept(frames, live, y)}),
      canonical |-> IF IsCie(Rec(frames, x)) /\ Used(frames, live, x)
                      THEN Canonical(frames, live, x) ELSE x]]

(* cie_of: the kept CIE of an FDE. *)
CieOf(frames, eh, x) == eh[CiePosition(frames, x)].canonical
=============================================================================
