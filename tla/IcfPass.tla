------------------------------ MODULE IcfPass ------------------------------
(***************************************************************************)
(* Identical code folding: passes/icf.rs, fold_identical.                  *)
(*                                                                         *)
(* Round 0 puts the eligible sections with equal constant parts in one     *)
(* class; each further round splits the classes by the classes of the      *)
(* relocation targets, compared on a snapshot, and writes the new class    *)
(* numbers when every class is split.  Single sections and classes that    *)
(* refer to no section leave the working set; the pass stops at a round    *)
(* that splits nothing.                                                    *)
(*                                                                         *)
(* The constant part of a section (key and contents) and that of a         *)
(* relocation (offset, type, addend, tag and value of the target) are      *)
(* values compared by equality; Hash is any function of them, so runs of   *)
(* equal hashes may hold different sections.                               *)
(***************************************************************************)
EXTENDS Integers, Sequences, FiniteSets

CONSTANTS
  Sections,     \* section numbers: IcfPass folds into the lowest of a class
  Keys,         \* constant parts of sections
  Shapes,       \* constant parts of relocations
  Outside,      \* the target of a relocation that is not in a section
  Hash(_)       \* the hash of a key

ASSUME IcfAssumption ==
  /\ Sections \subseteq Nat /\ IsFiniteSet(Sections)
  /\ Outside \notin Sections

IcfReloc == [shape : Shapes, target : Sections \cup {Outside}]
IcfSection == [key : Keys, foldable : BOOLEAN, significant : BOOLEAN,
               relocs : Seq(IcfReloc)]

VARIABLES
  icf,      \* icf[s]: the section as the backend describes it
  mode,     \* "all" or "safe"
  class,    \* class[s]: the number of the class of s
  work,     \* the sections whose class may still split
  part,     \* part[s]: the first slot of the class of s after the split under way
  before,   \* count_classes(&work) before that split
  round     \* "start", "commit", "refine" or "done"

icfVars == <<icf, mode, class, work, part, before, round>>

Relocs(s) == icf[s].relocs

(* The sections fold_identical starts from. *)
Eligible == {s \in Sections :
               icf[s].foldable /\ (mode = "all" \/ ~icf[s].significant)}

(* compare_constant: whether a relocation names a section is in its tag.   *)
ConstantKey(s) ==
  <<icf[s].key,
    [i \in DOMAIN Relocs(s) |->
       <<Relocs(s)[i].shape, Relocs(s)[i].target = Outside>>]>>

(* compare_variable: the classes of the section targets, in order.         *)
VariableKey(c, s) ==
  [i \in DOMAIN Relocs(s) |->
     IF Relocs(s)[i].target = Outside THEN Outside ELSE c[Relocs(s)[i].target]]

HasSectionTargets(s) == \E i \in DOMAIN Relocs(s) : Relocs(s)[i].target # Outside

Lowest(S) == CHOOSE x \in S : \A y \in S : x <= y

(* split_run: sort by (hash, id), split the runs of equal hashes by exact  *)
(* comparison; the first slot of a class is its lowest.                    *)
Split(slots, s, key) ==
  Lowest({t \in slots : Hash(key[t]) = Hash(key[s]) /\ key[t] = key[s]})

NumClasses(c, slots) == Cardinality({c[s] : s \in slots})

-----------------------------------------------------------------------------
IcfInit ==
  /\ icf \in [Sections -> IcfSection]
  /\ mode \in {"all", "safe"}
  /\ class = [s \in Sections |-> s]
  /\ work = {}
  /\ part = [s \in Sections |-> s]
  /\ before = 0
  /\ round = "start"

(* Round 0: every eligible section, by constant part.  before = 0: this    *)
(* round ends the pass only when there is nothing to fold.                 *)
ConstantRound ==
  /\ round = "start"
  /\ work' = Eligible
  /\ part' = [s \in Sections |->
                IF s \in Eligible
                  THEN Split(Eligible, s, [t \in Sections |-> ConstantKey(t)])
                  ELSE s]
  /\ before' = 0
  /\ round' = "commit"
  /\ UNCHANGED <<icf, mode, class>>

(* A refinement round: split each class still in play by the classes its   *)
(* members refer to.                                                       *)
RefineRound ==
  /\ round = "refine"
  /\ before' = NumClasses(class, work)
  /\ part' = [s \in Sections |->
                IF s \in work
                  THEN Split({t \in work : class[t] = class[s]}, s,
                             [t \in Sections |-> VariableKey(class, t)])
                  ELSE s]
  /\ round' = "commit"
  /\ UNCHANGED <<icf, mode, class, work>>

Members(p, s) == {t \in work : p[t] = p[s]}

\* Slip: a class this round did not split is taken as final.
FinalIfUnsplit == {s \in work : \/ ~HasSectionTargets(part[s])
                                \/ Members(part, s) = Members(class, s)}

(* commit: classes that can never split again. *)
Final == {s \in work : Cardinality(Members(part, s)) = 1
                         \/ ~HasSectionTargets(part[s])}

(* The loop ends when the round split no class. *)
NothingSplit == NumClasses(part, work) = before

Commit ==
  /\ round = "commit"
  /\ class' = [s \in Sections |-> IF s \in work THEN part[s] ELSE class[s]]
  /\ work' = work \ Final
  /\ round' = IF NothingSplit \/ work' = {} THEN "done" ELSE "refine"
  /\ UNCHANGED <<icf, mode, part, before>>

IcfNext == ConstantRound \/ RefineRound \/ Commit

IcfSpec == IcfInit /\ [][IcfNext]_icfVars

-----------------------------------------------------------------------------
IcfTypeOK ==
  /\ icf \in [Sections -> IcfSection]
  /\ mode \in {"all", "safe"}
  /\ class \in [Sections -> Sections]
  /\ work \in SUBSET Sections
  /\ part \in [Sections -> Sections]
  /\ before \in Nat
  /\ round \in {"start", "commit", "refine", "done"}

(* A partition (as class numbers) that folding could use: two sections     *)
(* share a class only if both may fold, their constant parts are equal and *)
(* corresponding targets share a class.                                    *)
Stable(c) ==
  \A a, b \in Sections : a # b /\ c[a] = c[b] =>
    /\ a \in Eligible /\ b \in Eligible
    /\ ConstantKey(a) = ConstantKey(b)
    /\ VariableKey(c, a) = VariableKey(c, b)

(* fold_identical never folds two sections that can be told apart by       *)
(* following references, mutually recursive ones included, although it     *)
(* drops classes from the working set and stops by counting classes.       *)
FoldingIsSound == round = "done" => Stable(class)

(* fold_identical folds as much as any partition could ("the coarsest      *)
(* partition"): a greatest fixed point, so cycles fold too.                *)
FoldingIsCoarsest ==
  round = "done" =>
    \A c \in [Sections -> Sections] : Stable(c) =>
      \A a, b \in Sections : c[a] = c[b] => class[a] = class[b]

(* The section a class folds into is its lowest member, which is kept: no  *)
(* chain of folds.                                                         *)
FirstIsKept ==
  \A s \in Sections : class[s] <= s /\ class[class[s]] = class[s]

(* What --icf promises: the sections folded together are exactly those     *)
(* that cannot be told apart, and the first of each class stays.           *)
FoldingIsExact == FoldingIsSound /\ FoldingIsCoarsest /\ FirstIsKept
=============================================================================
