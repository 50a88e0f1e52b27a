--------------------------- MODULE ElfLinkProofs ---------------------------
(***************************************************************************)
(* Proofs about ElfLink, for any inputs, options and order of the tasks:   *)
(* the sections kept are closed under everything that refers to them, the  *)
(* unwind records agree with them, folding in the link is exact, outputs   *)
(* appear only where no stage failed, and .relr.dyn fits.                  *)
(***************************************************************************)
EXTENDS ElfLink, FiniteSetTheorems, FunctionTheorems, WellFoundedInduction, TLAPS

-----------------------------------------------------------------------------
(***************************************************************************)
(* fold_identical computes the coarsest stable partition, for every input, *)
(* hash function and number of sections.                                   *)
(***************************************************************************)
LEMMA LowestIsLeast ==
  ASSUME NEW S \in SUBSET Nat, S # {}
  PROVE  Lowest(S) \in S /\ \A y \in S : Lowest(S) <= y
<1>1. \E x \in S : \A y \in S : ~(<<y, x>> \in OpToRel(<, Nat))
  BY NatLessThanWellFounded, WFMin
<1>2. PICK x \in S : \A y \in S : <<y, x>> \notin OpToRel(<, Nat)
  BY <1>1
<1>3. ASSUME NEW y \in S PROVE x <= y
  <2>1. x \in Nat /\ y \in Nat /\ <<y, x>> \in Nat \X Nat
    OBVIOUS
  <2>2. y < x => <<y, x>> \in OpToRel(<, Nat)
    BY <2>1 DEF OpToRel
  <2>3. ~(y < x)
    BY <1>2, <2>2, Zenon
  <2> QED
    BY <2>1, <2>3
<1>4. \E z \in S : \A y \in S : z <= y
  BY <1>3
<1> QED
  BY <1>4 DEF Lowest


(* Classes of equal constant part, and of equal class and targets. *)
First0(s) == Split(Eligible, s, [t \in Sections |-> ConstantKey(t)])
FirstR(s) ==
  Split({t \in work : class[t] = class[s]}, s, [t \in Sections |-> VariableKey(class, t)])

LEMMA First0Facts ==
  ASSUME IcfAssumption
  PROVE  /\ \A s \in Eligible : /\ First0(s) \in Eligible
                                /\ First0(s) <= s
                                /\ ConstantKey(First0(s)) = ConstantKey(s)
         /\ \A s, t \in Eligible : First0(s) = First0(t) <=> ConstantKey(s) = ConstantKey(t)
<1> DEFINE G(s) == {t \in Eligible : /\ Hash(ConstantKey(t)) = Hash(ConstantKey(s))
                                     /\ ConstantKey(t) = ConstantKey(s)}
<1>1. ASSUME NEW s \in Eligible PROVE First0(s) = Lowest(G(s))
  <2> DEFINE key == [t \in Sections |-> ConstantKey(t)]
  <2>1. G(s) = {t \in Eligible : Hash(key[t]) = Hash(key[s]) /\ key[t] = key[s]}
    <3>1. \A t \in Eligible : key[t] = ConstantKey(t)
      BY DEF Eligible
    <3> QED
      BY <3>1
  <2> QED
    BY <2>1 DEF First0, Split
<1>2. ASSUME NEW s \in Eligible PROVE G(s) \in SUBSET Nat /\ s \in G(s)
  BY DEF Eligible, IcfAssumption
<1>3. ASSUME NEW s \in Eligible
      PROVE  /\ First0(s) \in Eligible /\ First0(s) <= s
             /\ ConstantKey(First0(s)) = ConstantKey(s)
  <2>1. Lowest(G(s)) \in G(s) /\ \A y \in G(s) : Lowest(G(s)) <= y
    BY <1>2, LowestIsLeast
  <2> QED
    BY <2>1, <1>1, <1>2
<1>4. ASSUME NEW s \in Eligible, NEW t \in Eligible, ConstantKey(s) = ConstantKey(t)
      PROVE  First0(s) = First0(t)
  <2>1. G(s) = G(t)
    BY <1>4
  <2> QED
    BY <2>1, <1>1
<1> QED
  BY <1>3, <1>4

LEMMA FirstRFacts ==
  ASSUME IcfAssumption, IcfTypeOK
  PROVE  /\ \A s \in work : /\ FirstR(s) \in work
                            /\ FirstR(s) <= s
                            /\ class[FirstR(s)] = class[s]
                            /\ VariableKey(class, FirstR(s)) = VariableKey(class, s)
         /\ \A s, t \in work : FirstR(s) = FirstR(t) <=>
              class[s] = class[t] /\ VariableKey(class, s) = VariableKey(class, t)
<1> DEFINE W(s) == {t \in work : class[t] = class[s]}
           G(s) == {t \in W(s) : /\ Hash(VariableKey(class, t)) = Hash(VariableKey(class, s))
                                 /\ VariableKey(class, t) = VariableKey(class, s)}
<1>1. ASSUME NEW s \in work PROVE FirstR(s) = Lowest(G(s))
  <2> DEFINE key == [t \in Sections |-> VariableKey(class, t)]
  <2>1. G(s) = {t \in W(s) : Hash(key[t]) = Hash(key[s]) /\ key[t] = key[s]}
    <3>1. \A t \in work : key[t] = VariableKey(class, t)
      BY DEF IcfTypeOK
    <3> QED
      BY <3>1
  <2> QED
    BY <2>1 DEF FirstR, Split
<1>2. ASSUME NEW s \in work PROVE G(s) \in SUBSET Nat /\ s \in G(s)
  BY DEF IcfTypeOK, IcfAssumption
<1>3. ASSUME NEW s \in work
      PROVE  /\ FirstR(s) \in work /\ FirstR(s) <= s
             /\ class[FirstR(s)] = class[s]
             /\ VariableKey(class, FirstR(s)) = VariableKey(class, s)
  <2>1. Lowest(G(s)) \in G(s) /\ \A y \in G(s) : Lowest(G(s)) <= y
    BY <1>2, LowestIsLeast
  <2> QED
    BY <2>1, <1>1, <1>2
<1>4. ASSUME NEW s \in work, NEW t \in work, class[s] = class[t],
             VariableKey(class, s) = VariableKey(class, t)
      PROVE  FirstR(s) = FirstR(t)
  <2>1. G(s) = G(t)
    BY <1>4
  <2> QED
    BY <2>1, <1>1
<1> QED
  BY <1>3, <1>4

-----------------------------------------------------------------------------
(***************************************************************************)
(* The inductive invariant                                                 *)
(***************************************************************************)

(* Sections with one class number may fold and have equal constant parts. *)
ConstantSound(c) ==
  \A a, b \in Sections : a # b /\ c[a] = c[b] =>
    a \in Eligible /\ b \in Eligible /\ ConstantKey(a) = ConstantKey(b)

(* The working set holds whole classes. *)
Closed(c, w) == \A a, b \in Sections : a \in w /\ c[a] = c[b] => b \in w

(* A class outside the working set cannot split: it refers to no section. *)
AtRest(c, w) ==
  \A a, b \in Sections : a # b /\ c[a] = c[b] /\ a \notin w => ~HasSectionTargets(a)

(* Every stable partition is at least as fine. *)
Coarser(c) ==
  \A d \in [Sections -> Sections] : Stable(d) =>
    \A a, b \in Sections : d[a] = d[b] => c[a] = c[b]

FirstKept(c) == \A s \in Sections : c[s] <= s /\ c[c[s]] = c[s]

(* What the split under way has found, in round 0 and in later rounds. *)
FirstSplit ==
  /\ class = [s \in Sections |-> s] /\ work = Eligible /\ before = 0
  /\ \A s \in work : part[s] = First0(s)

LaterSplit ==
  /\ Closed(class, work) /\ AtRest(class, work) /\ Coarser(class)
  /\ before = NumClasses(class, work)
  /\ \A s \in work : part[s] = FirstR(s)

IcfInv ==
  /\ IcfTypeOK
  /\ ConstantSound(class)
  /\ FirstKept(class)
  /\ round = "start" => class = [s \in Sections |-> s]
  /\ round = "commit" => FirstSplit \/ LaterSplit
  /\ round = "refine" => Closed(class, work) /\ AtRest(class, work) /\ Coarser(class)
  /\ round = "done" => Stable(class) /\ Coarser(class)

(* Equal constant parts refer to sections at the same relocations, so a    *)
(* class that refers to no section agrees on its targets.                  *)
LEMMA NoTargetsAgree ==
  ASSUME NEW a \in Sections, NEW b \in Sections, NEW c,
         ConstantKey(a) = ConstantKey(b), ~HasSectionTargets(a)
  PROVE  VariableKey(c, a) = VariableKey(c, b) /\ ~HasSectionTargets(b)
<1> DEFINE ra == [i \in DOMAIN Relocs(a) |-> <<Relocs(a)[i].shape, Relocs(a)[i].target = Outside>>]
           rb == [i \in DOMAIN Relocs(b) |-> <<Relocs(b)[i].shape, Relocs(b)[i].target = Outside>>]
<1>1. ra = rb
  BY DEF ConstantKey
<1>2. DOMAIN Relocs(a) = DOMAIN Relocs(b)
  <2>1. DOMAIN ra = DOMAIN Relocs(a) /\ DOMAIN rb = DOMAIN Relocs(b)
    OBVIOUS
  <2> QED
    BY <1>1, <2>1
<1>3. ASSUME NEW i \in DOMAIN Relocs(a)
      PROVE  (Relocs(a)[i].target = Outside) = (Relocs(b)[i].target = Outside)
  <2>1. ra[i] = rb[i]
    BY <1>1
  <2> QED
    BY <2>1, <1>2
<1>4. \A i \in DOMAIN Relocs(a) : Relocs(a)[i].target = Outside
  BY DEF HasSectionTargets
<1>5. \A i \in DOMAIN Relocs(b) : Relocs(b)[i].target = Outside
  BY <1>2, <1>3, <1>4
<1> QED
  BY <1>2, <1>4, <1>5 DEF VariableKey, HasSectionTargets

LEMMA RelocTyped ==
  ASSUME IcfTypeOK, NEW s \in Sections, NEW i \in DOMAIN Relocs(s)
  PROVE  Relocs(s)[i] \in IcfReloc
<1>1. icf[s] \in IcfSection
  BY DEF IcfTypeOK
<1>2. Relocs(s) \in Seq(IcfReloc)
  BY <1>1 DEF IcfSection, Relocs
<1> QED
  BY <1>2

(* Partitions with the same classes give the targets the same classes. *)
LEMMA SameKernelSameTargets ==
  ASSUME IcfTypeOK, NEW c, NEW d, NEW a \in Sections, NEW b \in Sections,
         \A x, y \in Sections : c[x] = c[y] => d[x] = d[y],
         ConstantKey(a) = ConstantKey(b),
         VariableKey(c, a) = VariableKey(c, b)
  PROVE  VariableKey(d, a) = VariableKey(d, b)
<1> DEFINE ra == [i \in DOMAIN Relocs(a) |-> <<Relocs(a)[i].shape, Relocs(a)[i].target = Outside>>]
           rb == [i \in DOMAIN Relocs(b) |-> <<Relocs(b)[i].shape, Relocs(b)[i].target = Outside>>]
           va == VariableKey(c, a)
           vb == VariableKey(c, b)
<1>1. ra = rb
  BY DEF ConstantKey
<1>2. DOMAIN Relocs(a) = DOMAIN Relocs(b)
  <2>1. DOMAIN ra = DOMAIN Relocs(a) /\ DOMAIN rb = DOMAIN Relocs(b)
    OBVIOUS
  <2> QED
    BY <1>1, <2>1
<1>3. ASSUME NEW i \in DOMAIN Relocs(a)
      PROVE  (Relocs(a)[i].target = Outside) = (Relocs(b)[i].target = Outside)
  <2>1. ra[i] = rb[i]
    BY <1>1
  <2> QED
    BY <2>1, <1>2
<1>4. ASSUME NEW i \in DOMAIN Relocs(a), Relocs(a)[i].target # Outside
      PROVE  d[Relocs(a)[i].target] = d[Relocs(b)[i].target]
  <2>1. va[i] = vb[i]
    OBVIOUS
  <2>2. Relocs(b)[i].target # Outside
    BY <1>3, <1>4
  <2>3. va[i] = c[Relocs(a)[i].target] /\ vb[i] = c[Relocs(b)[i].target]
    BY <1>2, <1>4, <2>2 DEF VariableKey
  <2>4. Relocs(a)[i].target \in Sections /\ Relocs(b)[i].target \in Sections
    BY <1>2, <1>4, <2>2, RelocTyped DEF IcfReloc
  <2> QED
    BY <2>1, <2>3, <2>4
<1> QED
  BY <1>2, <1>3, <1>4 DEF VariableKey

-----------------------------------------------------------------------------
LEMMA IcfInitInv == ASSUME IcfAssumption, IcfInit PROVE IcfInv
<1>1. IcfTypeOK
  BY DEF IcfInit, IcfTypeOK
<1>2. \A s \in Sections : class[s] = s /\ s \in Nat
  BY DEF IcfInit, IcfAssumption
<1>3. ConstantSound(class) /\ FirstKept(class)
  BY <1>2 DEF ConstantSound, FirstKept
<1> QED
  BY <1>1, <1>3 DEF IcfInv, IcfInit

LEMMA ConstantRoundInv ==
  ASSUME IcfAssumption, IcfInv, ConstantRound PROVE IcfInv'
<1>1. /\ round = "start" /\ class = [s \in Sections |-> s]
      /\ work' = Eligible /\ before' = 0 /\ round' = "commit"
      /\ UNCHANGED <<icf, mode, class>>
      /\ part' = [s \in Sections |-> IF s \in Eligible THEN First0(s) ELSE s]
  BY DEF ConstantRound, IcfInv, First0
<1>2. Eligible' = Eligible /\ Eligible \in SUBSET Sections
  BY <1>1 DEF Eligible
<1>3. IcfTypeOK'
  BY <1>1, <1>2, First0Facts DEF IcfInv, IcfTypeOK
<1>4. ConstantSound(class)' /\ FirstKept(class)'
  BY <1>1, <1>2 DEF IcfInv, ConstantSound, FirstKept, ConstantKey, Relocs
<1>5. \A s : First0(s)' = First0(s)
  BY <1>1, <1>2 DEF First0, Split, ConstantKey, Relocs
<1>6. FirstSplit'
  BY <1>1, <1>2, <1>5 DEF FirstSplit
<1> QED
  BY <1>1, <1>3, <1>4, <1>6 DEF IcfInv

LEMMA RefineRoundInv ==
  ASSUME IcfAssumption, IcfInv, RefineRound PROVE IcfInv'
<1>1. /\ round = "refine" /\ round' = "commit"
      /\ UNCHANGED <<icf, mode, class, work>>
      /\ before' = NumClasses(class, work)
      /\ part' = [s \in Sections |-> IF s \in work THEN FirstR(s) ELSE s]
  BY DEF RefineRound, FirstR
<1>2. Eligible' = Eligible
  BY <1>1 DEF Eligible
<1>3. before' \in Nat
  <2>1. IsFiniteSet({class[s] : s \in work})
    <3>1. {class[s] : s \in work} \in SUBSET Sections
      BY DEF IcfInv, IcfTypeOK
    <3> QED
      BY <3>1, FS_Subset DEF IcfAssumption
  <2> QED
    BY <1>1, <2>1, FS_CardinalityType DEF NumClasses
<1>4. IcfTypeOK'
  BY <1>1, <1>3, FirstRFacts DEF IcfInv, IcfTypeOK
<1>5. ConstantSound(class)' /\ FirstKept(class)'
  BY <1>1, <1>2 DEF IcfInv, ConstantSound, FirstKept, ConstantKey, Relocs
<1>6. \A s : FirstR(s)' = FirstR(s)
  BY <1>1 DEF FirstR, Split, VariableKey, Relocs
<1>7. Closed(class, work)' /\ AtRest(class, work)'
  BY <1>1 DEF IcfInv, Closed, AtRest, HasSectionTargets, Relocs
<1>8. \A d : Stable(d)' = Stable(d)
  BY <1>1, <1>2 DEF Stable, ConstantKey, VariableKey, Relocs
<1>9. Coarser(class)'
  BY <1>1, <1>8 DEF IcfInv, Coarser
<1>10. LaterSplit'
  <2>1. before' = NumClasses(class, work)'
    BY <1>1 DEF NumClasses
  <2>2. \A s \in work' : part'[s] = FirstR(s)'
    BY <1>1, <1>6 DEF IcfInv, IcfTypeOK
  <2> QED
    BY <1>7, <1>9, <2>1, <2>2 DEF LaterSplit
<1> QED
  BY <1>1, <1>4, <1>5, <1>10 DEF IcfInv

-----------------------------------------------------------------------------
(***************************************************************************)
(* Commit                                                                  *)
(***************************************************************************)

(* What both kinds of split give commit to write. *)
GoodSplit ==
  /\ \A s \in work : /\ part[s] \in work /\ part[s] <= s /\ part[part[s]] = part[s]
                     /\ ConstantKey(part[s]) = ConstantKey(s)
  /\ \A a, b \in work : a # b /\ part[a] = part[b] =>
       a \in Eligible /\ b \in Eligible /\ ConstantKey(a) = ConstantKey(b)
  /\ \A b \in Sections \ work : class[b] \notin work
  /\ \A a, b \in Sections \ work : a # b /\ class[a] = class[b] => ~HasSectionTargets(a)

NewClass == [s \in Sections |-> IF s \in work THEN part[s] ELSE class[s]]

LEMMA FirstSplitGood == ASSUME IcfAssumption, IcfInv, FirstSplit PROVE GoodSplit
<1>1. \A s \in work : part[s] = First0(s)
  BY DEF FirstSplit
<1>2. work = Eligible /\ work \subseteq Sections /\ \A s \in Sections : class[s] = s
  BY DEF FirstSplit, Eligible
<1>3. \A s \in work : /\ part[s] \in work /\ part[s] <= s
                      /\ ConstantKey(part[s]) = ConstantKey(s)
  BY <1>1, <1>2, First0Facts
<1>4. \A s, t \in work : part[s] = part[t] <=> ConstantKey(s) = ConstantKey(t)
  BY <1>1, <1>2, First0Facts
<1>5. \A s \in work : part[part[s]] = part[s]
  BY <1>3, <1>4
<1> QED
  BY <1>2, <1>3, <1>4, <1>5 DEF GoodSplit

LEMMA LaterSplitGood == ASSUME IcfAssumption, IcfInv, LaterSplit PROVE GoodSplit
<1> USE DEF IcfInv
<1>1. \A s \in work : part[s] = FirstR(s)
  BY DEF LaterSplit
<1>2. work \subseteq Sections
  BY DEF IcfTypeOK
<1>3. \A s \in work : part[s] \in work /\ part[s] <= s /\ class[part[s]] = class[s]
                      /\ VariableKey(class, part[s]) = VariableKey(class, s)
  BY <1>1, FirstRFacts
<1>4. \A s, t \in work : part[s] = part[t] <=>
         class[s] = class[t] /\ VariableKey(class, s) = VariableKey(class, t)
  BY <1>1, FirstRFacts
<1>5. \A s \in work : part[part[s]] = part[s]
  BY <1>3, <1>4
<1>6. \A s \in work : ConstantKey(part[s]) = ConstantKey(s)
  BY <1>2, <1>3 DEF ConstantSound
<1>7. \A a, b \in work : a # b /\ part[a] = part[b] =>
        a \in Eligible /\ b \in Eligible /\ ConstantKey(a) = ConstantKey(b)
  BY <1>2, <1>4 DEF ConstantSound
<1>8. \A b \in Sections \ work : class[b] \notin work
  BY DEF LaterSplit, Closed, FirstKept, IcfTypeOK
<1>9. \A a, b \in Sections \ work : a # b /\ class[a] = class[b] => ~HasSectionTargets(a)
  BY DEF LaterSplit, AtRest
<1> QED
  BY <1>3, <1>5, <1>6, <1>7, <1>8, <1>9 DEF GoodSplit

LEMMA GoodSplitSettles ==
  ASSUME IcfAssumption, IcfTypeOK, ConstantSound(class), FirstKept(class), GoodSplit
  PROVE  /\ NewClass \in [Sections -> Sections]
         /\ ConstantSound(NewClass)
         /\ FirstKept(NewClass)
         /\ Closed(NewClass, work \ Final)
         /\ AtRest(NewClass, work \ Final)
<1> DEFINE n == NewClass
<1>0. work \subseteq Sections /\ IsFiniteSet(work)
  BY FS_Subset DEF IcfTypeOK, IcfAssumption
<1>1. n \in [Sections -> Sections]
  BY DEF NewClass, IcfTypeOK
<1>2. \A s \in work : n[s] = part[s]
  BY <1>0 DEF NewClass
<1>3. \A s \in Sections \ work : n[s] = class[s]
  BY DEF NewClass
<1>4. \A a, b \in Sections : n[a] = n[b] => (a \in work <=> b \in work)
  BY <1>2, <1>3 DEF GoodSplit
<1>5. ConstantSound(n)
  BY <1>2, <1>3, <1>4 DEF GoodSplit, ConstantSound
<1>6. FirstKept(n)
  <2>1. ASSUME NEW s \in work PROVE n[s] <= s /\ n[n[s]] = n[s]
    BY <1>2 DEF GoodSplit
  <2>2. ASSUME NEW s \in Sections \ work PROVE n[s] <= s /\ n[n[s]] = n[s]
    BY <1>3 DEF GoodSplit, FirstKept, IcfTypeOK
  <2> QED
    BY <2>1, <2>2 DEF FirstKept
<1>7. \A a, b \in work : part[a] = part[b] => (a \in Final <=> b \in Final)
  BY DEF Final, Members
<1>8. Closed(n, work \ Final)
  BY <1>2, <1>4, <1>7 DEF Closed
<1>9. ASSUME NEW a \in work, NEW b \in work, a # b, part[a] = part[b], a \in Final
      PROVE  ~HasSectionTargets(a)
  <2>1. IsFiniteSet(Members(part, a)) /\ a \in Members(part, a) /\ b \in Members(part, a)
    BY <1>0, <1>9, FS_Subset DEF Members
  <2>2. Cardinality(Members(part, a)) # 1
    BY <2>1, <1>9, FS_Singleton
  <2>3. ~HasSectionTargets(part[a])
    BY <2>2, <1>9 DEF Final
  <2>4. part[a] \in Sections /\ a \in Sections /\ ConstantKey(part[a]) = ConstantKey(a)
    BY <1>0 DEF GoodSplit
  <2> QED
    BY <2>3, <2>4, NoTargetsAgree
<1>10. AtRest(n, work \ Final)
  <2> SUFFICES ASSUME NEW a \in Sections, NEW b \in Sections, a # b, n[a] = n[b],
                      a \notin work \ Final
               PROVE  ~HasSectionTargets(a)
    BY DEF AtRest
  <2>1. CASE a \in work
    BY <1>2, <1>4, <1>9, <2>1
  <2>2. CASE a \notin work
    BY <1>3, <1>4, <2>2 DEF GoodSplit
  <2> QED
    BY <2>1, <2>2
<1> QED
  BY <1>1, <1>5, <1>6, <1>8, <1>10

(* With an empty working set the settled partition is stable. *)
LEMMA SettledIsStable ==
  ASSUME NEW c, ConstantSound(c), AtRest(c, {})
  PROVE  Stable(c)
<1> SUFFICES ASSUME NEW a \in Sections, NEW b \in Sections, a # b, c[a] = c[b]
             PROVE  /\ a \in Eligible /\ b \in Eligible
                    /\ ConstantKey(a) = ConstantKey(b)
                    /\ VariableKey(c, a) = VariableKey(c, b)
  BY DEF Stable
<1>1. a \in Eligible /\ b \in Eligible /\ ConstantKey(a) = ConstantKey(b)
  BY DEF ConstantSound
<1>2. ~HasSectionTargets(a)
  BY DEF AtRest
<1> QED
  BY <1>1, <1>2, NoTargetsAgree

(* A split keeps together what a stable partition keeps together. *)
LEMMA SplitIsCoarser ==
  ASSUME IcfAssumption, IcfInv, FirstSplit \/ LaterSplit
  PROVE  Coarser(NewClass)
<1> SUFFICES ASSUME NEW d \in [Sections -> Sections], Stable(d),
                    NEW a \in Sections, NEW b \in Sections, d[a] = d[b], a # b
             PROVE  NewClass[a] = NewClass[b]
  BY DEF Coarser
<1>1. /\ a \in Eligible /\ b \in Eligible
      /\ ConstantKey(a) = ConstantKey(b)
      /\ VariableKey(d, a) = VariableKey(d, b)
  BY DEF Stable
<1>2. CASE FirstSplit
  <2>1. a \in work /\ b \in work /\ part[a] = First0(a) /\ part[b] = First0(b)
    BY <1>1, <1>2 DEF FirstSplit
  <2>2. First0(a) = First0(b)
    BY <1>1, First0Facts
  <2> QED
    BY <2>1, <2>2 DEF NewClass
<1>3. CASE LaterSplit
  <2>1. \A x, y \in Sections : d[x] = d[y] => class[x] = class[y]
    BY <1>3 DEF LaterSplit, Coarser
  <2>2. class[a] = class[b]
    BY <2>1
  <2>3. VariableKey(class, a) = VariableKey(class, b)
    BY <1>1, <2>1, SameKernelSameTargets DEF IcfInv
  <2>4. a \in work <=> b \in work
    BY <1>3, <2>2 DEF LaterSplit, Closed
  <2>5. CASE a \in work
    <3>1. part[a] = FirstR(a) /\ part[b] = FirstR(b)
      BY <1>3, <2>4, <2>5 DEF LaterSplit
    <3>2. FirstR(a) = FirstR(b)
      BY <2>2, <2>3, <2>4, <2>5, FirstRFacts DEF IcfInv
    <3> QED
      BY <2>4, <2>5, <3>1, <3>2 DEF NewClass
  <2>6. CASE a \notin work
    BY <2>2, <2>4, <2>6 DEF NewClass
  <2> QED
    BY <2>5, <2>6
<1> QED
  BY <1>2, <1>3

(* A round that does not raise the number of classes splits none: the map  *)
(* from new class numbers to old ones is onto, and sets of one size leave  *)
(* it no room to merge two.                                                *)
LEMMA SameCountSameClasses ==
  ASSUME IcfAssumption, IcfInv, LaterSplit, NothingSplit,
         NEW a \in work, NEW b \in work, class[a] = class[b]
  PROVE  part[a] = part[b]
<1> DEFINE P == {part[s] : s \in work}
           C == {class[s] : s \in work}
           f == [p \in P |-> class[p]]
<1>1. work \subseteq Sections /\ P \subseteq Sections /\ C \subseteq Sections
  BY DEF IcfInv, IcfTypeOK
<1>2. IsFiniteSet(P) /\ IsFiniteSet(C)
  BY <1>1, FS_Subset DEF IcfAssumption
<1>3. \A s \in work : class[part[s]] = class[s]
  BY FirstRFacts DEF LaterSplit, IcfInv
<1>4. f \in [P -> C]
  BY <1>3
<1>5. f \in Surjection(P, C)
  <2>1. ASSUME NEW c \in C PROVE \E p \in P : f[p] = c
    <3>1. PICK s \in work : c = class[s]
      OBVIOUS
    <3> QED
      BY <3>1, <1>3
  <2> QED
    BY <1>4, <2>1 DEF Surjection
<1>6. Cardinality(P) = Cardinality(C)
  BY DEF NothingSplit, NumClasses, LaterSplit
<1>7. f \in Injection(P, C)
  BY <1>2, <1>5, <1>6, FS_SurjSameCardinalityImpliesInj
<1>8. part[a] \in P /\ part[b] \in P /\ f[part[a]] = f[part[b]]
  BY <1>3
<1> HIDE DEF P, C, f
<1> QED
  BY <1>7, <1>8 DEF Injection, IsInjective

(* Stopping early is right: a round that split nothing leaves a stable     *)
(* partition.                                                              *)
LEMMA StopIsStable ==
  ASSUME IcfAssumption, IcfInv, FirstSplit \/ LaterSplit, NothingSplit
  PROVE  Stable(NewClass)
<1>1. GoodSplit
  BY FirstSplitGood, LaterSplitGood
<1>2. ConstantSound(NewClass) /\ AtRest(NewClass, work \ Final)
  BY <1>1, GoodSplitSettles DEF IcfInv
<1>3. CASE FirstSplit
  <2> DEFINE P == {part[s] : s \in work}
  <2>1. P \subseteq Sections
    BY DEF IcfInv, IcfTypeOK
  <2>2. IsFiniteSet(P) /\ Cardinality(P) = 0
    BY <1>3, <2>1, FS_Subset DEF IcfAssumption, NothingSplit, NumClasses, FirstSplit
  <2>3. P = {}
    BY <2>2, FS_EmptySet
  <2>4. work = {}
    BY <2>3
  <2>5. AtRest(NewClass, {})
    BY <1>2, <2>4
  <2> QED
    BY <1>2, <2>5, SettledIsStable
<1>4. CASE LaterSplit
  <2> SUFFICES ASSUME NEW a \in Sections, NEW b \in Sections, a # b,
                      NewClass[a] = NewClass[b]
               PROVE  VariableKey(NewClass, a) = VariableKey(NewClass, b)
    BY <1>2 DEF Stable, ConstantSound
  <2>1. ConstantKey(a) = ConstantKey(b)
    BY <1>2 DEF ConstantSound
  <2>2. work \subseteq Sections
    BY DEF IcfInv, IcfTypeOK
  <2>3. a \in work <=> b \in work
    BY <1>1 DEF GoodSplit, NewClass
  <2>4. CASE a \in work
    <3>1. part[a] = part[b] /\ part[a] = FirstR(a) /\ part[b] = FirstR(b)
      BY <1>4, <2>3, <2>4 DEF NewClass, LaterSplit
    <3>2. VariableKey(class, a) = VariableKey(class, b)
      BY <2>3, <2>4, <3>1, FirstRFacts DEF IcfInv
    <3>3. ASSUME NEW x \in Sections, NEW y \in Sections, class[x] = class[y]
          PROVE  NewClass[x] = NewClass[y]
      <4>1. x \in work <=> y \in work
        BY <1>4, <3>3 DEF LaterSplit, Closed
      <4>2. CASE x \in work
        BY <1>4, <3>3, <4>1, <4>2, SameCountSameClasses DEF NewClass
      <4>3. CASE x \notin work
        BY <3>3, <4>1, <4>3 DEF NewClass
      <4> QED
        BY <4>2, <4>3
    <3> QED
      BY <2>1, <3>2, <3>3, SameKernelSameTargets DEF IcfInv
  <2>5. CASE a \notin work
    <3>1. class[a] = class[b]
      BY <2>3, <2>5 DEF NewClass
    <3>2. ~HasSectionTargets(a)
      BY <1>4, <2>3, <2>5, <3>1 DEF LaterSplit, AtRest
    <3> QED
      BY <2>1, <3>2, NoTargetsAgree
  <2> QED
    BY <2>4, <2>5
<1> QED
  BY <1>3, <1>4

LEMMA CommitInv ==
  ASSUME IcfAssumption, IcfInv, Commit PROVE IcfInv'
<1>1. /\ round = "commit" /\ class' = NewClass /\ work' = work \ Final
      /\ round' = IF NothingSplit \/ work' = {} THEN "done" ELSE "refine"
      /\ UNCHANGED <<icf, mode, part, before>>
  BY DEF Commit, NewClass
<1>2. FirstSplit \/ LaterSplit
  BY <1>1 DEF IcfInv
<1>3. GoodSplit
  BY <1>2, FirstSplitGood, LaterSplitGood
<1>4. /\ NewClass \in [Sections -> Sections]
      /\ ConstantSound(NewClass)
      /\ FirstKept(NewClass)
      /\ Closed(NewClass, work \ Final)
      /\ AtRest(NewClass, work \ Final)
  BY <1>3, GoodSplitSettles DEF IcfInv
<1>5. Coarser(NewClass)
  BY <1>2, SplitIsCoarser
<1>6. ASSUME round' = "done" PROVE Stable(NewClass)
  <2>1. CASE NothingSplit
    BY <1>2, <2>1, StopIsStable
  <2>2. CASE work \ Final = {}
    <3>1. AtRest(NewClass, {})
      BY <1>4, <2>2
    <3> QED
      BY <1>4, <3>1, SettledIsStable
  <2> QED
    BY <1>1, <1>6, <2>1, <2>2
<1>7. Eligible' = Eligible
  BY <1>1 DEF Eligible
<1>8. \A s : ConstantKey(s)' = ConstantKey(s) /\ HasSectionTargets(s)' = HasSectionTargets(s)
  BY <1>1 DEF ConstantKey, HasSectionTargets, Relocs
<1>9. \A d : Stable(d)' = Stable(d)
  BY <1>1, <1>7 DEF Stable, ConstantKey, VariableKey, Relocs
<1>10. IcfTypeOK'
  BY <1>1, <1>4 DEF IcfInv, IcfTypeOK
<1>11. ConstantSound(class)' /\ FirstKept(class)'
  BY <1>1, <1>4, <1>7, <1>8 DEF ConstantSound, FirstKept
<1>12. Closed(class, work)' /\ AtRest(class, work)'
  BY <1>1, <1>4, <1>8 DEF Closed, AtRest
<1>13. Coarser(class)'
  BY <1>1, <1>5, <1>9 DEF Coarser
<1>14. round' = "done" => Stable(class)'
  BY <1>1, <1>6, <1>9
<1>15. round' = "done" \/ round' = "refine"
  BY <1>1
<1> QED
  BY <1>10, <1>11, <1>12, <1>13, <1>14, <1>15 DEF IcfInv

LEMMA IcfStutterInv ==
  ASSUME IcfInv, UNCHANGED icfVars PROVE IcfInv'
<1>1. UNCHANGED <<icf, mode, class, work, part, before, round>>
  BY DEF icfVars
<1>2. Eligible' = Eligible
  BY <1>1 DEF Eligible
<1>3. \A d : Stable(d)' = Stable(d)
  BY <1>1, <1>2 DEF Stable, ConstantKey, VariableKey, Relocs
<1>4. \A s : /\ First0(s)' = First0(s) /\ FirstR(s)' = FirstR(s)
             /\ ConstantKey(s)' = ConstantKey(s)
             /\ HasSectionTargets(s)' = HasSectionTargets(s)
  BY <1>1, <1>2 DEF First0, FirstR, Split, ConstantKey, VariableKey, HasSectionTargets, Relocs
<1>5. Coarser(class)' = Coarser(class)
  BY <1>1, <1>3 DEF Coarser
<1>6. /\ Closed(class, work)' = Closed(class, work)
      /\ AtRest(class, work)' = AtRest(class, work)
      /\ ConstantSound(class)' = ConstantSound(class)
      /\ FirstKept(class)' = FirstKept(class)
      /\ IcfTypeOK' = IcfTypeOK
      /\ NumClasses(class, work)' = NumClasses(class, work)
  BY <1>1, <1>2, <1>4 DEF Closed, AtRest, ConstantSound, FirstKept, IcfTypeOK, NumClasses
<1>7. FirstSplit => FirstSplit'
  BY <1>1, <1>2, <1>4 DEF FirstSplit
<1>8. LaterSplit => LaterSplit'
  BY <1>1, <1>4, <1>5, <1>6 DEF LaterSplit
<1> QED
  BY <1>1, <1>3, <1>5, <1>6, <1>7, <1>8 DEF IcfInv

-----------------------------------------------------------------------------
(* The invariant of fold_identical, for every input and every hash. *)
THEOREM IcfInvariant == IcfSpec => []IcfInv
<1>1. IcfInit => IcfInv
  BY IcfAssumption, IcfInitInv
<1>2. IcfInv /\ [IcfNext]_icfVars => IcfInv'
  BY IcfAssumption, ConstantRoundInv, RefineRoundInv, CommitInv, IcfStutterInv DEF IcfNext
<1> QED
  BY <1>1, <1>2, PTL DEF IcfSpec

(* fold_identical folds no two sections that can be told apart: when it    *)
(* ends, the partition is stable.                                          *)
THEOREM IcfFoldingIsSound == IcfSpec => []FoldingIsSound
<1>1. IcfInv => FoldingIsSound
  BY DEF IcfInv, FoldingIsSound
<1> QED
  BY <1>1, IcfInvariant, PTL

(* fold_identical folds as much as any stable partition does, cycles of    *)
(* references included.                                                    *)
THEOREM IcfFoldingIsCoarsest == IcfSpec => []FoldingIsCoarsest
<1>1. IcfInv => FoldingIsCoarsest
  BY DEF IcfInv, FoldingIsCoarsest, Coarser
<1> QED
  BY <1>1, IcfInvariant, PTL

(* At every step the number of a class is its first member: leaders are    *)
(* kept and no fold goes through another.                                  *)
THEOREM IcfFirstIsKept == IcfSpec => []FirstIsKept
<1>1. IcfInv => FirstIsKept
  BY DEF IcfInv, FirstIsKept, FirstKept
<1> QED
  BY <1>1, IcfInvariant, PTL

(* fold_identical folds exactly the sections that cannot be told apart,    *)
(* into the first of them, for every input, every hash and every order of  *)
(* the parallel splits.                                                    *)
THEOREM IcfFoldingIsExact == IcfSpec => []FoldingIsExact
  BY IcfFoldingIsSound, IcfFoldingIsCoarsest, IcfFirstIsKept, PTL DEF FoldingIsExact

-----------------------------------------------------------------------------
(***************************************************************************)
(* The inductive invariant                                                 *)
(***************************************************************************)
PastJoin == {"icf", "folding", "index", "plan"} \cup Planned
Collected == {"copy", "passes"} \cup PastJoin

LinkTypeOK ==
  /\ link \in LinkInputs
  /\ stage \in {"sections", "relocatable", "place", "gc", "end"} \cup Collected
  /\ live \subseteq Sections
  /\ fold \in [Sections -> Sections]
  /\ DOMAIN flags = Symbols

(* The way to a stage: a relocatable link goes its own, and unwind records *)
(* are well formed behind the join of the passes.                          *)
Path ==
  /\ stage \in {"sections", "relocatable", "place", "gc"} => ran = {}
  /\ stage \in {"relocatable", "copy"} => Opt.kind = "relocatable"
  /\ stage \in {"place", "gc", "passes"} \cup (PastJoin \ {"after", "finish"}) =>
       Opt.kind # "relocatable"
  /\ stage = "passes" /\ "split" \in ran => WellFormed(link.frames) \/ "split" \in failed
  /\ stage \in PastJoin /\ Opt.kind # "relocatable" => WellFormed(link.frames)
  /\ stage = "icf" => Opt.icf # "none"
  /\ stage \notin {"index", "plan", "end"} \cup Planned => fold = [s \in Sections |-> s]

(* fold_identical runs in its stage only, on sections that are live.       *)
Folding ==
  /\ IcfInv
  /\ stage # "folding" => IcfIdle
  /\ stage = "folding" => \A s \in Sections : icf[s].foldable => s \in live

(* What refers to a section: relocations and unwind records of a section,  *)
(* and the symbols that are exported or named.                             *)
Refers(s, t) ==
  \/ Alloc(s) /\ t \in SectionTargets(s)
  \/ WellFormed(link.frames) /\ <<s, t>> \in EhGcEdges(link.frames)

Named(x) == "EXPORTED" \in flags[x] \/ link.sym[x].refDynamic \/ x \in InternalNames

InGroup(a, b) == link.sec[a].group = link.sec[b].group /\ link.sec[a].group # 0

(* The sections kept, as themselves or folded, are closed under it.        *)
KeptIsClosed ==
  /\ \A s \in Sections : Kept(s) => Candidate(s)
  /\ \A s, t \in Sections : Kept(s) /\ Candidate(t) /\ Refers(s, t) => Kept(t)
  /\ \A x \in Symbols : Named(x) => \A t \in TargetSection(x) : Candidate(t) => Kept(t)
  /\ \A a, b \in Sections :
       InGroup(a, b) /\ Candidate(a) /\ Candidate(b) => (Kept(a) <=> Kept(b))

Owned == {s \in Sections : link.sec[s].kind # "none" /\ link.sec[s].owned}

Gathered ==
  /\ \A s \in live : fold[s] = s
  /\ stage \in {"place", "relocatable"} => live = Owned
  /\ stage = "gc" => live = {s \in Sections : Candidate(s)}
  /\ stage \in Collected => KeptIsClosed
  /\ stage \in {"sections", "relocatable"} => flags = [x \in Symbols |-> {}]
  /\ stage = "sections" => live = {}

(* The unwind records are finalized from the sections that stay.           *)
Unwinding ==
  /\ stage \in Planned /\ Opt.kind # "relocatable" => eh = Finalize(link.frames, live)
  /\ stage = "plan" /\ "frames" \in ran => eh = Finalize(link.frames, live)

(* What may be reported with the output in place.                          *)
Late ==
  \/ status = "lto"
  \/ /\ status = "reported" /\ SeparateDebug /\ "debug" \notin out
     /\ Unappliable("debug") /\ ~Opt.compress

(* What was reported and put in place before each stage.                   *)
Outputs ==
  /\ errors \in Nat /\ hook \in {0, 1}
  /\ DOMAIN scan = Files
  /\ \A f \in Files : IsFiniteSet(scan[f].problems) /\ IsFiniteSet(scan[f].undefined)
  /\ stage \in {"relocatable", "copy"} \cup PastJoin => errors = 0 \/ Opt.noinhibit
  /\ "main" \in out => errors = 0 \/ Opt.noinhibit \/ Late
  /\ stage \notin {"finish", "end"} => "debug" \notin out
  /\ "main" \in out => stage \in {"after", "finish", "end"}
  /\ stage \in {"after", "finish"} => "main" \in out /\ MapFirst \subseteq out
  /\ stage = "finish" =>
       {"main", "map"} \cup (IF SeparateDebug THEN {"debug"} ELSE {}) \subseteq out
  /\ hook = 1 => /\ stage = "end" /\ status = "ok" /\ (errors = 0 \/ Opt.noinhibit)
                 /\ {"main", "map"} \cup (IF SeparateDebug THEN {"debug"} ELSE {}) \subseteq out
  /\ stage # "end" => status = "running"

(* Only FinishLink, with the hook, ends the link well.                     *)
Told == status = "ok" => hook = 1

LinkInv == LinkTypeOK /\ Path /\ Folding /\ Gathered /\ Unwinding /\ Outputs

-----------------------------------------------------------------------------
(***************************************************************************)
(* What depends on the inputs only                                         *)
(***************************************************************************)
LEMMA SameLink ==
  ASSUME UNCHANGED link
  PROVE  /\ Opt' = Opt /\ LinkMode' = LinkMode /\ Files' = Files
         /\ SeparateDebug' = SeparateDebug /\ MapFirst' = MapFirst
         /\ \A sort : Unappliable(sort)' = Unappliable(sort)
         /\ Owned' = Owned /\ InternalNames' = InternalNames
         /\ \A s : Candidate(s)' = Candidate(s) /\ Alloc(s)' = Alloc(s)
         /\ \A x : TargetSection(x)' = TargetSection(x)
         /\ \A s, t : Refers(s, t)' = Refers(s, t) /\ InGroup(s, t)' = InGroup(s, t)
<1>1. Opt' = Opt /\ LinkMode' = LinkMode /\ Files' = Files
  BY DEF Opt, LinkMode, Files
<1>2. SeparateDebug' = SeparateDebug /\ MapFirst' = MapFirst
  BY <1>1 DEF SeparateDebug, MapFirst
<1>3. Owned' = Owned /\ InternalNames' = InternalNames
  BY DEF Owned, InternalNames, Defsyms
<1>4. \A s : Candidate(s)' = Candidate(s) /\ Alloc(s)' = Alloc(s)
  BY DEF Candidate, Alloc
<1>5. \A x : TargetSection(x)' = TargetSection(x)
  BY DEF TargetSection
<1>6. \A s : SectionTargets(s)' = SectionTargets(s)
  BY <1>5 DEF SectionTargets, SecRelocs
<1>7. \A s, t : Refers(s, t)' = Refers(s, t) /\ InGroup(s, t)' = InGroup(s, t)
  BY <1>4, <1>6 DEF Refers, InGroup
<1>8. \A sort : Unappliable(sort)' = Unappliable(sort)
  BY DEF Unappliable
<1> QED
  BY <1>1, <1>2, <1>3, <1>4, <1>5, <1>7, <1>8

(* A step that keeps the same sections and exports no more symbols leaves  *)
(* the kept sections closed.                                               *)
LEMMA StillClosed ==
  ASSUME link \in LinkInputs, UNCHANGED link, KeptIsClosed,
         \A s \in Sections : Kept(s)' <=> Kept(s),
         \A x \in Symbols : "EXPORTED" \in flags'[x] => "EXPORTED" \in flags[x]
  PROVE  KeptIsClosed'
<1>1. \A x \in Symbols : Named(x)' => Named(x)
  BY SameLink DEF Named
<1>2. \A x \in Symbols : TargetSection(x) \subseteq Sections
  BY LinkAssumption DEF IsLink, TargetSection
<1>3. \A s \in Sections : Kept(s)' => Candidate(s)'
  BY SameLink DEF KeptIsClosed
<1>4. \A s, t \in Sections : Kept(s)' /\ Candidate(t)' /\ Refers(s, t)' => Kept(t)'
  BY SameLink DEF KeptIsClosed
<1>5. ASSUME NEW x \in Symbols, Named(x)', NEW t \in TargetSection(x), Candidate(t)
      PROVE  Kept(t)'
  BY <1>1, <1>2, <1>5 DEF KeptIsClosed
<1>6. \A x \in Symbols : Named(x)' => \A t \in TargetSection(x)' : Candidate(t)' => Kept(t)'
  BY <1>5, SameLink
<1>7. \A a, b \in Sections :
        InGroup(a, b)' /\ Candidate(a)' /\ Candidate(b)' => (Kept(a)' <=> Kept(b)')
  BY SameLink DEF KeptIsClosed
<1> QED
  BY <1>3, <1>4, <1>6, <1>7 DEF KeptIsClosed

-----------------------------------------------------------------------------
(***************************************************************************)
(* --gc-sections: the mark is closed under its edges                       *)
(***************************************************************************)
LEMMA ReachableClosed ==
  ASSUME NEW roots, NEW edges
  PROVE  /\ Reachable(roots, edges) \subseteq Sections
         /\ roots \cap Sections \subseteq Reachable(roots, edges)
         /\ \A e \in edges : e[1] \in Reachable(roots, edges) /\ e[2] \in Sections
                               => e[2] \in Reachable(roots, edges)
  BY DEF Reachable

LEMMA HasHighest ==
  ASSUME NEW S \in SUBSET Nat, S # {}, IsFiniteSet(S)
  PROVE  \E m \in S : \A y \in S : y <= m
<1> DEFINE High(T) == \E m \in T : \A y \in T : y <= m
           Bad(n) == \E T \in SUBSET Nat : /\ T # {} /\ IsFiniteSet(T) /\ Cardinality(T) = n
                                           /\ ~High(T)
           N == {n \in Nat : Bad(n)}
<1> SUFFICES ASSUME ~High(S) PROVE FALSE
  OBVIOUS
<1>1. Cardinality(S) \in N
  BY FS_CardinalityType
<1>2. PICK n \in N : \A k \in N : n <= k
  <2>1. N \in SUBSET Nat /\ N # {}
    BY <1>1
  <2>2. Lowest(N) \in N /\ \A k \in N : Lowest(N) <= k
    BY <2>1, LowestIsLeast
  <2> QED
    BY <2>2
<1>3. PICK T \in SUBSET Nat : T # {} /\ IsFiniteSet(T) /\ Cardinality(T) = n /\ ~High(T)
  BY <1>2
<1>4. PICK x \in T : TRUE
  BY <1>3
<1> DEFINE U == T \ {x}
<1>5. IsFiniteSet(U) /\ Cardinality(U) = n - 1 /\ U \in SUBSET Nat
  BY <1>3, <1>4, FS_RemoveElement
<1>6. n \in Nat /\ Cardinality(U) \in Nat
  BY <1>2, <1>5, FS_CardinalityType
<1>7. U # {} => High(U)
  <2>1. n - 1 \notin N
    BY <1>2, <1>6
  <2>2. ~Bad(n - 1)
    BY <1>5, <1>6, <2>1
  <2> QED
    BY <1>5, <2>2
<1>8. CASE U = {}
  <2>1. T = {x} /\ x \in Nat
    BY <1>3, <1>4, <1>8
  <2>2. High(T)
    BY <2>1
  <2> QED
    BY <1>3, <2>2
<1>9. CASE U # {}
  <2>1. PICK m \in U : \A y \in U : y <= m
    BY <1>7, <1>9
  <2>2. m \in T /\ m \in Nat /\ x \in Nat /\ T \subseteq Nat
    BY <1>3, <1>4, <2>1
  <2>3. CASE x <= m
    <3>1. \A y \in T : y <= m
      BY <2>1, <2>3
    <3> QED
      BY <1>3, <2>2, <3>1
  <2>4. CASE ~(x <= m)
    <3>1. \A y \in T : y <= x
      BY <2>1, <2>2, <2>4
    <3> QED
      BY <1>3, <1>4, <3>1
  <2> QED
    BY <2>3, <2>4
<1> QED
  BY <1>8, <1>9

LEMMA TwoElements ==
  ASSUME NEW S, IsFiniteSet(S), NEW x \in S, NEW y \in S, x # y
  PROVE  Cardinality(S) \in Nat /\ Cardinality(S) >= 2
<1>1. IsFiniteSet(S \ {x}) /\ Cardinality(S \ {x}) = Cardinality(S) - 1
  BY FS_RemoveElement
<1>2. S \ {x} # {}
  OBVIOUS
<1>3. Cardinality(S \ {x}) # 0
  BY <1>1, <1>2, FS_EmptySet
<1>4. Cardinality(S \ {x}) \in Nat /\ Cardinality(S) \in Nat
  BY <1>1, FS_CardinalityType
<1> QED
  BY <1>1, <1>3, <1>4

(* The ring of a group leads from any member to all of them. *)
LEMMA RingIsClosed ==
  ASSUME NEW S \in SUBSET Nat, IsFiniteSet(S), NEW g, NEW R, NEW a \in S, a \in R,
         \A e \in GroupEdges(g, S) : e[1] \in R => e[2] \in R
  PROVE  S \subseteq R
<1>1. ASSUME NEW b \in S, b \in R, NEW c \in S, b <= c, c \notin R PROVE FALSE
  <2> DEFINE Missed == {y \in S : b <= y /\ y \notin R}
  <2>1. Missed \in SUBSET Nat /\ Missed # {}
    BY <1>1
  <2>2. PICK m \in Missed : \A y \in Missed : m <= y
    BY <2>1, LowestIsLeast
  <2> DEFINE Before == {y \in S : b <= y /\ y < m}
  <2>3. Before \in SUBSET Nat /\ b \in Before /\ IsFiniteSet(Before)
    <3>1. b # m /\ b \in Nat /\ m \in Nat
      BY <1>1, <2>2
    <3>2. b \in Before
      BY <1>1, <2>2, <3>1
    <3>3. IsFiniteSet(Before)
      BY FS_Subset
    <3> QED
      BY <3>2, <3>3
  <2>4. PICK p \in Before : \A y \in Before : y <= p
    BY <2>3, HasHighest
  <2>5. p \in S /\ m \in S /\ p < m /\ p \in R /\ p \in Nat /\ m \in Nat /\ b \in Nat
    BY <2>2, <2>4
  <2>6. ~\E x \in S : p < x /\ x < m
    BY <2>4, <2>5
  <2>7. Cardinality(S) >= 2
    BY <2>5, TwoElements
  <2>8. <<p, m>> \in GroupEdges(g, S)
    <3>1. <<p, m>> \in S \X S /\ <<p, m>>[1] = p /\ <<p, m>>[2] = m
      BY <2>5
    <3>2. Cardinality(S) \in Nat /\ ~(Cardinality(S) < 2)
      BY <2>7, FS_CardinalityType
    <3> QED
      BY <2>5, <2>6, <3>1, <3>2 DEF GroupEdges
  <2>9. <<p, m>>[1] \in R => <<p, m>>[2] \in R
    BY <2>8
  <2>10. m \in R
    BY <2>5, <2>9
  <2> QED
    BY <2>2, <2>10
<1>2. SUFFICES ASSUME NEW c \in S, c \notin R PROVE FALSE
  OBVIOUS
<1>3. PICK h \in S : \A y \in S : y <= h
  BY HasHighest
<1>4. h \in R
  BY <1>1, <1>3
<1> DEFINE Top == {x \in S : \A y \in S : y <= x}
<1>5. Lowest(Top) = h
  <2>1. \A x \in Top : x = h
    BY <1>3
  <2>2. h \in Top
    BY <1>3
  <2>3. Lowest(Top) \in Top
    BY <2>2, LowestIsLeast
  <2> QED
    BY <2>1, <2>3
<1>6. Lowest(S) \in S /\ \A y \in S : Lowest(S) <= y
  BY LowestIsLeast
<1>7. CASE Cardinality(S) < 2
  BY <1>2, <1>7, TwoElements, FS_CardinalityType
<1>8. CASE ~(Cardinality(S) < 2)
  <2> DEFINE low == Lowest(S)
  <2>1. <<h, low>> \in S \X S /\ <<h, low>>[1] = h /\ <<h, low>>[2] = low
    BY <1>3, <1>6
  <2>2. <<h, low>> \in GroupEdges(g, S)
    BY <1>5, <1>8, <2>1 DEF GroupEdges
  <2>3. <<h, low>>[1] \in R => <<h, low>>[2] \in R
    BY <2>2
  <2>4. low \in R
    BY <1>4, <2>1, <2>3
  <2> QED
    BY <1>1, <1>2, <1>6, <2>4
<1> QED
  BY <1>7, <1>8

(* What is reached from the roots is closed under all that keeps sections. *)
LEMMA MarkIsClosed ==
  ASSUME link \in LinkInputs, live \subseteq Sections, WellFormed(link.frames), NEW R,
         R = Reachable(GcRoots(flags), GcEdges)
  PROVE  /\ \A s \in R, t \in Sections : Refers(s, t) => t \in R
         /\ \A x \in Symbols : Named(x) => TargetSection(x) \subseteq R
         /\ \A a, b \in live : InGroup(a, b) /\ a \in R => b \in R
<1> DEFINE Placed(x) == {x} \X SectionTargets(x)
           Relocating == UNION {Placed(s) : s \in {x \in Sections : Alloc(x)}}
           Unwinds == EhGcEdges(link.frames)
           Orders == {<<link.sec[s].order, s>> : s \in {x \in Sections : link.sec[x].order # 0}}
           Ring(g) == GroupEdges(g, GroupMembers(g))
           Rings == UNION {Ring(g) : g \in {link.sec[s].group : s \in Sections} \ {0}}
           Seen == {y \in Symbols : "EXPORTED" \in flags[y] \/ link.sym[y].refDynamic}
<1>a. GcEdges = Relocating \cup Unwinds \cup Orders \cup Rings
  BY DEF GcEdges
<1>b. /\ \A x \in Seen : TargetSection(x) \subseteq GcRoots(flags)
      /\ \A x \in InternalNames : TargetSection(x) \subseteq GcRoots(flags)
  BY DEF GcRoots
<1>1. /\ R \subseteq Sections /\ GcRoots(flags) \cap Sections \subseteq R
      /\ \A e \in GcEdges : e[1] \in R /\ e[2] \in Sections => e[2] \in R
  BY ReachableClosed
<1>2. ASSUME NEW s \in R, NEW t \in Sections, Refers(s, t) PROVE t \in R
  <2>1. <<s, t>> \in GcEdges
    <3>1. CASE Alloc(s) /\ t \in SectionTargets(s)
      <4>1. s \in {x \in Sections : Alloc(x)} /\ <<s, t>> \in {s} \X SectionTargets(s)
        BY <1>1, <3>1
      <4>2. <<s, t>> \in Relocating
        BY <4>1
      <4> QED
        BY <1>a, <4>2, Zenon
    <3>2. CASE <<s, t>> \in EhGcEdges(link.frames)
      BY <1>a, <3>2, Zenon
    <3> QED
      BY <1>2, <3>1, <3>2 DEF Refers
  <2>2. <<s, t>>[1] \in R /\ <<s, t>>[2] \in Sections => <<s, t>>[2] \in R
    BY <1>1, <2>1
  <2> QED
    BY <2>2
<1>3. ASSUME NEW x \in Symbols, Named(x) PROVE TargetSection(x) \subseteq R
  <2>1. TargetSection(x) \subseteq Sections
    BY LinkAssumption DEF IsLink, TargetSection
  <2>2. TargetSection(x) \subseteq GcRoots(flags)
    BY <1>3, <1>b DEF Named
  <2> QED
    BY <1>1, <2>1, <2>2
<1>4. ASSUME NEW a \in live, NEW b \in live, InGroup(a, b), a \in R PROVE b \in R
  <2> DEFINE g == link.sec[a].group
             S == GroupMembers(g)
  <2>1. S \in SUBSET Nat /\ IsFiniteSet(S) /\ a \in S /\ b \in S /\ S \subseteq Sections
    <3>1. S \in SUBSET Sections /\ a \in S /\ b \in S
      BY <1>4 DEF GroupMembers, InGroup
    <3> QED
      BY <3>1, IcfAssumption, FS_Subset DEF IcfAssumption
  <2>2. GroupEdges(g, S) \subseteq GcEdges
    <3>1. g \in {link.sec[s].group : s \in Sections} \ {0}
      BY <1>4 DEF InGroup
    <3>2. Ring(g) \subseteq Rings
      BY <3>1
    <3> QED
      BY <1>a, <3>2, Zenon
  <2>3. GroupEdges(g, S) \subseteq S \X S
    BY DEF GroupEdges
  <2>4. \A e \in GroupEdges(g, S) : e[1] \in R => e[2] \in R
    <3>1. \A e \in S \X S : e[2] \in Sections
      BY <2>1
    <3> QED
      BY <1>1, <2>2, <2>3, <3>1
  <2>5. S \subseteq R
    BY <1>4, <2>1, <2>4, RingIsClosed
  <2> QED
    BY <2>1, <2>5
<1> QED
  BY <1>2, <1>3, <1>4

-----------------------------------------------------------------------------
(***************************************************************************)
(* The scan: relocations never export a symbol, and are finitely many      *)
(***************************************************************************)
LEMMA DecideExportsNothing ==
  ASSUME NEW ctx, NEW type \in RelocTypes, NEW t, NEW fl, NEW writable
  PROVE  "EXPORTED" \notin Decide(ctx, type, t, fl, writable).flags
<1> DEFINE m     == ctx.mode
           p     == Props(t, fl)
           tls   == TlsMode(m, p)
           ld    == IF m.shared THEN "dynamic" ELSE "local_exec"
           rg    == RelaxGot(m, ctx.relax, p)
           class1 == Classify(type, rg, tls, ld)
           slot  == IF class1.kind \in {"gd_ie", "desc_ie"} THEN "GOTTPOFF" ELSE class1.slot
           arm   == CASE class1.kind = "abs" -> IF m.dynamic THEN DecideAbs(ctx, type, p, writable)
                                                             ELSE Needs({})
                      [] class1.kind = "pc"  -> DecidePc(ctx, type, p)
                      [] class1.kind = "tpoff" /\ m.dynamic /\ (m.shared \/ p.preemptible) ->
                           Problem("tls")
                      [] OTHER -> Needs({})
           Slots == {"none", "GOT", "TLSGD", "TLSLD", "GOTTPOFF", "TLSDESC"}
           Wants == {"PLT", "CANONICAL", "COPY", "DYNSYM"}
<1>1. tls \in {"local_exec", "dynamic", "initial_exec"}
  BY DEF TlsMode
<1>2. class1.slot \in Slots
  <2> HIDE DEF tls, ld, rg
  <2> QED
    BY <1>1 DEF Classify, Class, Plain, Slot, RelocTypes
<1>3. \A s \in SUBSET Wants : Needs(s).flags \subseteq Wants
  BY DEF Needs
<1>4. \A k : Problem(k).flags \subseteq Wants
  BY DEF Problem
<1>5. DirectReference(ctx, p).flags \subseteq Wants
  <2> HIDE DEF p
  <2> QED
    BY DEF DirectReference, Needs, Problem
<1>6. DecideAbs(ctx, type, p, writable).flags \subseteq Wants
  <2> HIDE DEF p
  <2> QED
    BY <1>5 DEF DecideAbs, Needs, Problem, Dynamic
<1>7. DecidePc(ctx, type, p).flags \subseteq Wants
  <2> HIDE DEF p
  <2> QED
    BY <1>5 DEF DecidePc, Needs
<1>8. arm.flags \subseteq Wants
  <2> HIDE DEF p, class1
  <2> QED
    BY <1>3, <1>4, <1>6, <1>7
<1>9. slot \in Slots
  BY <1>2
<1>10. Decide(ctx, type, t, fl, writable).flags =
         arm.flags \cup (IF slot \notin {"none", "TLSLD"} THEN {slot} ELSE {})
                   \cup (IF p.localIfunc THEN {"IPLT"} ELSE {})
  BY DEF Decide
<1> HIDE DEF arm, slot, p
<1> QED
  BY <1>8, <1>9, <1>10

LEMMA DecisionsTyped ==
  ASSUME link \in LinkInputs, NEW S \in SUBSET Sections, NEW fl, NEW y \in Decided(S, fl)
  PROVE  "EXPORTED" \notin y.d.flags
<1>1. y \in DecisionsOf(S, fl)
  BY DEF Decided, WithoutSwallowed
<1>2. PICK p \in Positions(S) :
        y.d = Decide(Context, SecRelocs(p[1])[p[2]].type, Target(SecRelocs(p[1])[p[2]].sym),
                     fl[SecRelocs(p[1])[p[2]].sym], link.sec[p[1]].kind = "data")
  BY <1>1 DEF DecisionsOf
<1>3. p[1] \in Sections /\ p[2] \in DOMAIN SecRelocs(p[1])
  BY <1>2 DEF Positions
<1>4. SecRelocs(p[1]) \in Seq(LinkReloc)
  BY <1>3, LinkAssumption DEF IsLink, SecRelocs
<1>5. SecRelocs(p[1])[p[2]] \in LinkReloc
  BY <1>3, <1>4
<1>6. SecRelocs(p[1])[p[2]].type \in RelocTypes
  BY <1>5 DEF LinkReloc
<1> QED
  BY <1>2, <1>6, DecideExportsNothing

LEMMA ScanExportsNothing ==
  ASSUME link \in LinkInputs, NEW S \in SUBSET Sections, NEW fl, NEW x
  PROVE  "EXPORTED" \notin FlagsFrom(Decided(S, fl), x)
<1> DEFINE D == Decided(S, fl)
<1>1. \A y \in D : "EXPORTED" \notin y.d.flags
  BY DecisionsTyped
<1> HIDE DEF D
<1>2. "EXPORTED" \notin FlagsFrom(D, x)
  BY <1>1 DEF FlagsFrom, Fine
<1> QED
  BY <1>2 DEF D

LEMMA FiniteImage ==
  ASSUME NEW S, IsFiniteSet(S), NEW f, DOMAIN f = S
  PROVE  IsFiniteSet({f[x] : x \in S})
<1> DEFINE T == {f[x] : x \in S}
           g == [x \in S |-> f[x]]
<1>1. g \in Surjection(S, T)
  BY DEF Surjection
<1> QED
  BY <1>1, FS_Surjection

LEMMA DecidedFinite ==
  ASSUME link \in LinkInputs, NEW S \in SUBSET Sections, NEW fl
  PROVE  IsFiniteSet(Decided(S, fl))
<1>1. IsFiniteSet(S)
  BY IcfAssumption, FS_Subset DEF IcfAssumption
<1> DEFINE of == [s \in S |-> {s} \X DOMAIN SecRelocs(s)]
<1>2. ASSUME NEW s \in S PROVE IsFiniteSet(of[s])
  <2>1. SecRelocs(s) \in Seq(LinkReloc)
    BY LinkAssumption DEF IsLink, SecRelocs
  <2>2. DOMAIN SecRelocs(s) = 1..Len(SecRelocs(s)) /\ Len(SecRelocs(s)) \in Nat
    BY <2>1
  <2>3. IsFiniteSet(DOMAIN SecRelocs(s))
    BY <2>2, FS_Interval
  <2> DEFINE h == [i \in DOMAIN SecRelocs(s) |-> <<s, i>>]
  <2>4. IsFiniteSet({h[i] : i \in DOMAIN SecRelocs(s)})
    BY <2>3, FiniteImage
  <2>5. of[s] = {h[i] : i \in DOMAIN SecRelocs(s)}
    OBVIOUS
  <2> QED
    BY <2>4, <2>5
<1>3. IsFiniteSet({of[s] : s \in S})
  <2>1. DOMAIN of = S
    OBVIOUS
  <2> HIDE DEF of
  <2> QED
    BY <1>1, <2>1, FiniteImage
<1>4. Positions(S) = UNION {of[s] : s \in S}
  BY DEF Positions
<1>5. IsFiniteSet(Positions(S))
  <2>1. \A T \in {of[s] : s \in S} : IsFiniteSet(T)
    BY <1>2
  <2> HIDE DEF of
  <2> QED
    BY <1>3, <1>4, <2>1, FS_UNION
<1> DEFINE dec == [p \in Positions(S) |->
                     LET r == SecRelocs(p[1])[p[2]] IN
                     [sec |-> p[1], at |-> p[2], sym |-> r.sym, type |-> r.type, even |-> r.even,
                      d |-> Decide(Context, r.type, Target(r.sym), fl[r.sym],
                                   link.sec[p[1]].kind = "data")]]
<1>6. DecisionsOf(S, fl) = {dec[p] : p \in Positions(S)}
  BY DEF DecisionsOf
<1>7. IsFiniteSet(DecisionsOf(S, fl))
  <2>1. DOMAIN dec = Positions(S)
    OBVIOUS
  <2> HIDE DEF dec
  <2> QED
    BY <1>5, <1>6, <2>1, FiniteImage
<1>8. Decided(S, fl) \in SUBSET DecisionsOf(S, fl)
  BY DEF Decided, WithoutSwallowed
<1> QED
  BY <1>7, <1>8, FS_Subset

LEMMA ScanFinite ==
  ASSUME NEW D, IsFiniteSet(D)
  PROVE  IsFiniteSet(FileScan(D).problems) /\ IsFiniteSet(FileScan(D).undefined)
<1> DEFINE P == D \ Fine(D)
           U == {y \in D : /\ y.type # "NONE" /\ link.sym[y.sym].global
                           /\ link.sym[y.sym].def = "undefined"}
           w == [x \in P |-> <<x.sec, x.at>>]
           u == [x \in U |-> x.sym]
<1>1. IsFiniteSet(P) /\ IsFiniteSet(U)
  BY FS_Subset
<1>2. FileScan(D).problems = {w[x] : x \in P} /\ FileScan(D).undefined = {u[x] : x \in U}
  BY DEF FileScan, Where
<1>3. IsFiniteSet({w[x] : x \in P}) /\ IsFiniteSet({u[x] : x \in U})
  <2>1. DOMAIN w = P /\ DOMAIN u = U
    OBVIOUS
  <2> HIDE DEF w, u, P, U
  <2> QED
    BY <1>1, <2>1, FiniteImage
<1> QED
  BY <1>2, <1>3

LEMMA ScanErrorsNat ==
  ASSUME \A f \in Files : IsFiniteSet(scan[f].problems) /\ IsFiniteSet(scan[f].undefined)
  PROVE  ScanErrors \in Nat
<1> DEFINE file == [s \in Sections |-> link.sec[s].file]
           probs == [f \in Files |-> scan[f].problems]
           undef == [f \in Files |-> scan[f].undefined]
<1>1. IsFiniteSet(Files)
  <2>1. Files = {file[s] : s \in Sections} /\ DOMAIN file = Sections
    BY DEF Files
  <2> HIDE DEF file
  <2> QED
    BY <2>1, IcfAssumption, FiniteImage DEF IcfAssumption
<1>2. IsFiniteSet(UNION {probs[f] : f \in Files}) /\ IsFiniteSet(UNION {undef[f] : f \in Files})
  <2>1. DOMAIN probs = Files /\ DOMAIN undef = Files
    OBVIOUS
  <2>2. /\ \A T \in {probs[f] : f \in Files} : IsFiniteSet(T)
        /\ \A T \in {undef[f] : f \in Files} : IsFiniteSet(T)
    OBVIOUS
  <2> HIDE DEF probs, undef
  <2>3. IsFiniteSet({probs[f] : f \in Files}) /\ IsFiniteSet({undef[f] : f \in Files})
    BY <1>1, <2>1, FiniteImage
  <2> QED
    BY <2>2, <2>3, FS_UNION
<1>3. /\ OverFiles(LAMBDA f : scan[f].problems) = UNION {probs[f] : f \in Files}
      /\ UNION {scan[f].undefined : f \in Files} = UNION {undef[f] : f \in Files}
  BY DEF OverFiles
<1>4. /\ Cardinality(OverFiles(LAMBDA f : scan[f].problems)) \in Nat
      /\ Cardinality(UNION {scan[f].undefined : f \in Files}) \in Nat
  BY <1>2, <1>3, FS_CardinalityType
<1> QED
  BY <1>4 DEF ScanErrors

-----------------------------------------------------------------------------
(***************************************************************************)
(* Unwind records                                                          *)
(***************************************************************************)
LEMMA FirstIsMember ==
  ASSUME NEW S \in SUBSET (Nat \X Nat), S # {}
  PROVE  First(S) \in S
<1> DEFINE I == {x[1] : x \in S}
           i == Lowest(I)
           J == {x[2] : x \in {y \in S : y[1] = i}}
           j == Lowest(J)
<1>1. \A x \in S : x = <<x[1], x[2]>> /\ x[1] \in Nat /\ x[2] \in Nat
  OBVIOUS
<1>2. I \in SUBSET Nat /\ I # {}
  BY <1>1
<1>3. i \in I /\ \A k \in I : i <= k
  BY <1>2, LowestIsLeast
<1>4. J \in SUBSET Nat /\ J # {}
  BY <1>1, <1>3
<1>5. j \in J /\ \A k \in J : j <= k
  BY <1>4, LowestIsLeast
<1> HIDE DEF i, j
<1>6. PICK f \in S : f[1] = i /\ f[2] = j
  BY <1>5
<1>7. ASSUME NEW y \in S \ {f} PROVE Earlier(f, y)
  <2>1. y[1] \in I /\ i <= y[1] /\ i \in Nat /\ y[1] \in Nat /\ y[2] \in Nat /\ j \in Nat
    BY <1>1, <1>2, <1>3, <1>4, <1>5
  <2>2. CASE y[1] = i
    <3>1. y[2] \in J /\ j <= y[2]
      BY <1>5, <2>2
    <3>2. y[2] # j
      BY <1>1, <1>6, <1>7, <2>2
    <3> QED
      BY <1>6, <2>1, <2>2, <3>1, <3>2 DEF Earlier
  <2>3. CASE y[1] # i
    BY <1>6, <2>1, <2>3 DEF Earlier
  <2> QED
    BY <2>2, <2>3
<1>8. \E x \in S : \A y \in S \ {x} : Earlier(x, y)
  BY <1>6, <1>7
<1> QED
  BY <1>8 DEF First

(* With the records of live functions finalized and what they need kept,   *)
(* the records in the output agree with the sections in it.                *)
LEMMA UnwindAgrees ==
  ASSUME link \in LinkInputs, live \subseteq Sections, WellFormed(link.frames),
         eh = Finalize(link.frames, live), KeptIsClosed, \A s \in live : fold[s] = s,
         NEW x \in Fdes(link.frames), eh[x].live, NEW cie, cie = CieOf(link.frames, eh, x)
  PROVE  /\ Rec(link.frames, x).pc \in live
         /\ eh[cie].live
         /\ Rec(link.frames, cie).key = Rec(link.frames, CiePosition(link.frames, x)).key
         /\ \A t \in Rec(link.frames, x).needs \cup Rec(link.frames, cie).needs :
              Candidate(t) => Kept(t)
<1> DEFINE frames == link.frames
           c == CiePosition(frames, x)
           Same(r) == {y \in RecordsOf(frames) : /\ IsCie(Rec(frames, y)) /\ Used(frames, live, y)
                                                 /\ Rec(frames, y).key = Rec(frames, r).key}
<1>1. \A r \in RecordsOf(frames) : eh[r].live = RecordKept(frames, live, r)
  BY DEF Finalize
<1>2. /\ x \in RecordsOf(frames) /\ ~IsCie(Rec(frames, x))
      /\ c \in RecordsOf(frames) /\ IsCie(Rec(frames, c))
  BY DEF Fdes, WellFormed
<1>3. Used(frames, live, x)
  BY <1>1, <1>2 DEF RecordKept
<1>4. Rec(frames, x).pc \in live
  BY <1>2, <1>3 DEF Used
<1>5. Used(frames, live, c)
  BY <1>2, <1>4 DEF Used
<1>6. cie = Canonical(frames, live, c)
  <2>1. eh[c].canonical = IF IsCie(Rec(frames, c)) /\ Used(frames, live, c)
                            THEN Canonical(frames, live, c) ELSE c
    BY <1>2 DEF Finalize
  <2> QED
    BY <1>2, <1>5, <2>1 DEF CieOf
<1>7. \A r : Canonical(frames, live, r) = First(Same(r))
  BY DEF Canonical
<1>8. c \in Same(c) /\ Same(c) \in SUBSET (Nat \X Nat)
  BY <1>2, <1>5, LinkAssumption DEF IsLink
<1>9. cie \in Same(c)
  <2>1. Same(c) # {}
    BY <1>8
  <2> HIDE DEF Same, c, frames
  <2>2. First(Same(c)) \in Same(c)
    BY <1>8, <2>1, FirstIsMember
  <2> QED
    BY <1>6, <1>7, <2>2
<1>10. Same(cie) = Same(c)
  BY <1>9
<1>11. RecordKept(frames, live, cie)
  BY <1>6, <1>7, <1>9, <1>10 DEF RecordKept
<1>12. eh[cie].live
  BY <1>1, <1>9, <1>11
<1>13. ASSUME NEW z \in Fdes(frames), Rec(frames, z).pc \in live,
              NEW t \in Rec(frames, z).needs \cup Rec(frames, CiePosition(frames, z)).needs,
              Candidate(t)
       PROVE  Kept(t)
  <2> DEFINE s == Rec(frames, z).pc
  <2>1. z \in RecordsOf(frames) /\ CiePosition(frames, z) \in RecordsOf(frames)
    BY DEF Fdes, WellFormed
  <2>2. t \in Sections
    BY <1>13, <2>1, LinkAssumption DEF IsLink
  <2>3. <<s, t>> \in EhGcEdges(frames)
    BY <1>13 DEF EhGcEdges
  <2>4. Refers(s, t) /\ s \in Sections /\ Kept(s)
    BY <1>13, <2>3 DEF Refers, Kept
  <2> QED
    BY <1>13, <2>2, <2>4 DEF KeptIsClosed
<1>14. PICK z \in Fdes(frames) : CiePosition(frames, z) = cie /\ Rec(frames, z).pc \in live
  BY <1>9 DEF Used
<1>15. \A t \in Rec(frames, cie).needs : Candidate(t) => Kept(t)
  BY <1>13, <1>14
<1>16. \A t \in Rec(frames, x).needs : Candidate(t) => Kept(t)
  BY <1>4, <1>13
<1> QED
  BY <1>4, <1>9, <1>12, <1>15, <1>16

-----------------------------------------------------------------------------
(***************************************************************************)
(* Folding                                                                 *)
(***************************************************************************)
LEMMA IdleStepInv ==
  ASSUME icf' \in [Sections -> IcfSection], mode' \in {"all", "safe"}, IcfIdle'
  PROVE  IcfInv'
<1>1. IcfTypeOK'
  BY DEF IcfIdle, IcfTypeOK
<1>2. \A s \in Sections : class'[s] = s /\ s \in Nat
  BY IcfAssumption DEF IcfIdle, IcfAssumption
<1>3. ConstantSound(class)' /\ FirstKept(class)'
  BY <1>2 DEF ConstantSound, FirstKept
<1> QED
  BY <1>1, <1>3 DEF IcfInv, IcfIdle

LEMMA InputsTyped ==
  ASSUME link \in LinkInputs
  PROVE  [s \in Sections |-> IcfInputOf(s)] \in [Sections -> IcfSection]
<1> SUFFICES ASSUME NEW s \in Sections PROVE IcfInputOf(s) \in IcfSection
  OBVIOUS
<1>1. ASSUME NEW r \in LinkReloc PROVE IcfRelocOf(r) \in IcfReloc
  <2> DEFINE d == link.sym[r.sym]
             inSection == d.def = "section" /\ ~(d.type = "ifunc" /\ d.global)
             name == IF inSection THEN "section" ELSE r.sym
             target == IF inSection THEN d.sec ELSE Outside
  <2>1. r.type \in RelocTypes /\ r.sym \in Symbols
    BY DEF LinkReloc
  <2>2. target \in Sections \cup {Outside}
    BY <2>1, LinkAssumption DEF IsLink
  <2>3. <<r.type, name>> \in Shapes
    <3>1. <<r.type, name>> \in RelocTypes \X (Symbols \cup {"section"})
      BY <2>1
    <3> QED
      BY <3>1, LinkAssumption
  <2>4. IcfRelocOf(r) = [shape |-> <<r.type, name>>, target |-> target]
    BY DEF IcfRelocOf
  <2> HIDE DEF name, target
  <2> QED
    BY <2>2, <2>3, <2>4 DEF IcfReloc
<1> DEFINE rel == IF Foldable(s)
                    THEN [i \in DOMAIN SecRelocs(s) |-> IcfRelocOf(SecRelocs(s)[i])] ELSE <<>>
           key == IF Foldable(s) THEN <<link.sec[s].kind, link.sec[s].contents>> ELSE <<>>
<1>2. rel \in Seq(IcfReloc)
  <2>1. SecRelocs(s) \in Seq(LinkReloc)
    BY LinkAssumption DEF IsLink, SecRelocs
  <2>2. /\ DOMAIN SecRelocs(s) = 1..Len(SecRelocs(s)) /\ Len(SecRelocs(s)) \in Nat
        /\ \A i \in DOMAIN SecRelocs(s) : SecRelocs(s)[i] \in LinkReloc
    BY <2>1
  <2> DEFINE q == [i \in DOMAIN SecRelocs(s) |-> IcfRelocOf(SecRelocs(s)[i])]
  <2>3. q \in [1..Len(SecRelocs(s)) -> IcfReloc]
    BY <1>1, <2>2
  <2>4. q \in Seq(IcfReloc)
    BY <2>2, <2>3
  <2> QED
    BY <2>4
<1>3. key \in Keys
  BY LinkAssumption DEF IsLink, Foldable
<1>4. Foldable(s) \in BOOLEAN /\ Significant(s) \in BOOLEAN
  BY DEF Foldable, Significant
<1>5. IcfInputOf(s) = [key |-> key, foldable |-> Foldable(s), significant |-> Significant(s),
                       relocs |-> rel]
  BY DEF IcfInputOf
<1> HIDE DEF key, rel
<1> QED
  BY <1>2, <1>3, <1>4, <1>5 DEF IcfSection

(* Folding takes no section out of those kept: the leader of a class is    *)
(* live, as all that folds is.                                             *)
LEMMA FoldedStaysKept ==
  ASSUME IcfInv, live \subseteq Sections, fold = [s \in Sections |-> s],
         \A s \in Sections : icf[s].foldable => s \in live,
         fold' = class, live' = {s \in live : class[s] = s}
  PROVE  /\ \A s \in Sections : Kept(s)' <=> Kept(s)
         /\ \A s \in live' : fold'[s] = s
<1>1. class \in [Sections -> Sections] /\ ConstantSound(class) /\ FirstKept(class)
  BY DEF IcfInv, IcfTypeOK
<1>2. ASSUME NEW s \in Sections, class[s] # s PROVE s \in live /\ class[s] \in live
  <2>1. class[s] \in Sections /\ class[class[s]] = class[s]
    BY <1>1 DEF FirstKept
  <2>2. s \in Eligible /\ class[s] \in Eligible
    BY <1>1, <1>2, <2>1 DEF ConstantSound
  <2> QED
    BY <2>2 DEF Eligible
<1>3. ASSUME NEW s \in Sections PROVE Kept(s)' <=> Kept(s)
  <2>1. class[s] \in Sections /\ class[class[s]] = class[s]
    BY <1>1 DEF FirstKept
  <2>2. Kept(s)' <=> class[s] \in live
    BY <2>1 DEF Kept
  <2>3. Kept(s) <=> s \in live
    BY DEF Kept
  <2> QED
    BY <1>2, <2>2, <2>3
<1> QED
  BY <1>3

-----------------------------------------------------------------------------
(***************************************************************************)
(* The invariant is inductive                                              *)
(***************************************************************************)
LEMMA LinkInitInv == ASSUME Init PROVE LinkInv
<1>1. LinkTypeOK /\ Path /\ Gathered /\ Unwinding
  BY DEF Init, LinkTypeOK, Path, Gathered, Unwinding, Collected, PastJoin, Planned
<1>2. Folding
  <2>1. \A s \in Sections :
          [key |-> <<>>, foldable |-> FALSE, significant |-> FALSE, relocs |-> <<>>] \in IcfSection
    BY LinkAssumption DEF IcfSection
  <2>2. icf \in [Sections -> IcfSection]
    BY <2>1 DEF Init
  <2>3. IcfInit
    BY <2>2 DEF Init, IcfIdle, IcfInit
  <2> QED
    BY <2>3, IcfAssumption, IcfInitInv DEF Folding, Init
<1>3. Outputs
  <2>1. DOMAIN scan = Files /\ \A f \in Files : scan[f].problems = {} /\ scan[f].undefined = {}
    BY DEF Init, NoScan
  <2>2. IsFiniteSet({})
    BY FS_EmptySet
  <2>3. \A f \in Files : IsFiniteSet(scan[f].problems) /\ IsFiniteSet(scan[f].undefined)
    BY <2>1, <2>2, Zenon
  <2>4. errors = 0 /\ hook = 0 /\ out = {} /\ stage = "sections" /\ status = "running"
    BY DEF Init
  <2> QED
    BY <2>1, <2>3, <2>4 DEF Outputs, PastJoin, Planned
<1> QED
  BY <1>1, <1>2, <1>3 DEF LinkInv

(* A step that neither adds nor drops sections, nor exports a symbol. *)
LEMMA QuietGathered ==
  ASSUME LinkInv, UNCHANGED <<link, live, fold>>, stage \in Collected,
         stage' \in Collected \cup {"end"},
         \A x \in Symbols : "EXPORTED" \in flags'[x] => "EXPORTED" \in flags[x]
  PROVE  Gathered'
<1>1. \A s \in Sections : Kept(s)' <=> Kept(s)
  BY DEF Kept
<1>2. KeptIsClosed'
  BY <1>1, StillClosed DEF LinkInv, LinkTypeOK, Gathered
<1> QED
  BY <1>2 DEF LinkInv, Gathered, Collected, PastJoin, Planned

LEMMA QuietFolding ==
  ASSUME LinkInv, UNCHANGED icfVars, stage # "folding", stage' # "folding"
  PROVE  Folding'
<1>1. IcfInv'
  BY IcfStutterInv DEF LinkInv, Folding
<1>2. IcfIdle'
  BY DEF LinkInv, Folding, IcfIdle, icfVars
<1> QED
  BY <1>1, <1>2 DEF Folding

LEMMA CopySectionsInv == ASSUME LinkInv, CopySections PROVE LinkInv'
<1> USE DEF LinkInv
<1>1. /\ stage = "copy" /\ stage' \in {"after", "end"}
      /\ stage' = "after" => out' = out \cup {"main"} /\ status' = status
      /\ stage' = "end" => out' = out /\ status' = "io"
      /\ UNCHANGED <<link, live, fold, flags, ran, failed, scan, eh, synth, relr, errors, hook,
                     cancel, icfVars>>
  BY DEF CopySections, End
<1>2. Opt.kind = "relocatable"
  BY <1>1 DEF Path
<1>3. LinkTypeOK' /\ Path' /\ Unwinding'
  BY <1>1, <1>2, SameLink DEF LinkTypeOK, Path, Unwinding, Collected, PastJoin, Planned
<1>4. Gathered'
  BY <1>1, QuietGathered DEF Collected, PastJoin, Planned
<1>5. Folding'
  BY <1>1, QuietFolding
<1>6. Outputs'
  BY <1>1, <1>2, SameLink DEF Outputs, PastJoin, Planned, MapFirst, SeparateDebug
<1> QED
  BY <1>3, <1>4, <1>5, <1>6

LEMMA NumberSectionsInv == ASSUME LinkInv, NumberSections PROVE LinkInv'
<1> USE DEF LinkInv
<1>1. /\ stage = "sections" /\ stage' \in {"place", "relocatable", "end"}
      /\ stage' = "place" => Opt.kind # "relocatable"
      /\ stage' = "relocatable" => /\ Opt.kind = "relocatable"
                                   /\ ~Inhibited(link.duplicates)
      /\ stage' # "end" => live' = Owned /\ errors' = link.duplicates /\ status' = status
      /\ live' \in {live, Owned} /\ errors' \in {errors, link.duplicates}
      /\ UNCHANGED <<link, fold, flags, ran, failed, scan, eh, synth, relr, out, hook, cancel,
                     icfVars>>
  BY DEF NumberSections, End, Owned
<1>2. link.duplicates \in Nat /\ Owned \subseteq Sections
  BY LinkAssumption DEF LinkTypeOK, IsLink, Owned
<1>3. LinkTypeOK' /\ Path' /\ Unwinding'
  BY <1>1, <1>2, SameLink DEF LinkTypeOK, Path, Unwinding, Collected, PastJoin, Planned
<1>4. Gathered'
  <2>1. fold = [s \in Sections |-> s] /\ live = {} /\ flags = [x \in Symbols |-> {}]
    BY <1>1 DEF Path, Gathered, PastJoin, Planned
  <2> QED
    BY <1>1, <1>2, <2>1, SameLink DEF Gathered, Collected, PastJoin, Planned
<1>5. Folding'
  BY <1>1, QuietFolding
<1>6. Outputs'
  <2>1. hook = 0 /\ "main" \notin out
    BY <1>1 DEF Outputs
  <2>2. stage' = "relocatable" => errors' = 0 \/ Opt.noinhibit
    BY <1>1, <1>2 DEF Inhibited
  <2> QED
    BY <1>1, <1>2, <2>1, <2>2, SameLink DEF Outputs, PastJoin, Planned
<1> QED
  BY <1>3, <1>4, <1>5, <1>6

(* Without --gc-sections every candidate is kept. *)
LEMMA AllKeptClosed ==
  ASSUME link \in LinkInputs, UNCHANGED link,
         \A s \in Sections : Kept(s)' <=> Candidate(s)
  PROVE  KeptIsClosed'
<1>1. \A x \in Symbols : TargetSection(x) \subseteq Sections
  BY LinkAssumption DEF IsLink, TargetSection
<1>2. \A x \in Symbols : \A t \in TargetSection(x)' : Candidate(t)' => Kept(t)'
  BY <1>1, SameLink
<1> QED
  BY <1>2, SameLink DEF KeptIsClosed

(* With it, those the mark reaches. *)
LEMMA MarkedClosed ==
  ASSUME link \in LinkInputs, UNCHANGED <<link, flags>>, live \subseteq Sections,
         \A s \in Sections : Candidate(s) => s \in live,
         WellFormed(link.frames), NEW R, R = Reachable(GcRoots(flags), GcEdges),
         \A s \in Sections : Kept(s)' <=> Candidate(s) /\ s \in R
  PROVE  KeptIsClosed'
<1>1. /\ \A s \in R, t \in Sections : Refers(s, t) => t \in R
      /\ \A x \in Symbols : Named(x) => TargetSection(x) \subseteq R
      /\ \A a, b \in live : InGroup(a, b) /\ a \in R => b \in R
  BY MarkIsClosed
<1>2. \A x \in Symbols : TargetSection(x) \subseteq Sections
  BY LinkAssumption DEF IsLink, TargetSection
<1>3. \A x \in Symbols : Named(x)' => Named(x)
  BY SameLink DEF Named
<1>4. \A s \in Sections : Kept(s)' => Candidate(s)'
  BY SameLink
<1>5. \A s, t \in Sections : Kept(s)' /\ Candidate(t)' /\ Refers(s, t)' => Kept(t)'
  BY <1>1, SameLink
<1>6. \A x \in Symbols : Named(x)' => \A t \in TargetSection(x)' : Candidate(t)' => Kept(t)'
  BY <1>1, <1>2, <1>3, SameLink
<1>7. \A a, b \in Sections : InGroup(a, b) => InGroup(b, a)
  BY DEF InGroup
<1>8. \A a, b \in Sections :
        InGroup(a, b)' /\ Candidate(a)' /\ Candidate(b)' => (Kept(a)' <=> Kept(b)')
  BY <1>1, <1>7, SameLink
<1> QED
  BY <1>4, <1>5, <1>6, <1>8 DEF KeptIsClosed

LEMMA PlaceInv == ASSUME LinkInv, Place PROVE LinkInv'
<1> USE DEF LinkInv
<1>1. /\ stage = "place" /\ stage' \in {"gc", "passes", "end"}
      /\ live' = {s \in live : ~link.sec[s].discarded}
      /\ DOMAIN flags' = Symbols
      /\ stage' # "end" => status' = status
      /\ UNCHANGED <<link, fold, ran, failed, scan, eh, synth, relr, errors, out, hook, cancel,
                     icfVars>>
  BY DEF Place, GoTo, End
<1>2. /\ Opt.kind # "relocatable" /\ ran = {} /\ fold = [s \in Sections |-> s]
      /\ live = Owned
  BY <1>1 DEF Path, Gathered, PastJoin, Planned
<1>3. LinkTypeOK' /\ Path' /\ Unwinding'
  BY <1>1, <1>2, SameLink DEF LinkTypeOK, Path, Unwinding, Collected, PastJoin, Planned
<1>4. Gathered'
  <2>1. live' = {s \in Sections : Candidate(s)}
    BY <1>1, <1>2 DEF Owned, Candidate
  <2>2. \A s \in Sections : Kept(s)' <=> Candidate(s)
    BY <1>1, <1>2, <2>1 DEF Kept
  <2>3. KeptIsClosed'
    BY <1>1, <2>2, AllKeptClosed DEF LinkTypeOK
  <2>4. {s \in Sections : Candidate(s)}' = {s \in Sections : Candidate(s)}
    BY <1>1, SameLink
  <2> QED
    BY <1>1, <1>2, <2>1, <2>3, <2>4 DEF Gathered, Collected, PastJoin, Planned
<1>5. Folding'
  BY <1>1, QuietFolding
<1>6. Outputs'
  BY <1>1, SameLink DEF Outputs, PastJoin, Planned
<1> QED
  BY <1>3, <1>4, <1>5, <1>6

LEMMA CollectGarbageInv == ASSUME LinkInv, CollectGarbage PROVE LinkInv'
<1> USE DEF LinkInv
<1> DEFINE R == Reachable(GcRoots(flags), GcEdges)
<1>1. /\ stage = "gc" /\ stage' \in {"passes", "end"}
      /\ stage' = "passes" => WellFormed(link.frames) /\ live' = live \cap R /\ status' = status
      /\ live' \in {live, live \cap R}
      /\ UNCHANGED <<link, fold, flags, failed, scan, eh, synth, relr, errors, out, hook, cancel,
                     icfVars>>
  BY DEF CollectGarbage, GoTo, End
<1> HIDE DEF R
<1>2. /\ Opt.kind # "relocatable" /\ fold = [s \in Sections |-> s]
      /\ live = {s \in Sections : Candidate(s)}
  BY <1>1 DEF Path, Gathered, PastJoin, Planned
<1>3. LinkTypeOK' /\ Path' /\ Unwinding'
  BY <1>1, <1>2, SameLink DEF LinkTypeOK, Path, Unwinding, Collected, PastJoin, Planned
<1>4. Gathered'
  <2>1. ASSUME stage' = "passes" PROVE KeptIsClosed'
    <3>1. \A s \in Sections : Kept(s)' <=> Candidate(s) /\ s \in R
      BY <1>1, <1>2, <2>1 DEF Kept
    <3>2. link \in LinkInputs /\ live \subseteq Sections /\ R = Reachable(GcRoots(flags), GcEdges)
      BY DEF LinkTypeOK, R
    <3> QED
      BY <1>1, <1>2, <2>1, <3>1, <3>2, MarkedClosed
  <2> QED
    BY <1>1, <1>2, <2>1 DEF Gathered, Collected, PastJoin, Planned
<1>5. Folding'
  BY <1>1, QuietFolding
<1>6. Outputs'
  BY <1>1, SameLink DEF Outputs, PastJoin, Planned
<1> QED
  BY <1>3, <1>4, <1>5, <1>6

LEMMA LinkRelocatableInv == ASSUME LinkInv, LinkRelocatable PROVE LinkInv'
<1> USE DEF LinkInv
<1> DEFINE R == Reachable(GcRoots(flags), GcEdges)
           placed == {s \in live : ~link.sec[s].discarded}
<1>1. /\ stage = "relocatable" /\ stage' \in {"copy", "end"}
      /\ stage' = "copy" => /\ status' = status
                            /\ \/ live' = placed
                               \/ WellFormed(link.frames) /\ live' = placed \cap R
      /\ live' \in {placed, placed \cap R}
      /\ UNCHANGED <<link, fold, flags, ran, failed, scan, eh, synth, relr, errors, out, hook,
                     cancel, icfVars>>
  BY DEF LinkRelocatable, GoTo, End
<1>2. /\ Opt.kind = "relocatable" /\ fold = [s \in Sections |-> s]
      /\ live = Owned
  BY <1>1 DEF Path, Gathered, PastJoin, Planned
<1>3. placed = {s \in Sections : Candidate(s)} /\ \A s \in Sections : Candidate(s) => s \in live
  BY <1>2 DEF Owned, Candidate
<1>4. R = Reachable(GcRoots(flags), GcEdges)
  OBVIOUS
<1> HIDE DEF R, placed
<1>5. LinkTypeOK' /\ Path' /\ Unwinding'
  BY <1>1, <1>2, <1>3, SameLink DEF LinkTypeOK, Path, Unwinding, Collected, PastJoin, Planned
<1>6. Gathered'
  <2>1. CASE stage' = "copy" /\ live' = placed
    <3>1. \A s \in Sections : Kept(s)' <=> Candidate(s)
      BY <1>1, <1>2, <1>3, <2>1 DEF Kept
    <3>2. KeptIsClosed'
      BY <1>1, <3>1, AllKeptClosed DEF LinkTypeOK
    <3> QED
      BY <1>1, <1>2, <1>3, <2>1, <3>2 DEF Gathered, Collected, PastJoin, Planned
  <2>2. CASE stage' = "copy" /\ WellFormed(link.frames) /\ live' = placed \cap R
    <3>1. \A s \in Sections : Kept(s)' <=> Candidate(s) /\ s \in R
      BY <1>1, <1>2, <1>3, <2>2 DEF Kept
    <3>2. KeptIsClosed'
      BY <1>1, <1>3, <1>4, <2>2, <3>1, MarkedClosed DEF LinkTypeOK
    <3> QED
      BY <1>1, <1>2, <1>3, <2>2, <3>2 DEF Gathered, Collected, PastJoin, Planned
  <2>3. CASE stage' = "end"
    BY <1>1, <1>2, <1>3, <2>3 DEF Gathered, Collected, PastJoin, Planned
  <2> QED
    BY <1>1, <2>1, <2>2, <2>3
<1>7. Folding'
  BY <1>1, QuietFolding
<1>8. Outputs'
  BY <1>1, SameLink DEF Outputs, PastJoin, Planned
<1> QED
  BY <1>5, <1>6, <1>7, <1>8

LEMMA ScanFileInv == ASSUME LinkInv, NEW f \in Files, ScanFile(f) PROVE LinkInv'
<1> USE DEF LinkInv
<1> DEFINE D == Decided(Scanned(f), flags)
<1>1. /\ stage = "passes" /\ ran' = ran \cup {f}
      /\ scan' = [scan EXCEPT ![f] = FileScan(D)]
      /\ flags' = [x \in Symbols |->
                     IF link.sym[x].global THEN flags[x] \cup FlagsFrom(D, x) ELSE flags[x]]
      /\ UNCHANGED <<link, stage, live, fold, failed, eh, synth, relr, errors, out, hook, cancel,
                     status, icfVars>>
  BY DEF ScanFile
<1>2. link \in LinkInputs /\ Scanned(f) \in SUBSET Sections
  BY DEF LinkTypeOK, Scanned
<1>3. \A x : "EXPORTED" \notin FlagsFrom(D, x)
  BY <1>2, ScanExportsNothing
<1>4. IsFiniteSet(FileScan(D).problems) /\ IsFiniteSet(FileScan(D).undefined)
  <2>1. IsFiniteSet(D)
    BY <1>2, DecidedFinite
  <2> HIDE DEF D
  <2> QED
    BY <2>1, ScanFinite
<1> HIDE DEF D
<1>5. f \notin {"split", "frames"}
  BY <1>2, LinkAssumption DEF Files, IsLink
<1>6. LinkTypeOK' /\ Path' /\ Unwinding'
  BY <1>1, <1>5, SameLink DEF LinkTypeOK, Path, Unwinding, Collected, PastJoin, Planned
<1>7. Gathered'
  <2>1. \A x \in Symbols : "EXPORTED" \in flags'[x] => "EXPORTED" \in flags[x]
    BY <1>1, <1>3
  <2> QED
    BY <1>1, <2>1, QuietGathered DEF Collected, PastJoin, Planned
<1>8. Folding'
  BY <1>1, QuietFolding
<1>9. Outputs'
  <2>1. DOMAIN scan' = Files'
    BY <1>1, SameLink DEF Outputs
  <2>2. \A g \in Files : scan'[g] = IF g = f THEN FileScan(D) ELSE scan[g]
    BY <1>1 DEF Outputs
  <2>3. \A g \in Files' : IsFiniteSet(scan'[g].problems) /\ IsFiniteSet(scan'[g].undefined)
    BY <1>1, <1>4, <2>2, SameLink DEF Outputs
  <2> QED
    BY <1>1, <2>1, <2>3, SameLink DEF Outputs, PastJoin, Planned
<1> QED
  BY <1>6, <1>7, <1>8, <1>9

LEMMA RunPassInv ==
  ASSUME LinkInv, NEW task \in {"split", "merge", "index"}, RunPass(task) PROVE LinkInv'
<1> USE DEF LinkInv
<1>1. /\ stage = "passes" /\ ran' = ran \cup {task}
      /\ failed \subseteq failed'
      /\ task = "split" => WellFormed(link.frames) \/ "split" \in failed'
      /\ UNCHANGED <<link, stage, live, fold, flags, scan, eh, synth, relr, errors, out, hook,
                     cancel, status, icfVars>>
  BY DEF RunPass
<1>2. LinkTypeOK' /\ Path' /\ Unwinding'
  BY <1>1, SameLink DEF LinkTypeOK, Path, Unwinding, Collected, PastJoin, Planned
<1>3. Gathered'
  BY <1>1, QuietGathered DEF Collected, PastJoin, Planned
<1>4. Folding'
  BY <1>1, QuietFolding
<1>5. Outputs'
  BY <1>1, SameLink DEF Outputs, PastJoin, Planned
<1> QED
  BY <1>2, <1>3, <1>4, <1>5

LEMMA JoinInv == ASSUME LinkInv, Join PROVE LinkInv'
<1> USE DEF LinkInv
<1>1. /\ stage = "passes" /\ stage' \in {"icf", "index", "end"}
      /\ "split" \in ran
      /\ stage' # "end" => /\ "split" \notin failed /\ ~Inhibited(errors') /\ status' = status
      /\ stage' = "icf" => Opt.icf # "none"
      /\ errors' \in {errors, errors + ScanErrors}
      /\ UNCHANGED <<link, live, fold, flags, ran, failed, scan, eh, synth, relr, out, hook,
                     cancel, icfVars>>
  BY DEF Join, GoTo, End, PassTasks, StopAfterScan
<1>2. errors' \in Nat
  <2>1. ScanErrors \in Nat
    BY ScanErrorsNat DEF Outputs
  <2> QED
    BY <1>1, <2>1 DEF Outputs
<1>3. Opt.kind # "relocatable" /\ (stage' # "end" => WellFormed(link.frames))
  BY <1>1 DEF Path
<1>4. LinkTypeOK' /\ Path' /\ Unwinding'
  BY <1>1, <1>3, SameLink DEF LinkTypeOK, Path, Unwinding, Collected, PastJoin, Planned
<1>5. Gathered'
  BY <1>1, QuietGathered DEF Collected, PastJoin, Planned
<1>6. Folding'
  BY <1>1, QuietFolding
<1>7. Outputs'
  <2>1. stage' # "end" => errors' = 0 \/ Opt.noinhibit
    BY <1>1, <1>2 DEF Inhibited
  <2> QED
    BY <1>1, <1>2, <2>1, SameLink DEF Outputs, PastJoin, Planned
<1> QED
  BY <1>4, <1>5, <1>6, <1>7

LEMMA StartFoldingInv == ASSUME LinkInv, StartFolding PROVE LinkInv'
<1> USE DEF LinkInv
<1>1. /\ stage = "icf" /\ stage' = "folding"
      /\ icf' = [s \in Sections |-> IcfInputOf(s)] /\ mode' = Opt.icf
      /\ UNCHANGED <<link, live, fold, flags, ran, failed, scan, eh, synth, relr, errors, out,
                     hook, cancel, status, class, work, part, before, round>>
  BY DEF StartFolding
<1>2. LinkTypeOK' /\ Path' /\ Unwinding'
  BY <1>1, SameLink DEF LinkTypeOK, Path, Unwinding, Collected, PastJoin, Planned
<1>3. Gathered'
  BY <1>1, QuietGathered DEF Collected, PastJoin, Planned
<1>4. Folding'
  <2>1. icf' \in [Sections -> IcfSection]
    BY <1>1, InputsTyped DEF LinkTypeOK
  <2>2. mode' \in {"all", "safe"}
    BY <1>1, LinkAssumption DEF Path, LinkTypeOK, IsLink, Opt
  <2>3. IcfIdle'
    BY <1>1 DEF Folding, IcfIdle
  <2>4. IcfInv'
    BY <2>1, <2>2, <2>3, IdleStepInv
  <2>5. \A s \in Sections : icf'[s].foldable => s \in live'
    BY <1>1 DEF IcfInputOf, Foldable
  <2> QED
    BY <1>1, <2>4, <2>5 DEF Folding
<1>5. Outputs'
  BY <1>1, SameLink DEF Outputs, PastJoin, Planned
<1> QED
  BY <1>2, <1>3, <1>4, <1>5

LEMMA FoldRoundInv == ASSUME LinkInv, FoldRound PROVE LinkInv'
<1> USE DEF LinkInv
<1>1. /\ stage = "folding" /\ IcfNext /\ UNCHANGED icf
      /\ UNCHANGED <<link, stage, live, fold, flags, ran, failed, scan, eh, synth, relr, errors,
                     out, hook, cancel, status>>
  BY DEF FoldRound, linkVars, IcfNext, ConstantRound, RefineRound, Commit
<1>2. LinkTypeOK' /\ Path' /\ Unwinding'
  BY <1>1, SameLink DEF LinkTypeOK, Path, Unwinding, Collected, PastJoin, Planned
<1>3. Gathered'
  BY <1>1, QuietGathered DEF Collected, PastJoin, Planned
<1>4. Folding'
  <2>1. IcfInv'
    BY <1>1, IcfAssumption, ConstantRoundInv, RefineRoundInv, CommitInv DEF Folding, IcfNext
  <2> QED
    BY <1>1, <2>1 DEF Folding
<1>5. Outputs'
  BY <1>1, SameLink DEF Outputs, PastJoin, Planned
<1> QED
  BY <1>2, <1>3, <1>4, <1>5

LEMMA ApplyFoldingInv == ASSUME LinkInv, ApplyFolding PROVE LinkInv'
<1> USE DEF LinkInv
<1>1. /\ stage = "folding" /\ stage' \in {"index", "end"}
      /\ fold' = class /\ live' = {s \in live : class[s] = s}
      /\ IcfIdle' /\ (stage' # "end" => status' = status)
      /\ UNCHANGED <<link, flags, ran, failed, scan, eh, synth, relr, errors, out, hook, cancel,
                     icf, mode>>
  BY DEF ApplyFolding, IcfIdle, GoTo, End
<1>2. /\ class \in [Sections -> Sections] /\ icf \in [Sections -> IcfSection]
      /\ mode \in {"all", "safe"}
  BY DEF Folding, IcfInv, IcfTypeOK
<1>3. LinkTypeOK' /\ Path' /\ Unwinding'
  BY <1>1, <1>2, SameLink DEF LinkTypeOK, Path, Unwinding, Collected, PastJoin, Planned
<1>4. Gathered'
  <2>1. /\ \A s \in Sections : Kept(s)' <=> Kept(s)
        /\ \A s \in live' : fold'[s] = s
    BY <1>1, FoldedStaysKept DEF LinkTypeOK, Path, Folding, PastJoin, Planned
  <2>2. KeptIsClosed
    BY <1>1 DEF Gathered, Collected, PastJoin
  <2>3. KeptIsClosed'
    BY <1>1, <2>1, <2>2, StillClosed DEF LinkTypeOK
  <2> QED
    BY <1>1, <2>1, <2>3 DEF Gathered, Collected, PastJoin, Planned
<1>5. Folding'
  <2>1. IcfInv'
    BY <1>1, <1>2, IdleStepInv
  <2> QED
    BY <1>1, <2>1 DEF Folding
<1>6. Outputs'
  BY <1>1, SameLink DEF Outputs, PastJoin, Planned
<1> QED
  BY <1>3, <1>4, <1>5, <1>6

LEMMA UseIndexesInv == ASSUME LinkInv, UseIndexes PROVE LinkInv'
<1> USE DEF LinkInv
<1>1. /\ stage = "index" /\ stage' \in {"plan", "end"} /\ ran' = {}
      /\ stage' # "end" => status' = status
      /\ UNCHANGED <<link, live, fold, flags, failed, scan, eh, synth, relr, errors, out, hook,
                     cancel, icfVars>>
  BY DEF UseIndexes, End
<1>2. LinkTypeOK' /\ Path' /\ Unwinding'
  BY <1>1, SameLink DEF LinkTypeOK, Path, Unwinding, Collected, PastJoin, Planned
<1>3. Gathered'
  BY <1>1, QuietGathered DEF Collected, PastJoin, Planned
<1>4. Folding'
  BY <1>1, QuietFolding
<1>5. Outputs'
  BY <1>1, SameLink DEF Outputs, PastJoin, Planned
<1> QED
  BY <1>2, <1>3, <1>4, <1>5

LEMMA PlanInv == ASSUME LinkInv, Plan PROVE LinkInv'
<1> USE DEF LinkInv
<1>1. /\ stage = "plan" /\ ran' = ran \cup {"entries"}
      /\ UNCHANGED <<link, stage, live, fold, flags, failed, scan, eh, relr, errors, out, hook,
                     cancel, status, icfVars>>
  BY DEF Plan
<1>2. LinkTypeOK' /\ Path' /\ Unwinding'
  BY <1>1, SameLink DEF LinkTypeOK, Path, Unwinding, Collected, PastJoin, Planned
<1>3. Gathered'
  BY <1>1, QuietGathered DEF Collected, PastJoin, Planned
<1>4. Folding'
  BY <1>1, QuietFolding
<1>5. Outputs'
  BY <1>1, SameLink DEF Outputs, PastJoin, Planned
<1> QED
  BY <1>2, <1>3, <1>4, <1>5

LEMMA FinalizeFramesInv == ASSUME LinkInv, FinalizeFrames PROVE LinkInv'
<1> USE DEF LinkInv
<1>1. /\ stage = "plan" /\ ran' = ran \cup {"frames"} /\ eh' = Finalize(link.frames, live)
      /\ UNCHANGED <<link, stage, live, fold, flags, failed, scan, synth, relr, errors, out, hook,
                     cancel, status, icfVars>>
  BY DEF FinalizeFrames
<1>2. LinkTypeOK' /\ Path' /\ Unwinding'
  BY <1>1, SameLink DEF LinkTypeOK, Path, Unwinding, Collected, PastJoin, Planned
<1>3. Gathered'
  BY <1>1, QuietGathered DEF Collected, PastJoin, Planned
<1>4. Folding'
  BY <1>1, QuietFolding
<1>5. Outputs'
  BY <1>1, SameLink DEF Outputs, PastJoin, Planned
<1> QED
  BY <1>2, <1>3, <1>4, <1>5

LEMMA PlanDynamicInv == ASSUME LinkInv, PlanDynamic PROVE LinkInv'
<1> USE DEF LinkInv
<1>1. /\ stage = "plan" /\ "frames" \in ran /\ stage' \in {"layout", "end"}
      /\ relr' = [relr EXCEPT !.size = link.relrEstimate]
      /\ stage' # "end" => status' = status
      /\ UNCHANGED <<link, live, fold, flags, ran, failed, scan, eh, errors, out, hook, cancel,
                     icfVars>>
  BY DEF PlanDynamic, GoTo, End
<1>2. Opt.kind # "relocatable"
  BY <1>1 DEF Path, PastJoin
<1>3. LinkTypeOK' /\ Path' /\ Unwinding'
  BY <1>1, <1>2, SameLink DEF LinkTypeOK, Path, Unwinding, Collected, PastJoin, Planned
<1>4. Gathered'
  BY <1>1, QuietGathered DEF Collected, PastJoin, Planned
<1>5. Folding'
  BY <1>1, QuietFolding
<1>6. Outputs'
  BY <1>1, SameLink DEF Outputs, PastJoin, Planned
<1> QED
  BY <1>3, <1>4, <1>5, <1>6

LEMMA LayoutInv == ASSUME LinkInv, Layout PROVE LinkInv'
<1> USE DEF LinkInv
<1>1. /\ stage = "layout" /\ stage' \in {"relr", "compress", "write", "end"}
      /\ stage' # "end" => status' = status
      /\ UNCHANGED <<link, live, fold, flags, ran, failed, scan, eh, synth, relr, errors, out,
                     hook, cancel, icfVars>>
  BY DEF Layout, AfterLayout, GoTo, End
<1>2. LinkTypeOK' /\ Path' /\ Unwinding'
  BY <1>1, SameLink DEF LinkTypeOK, Path, Unwinding, Collected, PastJoin, Planned
<1>3. Gathered'
  BY <1>1, QuietGathered DEF Collected, PastJoin, Planned
<1>4. Folding'
  BY <1>1, QuietFolding
<1>5. Outputs'
  BY <1>1, SameLink DEF Outputs, PastJoin, Planned
<1> QED
  BY <1>2, <1>3, <1>4, <1>5

LEMMA ReclassifyExportsNothing ==
  /\ DOMAIN Reclassify(flags) = Symbols
  /\ \A x \in Symbols : "EXPORTED" \in Reclassify(flags)[x] => "EXPORTED" \in flags[x]
  BY DEF Reclassify

LEMMA RelrAttemptInv == ASSUME LinkInv, RelrAttempt PROVE LinkInv'
<1> USE DEF LinkInv
<1>1. /\ stage = "relr" /\ stage' \in {"relr", "compress", "write", "end"}
      /\ flags' = Reclassify(flags)
      /\ stage' # "end" => status' = status
      /\ UNCHANGED <<link, live, fold, ran, failed, scan, eh, synth, errors, out, hook, cancel,
                     icfVars>>
  BY DEF RelrAttempt, AfterLayout, GoTo, End
<1>2. Opt.kind # "relocatable"
  BY <1>1 DEF Path, PastJoin, Planned
<1>3. LinkTypeOK' /\ Path' /\ Unwinding'
  BY <1>1, <1>2, SameLink, ReclassifyExportsNothing
  DEF LinkTypeOK, Path, Unwinding, Collected, PastJoin, Planned
<1>4. Gathered'
  BY <1>1, QuietGathered, ReclassifyExportsNothing DEF Collected, PastJoin, Planned
<1>5. Folding'
  BY <1>1, QuietFolding
<1>6. Outputs'
  BY <1>1, SameLink DEF Outputs, PastJoin, Planned
<1> QED
  BY <1>3, <1>4, <1>5, <1>6

LEMMA CompressInv == ASSUME LinkInv, Compress PROVE LinkInv'
<1> USE DEF LinkInv
<1>1. /\ stage = "compress" /\ stage' \in {"write", "end"}
      /\ flags' = Reclassify(flags)
      /\ errors' \in {errors, errors + 1}
      /\ stage' = "write" => status' = status /\ (errors' = errors \/ ~Inhibited(errors'))
      /\ UNCHANGED <<link, live, fold, ran, failed, scan, eh, synth, out, hook, cancel, icfVars>>
  <2>1. errors \in Nat
    BY DEF Outputs
  <2> QED
    BY <2>1 DEF Compress, GoTo, End
<1>2. Opt.kind # "relocatable"
  BY <1>1 DEF Path, PastJoin, Planned
<1>3. LinkTypeOK' /\ Path' /\ Unwinding'
  BY <1>1, <1>2, SameLink, ReclassifyExportsNothing
  DEF LinkTypeOK, Path, Unwinding, Collected, PastJoin, Planned
<1>4. Gathered'
  BY <1>1, QuietGathered, ReclassifyExportsNothing DEF Collected, PastJoin, Planned
<1>5. Folding'
  BY <1>1, QuietFolding
<1>6. Outputs'
  <2>1. errors' \in Nat /\ (stage' = "write" => errors' = 0 \/ Opt.noinhibit)
    BY <1>1 DEF Outputs, Inhibited, PastJoin, Planned
  <2>2. hook = 0 /\ "main" \notin out /\ "debug" \notin out
    BY <1>1 DEF Outputs
  <2> QED
    BY <1>1, <2>1, <2>2, SameLink DEF Outputs, PastJoin, Planned
<1> QED
  BY <1>3, <1>4, <1>5, <1>6

LEMMA WriteOutputInv == ASSUME LinkInv, WriteOutput PROVE LinkInv'
<1> USE DEF LinkInv
<1>1. /\ stage = "write" /\ stage' \in {"after", "end"}
      /\ flags' = Reclassify(flags)
      /\ UNCHANGED <<link, live, fold, ran, failed, scan, eh, synth, relr, hook, cancel, icfVars>>
  BY DEF WriteOutput, End
<1>2. /\ errors' \in {errors, errors + 1}
      /\ \/ stage' = "end" /\ out' \in {out, out \cup MapFirst}
         \/ /\ stage' = "after" /\ out' = out \cup {"main"} \cup MapFirst /\ status' = status
            /\ errors' = errors \/ ~Inhibited(errors')
  <2>1. errors \in Nat
    BY DEF Outputs
  <2> QED
    BY <2>1 DEF WriteOutput, End
<1>3. Opt.kind # "relocatable" /\ errors \in Nat /\ (errors = 0 \/ Opt.noinhibit)
  BY <1>1 DEF Path, Outputs, PastJoin, Planned
<1>4. LinkTypeOK' /\ Path' /\ Unwinding'
  BY <1>1, <1>3, SameLink, ReclassifyExportsNothing
  DEF LinkTypeOK, Path, Unwinding, Collected, PastJoin, Planned
<1>5. Gathered'
  BY <1>1, QuietGathered, ReclassifyExportsNothing DEF Collected, PastJoin, Planned
<1>6. Folding'
  BY <1>1, QuietFolding
<1>7. Outputs'
  <2>1. errors' \in Nat
    BY <1>2, <1>3
  <2>2. stage' = "after" => errors' = 0 \/ Opt.noinhibit
    BY <1>2, <1>3, SameLink, <1>1 DEF Inhibited
  <2>3. hook = 0 /\ "main" \notin out /\ "debug" \notin out /\ status = "running"
    BY <1>1 DEF Outputs
  <2>4. "main" \notin MapFirst /\ "debug" \notin MapFirst
    BY DEF MapFirst
  <2>5. "main" \in out' => stage' = "after"
    BY <1>2, <2>3, <2>4
  <2>6. /\ stage' = "after" => "main" \in out' /\ MapFirst \subseteq out' /\ status' = status
        /\ "debug" \notin out'
    BY <1>2, <2>3, <2>4
  <2> HIDE DEF LinkInv
  <2>7. DOMAIN scan = Files /\ \A f \in Files : IsFiniteSet(scan[f].problems)
                                               /\ IsFiniteSet(scan[f].undefined)
    BY DEF LinkInv, Outputs
  <2> QED
    BY <1>1, <2>1, <2>2, <2>3, <2>5, <2>6, <2>7, SameLink DEF Outputs, PastJoin, Planned
<1> QED
  BY <1>4, <1>5, <1>6, <1>7

LEMMA WriteMapInv == ASSUME LinkInv, WriteMap PROVE LinkInv'
<1> USE DEF LinkInv
<1>1. /\ stage = "after" /\ ~SeparateDebug /\ stage' \in {"finish", "end"}
      /\ stage' = "finish" => out' = out \cup {"map"} /\ status' = status
      /\ stage' = "end" => out' = out
      /\ UNCHANGED <<link, live, fold, flags, ran, failed, scan, eh, synth, relr, errors, hook,
                     cancel, icfVars>>
  BY DEF WriteMap, End
<1>2. LinkTypeOK' /\ Path' /\ Unwinding'
  BY <1>1, SameLink DEF LinkTypeOK, Path, Unwinding, Collected, PastJoin, Planned
<1>3. Gathered'
  BY <1>1, QuietGathered DEF Collected, PastJoin, Planned
<1>4. Folding'
  BY <1>1, QuietFolding
<1>5. Outputs'
  <2>1. "main" \in out /\ MapFirst \subseteq out /\ (errors = 0 \/ Opt.noinhibit)
    BY <1>1 DEF Outputs, PastJoin, Planned
  <2>2. /\ stage' = "finish" => {"main", "map"} \subseteq out'
        /\ "main" \in out' /\ MapFirst \subseteq out'
    BY <1>1, <2>1
  <2> QED
    BY <1>1, <2>1, <2>2, SameLink DEF Outputs, PastJoin, Planned
<1> QED
  BY <1>2, <1>3, <1>4, <1>5

LEMMA WriteDebugFileInv == ASSUME LinkInv, WriteDebugFile PROVE LinkInv'
<1> USE DEF LinkInv
<1>1. /\ stage = "after" /\ SeparateDebug /\ stage' \in {"finish", "end"}
      /\ flags' \in {flags, Reclassify(flags)}
      /\ errors' \in {errors, errors + 1}
      /\ \/ /\ stage' = "finish" /\ out' = out \cup {"debug"} /\ status' = status
            /\ errors' = errors \/ ~Inhibited(errors')
         \/ /\ stage' = "end" /\ out' = out /\ status' = "reported"
            /\ Unappliable("debug") /\ ~Opt.compress
         \/ stage' = "end" /\ out' \in {out, out \cup {"debug"}} /\ errors' = errors
      /\ UNCHANGED <<link, live, fold, ran, failed, scan, eh, synth, relr, hook, cancel, icfVars>>
  <2>1. errors \in Nat
    BY DEF Outputs
  <2> QED
    BY <2>1 DEF WriteDebugFile, End
<1>2. LinkTypeOK' /\ Path' /\ Unwinding'
  BY <1>1, SameLink, ReclassifyExportsNothing
  DEF LinkTypeOK, Path, Unwinding, Collected, PastJoin, Planned
<1>3. Gathered'
  BY <1>1, QuietGathered, ReclassifyExportsNothing DEF Collected, PastJoin, Planned
<1>4. Folding'
  BY <1>1, QuietFolding
<1>5. Outputs'
  <2>1. /\ "main" \in out /\ MapFirst \subseteq out /\ (errors = 0 \/ Opt.noinhibit)
        /\ hook = 0 /\ "debug" \notin out /\ errors \in Nat /\ status = "running"
    BY <1>1 DEF Outputs, PastJoin, Planned
  <2>2. /\ stage' = "finish" => {"main", "map", "debug"} \subseteq out'
        /\ "main" \in out' /\ MapFirst \subseteq out'
    BY <1>1, <2>1 DEF MapFirst
  <2>3. errors' \in Nat
    BY <1>1, <2>1
  <2>4. stage' = "finish" => errors' = 0 \/ Opt.noinhibit
    BY <1>1, <2>1, SameLink DEF Inhibited
  <2>5. errors' = 0 \/ Opt.noinhibit \/ Late'
    <3>1. CASE stage' = "finish"
      BY <2>4, <3>1
    <3>2. CASE out' = out /\ status' = "reported" /\ Unappliable("debug") /\ ~Opt.compress
      BY <1>1, <2>1, <3>2, SameLink DEF Late
    <3>3. CASE errors' = errors
      BY <2>1, <3>3
    <3> QED
      BY <1>1, <3>1, <3>2, <3>3
  <2> HIDE DEF LinkInv
  <2>6. DOMAIN scan = Files /\ \A f \in Files : IsFiniteSet(scan[f].problems)
                                               /\ IsFiniteSet(scan[f].undefined)
    BY DEF LinkInv, Outputs
  <2> QED
    BY <1>1, <2>1, <2>2, <2>3, <2>4, <2>5, <2>6, SameLink DEF Outputs, PastJoin, Planned
<1> QED
  BY <1>2, <1>3, <1>4, <1>5

LEMMA FinishLinkInv == ASSUME LinkInv, FinishLink PROVE LinkInv'
<1> USE DEF LinkInv
<1>1. /\ stage = "finish" /\ stage' = "end"
      /\ \/ hook' = hook /\ status' = "lto" /\ errors' = errors + 1
         \/ hook' = hook + 1 /\ status' = "ok" /\ errors' = errors
      /\ UNCHANGED <<link, live, fold, flags, ran, failed, scan, eh, synth, relr, out, cancel,
                     icfVars>>
  BY DEF FinishLink, End
<1>2. LinkTypeOK' /\ Path' /\ Unwinding'
  BY <1>1, SameLink DEF LinkTypeOK, Path, Unwinding, Collected, PastJoin, Planned
<1>3. Gathered'
  BY <1>1, QuietGathered DEF Collected, PastJoin, Planned
<1>4. Folding'
  BY <1>1, QuietFolding
<1>5. Outputs'
  <2>1. hook = 0 /\ errors \in Nat /\ (errors = 0 \/ Opt.noinhibit)
    BY <1>1 DEF Outputs, PastJoin, Planned
  <2>2. hook' \in {0, 1} /\ errors' \in Nat
    BY <1>1, <2>1
  <2>3. hook' = 1 => status' = "ok" /\ errors' = errors
    BY <1>1, <2>1
  <2>4. errors' = 0 \/ Opt.noinhibit \/ Late'
    BY <1>1, <2>1 DEF Late
  <2> QED
    BY <1>1, <2>1, <2>2, <2>3, <2>4, SameLink DEF Outputs, PastJoin, Planned
<1> QED
  BY <1>2, <1>3, <1>4, <1>5

(* Every way a stage gives up ends the link with an error. *)
LEMMA ToldInv == ASSUME LinkInv, Told, LinkStep PROVE Told'
<1>1. status = "running" \/ stage = "end"
  BY DEF LinkInv, Outputs
<1>2. CASE FinishLink
  BY <1>2 DEF FinishLink, End, Told, LinkInv, Outputs
<1>3. CASE NumberSections \/ LinkRelocatable \/ CopySections \/ Place \/ CollectGarbage
  BY <1>1, <1>3
  DEF NumberSections, LinkRelocatable, CopySections, Place, CollectGarbage, GoTo, End, Told
<1>4. CASE \/ \E task \in {"split", "merge", "index"} : RunPass(task)
           \/ \E f \in Files : ScanFile(f)
  BY <1>4 DEF RunPass, ScanFile, Told
<1>5. CASE Join \/ StartFolding \/ FoldRound \/ ApplyFolding \/ UseIndexes
  BY <1>1, <1>5 DEF Join, StartFolding, FoldRound, ApplyFolding, UseIndexes, linkVars, GoTo, End, Told
<1>6. CASE Plan \/ FinalizeFrames \/ PlanDynamic \/ Layout \/ RelrAttempt
  BY <1>1, <1>6 DEF Plan, FinalizeFrames, PlanDynamic, Layout, RelrAttempt, GoTo, End, Told
<1>7. CASE Compress \/ WriteOutput \/ WriteMap \/ WriteDebugFile
  BY <1>1, <1>7 DEF Compress, WriteOutput, WriteMap, WriteDebugFile, GoTo, End, Told
<1> QED
  BY <1>2, <1>3, <1>4, <1>5, <1>6, <1>7 DEF LinkStep

(* A step of the caller, or none. *)
LEMMA LinkStutterInv ==
  ASSUME LinkInv,
         UNCHANGED <<link, stage, live, fold, flags, ran, failed, scan, eh, synth, relr, errors,
                     out, hook, status, icfVars>>
  PROVE  LinkInv'
<1> USE DEF LinkInv
<1>1. LinkTypeOK' /\ Path' /\ Unwinding'
  BY SameLink DEF LinkTypeOK, Path, Unwinding, Collected, PastJoin, Planned
<1>2. Gathered'
  <2>1. \A s \in Sections : Kept(s)' <=> Kept(s)
    BY DEF Kept
  <2>2. stage \in Collected => KeptIsClosed'
    BY <2>1, StillClosed DEF LinkTypeOK, Gathered
  <2>3. {s \in Sections : Candidate(s)}' = {s \in Sections : Candidate(s)}
    BY SameLink
  <2> QED
    BY <2>2, <2>3, SameLink DEF Gathered
<1>3. Folding'
  <2>1. IcfInv'
    BY IcfStutterInv DEF Folding
  <2>2. UNCHANGED <<icf, mode, class, work, part, before, round>>
    BY DEF icfVars
  <2> QED
    BY <2>1, <2>2 DEF Folding, IcfIdle
<1>4. Outputs'
  BY SameLink DEF Outputs, Late
<1> QED
  BY <1>1, <1>2, <1>3, <1>4

-----------------------------------------------------------------------------
(***************************************************************************)
(* The theorems                                                            *)
(***************************************************************************)
(* The invariant of the link, for every input, every set of options and    *)
(* every order of the tasks of a parallel stage (link_inputs).             *)
THEOREM LinkInvariant == Spec => []LinkInv
<1>1. Init => LinkInv
  BY LinkInitInv
<1>2. ASSUME LinkInv, [Next]_vars PROVE LinkInv'
  <2>1. CASE LinkStep
    BY <1>2, <2>1, NumberSectionsInv, LinkRelocatableInv, CopySectionsInv, PlaceInv,
       CollectGarbageInv, RunPassInv, ScanFileInv, JoinInv, StartFoldingInv, FoldRoundInv,
       ApplyFoldingInv, UseIndexesInv, PlanInv, FinalizeFramesInv, PlanDynamicInv, LayoutInv,
       RelrAttemptInv, CompressInv, WriteOutputInv, WriteMapInv, WriteDebugFileInv,
       FinishLinkInv
    DEF LinkStep
  <2>2. CASE Cancel
    BY <1>2, <2>2, LinkStutterInv DEF Cancel
  <2>3. CASE UNCHANGED vars
    BY <1>2, <2>3, LinkStutterInv DEF vars, linkVars
  <2> QED
    BY <1>2, <2>1, <2>2, <2>3 DEF Next
<1> QED
  BY <1>1, <1>2, PTL DEF Spec

(* Whatever a section of the output refers to, every exported or named     *)
(* symbol's section, and all of a group of which one is kept are in the    *)
(* output, and no section of it is folded away: gc.rs's edges and roots    *)
(* miss nothing, and folding (icf.rs) takes nothing out.                   *)
THEOREM LinkKeptClosed == Spec => []KeptClosed
<1>1. ASSUME LinkInv PROVE KeptClosed
  <2>1. \A s \in live : fold[s] = s /\ s \in Sections
    BY <1>1 DEF LinkInv, LinkTypeOK, Gathered
  <2>2. stage \in {"copy", "plan"} \cup Planned => KeptIsClosed
    BY <1>1 DEF LinkInv, Gathered, Collected, PastJoin
  <2>3. NoDanglingReference
    <3> SUFFICES ASSUME KeptIsClosed, NEW t \in Sections, Candidate(t), ~Kept(t)
                 PROVE  /\ \A s \in live : Alloc(s) => t \notin SectionTargets(s)
                        /\ \A x \in Symbols : t \in TargetSection(x) =>
                             /\ "EXPORTED" \notin flags[x] /\ ~link.sym[x].refDynamic
                             /\ x \notin InternalNames
      BY <2>2 DEF NoDanglingReference
    <3>1. ASSUME NEW s \in live, Alloc(s), t \in SectionTargets(s) PROVE FALSE
      BY <2>1, <3>1 DEF KeptIsClosed, Kept, Refers
    <3>2. ASSUME NEW x \in Symbols, t \in TargetSection(x) PROVE ~Named(x)
      BY <3>2 DEF KeptIsClosed
    <3> QED
      BY <3>1, <3>2 DEF Named
  <2>4. GroupsKeptWhole
    BY <2>2 DEF GroupsKeptWhole, KeptIsClosed, InGroup
  <2> QED
    BY <2>1, <2>3, <2>4 DEF KeptClosed
<1> QED
  BY <1>1, LinkInvariant, PTL

(* The unwind records of the output (ehframe.rs) describe functions of the *)
(* output, find a kept CIE with the bytes of their own and name sections   *)
(* that are kept, though equal CIEs are merged after garbage collection    *)
(* and folding.                                                            *)
THEOREM LinkUnwindConsistent == Spec => []UnwindConsistent
<1>1. ASSUME LinkInv PROVE UnwindConsistent
  <2> SUFFICES ASSUME stage \in Planned, Opt.kind # "relocatable",
                      NEW x \in Fdes(link.frames), eh[x].live, NEW cie,
                      cie = CieOf(link.frames, eh, x)
               PROVE  /\ Rec(link.frames, x).pc \in live
                      /\ eh[cie].live
                      /\ Rec(link.frames, cie).key
                           = Rec(link.frames, CiePosition(link.frames, x)).key
                      /\ \A t \in Rec(link.frames, x).needs \cup Rec(link.frames, cie).needs :
                           Candidate(t) => Kept(t)
    BY DEF UnwindConsistent
  <2>1. /\ link \in LinkInputs /\ live \subseteq Sections /\ WellFormed(link.frames)
        /\ eh = Finalize(link.frames, live) /\ KeptIsClosed /\ \A s \in live : fold[s] = s
    BY <1>1 DEF LinkInv, LinkTypeOK, Path, Unwinding, Gathered, Collected, PastJoin
  <2> QED
    BY <2>1, UnwindAgrees
<1> QED
  BY <1>1, LinkInvariant, PTL

(* An error reported before the output is put in place keeps it from being *)
(* put there (unless --noinhibit-exec); what link_inputs can still report  *)
(* then, in a debug file of its own or from plugins that clean up, ends    *)
(* the link with an error.  The completion hook runs once, exactly in the  *)
(* links that succeed, with every output in place.                         *)
THEOREM LinkOutputsSound == Spec => []OutputsSound
<1>1. Init => Told
  BY DEF Init, Told
<1>2. ASSUME LinkInv, Told, [Next]_vars PROVE Told'
  <2>1. CASE LinkStep
    BY <1>2, <2>1, ToldInv
  <2>2. CASE Cancel \/ UNCHANGED vars
    BY <1>2, <2>2 DEF Cancel, vars, linkVars, Told
  <2> QED
    BY <1>2, <2>1, <2>2 DEF Next
<1>3. LinkInv /\ Told => OutputsSound
  BY DEF LinkInv, Outputs, Late, Told, OutputsSound, ErrorsStopOutput, HookMeansComplete
<1> QED
  BY <1>1, <1>2, <1>3, LinkInvariant, PTL DEF Spec

(* Folding is exact in the link too: fold_identical starts from the        *)
(* sections the stages before left, and nothing else runs beside it.       *)
THEOREM LinkFoldingIsExact == Spec => []FoldingIsExact
<1>1. LinkInv => FoldingIsExact
  BY DEF LinkInv, Folding, IcfInv, FoldingIsExact, FoldingIsSound, FoldingIsCoarsest, Coarser,
         FirstIsKept, FirstKept
<1> QED
  BY <1>1, LinkInvariant, PTL
=============================================================================
