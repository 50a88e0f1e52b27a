--------------------------- MODULE ResolveProofs ---------------------------
(***************************************************************************)
(* Proofs about Resolve, for any files, symbols, groups and positions: the *)
(* symbol table always holds the best definition inserted so far, no       *)
(* member a reference asks for is missed, one copy of each COMDAT group is *)
(* kept, and loading members early loads each once and all of them.        *)
(***************************************************************************)
EXTENDS Resolve, DefinitionsProofs, FiniteSetTheorems

-----------------------------------------------------------------------------
(***************************************************************************)
(* Items and the candidates they contribute                                *)
(***************************************************************************)

FilesOK == /\ files \in [Files -> InputFile]
           /\ \A f \in Files : ~files[f].start =>
                \A i \in DOMAIN files[f].entries : files[f].entries[i].use # "Shared"

ValidItems == LazyItems(files, Files \ StartFiles) \cup RealItems(files, Files)

LEMMA LazyItemFields ==
  ASSUME FilesOK, NEW fs \in SUBSET Files, NEW it \in LazyItems(files, fs)
  PROVE  /\ it.file \in fs /\ it.lazy
         /\ it.index \in DOMAIN files[it.file].lazy
         /\ it = [file |-> it.file, lazy |-> TRUE, index |-> it.index]
         /\ it \in Item
         /\ files[it.file].lazy[it.index] \in Symbols
<1>1. PICK f \in fs : it \in {[file |-> f, lazy |-> TRUE, index |-> i] :
                                i \in DOMAIN files[f].lazy}
  BY DEF LazyItems
<1>2. PICK i \in DOMAIN files[f].lazy : it = [file |-> f, lazy |-> TRUE, index |-> i]
  BY <1>1
<1>3. files[f].lazy \in Seq(Symbols)
  BY DEF FilesOK, InputFile
<1>4. i \in Nat /\ files[f].lazy[i] \in Symbols
  BY <1>2, <1>3
<1> QED
  BY <1>2, <1>4 DEF Item

LEMMA RealItemFields ==
  ASSUME FilesOK, NEW fs \in SUBSET Files, NEW it \in RealItems(files, fs)
  PROVE  /\ it.file \in fs /\ ~it.lazy
         /\ it.index \in DOMAIN files[it.file].entries
         /\ it = [file |-> it.file, lazy |-> FALSE, index |-> it.index]
         /\ it \in Item
         /\ files[it.file].entries[it.index] \in Entry
<1>1. PICK f \in fs : it \in {[file |-> f, lazy |-> FALSE, index |-> i] :
                                i \in DOMAIN files[f].entries}
  BY DEF RealItems
<1>2. PICK i \in DOMAIN files[f].entries : it = [file |-> f, lazy |-> FALSE, index |-> i]
  BY <1>1
<1>3. files[f].entries \in Seq(Entry)
  BY DEF FilesOK, InputFile
<1>4. i \in Nat /\ files[f].entries[i] \in Entry
  BY <1>2, <1>3
<1> QED
  BY <1>2, <1>4 DEF Item

LEMMA ItemsMonotone ==
  ASSUME NEW fs, NEW gs, fs \subseteq gs
  PROVE  /\ LazyItems(files, fs) \subseteq LazyItems(files, gs)
         /\ RealItems(files, fs) \subseteq RealItems(files, gs)
BY DEF LazyItems, RealItems

LEMMA ItemSymbol ==
  ASSUME FilesOK, NEW it \in ValidItems
  PROVE  it \in Item /\ SymOf(files, it) \in Symbols
BY LazyItemFields, RealItemFields DEF ValidItems, SymOf, StartFiles, Entry

(* A definition item contributes a candidate, which names its file. *)
LEMMA CandidateTyped ==
  ASSUME InputAssumption, FilesOK, NEW it \in ValidItems,
         IsDefinitionItem(files, discarded, it)
  PROVE  /\ CandidateOf(files, it) \in Candidate
         /\ CandidateOf(files, it).file = it.file
         /\ CandidateOf(files, it).index = it.index
         /\ CandidateOf(files, it).position = Position[it.file]
         /\ CandidateOf(files, it).kind = "Lazy" <=> it.lazy
<1> DEFINE c == CandidateOf(files, it)
<1>1. it.file \in Nat /\ it.index \in Nat /\ Position[it.file] \in Nat
  BY ItemSymbol DEF Item, InputAssumption, Files
<1>2. CASE it \in LazyItems(files, Files \ StartFiles)
  <2>1. it.lazy
    BY <1>2, LazyItemFields DEF StartFiles
  <2>2. c = [kind |-> "Lazy", file |-> it.file, index |-> it.index,
             position |-> Position[it.file], size |-> 0, comdat |-> FALSE]
    BY <2>1 DEF CandidateOf
  <2>3. c \in Definition /\ c.kind = "Lazy"
    BY <1>1, <2>2 DEF Definition, Kinds
  <2>4. c.file = it.file /\ c.index = it.index /\ c.position = Position[it.file]
    BY <2>2
  <2> QED
    BY <2>1, <2>3, <2>4 DEF Candidate, IsDefined
<1>3. CASE it \in RealItems(files, Files)
  <2> DEFINE e == files[it.file].entries[it.index]
  <2>1. ~it.lazy /\ e \in Entry
    BY <1>3, RealItemFields
  <2>2. e.use \in DefinitionUses
    <3>1. UseOf(files, discarded, it) \in {"Ignore", e.use}
      BY <2>1 DEF UseOf
    <3>2. UseOf(files, discarded, it) # "Lazy"
      BY <2>1, <3>1 DEF Entry, DefinitionUses
    <3> QED
      BY <3>1, <3>2 DEF IsDefinitionItem, DefinitionUses
  <2>3. e.size \in Nat
    BY <2>1 DEF Entry
  <2>4. PICK flag \in BOOLEAN :
          c = [kind |-> e.use, file |-> it.file, index |-> it.index,
               position |-> Position[it.file], size |-> e.size, comdat |-> flag]
    BY <2>1 DEF CandidateOf
  <2>5. c.kind # "Lazy" /\ c.kind \in DefinitionUses
    BY <2>2, <2>4 DEF DefinitionUses
  <2>6. c \in Definition
    BY <1>1, <2>2, <2>3, <2>4 DEF Definition, Kinds, DefinitionUses
  <2>7. c.file = it.file /\ c.index = it.index /\ c.position = Position[it.file]
    BY <2>4
  <2> QED
    BY <2>1, <2>5, <2>6, <2>7 DEF Candidate, IsDefined, DefinitionUses
<1> QED
  BY <1>2, <1>3 DEF ValidItems

(* Two different definition items are never tied. *)
LEMMA ItemsCompare ==
  ASSUME InputAssumption, FilesOK, NEW x \in ValidItems, NEW y \in ValidItems, x # y,
         IsDefinitionItem(files, discarded, x), IsDefinitionItem(files, discarded, y)
  PROVE  \/ TakesPrecedence(CandidateOf(files, x), CandidateOf(files, y))
         \/ TakesPrecedence(CandidateOf(files, y), CandidateOf(files, x))
<1> DEFINE c == CandidateOf(files, x)
           d == CandidateOf(files, y)
<1>1. /\ c \in Candidate /\ c.file = x.file /\ c.index = x.index
      /\ c.kind = "Lazy" <=> x.lazy
      /\ d \in Candidate /\ d.file = y.file /\ d.index = y.index
      /\ d.kind = "Lazy" <=> y.lazy
  BY CandidateTyped
<1>2. CASE x.file = y.file /\ x.index = y.index
  <2>1. x \in LazyItems(files, Files \ StartFiles) <=> y \notin LazyItems(files, Files \ StartFiles)
    BY <1>2, LazyItemFields, RealItemFields DEF ValidItems, StartFiles
  <2>2. /\ c.kind = "Lazy" => ~y.lazy /\ ~files[y.file].start
        /\ d.kind = "Lazy" => ~x.lazy /\ ~files[x.file].start
        /\ c.kind = "Lazy" \/ d.kind = "Lazy"
    BY <1>1, <1>2, <2>1, LazyItemFields, RealItemFields DEF ValidItems, StartFiles
  <2>3. c.kind # "Shared" /\ d.kind # "Shared"
    BY <1>1, <1>2, <2>2, LazyItemFields, RealItemFields
    DEF ValidItems, StartFiles, FilesOK, CandidateOf
  <2> QED
    BY <1>1, <2>2, <2>3, PrecedenceCases, RankValues, CandidateFields
<1>3. CASE ~(x.file = y.file /\ x.index = y.index)
  BY <1>1, <1>3, PrecedenceTotal DEF SameEntry
<1> QED
  BY <1>2, <1>3

-----------------------------------------------------------------------------
(***************************************************************************)
(* The inductive invariant                                                 *)
(***************************************************************************)

(* What was inserted comes from lazy names and from live files, so later   *)
(* rounds, which settle the groups of other files, do not change it.       *)
DoneItems ==
  done \subseteq LazyItems(files, Files \ StartFiles) \cup RealItems(files, live)

(* The files of a round become live when the hook has settled. *)
LoadIsNew ==
  /\ phase \in {"load", "hook", "prefetch"} => load \cap live = {}
  /\ phase = "insert" => load \subseteq live

IInv == TypeOK /\ FilesOK /\ DoneItems /\ LoadIsNew /\ TableHoldsBest

LEMMA DoneValid ==
  ASSUME TypeOK, DoneItems
  PROVE  done \subseteq ValidItems
BY ItemsMonotone DEF DoneItems, ValidItems, TypeOK

(* Work consists of valid items; in the insertion pass, of live files. *)
LEMMA WorkItems ==
  ASSUME TypeOK
  PROVE  /\ Work \subseteq ValidItems
         /\ load \subseteq live =>
              Work \subseteq LazyItems(files, Files \ StartFiles) \cup RealItems(files, live)
BY ItemsMonotone DEF Work, ValidItems, TypeOK

(* The best definition of a symbol names a file. *)
LEMMA BestNamesFile ==
  ASSUME InputAssumption, IInv, NEW s \in Symbols, Extracts(defs[s])
  PROVE  defs[s].file \in Files
<1>1. defs[s] # UndefinedDefinition
  BY DEF Extracts, UndefinedDefinition
<1>2. defs[s] \in Inserted(s)
  BY <1>1 DEF IInv, TableHoldsBest
<1>3. PICK it \in done : /\ IsDefinitionItem(files, discarded, it)
                         /\ defs[s] = CandidateOf(files, it)
  BY <1>2 DEF Inserted, CandidatesOf
<1>4. it \in ValidItems
  BY <1>3, DoneValid DEF IInv
<1> QED
  BY <1>3, <1>4, CandidateTyped, ItemSymbol DEF IInv, Item

LEMMA MembersAreFiles ==
  ASSUME InputAssumption, IInv
  PROVE  Members \subseteq Files
BY BestNamesFile DEF Members, IInv, TypeOK

(* What is inserted depends only on what is done and on the groups         *)
(* discarded in its files.                                                 *)
LEMMA InsertedUnchanged ==
  ASSUME IInv, files' = files, done' = done, defs' = defs,
         \A f \in live : discarded'[f] = discarded[f]
  PROVE  TableHoldsBest'
<1>1. ASSUME NEW it \in done
      PROVE  UseOf(files, discarded', it) = UseOf(files, discarded, it)
  <2>1. it \in LazyItems(files, Files \ StartFiles) \cup RealItems(files, live)
    BY <1>1 DEF IInv, DoneItems
  <2>2. it.lazy \/ it.file \in live
    BY <2>1, LazyItemFields, RealItemFields DEF IInv, TypeOK, StartFiles
  <2> QED
    BY <2>2 DEF UseOf
<1>2. \A s : CandidatesOf(files, discarded', done, s) = CandidatesOf(files, discarded, done, s)
  BY <1>1 DEF CandidatesOf, IsDefinitionItem
<1> QED
  BY <1>2 DEF IInv, TableHoldsBest, Inserted

(* Inserting a candidate keeps the best one in the table. *)
LEMMA InsertKeepsBest ==
  ASSUME InputAssumption, IInv, NEW it \in Todo, InsertDefinition(it)
  PROVE  TableHoldsBest'
<1>0. it \in ValidItems /\ it \notin done
  BY WorkItems DEF IInv, Todo
<1>1. PICK s \in Symbols : s = SymOf(files, it)
  BY <1>0, ItemSymbol DEF IInv
<1>2. PICK c \in Candidate : c = CandidateOf(files, it)
  BY <1>0, CandidateTyped DEF IInv, InsertDefinition
<1>3. files' = files /\ discarded' = discarded /\ done' = done \cup {it}
  BY DEF InsertDefinition, inputVars
<1>4. ASSUME NEW t \in Symbols
      PROVE  Inserted(t)' = IF t = s THEN Inserted(t) \cup {c} ELSE Inserted(t)
  BY <1>1, <1>2, <1>3 DEF Inserted, CandidatesOf, InsertDefinition
<1>5. ASSUME NEW d \in Inserted(s)
      PROVE  /\ d \in Candidate
             /\ TakesPrecedence(c, d) \/ TakesPrecedence(d, c)
  <2>1. PICK x \in done : IsDefinitionItem(files, discarded, x) /\ d = CandidateOf(files, x)
    BY <1>5 DEF Inserted, CandidatesOf
  <2>2. x \in ValidItems /\ x # it
    BY <1>0, <2>1, DoneValid DEF IInv
  <2> QED
    BY <1>0, <1>2, <2>1, <2>2, CandidateTyped, ItemsCompare DEF IInv, InsertDefinition
<1>6. defs' = IF TakesPrecedence(c, defs[s]) THEN [defs EXCEPT ![s] = c] ELSE defs
  BY <1>1, <1>2 DEF InsertDefinition
<1>7. defs \in [Symbols -> Definition]
  BY DEF IInv, TypeOK
<1>8. ASSUME NEW t \in Symbols, t # s
      PROVE  Inserted(t)' = Inserted(t) /\ defs'[t] = defs[t]
  BY <1>4, <1>6, <1>7, <1>8
<1>9. CASE Inserted(s) = {}
  <2>1. defs[s] = UndefinedDefinition
    BY <1>1, <1>9 DEF IInv, TableHoldsBest
  <2>2. TakesPrecedence(c, defs[s])
    BY <1>2, <2>1 DEF TakesPrecedence, IsDefined, UndefinedDefinition, Candidate
  <2>3. defs'[s] = c /\ Inserted(s)' = {c}
    BY <1>1, <1>4, <1>6, <1>7, <1>9, <2>2
  <2> QED
    BY <1>8, <2>3 DEF IInv, TableHoldsBest
<1>10. CASE Inserted(s) # {}
  <2>1. /\ defs[s] \in Inserted(s)
        /\ \A d \in Inserted(s) \ {defs[s]} :
             TakesPrecedence(defs[s], d) /\ ~TakesPrecedence(d, defs[s])
    BY <1>1, <1>10 DEF IInv, TableHoldsBest
  <2>2. Inserted(s)' = Inserted(s) \cup {c}
    BY <1>1, <1>4
  <2>3. CASE TakesPrecedence(c, defs[s])
    <3>1. defs'[s] = c
      BY <1>1, <1>6, <1>7, <2>3
    <3>2. ASSUME NEW d \in Inserted(s), d # c
          PROVE  TakesPrecedence(c, d) /\ ~TakesPrecedence(d, c)
      BY <1>2, <1>5, <2>1, <2>3, <3>2, PrecedenceTransitive, PrecedenceAsymmetric
    <3>3. /\ defs'[s] \in Inserted(s)'
          /\ \A d \in Inserted(s)' \ {defs'[s]} :
               TakesPrecedence(defs'[s], d) /\ ~TakesPrecedence(d, defs'[s])
      BY <2>2, <3>1, <3>2
    <3> QED
      BY <1>8, <3>3 DEF IInv, TableHoldsBest
  <2>4. CASE ~TakesPrecedence(c, defs[s])
    <3>1. defs'[s] = defs[s]
      BY <1>6, <2>4
    <3>2. TakesPrecedence(defs[s], c)
      BY <1>5, <2>1, <2>4
    <3>3. /\ defs'[s] \in Inserted(s)'
          /\ \A d \in Inserted(s)' \ {defs'[s]} :
               TakesPrecedence(defs'[s], d) /\ ~TakesPrecedence(d, defs'[s])
      BY <2>1, <2>2, <2>4, <3>1, <3>2
    <3> QED
      BY <1>8, <3>3 DEF IInv, TableHoldsBest
  <2> QED
    BY <2>3, <2>4
<1> QED
  BY <1>9, <1>10

LEMMA InitIInv ==
  ASSUME InputAssumption, InputsAssumption, Init
  PROVE  IInv
<1>1. FilesOK /\ hooked \in BOOLEAN
  BY DEF Init, InputsAssumption, FilesOK
<1>2. UndefinedDefinition \in Definition
  BY DEF UndefinedDefinition, Definition, Kinds
<1>3. NoClaim \in [round: Nat, file: Files \cup {0}]
  BY DEF NoClaim
<1>4. TypeOK
  BY <1>1, <1>2, <1>3 DEF Init, TypeOK, FilesOK, StartFiles
<1>5. \A s \in Symbols : Inserted(s) = {}
  BY DEF Init, Inserted, CandidatesOf
<1>6. TableHoldsBest
  BY <1>5 DEF Init, TableHoldsBest
<1> QED
  BY <1>1, <1>4, <1>6 DEF Init, IInv, DoneItems, LoadIsNew

(* Steps that insert nothing and settle nothing. *)
LEMMA QuietStep ==
  ASSUME IInv, TypeOK', UNCHANGED <<inputVars, live, done, defs, discarded>>, LoadIsNew'
  PROVE  IInv'
<1>1. TableHoldsBest'
  BY InsertedUnchanged DEF inputVars
<1>2. DoneItems' /\ FilesOK'
  BY DEF IInv, DoneItems, FilesOK, inputVars, StartFiles
<1> QED
  BY <1>1, <1>2 DEF IInv

LEMMA GroupsTyped ==
  ASSUME FilesOK, NEW f \in Files
  PROVE  GroupsOf(files[f]) \subseteq Groups
<1>1. files[f].entries \in Seq(Entry)
  BY DEF FilesOK, InputFile
<1>2. \A i \in DOMAIN files[f].entries : files[f].entries[i] \in Entry
  BY <1>1
<1> QED
  BY <1>2 DEF GroupsOf, Entry

(* The steps of a round's tasks on one item. *)
LEMMA ItemStep ==
  ASSUME InputAssumption, IInv, NEW it \in Todo,
         MarkReference(it) \/ MarkOther(it) \/ InsertDefinition(it)
  PROVE  IInv'
<1> USE DEF inputVars, loadVars, prefetchVars
<1>1. it \in ValidItems /\ it \in Item /\ SymOf(files, it) \in Symbols
  BY WorkItems, ItemSymbol DEF IInv, Todo
<1>2. it \in LazyItems(files, Files \ StartFiles) \cup RealItems(files, live)
  BY WorkItems DEF IInv, Todo, LoadIsNew, MarkReference, MarkOther, InsertDefinition
<1>3. UNCHANGED <<files, hooked, phase, live, load, discarded>> /\ done' = done \cup {it}
  BY DEF MarkReference, MarkOther, InsertDefinition
<1>4. DoneItems' /\ FilesOK' /\ LoadIsNew'
  BY <1>2, <1>3 DEF IInv, DoneItems, FilesOK, LoadIsNew, StartFiles
<1>5. TypeOK'
  <2>1. CASE MarkReference(it)
    BY <1>1, <2>1 DEF IInv, TypeOK, MarkReference
  <2>2. CASE MarkOther(it)
    BY <1>1, <2>2 DEF IInv, TypeOK, MarkOther
  <2>3. CASE InsertDefinition(it)
    <3>1. CandidateOf(files, it) \in Definition
      BY <1>1, <2>3, CandidateTyped DEF IInv, InsertDefinition, Candidate
    <3> QED
      BY <1>1, <2>3, <3>1 DEF IInv, TypeOK, InsertDefinition
  <2> QED
    BY <2>1, <2>2, <2>3
<1>6. TableHoldsBest'
  <2>1. CASE InsertDefinition(it)
    BY <2>1, InsertKeepsBest
  <2>2. CASE MarkReference(it) \/ MarkOther(it)
    <3>1. ~IsDefinitionItem(files, discarded, it) /\ defs' = defs
      BY <2>2 DEF MarkReference, MarkOther, IsDefinitionItem, DefinitionUses
    <3>2. ASSUME NEW s PROVE Inserted(s)' = Inserted(s)
      BY <1>3, <3>1 DEF Inserted, CandidatesOf
    <3> QED
      BY <3>1, <3>2 DEF IInv, TableHoldsBest
  <2> QED
    BY <2>1, <2>2
<1> QED
  BY <1>4, <1>5, <1>6 DEF IInv

(* Every step preserves the invariant. *)
LEMMA NextIInv ==
  ASSUME InputAssumption, IInv, [Next]_vars
  PROVE  IInv'
<1> USE DEF inputVars, loadVars, prefetchVars, insertVars
<1>0. TypeOK /\ FilesOK /\ LoadIsNew
  BY DEF IInv
<1>1. ASSUME NEW f \in Files, LoadFile(f) PROVE IInv'
  <2>1. TypeOK'
    BY <1>0, <1>1, GroupsTyped DEF TypeOK, LoadFile
  <2> QED
    BY <1>0, <1>1, <2>1, QuietStep DEF LoadFile, LoadIsNew
<1>2. ASSUME NEW f \in Files, Visit(f) PROVE IInv'
  <2>1. LazyMembers(f) \subseteq Files
    BY BestNamesFile DEF LazyMembers
  <2>2. TypeOK'
    <3>1. follow' \subseteq (Files \cup {0}) \X Files
      BY <1>0, <1>2, <2>1 DEF TypeOK, Visit
    <3>2. early' \in [Files -> {"none", "ok", "error"}] /\ loads' \in [Files -> Nat]
      <4> DEFINE result == IF files[f].broken THEN "error" ELSE "ok"
      <4>1. early \in [Files -> {"none", "ok", "error"}] /\ loads \in [Files -> Nat]
        BY <1>0 DEF TypeOK
      <4>2. \/ early' = early /\ loads' = loads
            \/ /\ early' = [early EXCEPT ![f] = result]
               /\ loads' = [loads EXCEPT ![f] = loads[f] + 1]
        BY <1>2 DEF Visit
      <4>3. result \in {"none", "ok", "error"}
        OBVIOUS
      <4> HIDE DEF result
      <4> QED
        BY <4>1, <4>2, <4>3
    <3> QED
      BY <1>0, <1>2, <3>1, <3>2 DEF TypeOK, Visit
  <2> QED
    BY <1>0, <1>2, <2>2, QuietStep DEF Visit, LoadIsNew
<1>3. ASSUME NEW f \in Files, NEW g \in Groups, OnLoad(f, g) PROVE IInv'
  <2>1. SlotOffer(claims[g], f) \in [round: Nat, file: Files \cup {0}]
    BY <1>0, <1>3 DEF TypeOK, SlotOffer
  <2>2. TypeOK'
    BY <1>0, <1>3, <2>1 DEF TypeOK, OnLoad
  <2> QED
    BY <1>0, <1>3, <2>2, QuietStep DEF OnLoad, LoadIsNew
<1>4. ASSUME NEW f \in Files, NEW g \in Groups, OfferKey(f, g) PROVE IInv'
  <2>1. KeyOffer(claims[g], f) \in [round: Nat, file: Files \cup {0}]
    BY <1>0, <1>4 DEF TypeOK, KeyOffer
  <2>2. TypeOK'
    BY <1>0, <1>4, <2>1 DEF TypeOK, OfferKey
  <2> QED
    BY <1>0, <1>4, <2>2, QuietStep DEF OfferKey, LoadIsNew
<1>5. CASE LoadDone
  <2>1. TypeOK'
    BY <1>0, <1>5, GroupsTyped DEF TypeOK, LoadDone
  <2> QED
    BY <1>0, <1>5, <2>1, QuietStep DEF LoadDone, LoadIsNew
<1>6. CASE Settle
  <2>1. TypeOK'
    BY <1>0, <1>6, GroupsTyped DEF TypeOK, Settle
  <2>2. \A f \in live : discarded'[f] = discarded[f]
    BY <1>0, <1>6 DEF Settle, LoadIsNew, TypeOK
  <2>3. TableHoldsBest'
    BY <1>6, <2>2, InsertedUnchanged DEF Settle
  <2>4. FilesOK' /\ LoadIsNew'
    BY <1>0, <1>6 DEF Settle, FilesOK, LoadIsNew
  <2>5. DoneItems'
    BY <1>6, ItemsMonotone DEF IInv, DoneItems, Settle, StartFiles
  <2> QED
    BY <2>1, <2>3, <2>4, <2>5 DEF IInv
<1>7. ASSUME NEW it \in Todo,
             MarkReference(it) \/ MarkOther(it) \/ InsertDefinition(it)
      PROVE  IInv'
  BY <1>7, ItemStep
<1>8. ASSUME NEW it \in won, ReadFlag(it) PROVE IInv'
  <2>1. TypeOK'
    BY <1>0, <1>8 DEF TypeOK, ReadFlag
  <2> QED
    BY <1>0, <1>8, <2>1, QuietStep DEF ReadFlag, LoadIsNew
<1>9. CASE Choose
  <2>1. Members \subseteq Files /\ Members \cap live = {}
    BY MembersAreFiles DEF Members
  <2>2. TypeOK'
    <3>1. extracted' \in Seq(SUBSET Files)
      <4>1. extracted' = extracted \/ extracted' = Append(extracted, Members)
        BY <1>9 DEF Choose
      <4>2. extracted \in Seq(SUBSET Files) /\ Members \in SUBSET Files
        BY <1>0, <2>1 DEF TypeOK
      <4> QED
        BY <4>1, <4>2
    <3>2. follow' \subseteq (Files \cup {0}) \X Files
      BY <1>0, <1>9, <2>1 DEF TypeOK, Choose
    <3>3. phase' \in {"report", "prefetch", "load"} /\ round' \in Nat
      BY <1>0, <1>9 DEF TypeOK, Choose
    <3>4. load' \subseteq Files /\ loading' \subseteq Files /\ claimed' \subseteq Files
      BY <1>0, <1>9, <2>1 DEF TypeOK, Choose
    <3> QED
      BY <1>0, <1>9, <3>1, <3>2, <3>3, <3>4 DEF TypeOK, Choose
  <2> QED
    BY <1>0, <1>9, <2>1, <2>2, QuietStep DEF Choose, LoadIsNew
<1>10. ASSUME NEW p \in follow, ClaimMember(p[1], p[2]) PROVE IInv'
  <2>1. TypeOK'
    BY <1>0, <1>10 DEF TypeOK, ClaimMember
  <2> QED
    BY <1>0, <1>10, <2>1, QuietStep DEF ClaimMember, LoadIsNew
<1>11. CASE PrefetchDone
  <2>1. TypeOK'
    BY <1>0, <1>11 DEF TypeOK, PrefetchDone
  <2> QED
    BY <1>0, <1>11, <2>1, QuietStep DEF PrefetchDone, LoadIsNew
<1>12. CASE Report
  <2>1. TypeOK'
    BY <1>0, <1>12 DEF TypeOK, Report
  <2> QED
    BY <1>0, <1>12, <2>1, QuietStep DEF Report, LoadIsNew
<1>13. CASE UNCHANGED vars
  <2>1. TypeOK' /\ LoadIsNew'
    BY <1>0, <1>13 DEF TypeOK, LoadIsNew, vars
  <2> QED
    BY <1>13, <2>1, QuietStep DEF vars
<1> QED
  BY <1>1, <1>2, <1>3, <1>4, <1>5, <1>6, <1>7, <1>8, <1>9, <1>10, <1>11,
     <1>12, <1>13 DEF Next, Terminating

(* Resolution keeps its state well typed. *)
THEOREM ResolveTypeOK == Spec => []TypeOK
<1>1. Init => IInv
  BY InitIInv, InputAssumption, InputsAssumption
<1>2. IInv /\ [Next]_vars => IInv'
  BY NextIInv, InputAssumption
<1>3. IInv => TypeOK
  BY DEF IInv
<1> QED
  BY <1>1, <1>2, <1>3, PTL DEF Spec

(* Whatever the interleaving of the insertion tasks, and for any input,    *)
(* the table holds the best definition inserted so far.                    *)
THEOREM ResolveTableHoldsBest == Spec => []TableHoldsBest
<1>1. Init => IInv
  BY InitIInv, InputAssumption, InputsAssumption
<1>2. IInv /\ [Next]_vars => IInv'
  BY NextIInv, InputAssumption
<1>3. IInv => TableHoldsBest
  BY DEF IInv
<1> QED
  BY <1>1, <1>2, <1>3, PTL DEF Spec

-----------------------------------------------------------------------------
(***************************************************************************)
(* What the passes of a round leave behind                                 *)
(***************************************************************************)

(* How the phases of a round follow each other: which files are live, and  *)
(* which tasks are over.  Only the first round inserts lazy names.         *)
Rounds ==
  /\ loading \subseteq load
  /\ phase = "hook" => loading = {}
  /\ phase \in {"insert", "report", "done"} => load \subseteq live /\ loading = {}
  /\ phase = "prefetch" => loading = load /\ hooked /\ round > 0 /\ live = StartFiles
  /\ phase \notin {"load", "hook"} => offers = {}
  /\ round = 0 => /\ load = StartFiles
                  /\ phase \in {"load", "hook", "failed"} => live = {}
                  /\ phase \in {"insert", "report", "done"} => live = StartFiles
  /\ round > 0 => StartFiles \subseteq live /\ load \cap StartFiles = {}
  /\ phase # "insert" \/ round > 0 => won = {}

(* Every symbol of a live file is inserted or about to be; a reference     *)
(* leaves the flag; and a flagged symbol whose best definition is a lazy   *)
(* one has its member chosen, is a candidate, or is about to be one.       *)
Extraction ==
  /\ RealItems(files, live) \subseteq done \cup (IF phase = "insert" THEN RealItems(files, load) ELSE {})
  /\ \A it \in done : UseOf(files, discarded, it) = "Reference" => SymOf(files, it) \in referenced
  /\ \A s \in referenced : Extracts(defs[s]) =>
       \/ defs[s].file \in live
       \/ phase = "insert" /\ (s \in candidates \/ \E it \in won : SymOf(files, it) = s)
       \/ phase # "insert" /\ defs[s].file \in load

(* A group that was offered has a holder.  A claim made this round is held *)
(* by a file of this round, an earlier one no longer changes; and the live *)
(* files have discarded the copies they do not hold.                       *)
Held(g) == claims[g] # NoClaim
Offered(f) == \A g \in GroupsOf(files[f]) : <<f, g>> \in offers \/ Held(g)
GroupClaims ==
  /\ \A p \in offers : p[1] \in load /\ p[2] \in GroupsOf(files[p[1]])
  /\ \A g \in Groups : Held(g) =>
       /\ claims[g].file \in live \cup load
       /\ g \in GroupsOf(files[claims[g].file])
       /\ claims[g].round <= round + 1
       /\ claims[g].round = round + 1 <=> claims[g].file \in load
  /\ \A f \in live : \A g \in GroupsOf(files[f]) :
       Held(g) /\ (g \in discarded[f] <=> claims[g].file # f)
  /\ phase = "load" /\ hooked => \A f \in load \ (loading \cup errors) : Offered(f)
  /\ phase = "hook" => \A f \in load : Offered(f)
  /\ ~hooked /\ phase = "load" =>
       offers = {} /\ \A g \in Groups : Held(g) => claims[g].file \notin load
  /\ ~hooked /\ phase = "hook" =>
       \A g \in Groups : Held(g) /\ claims[g].file \in load => <<claims[g].file, g>> \in held

(* A file is loaded once: by its round or, if its member was claimed, by   *)
(* one visit, whose result its round takes.                                *)
Loads ==
  /\ round = 0 => \A f \in Files : early[f] = "none"
  /\ phase # "prefetch" => visits = {} /\ follow = {}
  /\ phase = "prefetch" => /\ live \subseteq claimed
                           /\ visits \subseteq claimed \ live
                           /\ \A f \in Files : early[f] # "none" => f \in claimed \ visits
  /\ \A f \in Files : early[f] # "none" => f \notin live /\ f \notin load \ loading
  /\ \A f \in Files :
       loads[f] = IF \/ f \in live
                     \/ phase # "done" /\ (f \in load \ loading \/ early[f] # "none")
                    THEN 1 ELSE 0

(* Where every member may load early and loads, the claimed files are      *)
(* closed under the members their references ask for: they hold the files  *)
(* of every later round.                                                   *)
AllEarly == \A f \in Files \ StartFiles : files[f].early /\ ~files[f].broken
Covered ==
  hooked /\ AllEarly /\ round > 0 =>
    /\ live \subseteq claimed
    /\ phase = "prefetch" =>
         /\ \A m \in load : m \in claimed \/ \E p \in follow : p[2] = m
         /\ \A f \in claimed \ StartFiles :
              \/ f \in visits
              \/ /\ early[f] = "ok"
                 /\ \A m \in LazyMembers(f) : m \in claimed \/ <<f, m>> \in follow
    /\ phase # "prefetch" =>
         /\ load \subseteq claimed
         /\ \A f \in claimed \ StartFiles :
              /\ LazyMembers(f) \subseteq claimed
              /\ f \in live \/ f \in load \ loading \/ early[f] = "ok"
    /\ phase = "insert" => \A s \in candidates : \E f \in load :
         StrongReferences(files, discarded, RealItems(files, {f}), s) # {}

RoundInv == IInv /\ Rounds /\ Extraction /\ GroupClaims /\ Loads /\ Covered

LEMMA InitRoundInv ==
  ASSUME InputAssumption, InputsAssumption, Init
  PROVE  RoundInv
<1>1. IInv
  BY InitIInv
<1>2. Rounds
  BY DEF Init, Rounds
<1>3. Extraction
  BY DEF Init, Extraction, RealItems
<1>4. GroupClaims
  BY DEF Init, GroupClaims, Held, StartFiles
<1>5. Loads
  BY DEF Init, Loads, StartFiles
<1>6. Covered
  BY DEF Init, Covered
<1> QED
  BY <1>1, <1>2, <1>3, <1>4, <1>5, <1>6 DEF RoundInv

(* Only the first round inserts lazy names. *)
LEMMA LaterRoundsInsertReal ==
  ASSUME InputAssumption, IInv, NEW it \in Todo, InsertDefinition(it), round > 0
  PROVE  ~Extracts(CandidateOf(files, it)) /\ it \in RealItems(files, load)
<1>0. TypeOK /\ FilesOK
  BY DEF IInv
<1>1. it \in RealItems(files, load)
  BY <1>0 DEF Todo, Work, TypeOK
<1>2. ~it.lazy /\ it \in ValidItems
  BY <1>0, <1>1, RealItemFields, WorkItems DEF TypeOK, Todo
<1> QED
  BY <1>0, <1>1, <1>2, CandidateTyped DEF InsertDefinition, Extracts

LEMMA RoundsNext ==
  ASSUME InputAssumption, RoundInv, [Next]_vars
  PROVE  Rounds'
<1> USE DEF inputVars, loadVars, prefetchVars, insertVars
<1>0. IInv /\ TypeOK /\ FilesOK /\ LoadIsNew /\ Rounds
  BY DEF RoundInv, IInv
<1>1. files' = files => StartFiles' = StartFiles
  BY DEF StartFiles
<1>2. ASSUME NEW f \in Files, LoadFile(f) \/ Visit(f) PROVE Rounds'
  BY <1>0, <1>1, <1>2 DEF LoadFile, Visit, Rounds
<1>3. ASSUME NEW f \in Files, NEW g \in Groups, OnLoad(f, g) \/ OfferKey(f, g) PROVE Rounds'
  BY <1>0, <1>1, <1>3 DEF OnLoad, OfferKey, Rounds
<1>4. CASE LoadDone
  BY <1>0, <1>1, <1>4 DEF LoadDone, Rounds
<1>5. CASE Settle
  BY <1>0, <1>1, <1>5 DEF Settle, Rounds
<1>6. ASSUME NEW it \in Todo, MarkReference(it) \/ MarkOther(it) PROVE Rounds'
  BY <1>0, <1>1, <1>6 DEF MarkReference, MarkOther, Rounds
<1>7. ASSUME NEW it \in Todo, InsertDefinition(it) PROVE Rounds'
  <2>1. round > 0 => won' = won
    <3>1. ASSUME round > 0 PROVE ~Extracts(CandidateOf(files, it))
      BY <1>0, <1>7, <3>1, LaterRoundsInsertReal
    <3> QED
      BY <1>7, <3>1 DEF InsertDefinition
  <2> QED
    BY <1>0, <1>1, <1>7, <2>1 DEF InsertDefinition, Rounds
<1>8. ASSUME NEW it \in won, ReadFlag(it) PROVE Rounds'
  BY <1>0, <1>1, <1>8 DEF ReadFlag, Rounds
<1>9. CASE Choose
  <2>1. Members \cap live = {}
    BY DEF Members
  <2>2. StartFiles \subseteq live /\ (round = 0 => live = StartFiles) /\ offers = {} /\ won = {}
    BY <1>0, <1>9 DEF Choose, Rounds, TypeOK
  <2>3. CASE Members = {}
    BY <1>0, <1>1, <1>9, <2>3 DEF Choose, Rounds
  <2>4. CASE Members # {}
    <3>1. /\ load' = Members /\ loading' = Members /\ round' = round + 1 /\ round \in Nat
          /\ phase' \in {"prefetch", "load"} /\ (phase' = "prefetch" => round = 0 /\ hooked)
          /\ UNCHANGED <<files, hooked, live, offers, won>>
      BY <1>0, <1>9, <2>4 DEF Choose, TypeOK
    <3> QED
      BY <1>1, <2>1, <2>2, <3>1 DEF Rounds
  <2> QED
    BY <2>3, <2>4
<1>10. ASSUME NEW p \in follow, ClaimMember(p[1], p[2]) PROVE Rounds'
  BY <1>0, <1>1, <1>10 DEF ClaimMember, Rounds
<1>11. CASE PrefetchDone
  BY <1>0, <1>1, <1>11 DEF PrefetchDone, Rounds
<1>12. CASE Report
  BY <1>0, <1>1, <1>12 DEF Report, Rounds
<1>13. CASE UNCHANGED vars
  BY <1>0, <1>1, <1>13 DEF vars, Rounds
<1> QED
  BY <1>2, <1>3, <1>4, <1>5, <1>6, <1>7, <1>8, <1>9, <1>10, <1>11,
     <1>12, <1>13 DEF Next, Terminating

(* A reference is one whatever groups are discarded. *)
LEMMA ReferenceUse ==
  ASSUME NEW d, NEW e, NEW it
  PROVE  UseOf(files, d, it) = "Reference" <=> UseOf(files, e, it) = "Reference"
BY DEF UseOf, DefinitionUses

LEMMA RealItemsUnion ==
  ASSUME NEW fs, NEW gs
  PROVE  RealItems(files, fs \cup gs) = RealItems(files, fs) \cup RealItems(files, gs)
BY DEF RealItems

(* Steps that neither insert, nor settle, nor choose. *)
LEMMA ExtractionQuiet ==
  ASSUME Extraction, UNCHANGED <<files, live, load, discarded, done, won, defs, referenced, candidates>>,
         phase = "insert" <=> phase' = "insert"
  PROVE  Extraction'
<1>1. RealItems(files, live)' = RealItems(files, live) /\ RealItems(files, load)' = RealItems(files, load)
  OBVIOUS
<1> QED
  BY <1>1 DEF Extraction

LEMMA ExtractionNext ==
  ASSUME InputAssumption, RoundInv, [Next]_vars
  PROVE  Extraction'
<1> USE DEF inputVars, loadVars, prefetchVars, insertVars
<1>0. IInv /\ TypeOK /\ FilesOK /\ LoadIsNew /\ Rounds /\ Extraction
  BY DEF RoundInv, IInv
<1>1. ASSUME NEW f \in Files, LoadFile(f) \/ Visit(f) PROVE Extraction'
  BY <1>0, <1>1, ExtractionQuiet DEF LoadFile, Visit
<1>2. ASSUME NEW f \in Files, NEW g \in Groups, OnLoad(f, g) \/ OfferKey(f, g) PROVE Extraction'
  BY <1>0, <1>2, ExtractionQuiet DEF OnLoad, OfferKey
<1>3. CASE LoadDone
  BY <1>0, <1>3, ExtractionQuiet DEF LoadDone
<1>4. CASE Settle
  <2>1. /\ live' = live \cup load /\ phase = "hook" /\ phase' = "insert"
        /\ UNCHANGED <<files, load, done, won, defs, referenced>>
    BY <1>4 DEF Settle
  <2>2. RealItems(files', live') \subseteq done' \cup RealItems(files', load')
    BY <1>0, <2>1, RealItemsUnion DEF Extraction
  <2>3. \A it \in done' : UseOf(files', discarded', it) = "Reference" => SymOf(files', it) \in referenced'
    BY <1>0, <2>1, ReferenceUse DEF Extraction
  <2>4. \A s \in referenced' : Extracts(defs'[s]) => defs'[s].file \in live'
    BY <1>0, <2>1 DEF Extraction
  <2> QED
    BY <2>1, <2>2, <2>3, <2>4 DEF Extraction
<1>5. ASSUME NEW it \in Todo, MarkReference(it) PROVE Extraction'
  BY <1>0, <1>5 DEF MarkReference, Extraction
<1>6. ASSUME NEW it \in Todo, MarkOther(it) PROVE Extraction'
  BY <1>0, <1>6 DEF MarkOther, Extraction
<1>7. ASSUME NEW it \in Todo, InsertDefinition(it) PROVE Extraction'
  <2>1. /\ UNCHANGED <<files, live, load, discarded, referenced, candidates, phase>>
        /\ phase = "insert" /\ done' = done \cup {it} /\ won \subseteq won'
    BY <1>7 DEF InsertDefinition
  <2>2. UseOf(files, discarded, it) # "Reference"
    BY <1>7 DEF InsertDefinition, IsDefinitionItem, DefinitionUses
  <2>3. ASSUME NEW s \in referenced, Extracts(defs'[s])
        PROVE  defs'[s].file \in live \/ s \in candidates \/ \E x \in won' : SymOf(files, x) = s
    <3>1. s \in Symbols
      BY <1>0 DEF TypeOK
    <3>2. CASE defs'[s] = defs[s]
      BY <1>0, <2>1, <2>3, <3>2 DEF Extraction
    <3>3. CASE defs'[s] # defs[s]
      <4>1. s = SymOf(files, it) /\ defs'[s] = CandidateOf(files, it) /\ TakesPrecedence(CandidateOf(files, it), defs[s])
        BY <1>0, <1>7, <3>1, <3>3 DEF InsertDefinition, TypeOK
      <4>2. it \in won'
        BY <1>7, <2>3, <4>1 DEF InsertDefinition
      <4> QED
        BY <4>1, <4>2
    <3> QED
      BY <3>2, <3>3
  <2> QED
    BY <1>0, <2>1, <2>2, <2>3 DEF Extraction
<1>8. ASSUME NEW it \in won, ReadFlag(it) PROVE Extraction'
  BY <1>0, <1>8 DEF ReadFlag, Extraction
<1>9. CASE Choose
  <2>1. UNCHANGED <<files, live, discarded, done, won, defs, referenced, candidates>>
    BY <1>9 DEF Choose
  <2>2. phase = "insert" /\ won = {} /\ Work \subseteq done /\ phase' # "insert"
    BY <1>9 DEF Choose, Todo
  <2>3. RealItems(files, live) \subseteq done
    BY <1>0, <2>2 DEF Work, Extraction
  <2>4. IF Members = {} THEN load' = load ELSE load' = Members
    BY <1>9 DEF Choose
  <2>5. \A s \in referenced : Extracts(defs[s]) => defs[s].file \in live \/ defs[s].file \in Members
    BY <1>0, <2>2 DEF Extraction, Members
  <2> QED
    BY <1>0, <2>1, <2>2, <2>3, <2>4, <2>5 DEF Extraction
<1>10. ASSUME NEW p \in follow, ClaimMember(p[1], p[2]) PROVE Extraction'
  BY <1>0, <1>10, ExtractionQuiet DEF ClaimMember
<1>11. CASE PrefetchDone
  BY <1>0, <1>11, ExtractionQuiet DEF PrefetchDone
<1>12. CASE Report
  BY <1>0, <1>12, ExtractionQuiet DEF Report
<1>13. CASE UNCHANGED vars
  BY <1>0, <1>13, ExtractionQuiet DEF vars
<1> QED
  BY <1>1, <1>2, <1>3, <1>4, <1>5, <1>6, <1>7, <1>8, <1>9, <1>10, <1>11,
     <1>12, <1>13 DEF Next, Terminating

(* Steps that leave the groups, their claims and the round's files alone.  *)
LEMMA GroupClaimsQuiet ==
  ASSUME GroupClaims, UNCHANGED <<files, hooked, round, live, load, loading, offers, errors,
                                  claims, held, discarded>>,
         phase' \in {"load", "hook"} => phase' = phase
  PROVE  GroupClaims'
<1>1. \A g : Held(g)' <=> Held(g)
  BY DEF Held
<1>2. \A f : Offered(f)' <=> Offered(f)
  BY <1>1 DEF Offered
<1> QED
  BY <1>1, <1>2 DEF GroupClaims

(* An offer gives a vacant group to f, or takes it from another file of    *)
(* the round; an earlier round's claim stays.                              *)
LEMMA OfferTaken ==
  ASSUME InputAssumption, RoundInv, NEW f \in load, NEW g \in Groups, g \in GroupsOf(files[f]),
         claims' = [claims EXCEPT ![g] = SlotOffer(@, f)] \/ claims' = [claims EXCEPT ![g] = KeyOffer(@, f)],
         UNCHANGED <<files, round, live, load, discarded>>, phase \in {"load", "hook"}
  PROVE  /\ \A h \in Groups : Held(h) => Held(h)'
         /\ Held(g)'
         /\ \A h \in Groups : claims'[h] = claims[h] \/ (h = g /\ claims'[h].file = f)
         /\ \A h \in Groups : Held(h)' =>
              /\ claims'[h].file \in live \cup load
              /\ h \in GroupsOf(files[claims'[h].file])
              /\ claims'[h].round <= round + 1
              /\ claims'[h].round = round + 1 <=> claims'[h].file \in load
         /\ \A k \in live : \A h \in GroupsOf(files[k]) :
              Held(h)' /\ (h \in discarded[k] <=> claims'[h].file # k)
<1>0. TypeOK /\ FilesOK /\ LoadIsNew /\ GroupClaims
  BY DEF RoundInv, IInv
<1> DEFINE new == [round |-> round + 1, file |-> f]
<1>1. new # NoClaim /\ new.round = round + 1 /\ new.file = f /\ round \in Nat
  <2>1. round \in Nat
    BY <1>0 DEF TypeOK
  <2> QED
    BY <2>1 DEF NoClaim
<1> HIDE DEF new
<1>2. claims'[g] \in {claims[g], new} /\ (claims[g] = NoClaim => claims'[g] = new)
      /\ (Held(g) /\ claims[g].round # round + 1 => claims'[g] = claims[g])
  BY <1>0 DEF SlotOffer, KeyOffer, TypeOK, GroupClaims, Held, new
<1>3. \A h \in Groups \ {g} : claims'[h] = claims[h]
  BY <1>0 DEF TypeOK
<1>4. Held(g)' /\ \A h \in Groups : Held(h) => Held(h)'
  BY <1>1, <1>2, <1>3 DEF Held, NoClaim
<1>5. ASSUME NEW h \in Groups, Held(h)'
      PROVE  /\ claims'[h].file \in live \cup load
             /\ h \in GroupsOf(files[claims'[h].file])
             /\ claims'[h].round <= round + 1
             /\ claims'[h].round = round + 1 <=> claims'[h].file \in load
  <2>1. CASE claims'[h] = claims[h]
    BY <1>0, <1>5, <2>1 DEF GroupClaims, Held, NoClaim
  <2>2. CASE h = g /\ claims'[h] = new
    BY <1>1, <2>2
  <2> QED
    BY <1>2, <1>3, <2>1, <2>2
<1>6. ASSUME NEW k \in live, NEW h \in GroupsOf(files[k])
      PROVE  Held(h)' /\ (h \in discarded[k] <=> claims'[h].file # k)
  <2>0. h \in Groups
    BY <1>0, GroupsTyped DEF TypeOK
  <2>1. Held(h) /\ (h \in discarded[k] <=> claims[h].file # k)
    BY <1>0 DEF GroupClaims
  <2>2. k \notin load
    BY <1>0 DEF LoadIsNew
  <2>3. CASE claims'[h] = claims[h]
    BY <1>4, <2>0, <2>1, <2>3
  <2>4. CASE h = g /\ claims'[h] = new /\ claims'[h] # claims[h]
    <3>1. claims[g].round = round + 1
      BY <1>2, <2>1, <2>4
    <3>2. claims[g].file \in load
      BY <1>0, <2>1, <2>4, <3>1 DEF GroupClaims
    <3>3. claims[h].file # k /\ claims'[h].file # k
      BY <1>1, <2>2, <2>4, <3>2
    <3> QED
      BY <1>4, <2>1, <2>4, <3>3
  <2> QED
    BY <1>2, <1>3, <2>0, <2>3, <2>4
<1>7. \A h \in Groups : claims'[h] = claims[h] \/ (h = g /\ claims'[h].file = f)
  BY <1>1, <1>2, <1>3
<1> QED
  BY <1>4, <1>5, <1>6, <1>7

(* After the offers, exactly the holders of this round keep their copies.  *)
LEMMA SettleGroups ==
  ASSUME InputAssumption, RoundInv, Settle
  PROVE  GroupClaims'
<1> USE DEF inputVars, loadVars, prefetchVars, insertVars
<1>0. TypeOK /\ FilesOK /\ LoadIsNew /\ Rounds /\ GroupClaims
  BY DEF RoundInv, IInv
<1>1. /\ phase = "hook" /\ offers = {} /\ offers' = {} /\ phase' = "insert"
      /\ live' = live \cup load
      /\ UNCHANGED <<files, hooked, round, load, claims>>
  BY DEF Settle
<1>2. \A f \in Files : discarded'[f] =
        IF f \in load THEN {g \in GroupsOf(files[f]) : ~Kept(f, g)} ELSE discarded[f]
  BY DEF Settle
<1>3. \A g : Held(g)' <=> Held(g)
  BY <1>1 DEF Held
<1>4. ASSUME NEW f \in live', NEW g \in GroupsOf(files[f])
      PROVE  Held(g) /\ (g \in discarded'[f] <=> claims[g].file # f)
  <2>0. f \in Files /\ g \in Groups
    BY <1>0, <1>1, GroupsTyped DEF TypeOK
  <2>1. CASE f \notin load
    BY <1>0, <1>1, <1>2, <2>0, <2>1 DEF GroupClaims
  <2>2. CASE f \in load
    <3>1. Held(g)
      BY <1>0, <1>1, <2>2 DEF GroupClaims, Offered
    <3>2. Kept(f, g) <=> claims[g].file = f
      <4>1. claims[g] \in [round: Nat, file: Files \cup {0}]
        BY <1>0, <2>0 DEF TypeOK
      <4>2. CASE hooked
        <5>1. claims[g] = [round |-> claims[g].round, file |-> claims[g].file]
          BY <4>1
        <5>2. claims[g].file = f => claims[g].round = round + 1
          BY <1>0, <2>0, <2>2, <3>1 DEF GroupClaims
        <5> QED
          BY <4>2, <5>1, <5>2 DEF Kept
      <4>3. CASE ~hooked
        BY <1>0, <1>1, <2>0, <2>2, <3>1, <4>3 DEF GroupClaims, Kept
      <4> QED
        BY <4>2, <4>3
    <3> QED
      BY <1>2, <2>0, <2>2, <3>1, <3>2
  <2> QED
    BY <2>1, <2>2
<1>5. \A g \in Groups : Held(g) =>
        /\ claims[g].file \in live' \cup load
        /\ g \in GroupsOf(files[claims[g].file])
        /\ claims[g].round <= round + 1
        /\ claims[g].round = round + 1 <=> claims[g].file \in load
  BY <1>0, <1>1 DEF GroupClaims
<1> QED
  BY <1>1, <1>3, <1>4, <1>5 DEF GroupClaims

LEMMA GroupClaimsNext ==
  ASSUME InputAssumption, RoundInv, [Next]_vars
  PROVE  GroupClaims'
<1> USE DEF inputVars, loadVars, prefetchVars, insertVars
<1>0. IInv /\ TypeOK /\ FilesOK /\ LoadIsNew /\ Rounds /\ GroupClaims
  BY DEF RoundInv, IInv
<1>1. ASSUME NEW f \in Files, LoadFile(f) PROVE GroupClaims'
  <2>1. /\ UNCHANGED <<files, hooked, phase, round, live, load, claims, held, discarded>>
        /\ f \in loading /\ loading' = loading \ {f} /\ phase = "load" /\ f \in load
    BY <1>0, <1>1 DEF LoadFile, Rounds
  <2>2. \/ errors' = errors \cup {f} /\ offers' = offers
        \/ errors' = errors /\ offers' = IF hooked
             THEN offers \cup {<<f, g>> : g \in GroupsOf(files[f])} ELSE offers
    BY <1>1 DEF LoadFile
  <2>3. \A g : Held(g)' <=> Held(g)
    BY <2>1 DEF Held
  <2>4. \A p \in offers' : p[1] \in load /\ p[2] \in GroupsOf(files[p[1]])
    BY <1>0, <2>1, <2>2 DEF GroupClaims
  <2>5. ASSUME hooked, NEW k \in load \ (loading' \cup errors') PROVE Offered(k)'
    <3>1. CASE k = f
      <4>1. offers' = offers \cup {<<f, g>> : g \in GroupsOf(files[f])}
        BY <2>2, <2>5, <3>1
      <4> QED
        BY <2>1, <3>1, <4>1 DEF Offered
    <3>2. CASE k # f
      <4>1. offers \subseteq offers' /\ k \notin loading /\ k \notin errors
        BY <2>1, <2>2, <2>5, <3>2
      <4>2. Offered(k)
        BY <1>0, <2>1, <2>5, <4>1 DEF GroupClaims
      <4> QED
        BY <2>1, <2>3, <4>1, <4>2 DEF Offered
    <3> QED
      BY <3>1, <3>2
  <2>6. ~hooked => offers' = offers
    BY <2>2
  <2> QED
    BY <1>0, <2>1, <2>3, <2>4, <2>5, <2>6 DEF GroupClaims
<1>2. ASSUME NEW f \in Files, Visit(f) PROVE GroupClaims'
  BY <1>0, <1>2, GroupClaimsQuiet DEF Visit
<1>3. ASSUME NEW f \in Files, NEW g \in Groups, OnLoad(f, g) \/ OfferKey(f, g) PROVE GroupClaims'
  <2>1. /\ <<f, g>> \in offers /\ offers' = offers \ {<<f, g>>} /\ phase \in {"load", "hook"}
        /\ UNCHANGED <<files, hooked, phase, round, live, load, loading, errors, discarded>>
        /\ claims' = [claims EXCEPT ![g] = SlotOffer(@, f)] \/ claims' = [claims EXCEPT ![g] = KeyOffer(@, f)]
    BY <1>3 DEF OnLoad, OfferKey
  <2>2. f \in load /\ g \in GroupsOf(files[f])
    BY <1>0, <2>1 DEF GroupClaims
  <2>3. /\ \A h \in Groups : Held(h) => Held(h)'
        /\ Held(g)'
        /\ \A h \in Groups : claims'[h] = claims[h] \/ (h = g /\ claims'[h].file = f)
        /\ \A h \in Groups : Held(h)' =>
             /\ claims'[h].file \in live \cup load
             /\ h \in GroupsOf(files[claims'[h].file])
             /\ claims'[h].round <= round + 1
             /\ claims'[h].round = round + 1 <=> claims'[h].file \in load
        /\ \A k \in live : \A h \in GroupsOf(files[k]) :
             Held(h)' /\ (h \in discarded[k] <=> claims'[h].file # k)
    BY <2>1, <2>2, OfferTaken
  <2>4. ASSUME NEW k \in load, Offered(k) PROVE Offered(k)'
    <3>1. GroupsOf(files[k]) \subseteq Groups
      BY <1>0, GroupsTyped DEF TypeOK
    <3> QED
      BY <2>1, <2>3, <2>4, <3>1 DEF Offered
  <2>5. ~hooked => OfferKey(f, g)
    BY <1>0, <1>3, <2>1 DEF GroupClaims, OnLoad
  <2>6. ASSUME ~hooked, NEW h \in Groups, Held(h)', claims'[h].file \in load
        PROVE  <<claims'[h].file, h>> \in held'
    <3>1. held' = IF claims'[g].file = f THEN held \cup {<<f, g>>} ELSE held
      BY <2>5, <2>6 DEF OfferKey
    <3>2. CASE claims'[h] = claims[h]
      BY <1>0, <2>5, <2>6, <3>1, <3>2 DEF GroupClaims, Held, OfferKey, NoClaim
    <3>3. CASE h = g /\ claims'[h].file = f
      BY <3>1, <3>3
    <3> QED
      BY <2>3, <3>2, <3>3
  <2>7. \A p \in offers' : p[1] \in load /\ p[2] \in GroupsOf(files[p[1]])
    BY <1>0, <2>1 DEF GroupClaims
  <2>8. /\ phase = "load" /\ hooked => \A k \in load \ (loading \cup errors) : Offered(k)'
        /\ phase = "hook" => \A k \in load : Offered(k)'
    BY <1>0, <2>4 DEF GroupClaims
  <2>9. ~hooked => phase = "hook"
    BY <2>5 DEF OfferKey
  <2> QED
    BY <2>1, <2>3, <2>6, <2>7, <2>8, <2>9 DEF GroupClaims
<1>4. CASE LoadDone
  <2>1. /\ UNCHANGED <<files, hooked, round, live, load, loading, errors, claims, held, discarded>>
        /\ phase = "load" /\ loading = {} /\ offers = {}
    BY <1>4 DEF LoadDone
  <2>2. \A g : Held(g)' <=> Held(g)
    BY <2>1 DEF Held
  <2>3. CASE errors # {}
    <3>1. phase' = "failed" /\ offers' = offers
      BY <1>4, <2>3 DEF LoadDone
    <3> QED
      BY <1>0, <2>1, <3>1, GroupClaimsQuiet
  <2>4. CASE errors = {}
    <3>1. /\ phase' = "hook"
          /\ offers' = IF hooked THEN {}
               ELSE UNION {{<<f, g>> : g \in GroupsOf(files[f])} : f \in load}
      BY <1>4, <2>4 DEF LoadDone
    <3>2. \A p \in offers' : p[1] \in load /\ p[2] \in GroupsOf(files[p[1]])
      BY <3>1
    <3>3. ASSUME NEW f \in load PROVE Offered(f)'
      <4>1. CASE hooked
        <5>1. Offered(f)
          BY <1>0, <2>1, <2>4, <3>3, <4>1 DEF GroupClaims
        <5> QED
          BY <2>1, <2>2, <5>1 DEF Offered
      <4>2. CASE ~hooked
        <5>1. \A g \in GroupsOf(files[f]) : <<f, g>> \in offers'
          BY <3>1, <3>3, <4>2
        <5> QED
          BY <2>1, <5>1 DEF Offered
      <4> QED
        BY <4>1, <4>2
    <3> QED
      BY <1>0, <2>1, <2>2, <3>1, <3>2, <3>3 DEF GroupClaims
  <2> QED
    BY <2>3, <2>4
<1>5. CASE Settle
  BY <1>5, SettleGroups
<1>6. ASSUME NEW it \in Todo,
             MarkReference(it) \/ MarkOther(it) \/ InsertDefinition(it)
      PROVE  GroupClaims'
  BY <1>0, <1>6, GroupClaimsQuiet DEF MarkReference, MarkOther, InsertDefinition
<1>7. ASSUME NEW it \in won, ReadFlag(it) PROVE GroupClaims'
  BY <1>0, <1>7, GroupClaimsQuiet DEF ReadFlag
<1>8. CASE Choose
  <2>1. /\ UNCHANGED <<files, hooked, live, offers, errors, claims, held, discarded>>
        /\ phase = "insert" /\ offers = {} /\ load \subseteq live /\ round \in Nat
    BY <1>0, <1>8 DEF Choose, Rounds, TypeOK
  <2>2. CASE Members = {}
    <3>1. phase' = "report" /\ UNCHANGED <<round, load, loading>>
      BY <1>8, <2>2 DEF Choose
    <3> QED
      BY <1>0, <2>1, <3>1, GroupClaimsQuiet
  <2>3. CASE Members # {}
    <3>1. load' = Members /\ loading' = Members /\ round' = round + 1 /\ phase' \in {"prefetch", "load"}
      BY <1>8, <2>3 DEF Choose
    <3>2. Members \cap live = {}
      BY DEF Members
    <3>3. \A g : Held(g)' <=> Held(g)
      BY <2>1 DEF Held
    <3>4. ASSUME NEW g \in Groups, Held(g)
          PROVE  /\ claims[g].file \in live /\ claims[g].file \notin Members
                 /\ g \in GroupsOf(files[claims[g].file])
                 /\ claims[g].round <= round + 1 /\ claims[g].round \in Nat
      BY <1>0, <2>1, <3>2, <3>4 DEF GroupClaims, TypeOK
    <3>5. \A g \in Groups : Held(g) =>
            /\ claims[g].round <= (round + 1) + 1
            /\ claims[g].round # (round + 1) + 1
      BY <2>1, <3>4
    <3> QED
      BY <1>0, <2>1, <3>1, <3>3, <3>4, <3>5 DEF GroupClaims
  <2> QED
    BY <2>2, <2>3
<1>9. ASSUME NEW p \in follow, ClaimMember(p[1], p[2]) PROVE GroupClaims'
  BY <1>0, <1>9, GroupClaimsQuiet DEF ClaimMember
<1>10. CASE PrefetchDone
  <2>1. /\ UNCHANGED <<files, hooked, round, live, load, loading, offers, errors, claims, held, discarded>>
        /\ phase' = "load" /\ phase = "prefetch" /\ loading = load /\ offers = {} /\ hooked
    BY <1>0, <1>10 DEF PrefetchDone, Rounds
  <2>2. \A g : Held(g)' <=> Held(g)
    BY <2>1 DEF Held
  <2> QED
    BY <1>0, <2>1, <2>2 DEF GroupClaims
<1>11. CASE Report
  BY <1>0, <1>11, GroupClaimsQuiet DEF Report
<1>12. CASE UNCHANGED vars
  BY <1>0, <1>12, GroupClaimsQuiet DEF vars
<1> QED
  BY <1>1, <1>2, <1>3, <1>4, <1>5, <1>6, <1>7, <1>8, <1>9, <1>10, <1>11,
     <1>12 DEF Next, Terminating

(* Steps that load nothing and claim no member. *)
LEMMA LoadsQuiet ==
  ASSUME Loads, UNCHANGED <<round, live, load, loading, claimed, visits, follow, early, loads>>,
         phase' \notin {"prefetch", "done"} \/ phase' = phase, phase = "prefetch" => phase' = phase,
         phase = "done" => phase' = phase
  PROVE  Loads'
BY DEF Loads

LEMMA LoadsNext ==
  ASSUME InputAssumption, RoundInv, [Next]_vars
  PROVE  Loads'
<1> USE DEF inputVars, loadVars, prefetchVars, insertVars
<1>0. IInv /\ TypeOK /\ FilesOK /\ LoadIsNew /\ Rounds /\ Loads
  BY DEF RoundInv, IInv
<1>1. ASSUME NEW f \in Files, LoadFile(f) PROVE Loads'
  <2>1. /\ UNCHANGED <<phase, round, live, load, claimed, visits, follow>>
        /\ f \in loading /\ loading' = loading \ {f} /\ phase = "load" /\ f \in load /\ f \notin live
        /\ early' = [early EXCEPT ![f] = "none"]
        /\ loads' = IF early[f] = "none" THEN [loads EXCEPT ![f] = loads[f] + 1] ELSE loads
    BY <1>0, <1>1 DEF LoadFile, Rounds, LoadIsNew
  <2>2. early \in [Files -> {"none", "ok", "error"}] /\ loads \in [Files -> Nat]
    BY <1>0 DEF TypeOK
  <2>3. ASSUME NEW k \in Files PROVE early'[k] = IF k = f THEN "none" ELSE early[k]
    BY <2>1, <2>2
  <2>4. ASSUME NEW k \in Files
        PROVE  loads'[k] = IF k \in live \/ k \in load \ loading' \/ early'[k] # "none" THEN 1 ELSE 0
    <3>1. loads[k] = IF k \in live \/ k \in load \ loading \/ early[k] # "none" THEN 1 ELSE 0
      BY <1>0, <2>1 DEF Loads
    <3>2. CASE k # f
      <4>1. loads'[k] = loads[k] /\ early'[k] = early[k] /\ (k \in loading' <=> k \in loading)
        BY <2>1, <2>2, <2>3, <3>2
      <4> QED
        BY <3>1, <4>1
    <3>3. CASE k = f
      <4>1. k \in load \ loading' /\ k \notin load \ loading /\ k \notin live
        BY <2>1, <3>3
      <4>2. CASE early[f] = "none"
        <5>1. loads[k] = 0
          BY <3>1, <3>3, <4>1, <4>2
        <5>2. loads'[k] = loads[k] + 1
          BY <2>1, <2>2, <3>3, <4>2
        <5> QED
          BY <4>1, <5>1, <5>2
      <4>3. CASE early[f] # "none"
        BY <2>1, <3>1, <3>3, <4>1, <4>3
      <4> QED
        BY <4>2, <4>3
    <3> QED
      BY <3>2, <3>3
  <2>5. \A k \in Files : early'[k] # "none" => k \notin live /\ k \notin load \ loading'
    BY <1>0, <2>1, <2>3 DEF Loads
  <2>6. round = 0 => \A k \in Files : early'[k] = "none"
    BY <1>0, <2>3 DEF Loads
  <2> QED
    BY <1>0, <2>1, <2>4, <2>5, <2>6 DEF Loads
<1>2. ASSUME NEW f \in Files, Visit(f) PROVE Loads'
  <2>1. /\ UNCHANGED <<phase, round, live, load, loading, claimed>>
        /\ f \in visits /\ visits' = visits \ {f} /\ phase = "prefetch" /\ loading = load /\ round > 0
        /\ f \in claimed \ live /\ early[f] = "none"
    BY <1>0, <1>2 DEF Visit, Rounds, Loads
  <2>2. early \in [Files -> {"none", "ok", "error"}] /\ loads \in [Files -> Nat] /\ round \in Nat
    BY <1>0 DEF TypeOK
  <2>3. CASE ~files[f].early
    <3>1. UNCHANGED <<early, loads, follow>>
      BY <1>2, <2>3 DEF Visit
    <3> QED
      BY <1>0, <2>1, <2>2, <3>1 DEF Loads
  <2>4. CASE files[f].early
    <3>1. PICK result \in {"ok", "error"} : early' = [early EXCEPT ![f] = result]
      BY <1>2, <2>4 DEF Visit
    <3>2. loads' = [loads EXCEPT ![f] = loads[f] + 1]
      BY <1>2, <2>4 DEF Visit
    <3>3. loads[f] = 0
      BY <1>0, <2>1 DEF Loads
    <3>4. \A k \in Files : /\ early'[k] = IF k = f THEN result ELSE early[k]
                           /\ loads'[k] = IF k = f THEN 1 ELSE loads[k]
      BY <2>2, <3>1, <3>2, <3>3
    <3>5. \A k \in Files :
            loads'[k] = IF k \in live \/ k \in load \ loading \/ early'[k] # "none" THEN 1 ELSE 0
      BY <1>0, <2>1, <3>1, <3>4 DEF Loads
    <3> QED
      BY <1>0, <2>1, <2>2, <3>1, <3>4, <3>5 DEF Loads
  <2> QED
    BY <2>3, <2>4
<1>3. ASSUME NEW f \in Files, NEW g \in Groups, OnLoad(f, g) \/ OfferKey(f, g) PROVE Loads'
  BY <1>0, <1>3, LoadsQuiet DEF OnLoad, OfferKey
<1>4. CASE LoadDone
  BY <1>0, <1>4, LoadsQuiet DEF LoadDone
<1>5. CASE Settle
  <2>1. /\ UNCHANGED <<round, load, loading, claimed, visits, follow, early, loads>>
        /\ phase = "hook" /\ phase' = "insert" /\ loading = {} /\ live' = live \cup load
    BY <1>0, <1>5 DEF Settle, Rounds
  <2> QED
    BY <1>0, <2>1 DEF Loads
<1>6. ASSUME NEW it \in Todo,
             MarkReference(it) \/ MarkOther(it) \/ InsertDefinition(it)
      PROVE  Loads'
  BY <1>0, <1>6, LoadsQuiet DEF MarkReference, MarkOther, InsertDefinition
<1>7. ASSUME NEW it \in won, ReadFlag(it) PROVE Loads'
  BY <1>0, <1>7, LoadsQuiet DEF ReadFlag
<1>8. CASE Choose
  <2>1. /\ UNCHANGED <<live, visits, early, loads>>
        /\ phase = "insert" /\ load \subseteq live /\ round \in Nat
    BY <1>0, <1>8 DEF Choose, Rounds, TypeOK
  <2>2. CASE Members = {}
    BY <1>0, <1>8, <2>1, <2>2, LoadsQuiet DEF Choose
  <2>3. CASE Members # {}
    <3>1. /\ load' = Members /\ loading' = Members /\ round' = round + 1
          /\ \/ phase' = "prefetch" /\ round = 0 /\ claimed' = live
             \/ phase' = "load" /\ UNCHANGED <<claimed, follow>>
      BY <1>8, <2>3 DEF Choose
    <3>2. round' # 0 /\ load' \ loading' = {}
      BY <2>1, <3>1
    <3>3. visits = {} /\ follow = {}
      BY <1>0, <2>1 DEF Loads
    <3>4. \A k \in Files : /\ loads[k] = IF k \in live \/ early[k] # "none" THEN 1 ELSE 0
                           /\ early[k] # "none" => k \notin live
      BY <1>0, <2>1 DEF Loads
    <3>5. CASE phase' = "prefetch"
      <4>1. \A k \in Files : early[k] = "none"
        BY <1>0, <3>1, <3>5 DEF Loads
      <4> QED
        BY <2>1, <3>1, <3>2, <3>3, <3>4, <3>5, <4>1 DEF Loads
    <3>6. CASE phase' # "prefetch"
      BY <2>1, <3>1, <3>2, <3>3, <3>4, <3>6 DEF Loads
    <3> QED
      BY <3>5, <3>6
  <2> QED
    BY <2>2, <2>3
<1>9. ASSUME NEW p \in follow, ClaimMember(p[1], p[2]) PROVE Loads'
  BY <1>0, <1>9 DEF ClaimMember, Loads
<1>10. CASE PrefetchDone
  BY <1>0, <1>10 DEF PrefetchDone, Loads
<1>11. CASE Report
  <2>1. /\ UNCHANGED <<round, live, load, loading, claimed, visits, follow, early>>
        /\ phase = "report" /\ phase' = "done" /\ load \subseteq live
        /\ \A f \in Files : loads'[f] = IF early[f] # "none" /\ f \notin live THEN 0 ELSE loads[f]
    BY <1>0, <1>11 DEF Report, Rounds
  <2>2. \A f \in Files : loads'[f] = IF f \in live THEN 1 ELSE 0
    BY <1>0, <2>1 DEF Loads
  <2> QED
    BY <1>0, <2>1, <2>2 DEF Loads
<1>12. CASE UNCHANGED vars
  BY <1>0, <1>12, LoadsQuiet DEF vars
<1> QED
  BY <1>1, <1>2, <1>3, <1>4, <1>5, <1>6, <1>7, <1>8, <1>9, <1>10, <1>11,
     <1>12 DEF Next, Terminating

(* A file asks for fewer members as definitions replace lazy ones. *)
LEMMA LazyMembersShrink ==
  ASSUME files' = files, NEW f,
         \A t \in Symbols : Extracts(defs'[t]) => defs'[t] = defs[t]
  PROVE  LazyMembers(f)' \subseteq LazyMembers(f)
<1>1. \A t : StrongReferences(files, discarded', RealItems(files, {f}), t)
               = StrongReferences(files, discarded, RealItems(files, {f}), t)
  BY ReferenceUse DEF StrongReferences
<1> QED
  BY <1>1 DEF LazyMembers

(* A referenced symbol whose best definition is lazy is a member its file  *)
(* asks for.                                                               *)
LEMMA AskedFor ==
  ASSUME NEW f, NEW s \in Symbols, Extracts(defs[s]),
         StrongReferences(files, discarded, RealItems(files, {f}), s) # {}
  PROVE  defs[s].file \in LazyMembers(f)
BY DEF LazyMembers

(* Steps that neither load, nor claim, nor make files live. *)
LEMMA CoveredQuiet ==
  ASSUME Covered, UNCHANGED <<files, hooked, round, live, load, loading, claimed, visits, follow, early>>,
         round > 0 => \A t \in Symbols : Extracts(defs'[t]) => defs'[t] = defs[t],
         phase = "prefetch" <=> phase' = "prefetch",
         phase = "prefetch" => defs' = defs /\ discarded' = discarded,
         round > 0 /\ phase' = "insert" => \A s \in candidates' : \E f \in load :
           StrongReferences(files, discarded', RealItems(files, {f}), s) # {}
  PROVE  Covered'
<1>1. AllEarly' <=> AllEarly
  BY DEF AllEarly, StartFiles
<1>2. round > 0 => \A f : LazyMembers(f)' \subseteq LazyMembers(f)
  BY LazyMembersShrink
<1>3. phase = "prefetch" => \A f : LazyMembers(f)' = LazyMembers(f)
  BY DEF LazyMembers
<1>4. StartFiles' = StartFiles
  BY DEF StartFiles
<1>5. SUFFICES ASSUME hooked', AllEarly', round' > 0
               PROVE  Covered'
  BY DEF Covered
<1>6. hooked /\ AllEarly /\ round > 0
  BY <1>1, <1>5
<1>7. CASE phase = "prefetch"
  BY <1>3, <1>4, <1>6, <1>7 DEF Covered
<1>8. CASE phase # "prefetch"
  <2>1. \A f \in claimed \ StartFiles : LazyMembers(f)' \subseteq claimed
    BY <1>2, <1>6, <1>8 DEF Covered
  <2>2. \A s : \A f : StrongReferences(files', discarded', RealItems(files', {f}), s)
                        = StrongReferences(files, discarded', RealItems(files, {f}), s)
    OBVIOUS
  <2> QED
    BY <1>4, <1>6, <1>8, <2>1, <2>2 DEF Covered
<1> QED
  BY <1>7, <1>8

LEMMA CoveredNext ==
  ASSUME InputAssumption, RoundInv, [Next]_vars
  PROVE  Covered'
<1> USE DEF inputVars, loadVars, prefetchVars, insertVars
<1>0. /\ IInv /\ TypeOK /\ FilesOK /\ LoadIsNew /\ Rounds /\ Loads /\ Covered
      /\ round \in Nat
  BY DEF RoundInv, IInv, TypeOK
<1>00. \A s : \A f : StrongReferences(files, discarded', RealItems(files, {f}), s)
                       = StrongReferences(files, discarded, RealItems(files, {f}), s)
  BY ReferenceUse DEF StrongReferences
<1>1. ASSUME NEW f \in Files, LoadFile(f) PROVE Covered'
  <2>1. /\ UNCHANGED <<files, hooked, phase, round, live, load, claimed, visits, follow, defs, discarded>>
        /\ f \in loading /\ loading' = loading \ {f} /\ phase = "load" /\ f \in load
        /\ early' = [early EXCEPT ![f] = "none"]
    BY <1>0, <1>1 DEF LoadFile, Rounds
  <2>2. \A k \in Files \ {f} : early'[k] = early[k]
    BY <1>0, <2>1 DEF TypeOK
  <2>3. (AllEarly' <=> AllEarly) /\ StartFiles' = StartFiles /\ \A k : LazyMembers(k)' = LazyMembers(k)
    BY <2>1 DEF AllEarly, StartFiles, LazyMembers
  <2>4. claimed \subseteq Files
    BY <1>0 DEF TypeOK
  <2> QED
    BY <1>0, <2>1, <2>2, <2>3, <2>4 DEF Covered
<1>2. ASSUME NEW f \in Files, Visit(f) PROVE Covered'
  <2>1. /\ UNCHANGED <<files, hooked, phase, round, live, load, loading, claimed, defs, discarded>>
        /\ f \in visits /\ visits' = visits \ {f} /\ phase = "prefetch"
        /\ f \notin StartFiles
    BY <1>0, <1>2 DEF Visit, Rounds, Loads
  <2>2. (AllEarly' <=> AllEarly) /\ StartFiles' = StartFiles /\ \A k : LazyMembers(k)' = LazyMembers(k)
    BY <2>1 DEF AllEarly, StartFiles, LazyMembers
  <2>3. ASSUME AllEarly
        PROVE  /\ early'[f] = "ok" /\ follow' = follow \cup {<<f, m>> : m \in LazyMembers(f)}
               /\ \A k \in Files \ {f} : early'[k] = early[k]
    <3>1. files[f].early /\ ~files[f].broken
      BY <2>1, <2>3 DEF AllEarly
    <3>2. early' = [early EXCEPT ![f] = "ok"] /\ follow' = follow \cup {<<f, m>> : m \in LazyMembers(f)}
      BY <1>2, <3>1 DEF Visit
    <3> QED
      BY <1>0, <3>2 DEF TypeOK
  <2>4. claimed \subseteq Files
    BY <1>0 DEF TypeOK
  <2> QED
    BY <1>0, <2>1, <2>2, <2>3, <2>4 DEF Covered
<1>3. ASSUME NEW f \in Files, NEW g \in Groups, OnLoad(f, g) \/ OfferKey(f, g) PROVE Covered'
  BY <1>0, <1>3, CoveredQuiet DEF OnLoad, OfferKey
<1>4. CASE LoadDone
  BY <1>0, <1>4, CoveredQuiet DEF LoadDone
<1>5. CASE Settle
  <2>1. /\ UNCHANGED <<files, hooked, round, load, loading, claimed, early, defs>>
        /\ phase = "hook" /\ phase' = "insert" /\ loading = {} /\ live' = live \cup load
        /\ candidates' = {}
    BY <1>0, <1>5 DEF Settle, Rounds
  <2>2. /\ AllEarly' <=> AllEarly
        /\ StartFiles' = StartFiles
        /\ \A k : LazyMembers(k)' = LazyMembers(k)
    BY <1>00, <2>1 DEF AllEarly, StartFiles, LazyMembers
  <2> QED
    BY <1>0, <2>1, <2>2 DEF Covered
<1>6. ASSUME NEW it \in Todo, MarkReference(it) PROVE Covered'
  <2>1. /\ UNCHANGED <<files, hooked, phase, round, live, load, loading, claimed, visits, follow,
                       early, defs, discarded>>
        /\ phase = "insert" /\ candidates' \subseteq candidates \cup {SymOf(files, it)}
        /\ UseOf(files, discarded, it) = "Reference"
    BY <1>6 DEF MarkReference
  <2>2. ASSUME round > 0
        PROVE  \E f \in load : StrongReferences(files, discarded, RealItems(files, {f}), SymOf(files, it)) # {}
    <3>1. it \in RealItems(files, load)
      BY <1>0, <2>2 DEF Todo, Work
    <3>2. it.file \in load /\ it \in RealItems(files, {it.file})
      BY <3>1 DEF RealItems
    <3> QED
      BY <2>1, <3>2 DEF StrongReferences
  <2>3. CASE round > 0 /\ hooked /\ AllEarly
    <3>1. \A s \in candidates' : \E f \in load :
            StrongReferences(files, discarded', RealItems(files, {f}), s) # {}
      BY <1>0, <2>1, <2>2, <2>3 DEF Covered
    <3> QED
      BY <1>0, <2>1, <3>1, CoveredQuiet
  <2>4. CASE ~(round > 0 /\ hooked /\ AllEarly)
    BY <2>1, <2>4 DEF Covered, AllEarly, StartFiles
  <2> QED
    BY <2>3, <2>4
<1>7. ASSUME NEW it \in Todo, MarkOther(it) \/ InsertDefinition(it) PROVE Covered'
  <2>1. /\ UNCHANGED <<files, hooked, phase, round, live, load, loading, claimed, visits, follow,
                       early, discarded, candidates>>
        /\ phase = "insert"
    BY <1>7 DEF MarkOther, InsertDefinition
  <2>2. ASSUME round > 0, NEW t \in Symbols, Extracts(defs'[t]) PROVE defs'[t] = defs[t]
    <3>1. CASE MarkOther(it)
      BY <3>1 DEF MarkOther
    <3>2. CASE InsertDefinition(it)
      <4>1. ~Extracts(CandidateOf(files, it))
        BY <1>0, <2>2, <3>2, LaterRoundsInsertReal
      <4>2. defs' = defs \/ defs' = [defs EXCEPT ![SymOf(files, it)] = CandidateOf(files, it)]
        BY <3>2 DEF InsertDefinition
      <4> QED
        BY <1>0, <2>2, <4>1, <4>2 DEF TypeOK
    <3> QED
      BY <1>7, <3>1, <3>2
  <2>3. CASE round > 0 /\ hooked /\ AllEarly
    <3>1. \A s \in candidates' : \E f \in load :
            StrongReferences(files, discarded', RealItems(files, {f}), s) # {}
      BY <1>0, <2>1, <2>3 DEF Covered
    <3> QED
      BY <1>0, <2>1, <2>2, <3>1, CoveredQuiet
  <2>4. CASE ~(round > 0 /\ hooked /\ AllEarly)
    BY <2>1, <2>4 DEF Covered, AllEarly, StartFiles
  <2> QED
    BY <2>3, <2>4
<1>8. ASSUME NEW it \in won, ReadFlag(it) PROVE Covered'
  <2>1. round = 0 /\ round' = round
    BY <1>0, <1>8 DEF Rounds, ReadFlag
  <2> QED
    BY <2>1 DEF Covered
<1>9. CASE Choose
  <2>1. /\ UNCHANGED <<files, hooked, live, visits, early, defs, discarded, candidates>>
        /\ phase = "insert" /\ load \subseteq live /\ loading = {}
    BY <1>0, <1>9 DEF Choose, Rounds
  <2>2. (AllEarly' <=> AllEarly) /\ StartFiles' = StartFiles /\ \A k : LazyMembers(k)' = LazyMembers(k)
    BY <2>1 DEF AllEarly, StartFiles, LazyMembers
  <2>3. CASE Members = {}
    <3>1. phase' = "report" /\ UNCHANGED <<round, load, loading, claimed, follow>>
      BY <1>9, <2>3 DEF Choose
    <3> QED
      BY <1>0, <2>1, <2>2, <3>1 DEF Covered
  <2>4. CASE Members # {} /\ round = 0 /\ hooked
    <3>1. /\ phase' = "prefetch" /\ load' = Members /\ loading' = Members /\ claimed' = live
          /\ follow' = {<<0, m>> : m \in Members}
      BY <1>9, <2>4 DEF Choose
    <3>2. ASSUME NEW m \in Members PROVE \E p \in follow' : p[2] = m
      <4>1. <<0, m>> \in follow'
        BY <3>1
      <4>2. <<0, m>>[2] = m
        OBVIOUS
      <4> QED
        BY <4>1, <4>2
    <3>3. live = StartFiles
      BY <1>0, <2>1, <2>4 DEF Rounds
    <3> QED
      BY <2>1, <2>2, <3>1, <3>2, <3>3 DEF Covered
  <2>5. CASE Members # {} /\ ~(round = 0 /\ hooked)
    <3>1. /\ phase' = "load" /\ load' = Members /\ loading' = Members /\ claimed' = claimed
          /\ round' = round + 1
      BY <1>9, <2>5 DEF Choose
    <3>2. CASE hooked /\ AllEarly
      <4>1. round > 0
        BY <1>0, <2>5, <3>2
      <4>2. ASSUME NEW m \in Members PROVE m \in claimed
        <5>1. PICK s \in candidates : Extracts(defs[s]) /\ m = defs[s].file
          BY DEF Members
        <5>2. s \in Symbols
          BY <1>0 DEF TypeOK
        <5>3. PICK f \in load : StrongReferences(files, discarded, RealItems(files, {f}), s) # {}
          BY <1>0, <2>1, <3>2, <4>1 DEF Covered
        <5>4. f \in claimed \ StartFiles
          BY <1>0, <2>1, <3>2, <4>1, <5>3 DEF Covered, Rounds
        <5>5. m \in LazyMembers(f)
          BY <5>1, <5>2, <5>3, AskedFor
        <5> QED
          BY <1>0, <2>1, <3>2, <4>1, <5>4, <5>5 DEF Covered
      <4>3. \A f \in claimed \ StartFiles : LazyMembers(f) \subseteq claimed /\ (f \in live \/ early[f] = "ok")
        BY <1>0, <2>1, <3>2, <4>1 DEF Covered
      <4>4. live \subseteq claimed
        BY <1>0, <3>2, <4>1 DEF Covered
      <4> QED
        BY <2>1, <2>2, <3>1, <4>2, <4>3, <4>4 DEF Covered
    <3>3. CASE ~(hooked /\ AllEarly)
      BY <2>1, <2>2, <3>3 DEF Covered
    <3> QED
      BY <3>2, <3>3
  <2> QED
    BY <2>3, <2>4, <2>5
<1>10. ASSUME NEW p \in follow, ClaimMember(p[1], p[2]) PROVE Covered'
  <2>1. /\ UNCHANGED <<files, hooked, phase, round, live, load, loading, early, defs, discarded>>
        /\ phase = "prefetch" /\ follow' = follow \ {p}
        /\ claimed' = claimed \cup {p[2]}
        /\ visits' = IF p[2] \in claimed THEN visits ELSE visits \cup {p[2]}
    <3>1. p = <<p[1], p[2]>>
      BY <1>0 DEF TypeOK
    <3> QED
      BY <1>10, <3>1 DEF ClaimMember
  <2>2. (AllEarly' <=> AllEarly) /\ StartFiles' = StartFiles /\ \A k : LazyMembers(k)' = LazyMembers(k)
    BY <2>1 DEF AllEarly, StartFiles, LazyMembers
  <2>3. SUFFICES ASSUME hooked, AllEarly, round > 0 PROVE Covered'
    BY <2>1, <2>2 DEF Covered
  <2>4. \A m \in load : m \in claimed' \/ \E q \in follow' : q[2] = m
    BY <1>0, <2>1, <2>3 DEF Covered
  <2>5. ASSUME NEW f \in claimed' \ StartFiles
        PROVE  \/ f \in visits'
               \/ /\ early[f] = "ok"
                  /\ \A m \in LazyMembers(f) : m \in claimed' \/ <<f, m>> \in follow'
    <3>1. CASE f \notin claimed
      BY <2>1, <3>1
    <3>2. CASE f \in claimed
      <4>1. \/ f \in visits
            \/ /\ early[f] = "ok"
               /\ \A m \in LazyMembers(f) : m \in claimed \/ <<f, m>> \in follow
        BY <1>0, <2>1, <2>3, <2>5, <3>2 DEF Covered
      <4>2. \A m : <<f, m>> \in follow => <<f, m>> \in follow' \/ m = p[2]
        BY <2>1
      <4> QED
        BY <2>1, <4>1, <4>2
    <3> QED
      BY <3>1, <3>2
  <2>6. live \subseteq claimed'
    BY <1>0, <2>1, <2>3 DEF Covered
  <2> QED
    BY <2>1, <2>2, <2>4, <2>5, <2>6 DEF Covered
<1>11. CASE PrefetchDone
  <2>1. /\ UNCHANGED <<files, hooked, round, live, load, loading, early, defs, discarded, claimed>>
        /\ phase = "prefetch" /\ phase' = "load" /\ follow = {} /\ visits = {}
    BY <1>11 DEF PrefetchDone
  <2>2. (AllEarly' <=> AllEarly) /\ StartFiles' = StartFiles /\ \A k : LazyMembers(k)' = LazyMembers(k)
    BY <2>1 DEF AllEarly, StartFiles, LazyMembers
  <2> QED
    BY <1>0, <2>1, <2>2 DEF Covered
<1>12. CASE Report
  BY <1>0, <1>12, CoveredQuiet DEF Report
<1>13. CASE UNCHANGED vars
  <2>1. /\ AllEarly' <=> AllEarly
        /\ StartFiles' = StartFiles
        /\ \A k : LazyMembers(k)' = LazyMembers(k)
    BY <1>13 DEF AllEarly, StartFiles, LazyMembers, vars
  <2> QED
    BY <1>0, <1>13, <2>1 DEF Covered, vars
<1> QED
  BY <1>1, <1>2, <1>3, <1>4, <1>5, <1>6, <1>7, <1>8, <1>9, <1>10, <1>11,
     <1>12, <1>13 DEF Next, Terminating

-----------------------------------------------------------------------------
(* RoundInv is an invariant of resolution: what each pass of a round has   *)
(* done when the next one starts, for the table, the candidates, the group *)
(* claims and the early loads.                                             *)
THEOREM ResolveRoundInv == Spec => []RoundInv
<1>1. Init => RoundInv
  BY InitRoundInv, InputAssumption, InputsAssumption
<1>2. RoundInv /\ [Next]_vars => RoundInv'
  <2> SUFFICES ASSUME RoundInv, [Next]_vars PROVE RoundInv'
    OBVIOUS
  <2>1. IInv'
    BY NextIInv, InputAssumption DEF RoundInv
  <2>2. Rounds' /\ Extraction' /\ GroupClaims' /\ Loads' /\ Covered'
    BY RoundsNext, ExtractionNext, GroupClaimsNext, LoadsNext, CoveredNext, InputAssumption
  <2> QED
    BY <2>1, <2>2 DEF RoundInv
<1> QED
  BY <1>1, <1>2, PTL DEF Spec

(* No member is missed: when the candidates of a round are chosen, every   *)
(* lazy definition a strong reference of a live file asks for is live or   *)
(* chosen, in whatever order the flags were set and read.                  *)
THEOREM ResolveNoMissedExtraction == Spec => []NoMissedExtraction
<1>1. RoundInv => NoMissedExtraction
  <2> SUFFICES ASSUME RoundInv, phase # "insert", NEW it \in RealItems(files, live),
                      UseOf(files, discarded, it) = "Reference", Extracts(defs[SymOf(files, it)])
               PROVE  defs[SymOf(files, it)].file \in live \cup load
    BY DEF NoMissedExtraction
  <2>1. it \in done
    BY DEF RoundInv, Extraction
  <2>2. SymOf(files, it) \in referenced
    BY <2>1 DEF RoundInv, Extraction
  <2> QED
    BY <2>2 DEF RoundInv, Extraction
<1> QED
  BY <1>1, ResolveRoundInv, PTL

(* Of the live files that carry a COMDAT group exactly one keeps its copy, *)
(* in whatever order the offers are made, by slot or by key, and however   *)
(* many rounds carry copies.                                               *)
THEOREM ResolveOneCopyPerGroup == Spec => []OneCopyPerGroup
<1>1. RoundInv => OneCopyPerGroup
  <2> SUFFICES ASSUME RoundInv, phase \in {"insert", "report", "done"}, NEW g \in Groups,
                      {f \in live : g \in GroupsOf(files[f])} # {}
               PROVE  Cardinality({f \in {k \in live : g \in GroupsOf(files[k])} : g \notin discarded[f]}) = 1
    BY DEF OneCopyPerGroup
  <2> DEFINE keepers == {f \in {k \in live : g \in GroupsOf(files[k])} : g \notin discarded[f]}
  <2>1. \A f \in live : g \in GroupsOf(files[f]) =>
          Held(g) /\ (g \in discarded[f] <=> claims[g].file # f)
    BY DEF RoundInv, GroupClaims
  <2>2. Held(g)
    BY <2>1
  <2>3. claims[g].file \in live /\ g \in GroupsOf(files[claims[g].file])
    BY <2>2 DEF RoundInv, GroupClaims, Rounds
  <2>4. keepers = {claims[g].file}
    BY <2>1, <2>3
  <2> QED
    BY <2>4, FS_Singleton
<1> QED
  BY <1>1, ResolveRoundInv, PTL

(* Early loading is sound: no file is loaded twice although several tasks  *)
(* reach it, at the end exactly the live files are loaded, and where every *)
(* member may load early no later round loads a file itself.               *)
THEOREM ResolveEarlyLoadingSound == Spec => []EarlyLoadingSound
<1>1. RoundInv => LoadedOnce
  <2> SUFFICES ASSUME RoundInv PROVE LoadedOnce
    OBVIOUS
  <2>1. \A f \in Files : loads[f] \in {0, 1}
    BY DEF RoundInv, Loads
  <2>2. phase = "done" => \A f \in Files : loads[f] = IF f \in live THEN 1 ELSE 0
    BY DEF RoundInv, Loads
  <2>3. live \subseteq Files
    BY DEF RoundInv, IInv, TypeOK
  <2> QED
    BY <2>1, <2>2, <2>3 DEF LoadedOnce
<1>2. RoundInv => PrefetchCoversRounds
  <2> SUFFICES ASSUME RoundInv, hooked, phase = "load", round > 0, AllEarly, NEW f \in loading
               PROVE  early[f] = "ok"
    BY DEF PrefetchCoversRounds, AllEarly
  <2>1. f \in load /\ f \notin live /\ f \notin StartFiles
    BY DEF RoundInv, IInv, Rounds, LoadIsNew
  <2>2. f \in claimed
    BY <2>1 DEF RoundInv, Covered
  <2> QED
    BY <2>1, <2>2 DEF RoundInv, Covered
<1> QED
  BY <1>1, <1>2, ResolveRoundInv, PTL DEF EarlyLoadingSound
=============================================================================
