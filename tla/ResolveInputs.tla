--------------------------- MODULE ResolveInputs ---------------------------
(***************************************************************************)
(* What symbol resolution reads of its input files (the ResolveFile trait, *)
(* as ElfInput implements it), and the definitions and references the     *)
(* files contribute.  Shared by the detailed specification (Resolve) and   *)
(* the abstract one (ResolveAbs).                                          *)
(*                                                                         *)
(* Names are already interned: a name is the symbol it is interned to.     *)
(***************************************************************************)
EXTENDS Definitions, Sequences

CONSTANTS
  NumFiles,    \* number of input files; a FileId is 1..NumFiles
  Symbols,     \* the symbol names
  Groups,      \* COMDAT group signatures
  NoGroup,     \* the group of a symbol outside every COMDAT group
  Position,    \* Position[f]: the InputPosition of file f
  AllowMultipleDefinition \* --allow-multiple-definition

Files == 1..NumFiles

(* Input positions are distinct (the case the load hook requires). *)
ASSUME InputAssumption ==
  /\ NumFiles \in Nat
  /\ NoGroup \notin Groups
  /\ Position \in [Files -> Nat]
  /\ \A f, g \in Files : Position[f] = Position[g] => f = g
  /\ AllowMultipleDefinition \in BOOLEAN

(* The file of fs that comes first on the command line. *)
FirstFile(fs) == CHOOSE f \in fs : \A g \in fs : Position[f] <= Position[g]

DefinitionUses == {"Shared", "Weak", "Common", "Regular"}

(* SymbolUse, with the group of the section a definition lies in. *)
Entry == [sym: Symbols,
          use: DefinitionUses \cup {"Reference", "WeakReference", "Ignore"},
          size: Nat,
          group: Groups \cup {NoGroup}]

(* A file: is_live_at_start, lazy_names (the archive index's names of a    *)
(* member), the global symbols load() makes available, can_load_early, and *)
(* whether load() fails.                                                   *)
InputFile == [start: BOOLEAN, lazy: Seq(Symbols), entries: Seq(Entry),
              early: BOOLEAN, broken: BOOLEAN]

GroupsOf(file) ==
  {file.entries[i].group : i \in DOMAIN file.entries} \ {NoGroup}

(* One entry of a pass over symbols: an entry of a file's lazy names or of *)
(* its real symbols.                                                       *)
Item == [file: Files, lazy: BOOLEAN, index: Nat]

LazyItems(files, fs) ==
  UNION {{[file |-> f, lazy |-> TRUE, index |-> i] :
            i \in DOMAIN files[f].lazy} : f \in fs}

RealItems(files, fs) ==
  UNION {{[file |-> f, lazy |-> FALSE, index |-> i] :
            i \in DOMAIN files[f].entries} : f \in fs}

SymOf(files, it) ==
  IF it.lazy THEN files[it.file].lazy[it.index]
             ELSE files[it.file].entries[it.index].sym

(* symbol_use: a definition in a discarded group copy is ignored           *)
(* (ObjectInput::discard_groups); a lazy name is a lazy definition.        *)
UseOf(files, discarded, it) ==
  IF it.lazy THEN "Lazy"
  ELSE LET e == files[it.file].entries[it.index]
       IN IF e.use \in DefinitionUses /\ e.group \in discarded[it.file]
            THEN "Ignore" ELSE e.use

IsDefinitionItem(files, discarded, it) ==
  UseOf(files, discarded, it) \in DefinitionUses \cup {"Lazy"}

(* The candidate insert_and_mark builds for a definition. *)
CandidateOf(files, it) ==
  [kind     |-> IF it.lazy THEN "Lazy"
                ELSE files[it.file].entries[it.index].use,
   file     |-> it.file,
   index    |-> it.index,
   position |-> Position[it.file],
   size     |-> IF it.lazy THEN 0
                ELSE files[it.file].entries[it.index].size,
   comdat   |-> IF it.lazy THEN FALSE
                ELSE IF files[it.file].entries[it.index].group = NoGroup
                THEN FALSE ELSE TRUE]

(* The candidates for symbol s among the items of `its'. *)
CandidatesOf(files, discarded, its, s) ==
  {CandidateOf(files, it) :
     it \in {x \in its : /\ IsDefinitionItem(files, discarded, x)
                         /\ SymOf(files, x) = s}}

(* The items of `its' that are strong references to s. *)
StrongReferences(files, discarded, its, s) ==
  {it \in its : /\ UseOf(files, discarded, it) = "Reference"
                /\ SymOf(files, it) = s}
=============================================================================
