------------------------------- MODULE Inputs -------------------------------
(***************************************************************************)
(* How the ELF linker finds, opens and numbers its inputs: elf/inputs.rs   *)
(* collect and its Walker, over the library search of input/search.rs and  *)
(* the FileTable of input/table.rs.                                        *)
(*                                                                         *)
(* Positional arguments are resolved, then opened in parallel, then walked *)
(* in order: objects, shared libraries, archives and the linker scripts    *)
(* that name further inputs.  The symbol indexes of the archives are read  *)
(* at the end, in parallel, each into the members' slice of the file list. *)
(* Files may be replaced on disk and the link cancelled meanwhile.         *)
(*                                                                         *)
(* A path is <<directory, name, extension>>; the bytes of a file are a     *)
(* name in job.content.                                                    *)
(***************************************************************************)
EXTENDS Integers, FiniteSets, SequencesExt

CONSTANTS
  Jobs,      \* command lines, each with the files it can meet
  MaxDepth   \* nesting of linker scripts (16 in the code)

VARIABLES
  job,      \* the command line and the contents of the files, constant
  disk,     \* disk[p]: the content of the file at path p
  opened,   \* load_all: what opening each positional input gave
  table,    \* the FileTable: path and content by FileId
  work,     \* inputs the walker has still to add, in order
  files,    \* the ElfInput list
  walk,     \* Walker: search path, mode, ordinal, target, depth, sonames, deferred
  indexed,  \* finish: deferred indexes read so far
  err,      \* the error the walk stopped on, or NoError
  stage,
  cancel    \* the CancelToken

inputVars == <<job, disk, opened, table, work, files, walk, indexed, err, stage, cancel>>

Content(c) == job.content[c]
NoError == [at |-> 0, what |-> "none"]
Failure(what) == [at |-> walk.ordinal + 1, what |-> what]

(***************************************************************************)
(* input/search.rs                                                         *)
(***************************************************************************)
NoPath == <<>>
IsFile(p) == p \in DOMAIN disk

(* The elements of s that are in `keep', in order. *)
Picked(s, keep) == FlattenSeq([i \in DOMAIN s |-> IF s[i] \in keep THEN <<s[i]>> ELSE <<>>])

(* LibraryNaming::Elf: lib<name>.so before lib<name>.a. *)
Candidates(name, static) ==
  IF static THEN << <<name, "a">> >> ELSE << <<name, "so">>, <<name, "a">> >>

(* Every place where the search finds a library, in search order. *)
LibraryPlaces(dirs, name, static) ==
  Picked(FlattenSeq([d \in DOMAIN dirs |->
                       [i \in DOMAIN Candidates(name, static) |->
                          <<dirs[d]>> \o Candidates(name, static)[i]]]), DOMAIN disk)

ExactPlaces(dirs, file) ==
  Picked([d \in DOMAIN dirs |-> <<dirs[d]>> \o file], DOMAIN disk)

At(s, i) == IF i \in DOMAIN s THEN s[i] ELSE NoPath

(* SearchedLibrary: what to look for next when a candidate is skipped. *)
NotSearched == [kind |-> "file", name |-> <<>>, static |-> FALSE]

Nth(dirs, searched, i) ==
  IF searched.kind = "exact" THEN At(ExactPlaces(dirs, searched.name), i)
  ELSE At(LibraryPlaces(dirs, searched.name, searched.static), i)

(* find_script: the path itself, then a relative one in the directories. *)
FindScript(path) ==
  IF IsFile(path) THEN path
  ELSE IF path[1] # "." THEN NoPath
  ELSE At(ExactPlaces(job.dirs, Tail(path)), 1)

SearchedOf(spec) ==
  IF spec.kind \in {"lib", "exact"}
    THEN [kind |-> spec.kind, name |-> spec.name, static |-> spec.attrs.static]
    ELSE NotSearched

(* SearchContext::resolve.  A file named by its path is not looked up. *)
ResolveSpec(spec) ==
  CASE spec.kind \in {"file", "bytes"}  -> spec.name
    [] spec.kind \in {"lib", "exact"}   -> Nth(job.dirs, SearchedOf(spec), 1)
    [] spec.kind = "script"             -> FindScript(spec.name)
    [] spec.kind = "justsymbols"        -> NoPath

(***************************************************************************)
(* Targets.  `fits': the class and byte order are those of the ElfFormat   *)
(* the linker was started for; arch "any" is EM_NONE.                      *)
(***************************************************************************)
IsElf(c) == Content(c).kind \in {"rel", "dyn", "exec"}
IsIr(c) == Content(c).kind = "bitcode"

Mismatch(c, target) ==
  /\ IsElf(c)
  /\ \/ ~Content(c).fits
     \/ target # "none" /\ Content(c).arch \notin {"any", target}

(* infer_target: the first input with a machine decides. *)
InferTarget(c, target) ==
  IF target = "none" /\ (IsElf(c) \/ IsIr(c)) /\ Content(c).arch # "any"
    THEN Content(c).arch ELSE target

MemberContents(c) == [i \in DOMAIN Content(c).members |-> Content(c).members[i].content]

InferMembers(c, target) ==
  IF Content(c).kind = "thin" THEN target
  ELSE FoldLeft(LAMBDA t, m : InferTarget(m, t), target, MemberContents(c))

(* searched_mismatch: an archive is judged by its first ELF member. *)
SearchedMismatch(c, target) ==
  IF Content(c).kind \in {"archive", "thin"}
    THEN LET elf == SelectSeq(MemberContents(c), IsElf)
         IN elf # <<>> /\ Mismatch(Head(elf), target)
    ELSE Mismatch(c, target)

(***************************************************************************)
(* Input records                                                           *)
(***************************************************************************)
NoThin == [path |-> NoPath, target |-> "none"]

Input(position, role, id) ==
  [position |-> position, role |-> role, id |-> id, start |-> FALSE, lazy |-> <<>>,
   soname |-> "none", asNeeded |-> FALSE, thin |-> NoThin, lto |-> walk.lto,
   needsClaim |-> FALSE, incompatible |-> FALSE, object |-> FALSE, ir |-> 0]

InternalInput == [Input(<<0, 0>>, "internal", 0) EXCEPT !.start = TRUE]

IsDefinitionUse(use) == use \in {"Shared", "Weak", "Common", "Regular"}

(* The names that symbols define. *)
DefinedBy(syms) ==
  LET defs == Picked(syms, {e \in ToSet(syms) : IsDefinitionUse(e.use)})
  IN [i \in DOMAIN defs |-> defs[i].sym]

(* defined_names: the names a file defines itself. *)
DefinedNames(c) == DefinedBy(Content(c).syms)

(* An input to add: not yet opened (Later), failed to open, or in the      *)
(* table; `nth' counts the candidates of a library search.                 *)
Later == -1
Item(path, id, attrs, searched) ==
  [op |-> "add", path |-> path, id |-> id, attrs |-> attrs, searched |-> searched, nth |-> 1]
LeaveScript == [op |-> "leave"]

(***************************************************************************)
(* collect: resolving and opening                                          *)
(***************************************************************************)
Specs == job.specs

InitInputs ==
  /\ job \in Jobs
  /\ disk = job.disk
  /\ opened = [i \in DOMAIN job.specs |-> "unopened"]
  /\ table = <<>> /\ work = <<>> /\ files = <<>> /\ indexed = {} /\ err = NoError
  /\ walk = [dirs |-> job.dirs, lto |-> job.lto, ordinal |-> 0, target |-> job.target,
             depth |-> 0, sonames |-> {}, deferred |-> <<>>]
  /\ stage = "resolve" /\ cancel = FALSE

ResolveSpecs ==
  /\ stage = "resolve"
  /\ LET bad == {i \in DOMAIN Specs : ResolveSpec(Specs[i]) = NoPath} IN
     IF bad # {}
       THEN /\ stage' = "failed" /\ err' = Failure("unresolved")
            /\ UNCHANGED work
       ELSE /\ stage' = "open"
            /\ work' = [i \in DOMAIN Specs |->
                          Item(ResolveSpec(Specs[i]), 0, Specs[i].attrs, SearchedOf(Specs[i]))]
            /\ UNCHANGED err
  /\ UNCHANGED <<job, disk, opened, table, files, walk, indexed, cancel>>

(* FileTable::open, with the file as it is on disk now. *)
Opened(p) == IF cancel THEN "cancelled" ELSE IF IsFile(p) THEN disk[p] ELSE "missing"
OpenFailed(o) == o \in {"unopened", "cancelled", "missing"}

(* An earlier argument with the same path (in-memory files repeat nothing).*)
RepeatOf(i) ==
  LET same == {j \in 1 .. i - 1 : /\ Specs[i].kind # "bytes" /\ Specs[j].kind # "bytes"
                                  /\ work[j].path = work[i].path}
  IN IF same = {} THEN 0 ELSE CHOOSE j \in same : \A k \in same : j <= k

(* load_all, the parallel part: each path once. *)
OpenInput(i) ==
  /\ stage = "open" /\ opened[i] = "unopened" /\ RepeatOf(i) = 0
  /\ opened' = [opened EXCEPT ![i] = Opened(work[i].path)]
  /\ UNCHANGED <<job, disk, table, work, files, walk, indexed, err, stage, cancel>>

\* Slip: a repeated path is opened again.
ReopenRepeat(i) == Opened(work[i].path)

(* A repeated path shares the mapping of the first one, or is tried again. *)
RepeatedContent(i) ==
  LET first == opened[RepeatOf(i)]
  IN IF OpenFailed(first) THEN Opened(work[i].path) ELSE first

(* load_all, the end: what was opened enters the table in command-line     *)
(* order; the walk starts behind the internal file.                        *)
PushInputs ==
  /\ stage = "open"
  /\ \A i \in DOMAIN Specs : RepeatOf(i) = 0 => opened[i] # "unopened"
  /\ \E all \in {[i \in DOMAIN Specs |-> IF RepeatOf(i) = 0 THEN opened[i]
                                         ELSE RepeatedContent(i)]} :
     LET ok(i) == {j \in 1 .. i : ~OpenFailed(all[j])}
         given == [i \in DOMAIN Specs |-> [path |-> work[i].path, content |-> all[i]]]
         loaded == Picked(given, {f \in ToSet(given) : ~OpenFailed(f.content)})
     IN /\ opened' = all
        /\ table' = loaded
        /\ work' = [i \in DOMAIN Specs |->
                      [work[i] EXCEPT !.id = IF OpenFailed(all[i]) THEN 0 ELSE Cardinality(ok(i))]]
  /\ files' = <<InternalInput>>
  /\ stage' = "walk"
  /\ UNCHANGED <<job, disk, walk, indexed, err, cancel>>

(***************************************************************************)
(* The walk.  An error ends it; what the deferred indexes say comes first. *)
(***************************************************************************)
Next1 == Head(work)
Adding == stage = "walk" /\ work # <<>> /\ Next1.op = "add"

Stop(what) ==
  /\ err' = Failure(what) /\ stage' = "finish" /\ work' = <<>>
  /\ UNCHANGED <<table, files, walk>>

(* table.load of an input found on the way. *)
LoadNext ==
  /\ Adding /\ Next1.id = Later
  /\ LET c == Opened(Next1.path) IN
     IF OpenFailed(c) THEN Stop(c)
     ELSE /\ table' = Append(table, [path |-> Next1.path, content |-> c])
          /\ work' = <<[Next1 EXCEPT !.id = Len(table) + 1]>> \o Tail(work)
          /\ UNCHANGED <<files, walk, err, stage>>
  /\ UNCHANGED <<job, disk, opened, indexed, cancel>>

(* A positional input that could not be opened. *)
NotLoaded ==
  /\ Adding /\ Next1.id = 0
  /\ Stop("unopened")
  /\ UNCHANGED <<job, disk, opened, indexed, cancel>>

C1 == table[Next1.id].content
Attrs == Next1.attrs
Skipped == Next1.searched # NotSearched /\ SearchedMismatch(C1, walk.target)
Ready(kinds) == Adding /\ Next1.id > 0 /\ ~Skipped /\ Content(C1).kind \in kinds

(* add_found: an incompatible library is skipped with a warning. *)
SkipIncompatible ==
  /\ Adding /\ Next1.id > 0 /\ Skipped
  /\ LET n == Next1.nth + 1
         p == Nth(walk.dirs, Next1.searched, n) IN
     IF p = NoPath THEN Stop("notfound")
     ELSE /\ work' = <<[Next1 EXCEPT !.path = p, !.id = Later, !.nth = n]>> \o Tail(work)
          /\ UNCHANGED <<table, files, walk, err, stage>>
  /\ UNCHANGED <<job, disk, opened, indexed, cancel>>

(* One input record is added, with the next position. *)
AddOne(role, target, start, lazy) ==
  /\ files' = Append(files, [Input(<<walk.ordinal + 1, 0>>, role, Next1.id)
                               EXCEPT !.start = start, !.lazy = lazy])
  /\ walk' = [walk EXCEPT !.ordinal = @ + 1, !.target = target]
  /\ work' = Tail(work)
  /\ UNCHANGED <<table, err, stage>>

(* add, a relocatable object: lazy between --start-lib and --end-lib, but  *)
(* a GCC LTO object is claimed at once.                                    *)
AddObject ==
  /\ Ready({"rel"})
  /\ LET target == InferTarget(C1, walk.target)
         claimed == Content(C1).gcc # "none" /\ walk.lto = "claim" IN
     IF Mismatch(C1, target) THEN Stop("incompatible")
     ELSE AddOne("object", target, ~Attrs.lazy \/ claimed,
                 IF Attrs.lazy /\ ~claimed THEN DefinedNames(C1) ELSE <<>>)
  /\ UNCHANGED <<job, disk, opened, indexed, cancel>>

(* add_shared: checked, then inferred from; one input per DT_NEEDED name. *)
AddShared ==
  /\ Ready({"dyn"})
  /\ LET soname == Content(C1).soname
         target == InferTarget(C1, walk.target) IN
     IF Attrs.static \/ job.staticOutput THEN Stop("static link")
     ELSE IF Mismatch(C1, walk.target) THEN Stop("incompatible")
     ELSE IF soname \in walk.sonames
       THEN /\ walk' = [walk EXCEPT !.target = target]
            /\ work' = Tail(work)
            /\ UNCHANGED <<table, files, err, stage>>
       ELSE /\ files' = Append(files, [Input(<<walk.ordinal + 1, 0>>, "shared", Next1.id) EXCEPT
                               !.start = TRUE, !.soname = soname, !.asNeeded = Attrs.asNeeded])
            /\ walk' = [walk EXCEPT !.ordinal = @ + 1, !.target = target, !.sonames = @ \cup {soname}]
            /\ work' = Tail(work)
            /\ UNCHANGED <<table, err, stage>>
  /\ UNCHANGED <<job, disk, opened, indexed, cancel>>

(* The member inputs of archive c; `ids' are the FileIds of the members of *)
(* an archive that is not thin.                                            *)
MemberInputs(c, target, firstId) ==
  [i \in DOMAIN Content(c).members |->
     LET m == Content(c).members[i]
         f == [Input(<<walk.ordinal + 1, i>>, "member", firstId + i) EXCEPT
                 !.start = Attrs.whole]
     IN IF Content(c).kind = "thin"
          THEN [f EXCEPT !.id = 0, !.thin = [path |-> m.path, target |-> target]]
          ELSE [f EXCEPT !.incompatible = Mismatch(m.content, target)]]

(* The names of a member whose archive has no symbol index. *)
NamedFromItself(f, m) ==
  LET claim == walk.lto = "claim" IN
  CASE f.id = 0 \/ f.incompatible -> f
    [] f.id # 0 /\ ~f.incompatible /\ Content(m).kind = "rel" ->
         IF Content(m).gcc # "none" /\ claim THEN [f EXCEPT !.needsClaim = TRUE]
         ELSE [f EXCEPT !.lazy = DefinedNames(m)]
    [] f.id # 0 /\ ~f.incompatible /\ Content(m).kind = "bitcode" ->
         [f EXCEPT !.needsClaim = claim]
    [] OTHER -> f

(* add_archive: every member gets a record; the symbol index is read later.*)
AddArchive ==
  /\ Ready({"archive", "thin"})
  /\ LET c == Content(C1)
         thin == c.kind = "thin"
         target == InferMembers(C1, walk.target)
         first == Len(files)
         inputs == MemberInputs(C1, target, Len(table))
         named == IF Attrs.whole \/ c.indexed THEN inputs
                  ELSE [i \in DOMAIN inputs |->
                          NamedFromItself(inputs[i], c.members[i].content)]
     IN IF c.broken THEN Stop("malformed archive")
        ELSE /\ files' = files \o named
             /\ table' = IF thin THEN table
                         ELSE table \o [i \in DOMAIN c.members |->
                                          [path |-> Next1.path, content |-> c.members[i].content]]
             /\ walk' = [walk EXCEPT
                  !.ordinal = @ + 1, !.target = target,
                  !.deferred = IF c.indexed /\ ~Attrs.whole
                                 THEN Append(@, [content |-> C1, first |-> first,
                                                 at |-> walk.ordinal + 1])
                                 ELSE @]
             /\ work' = Tail(work)
             /\ UNCHANGED <<err, stage>>
  /\ UNCHANGED <<job, disk, opened, indexed, cancel>>

(***************************************************************************)
(* Linker scripts as inputs                                                *)
(***************************************************************************)
(* resolve_script_input: a library is searched for; a path is tried inside *)
(* the sysroot, as it is, beside the script and in the directories.        *)
ScriptPath(entry, script, static) ==
  IF entry.lib THEN Nth(walk.dirs, [kind |-> "lib", name |-> entry.name, static |-> static], 1)
  ELSE LET dir == Head(entry.name)
           inside == IF dir # "." /\ script[1] \in job.sysrootDirs
                       THEN << <<job.sysroot[dir]>> \o Tail(entry.name) >> ELSE <<>>
           beside == IF dir = "." THEN << <<script[1]>> \o Tail(entry.name) >> ELSE <<>>
           searched == IF dir = "." THEN ExactPlaces(walk.dirs, Tail(entry.name)) ELSE <<>>
       IN At(Picked(inside \o <<entry.name>> \o beside, DOMAIN disk) \o searched, 1)

ScriptItem(entry, lazy, script) ==
  LET attrs == [Attrs EXCEPT !.lazy = @ \/ lazy, !.asNeeded = @ \/ entry.asNeeded]
  IN Item(ScriptPath(entry, script, attrs.static), Later, attrs,
          IF entry.lib THEN [kind |-> "lib", name |-> entry.name, static |-> attrs.static]
          ELSE NotSearched)

(* INPUT, GROUP and LIB name inputs, some commands say nothing here, any   *)
(* other is refused.                                                       *)
ScriptItems(c, script) ==
  FlattenSeq([k \in DOMAIN c.commands |->
    LET cmd == c.commands[k] IN
    IF cmd.op \notin {"input", "lib"} THEN <<>>
    ELSE [i \in DOMAIN cmd.list |-> ScriptItem(cmd.list[i], cmd.op = "lib", script)]])

LeftDepth(depth) == depth - 1

(* add_script: all its inputs are resolved before the first one is loaded. *)
AddScript ==
  /\ Ready({"script"})
  /\ LET c == Content(C1)
         items == ScriptItems(c, Next1.path) IN
     IF walk.depth + 1 > MaxDepth THEN Stop("nested too deeply")
     ELSE IF \/ \E k \in DOMAIN c.commands : c.commands[k].op = "other"
             \/ \E i \in DOMAIN items : items[i].path = NoPath
     THEN Stop("script")
     ELSE /\ work' = items \o <<LeaveScript>> \o Tail(work)
          /\ walk' = [walk EXCEPT !.depth = @ + 1]
          /\ UNCHANGED <<table, files, err, stage>>
  /\ UNCHANGED <<job, disk, opened, indexed, cancel>>

EndScript ==
  /\ stage = "walk" /\ work # <<>> /\ Next1.op = "leave"
  /\ walk' = [walk EXCEPT !.depth = LeftDepth(@)]
  /\ work' = Tail(work)
  /\ UNCHANGED <<job, disk, opened, table, files, indexed, err, stage, cancel>>

(* An empty file is skipped; IR needs a plugin; anything else is refused.  *)
AddOther ==
  /\ Ready({"empty", "bitcode", "exec", "other"})
  /\ LET k == Content(C1).kind
         target == InferTarget(C1, walk.target) IN
     CASE k = "empty" -> work' = Tail(work) /\ UNCHANGED <<table, files, walk, err, stage>>
       [] k = "bitcode" /\ walk.lto = "claim" ->
            AddOne("object", target, TRUE, <<>>)
       [] OTHER -> Stop(IF k = "bitcode" THEN "needs a plugin" ELSE "not recognized")
  /\ UNCHANGED <<job, disk, opened, indexed, cancel>>

WalkDone ==
  /\ stage = "walk" /\ work = <<>>
  /\ stage' = "finish"
  /\ UNCHANGED <<job, disk, opened, table, work, files, walk, indexed, err, cancel>>

(***************************************************************************)
(* finish: the deferred symbol indexes, in parallel                        *)
(***************************************************************************)
\* Slip: the slices are taken one behind the other.
SliceStartPacked(k) ==
  IF k = 1 THEN walk.deferred[1].first
  ELSE walk.deferred[k - 1].first + Len(Content(walk.deferred[k - 1].content).members)

(* The slice of `files' that split_at_mut gives to the k-th deferred       *)
(* archive.                                                                *)
SliceStart(k) == walk.deferred[k].first

MemberAt(c, off) == {i \in DOMAIN Content(c).members : Content(c).members[i].off = off}

BadIndex(c) == \E i \in DOMAIN Content(c).index : MemberAt(c, Content(c).index[i].off) = {}

IndexNames(c, i) ==
  LET mine == Picked(Content(c).index,
                     {e \in ToSet(Content(c).index) : MemberAt(c, e.off) = {i}})
  IN [n \in DOMAIN mine |-> mine[n].name]

(* A member the index says nothing of may be IR the plugin must describe. *)
Undescribed(f, m, lto) ==
  /\ lto = "claim" /\ f.id # 0 /\ \A n \in DOMAIN f.lazy : f.lazy[n] = "lto marker"
  /\ \/ Content(m).kind = "rel" /\ Content(m).gcc # "none"
     \/ IsIr(m)

(* read_symbol_index *)
ReadIndex(k) ==
  /\ stage = "finish" /\ k \in DOMAIN walk.deferred \ indexed
  /\ LET d == walk.deferred[k]
         ms == Content(d.content).members
         named(f, i) == [f EXCEPT !.lazy = IndexNames(d.content, i)]
         read(f, i) == LET g == named(f, i) IN
                       IF Undescribed(g, ms[i].content, walk.lto)
                         THEN [g EXCEPT !.needsClaim = TRUE, !.lazy = <<>>] ELSE g
     IN files' = IF BadIndex(d.content) THEN files
                 ELSE [j \in DOMAIN files |->
                         IF j - SliceStart(k) \in DOMAIN ms
                           THEN read(files[j], j - SliceStart(k)) ELSE files[j]]
  /\ indexed' = indexed \cup {k}
  /\ UNCHANGED <<job, disk, opened, table, work, walk, err, stage, cancel>>

BadIndexes == {k \in DOMAIN walk.deferred : BadIndex(walk.deferred[k].content)}
FirstBad == CHOOSE k \in BadIndexes : \A j \in BadIndexes : k <= j

\* Slip: the error that ended the walk is returned at once.
FinishedWalkFirst ==
  IF err # NoError THEN err
  ELSE IF BadIndexes # {} THEN [at |-> walk.deferred[FirstBad].at, what |-> "index"]
  ELSE NoError

(* The first bad index, else the error that ended the walk. *)
Finished ==
  IF BadIndexes # {} THEN [at |-> walk.deferred[FirstBad].at, what |-> "index"] ELSE err

FinishInputs(next) ==
  /\ stage = "finish" /\ indexed = DOMAIN walk.deferred
  /\ err' = Finished
  /\ stage' = IF Finished = NoError THEN next ELSE "failed"
  /\ UNCHANGED <<job, disk, opened, table, work, files, walk, indexed, cancel>>

(***************************************************************************)
(* The world around the linker                                             *)
(***************************************************************************)
Rewrite(p) ==
  /\ p \in DOMAIN job.rewritten /\ disk[p] # job.rewritten[p]
  /\ stage \in {"resolve", "open"}
  /\ disk' = [disk EXCEPT ![p] = job.rewritten[p]]
  /\ UNCHANGED <<job, opened, table, work, files, walk, indexed, err, stage, cancel>>

CancelLink ==
  /\ job.mayCancel /\ ~cancel /\ stage \in {"open", "walk"}
  /\ cancel' = TRUE
  /\ UNCHANGED <<job, disk, opened, table, work, files, walk, indexed, err, stage>>
=============================================================================
