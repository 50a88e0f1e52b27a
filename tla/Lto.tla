-------------------------------- MODULE Lto --------------------------------
(***************************************************************************)
(* Link-time optimization: elf/lto.rs resolve, with the inputs of Inputs   *)
(* and the plugins of PluginHost.                                          *)
(*                                                                         *)
(* Files are resolved in rounds; what turns out to be IR is offered to the *)
(* plugins as it becomes live and, if claimed, takes part with the symbols *)
(* the plugin names.  Once the rounds settle, the plugins are told who won *)
(* each symbol and hand back native objects, which replace the IR; then    *)
(* everything that was live, and what the objects need, is resolved again  *)
(* from a fresh table.  Finally elf/dso.rs decides which shared libraries  *)
(* are needed.                                                             *)
(*                                                                         *)
(* Resolve models one resolution in detail; here a round is one step.      *)
(* COMDAT groups are left to Resolve.                                      *)
(***************************************************************************)
EXTENDS Inputs, PluginHost, Definitions

CONSTANT Names    \* the symbol names

(* What a command line and the contents of files are made of.  Only a      *)
(* shared library's symbols are used as Shared ones (symbol_use).          *)
Uses == {"Reference", "WeakReference", "Shared", "Weak", "Common", "Regular"}
Symbol == [sym: Names, use: Uses, hidden: BOOLEAN]
ObjectSymbol == [sym: Names, use: Uses \ {"Shared"}, hidden: BOOLEAN]

IsSequence(s) == s \in Seq(ToSet(s))

IsContent(r, contents) ==
  /\ r.syms \in Seq(Symbol) /\ r.ir \in Seq(ObjectSymbol)
  /\ r.kind # "dyn" => r.syms \in Seq(ObjectSymbol)
  /\ r.kind \in {"archive", "thin"} =>
       /\ IsSequence(r.members) /\ IsSequence(r.index)
       /\ \A i \in DOMAIN r.members : /\ r.members[i].content \in contents
                                      /\ r.kind = "thin" => r.members[i].path # NoPath
  /\ r.kind = "script" =>
       /\ IsSequence(r.commands)
       /\ \A k \in DOMAIN r.commands : IsSequence(r.commands[k].list)

JobFields ==
  {"specs", "disk", "rewritten", "content", "mayCancel", "dirs", "ltoDirs", "sysroot", "sysrootDirs",
   "target", "staticOutput", "relocatable", "exportAll", "listed", "scriptLocal", "internal", "lto",
   "answers", "loading", "compiling", "cleaning", "unloadable", "saveTemps", "wrapped", "libcalls",
   "ltoLibs", "newInputHook"}

IsJob(j) ==
  /\ DOMAIN j = JobFields
  /\ IsSequence(j.specs) /\ IsSequence(j.ltoLibs)
  /\ j.internal \in Seq(ObjectSymbol)
  /\ j.libcalls \subseteq Names /\ IsFiniteSet(j.libcalls)
  /\ \A c \in DOMAIN j.content : IsContent(j.content[c], DOMAIN j.content)
  /\ \A p \in DOMAIN j.disk : j.disk[p] \in DOMAIN j.content
  /\ \A p \in DOMAIN j.rewritten : j.rewritten[p] \in DOMAIN j.content

(* "defs" and "uses" are what the plugins are to write. *)
ASSUME JobsAssumption ==
  \A j \in Jobs : IsJob(j) /\ "defs" \notin DOMAIN j.content /\ "uses" \notin DOMAIN j.content

VARIABLES
  live,      \* indexes of the files that are live
  todo,      \* files still to be offered to the plugins, lowest first
  claims,    \* Session.records: the claim records, in order
  pass,      \* 1, and 2 once the IR has been replaced
  cell,      \* cell[s]: the definition of symbol s
  needed,    \* shared libraries that are needed
  first      \* what the first resolution found, for the properties

ltoVars == <<live, todo, claims, pass, cell, needed, first>>
vars == <<inputVars, hostVars, ltoVars>>
Unchanged2 == UNCHANGED ltoVars

Ids == DOMAIN files
ContentOf(f) == table[files[f].id].content

(* symbol_names and symbol_use of a loaded file. *)
Syms(f) ==
  CASE files[f].ir # 0          -> SymbolsOf(claims[files[f].ir])
    [] files[f].ir = 0 /\ files[f].role = "internal" -> job.internal
    [] files[f].ir = 0 /\ (files[f].object \/ files[f].role = "shared") -> Content(ContentOf(f)).syms
    [] OTHER -> <<>>

(* The definitions that compete for s: lazy names of files that were not   *)
(* live from the start, and the symbols of live files.                     *)
PositionOf(f) == 10 * files[f].position[1] + files[f].position[2]

Candidate(kind, f, i) ==
  [kind |-> kind, file |-> f, index |-> i, position |-> PositionOf(f), size |-> 0, comdat |-> FALSE]

Competing(s) ==
  (UNION {{Candidate("Lazy", f, i) : i \in {j \in DOMAIN files[f].lazy : files[f].lazy[j] = s}}
            : f \in {g \in Ids : ~files[g].start}})
  \cup
  (UNION {{Candidate(Syms(f)[i].use, f, i) :
             i \in {j \in DOMAIN Syms(f) : Syms(f)[j].sym = s /\ IsDefinitionUse(Syms(f)[j].use)}}
            : f \in live})

Best(s) ==
  LET all == Competing(s) IN
  IF all = {} THEN UndefinedDefinition
  ELSE CHOOSE d \in all : \A c \in all \ {d} : TakesPrecedence(d, c)

References(f, use) ==
  {Syms(f)[i].sym : i \in {j \in DOMAIN Syms(f) : Syms(f)[j].use = use}}

StrongRefs(fs) == UNION {References(f, "Reference") : f \in fs}

\* Slip: a file whose index names what it does not define is loaded again.
NextRoundAgain ==
  IF live = {} THEN {f \in Ids : files[f].start}
  ELSE {Best(s).file : s \in {t \in StrongRefs(live) : Best(t).kind = "Lazy"}}

NextRound ==
  IF live = {} THEN {f \in Ids : files[f].start}
  ELSE {Best(s).file : s \in {t \in StrongRefs(live) : Best(t).kind = "Lazy"}} \ live

(***************************************************************************)
(* Loading: ElfInput::load                                                 *)
(***************************************************************************)
LoadedContent(f) == IF files[f].thin # NoThin THEN Opened(files[f].thin.path) ELSE ContentOf(f)

LoadFails(f) ==
  LET c == LoadedContent(f) IN
  /\ files[f].role \notin {"internal", "shared"} /\ ~files[f].object
  /\ \/ files[f].incompatible
     \/ OpenFailed(c)
     \/ /\ ~OpenFailed(c)
        /\ \/ files[f].thin # NoThin /\ Mismatch(c, files[f].thin.target)
           \/ Content(c).kind \notin {"rel", "bitcode"}
           \/ Content(c).kind = "bitcode" /\ files[f].lto # "claim"
           \/ Content(c).gcc = "slim" /\ files[f].lto \notin {"claim", "generated"}

(* Thin members among the files fs, in order. *)
Thin(fs) == Picked([f \in Ids |-> f], {f \in fs : files[f].thin # NoThin})

LoadedFile(f) ==
  LET thin == Thin({g \in Ids : g <= f /\ g \in NextRound})
      id == IF files[f].thin = NoThin THEN files[f].id ELSE Len(table) + Len(thin)
  IN [files[f] EXCEPT !.id = id, !.thin = NoThin,
        !.object = /\ files[f].role \in {"object", "member"} /\ files[f].ir = 0
                   /\ (@ \/ Content(LoadedContent(f)).kind = "rel")]

(* pending_ir, of a file just loaded. *)
PendingIr(f) ==
  /\ files[f].role \in {"object", "member"} /\ files[f].ir = 0 /\ ~files[f].incompatible
  /\ ~OpenFailed(LoadedContent(f))
  /\ LET c == Content(LoadedContent(f))
     IN c.kind = "bitcode" \/ (c.kind = "rel" /\ c.gcc # "none")

Fail(what) ==
  /\ err' = [at |-> 0, what |-> what] /\ stage' = "failed"
  /\ UNCHANGED <<job, disk, opened, table, work, files, walk, indexed, cancel>>

SetStage(st) ==
  /\ stage' = st
  /\ UNCHANGED <<job, disk, opened, table, work, files, walk, indexed, err, cancel>>

(* One round: load what the references ask for; IR waits to be claimed. *)
LoadRound ==
  /\ stage = "round"
  /\ \E new \in {NextRound} :
     CASE new = {} -> /\ SetStage("resolved") /\ cell' = [s \in Names |-> Best(s)]
                      /\ UNCHANGED <<live, todo>>
       [] new # {} /\ (\E f \in new : LoadFails(f)) ->
            Fail("load") /\ UNCHANGED <<live, todo, cell>>
       [] new # {} /\ (\A f \in new : ~LoadFails(f)) ->
            /\ live' = live \cup new
            /\ todo' = {f \in new : files[f].lto = "claim" /\ PendingIr(f)}
            /\ files' = [f \in Ids |-> IF f \in new THEN LoadedFile(f) ELSE files[f]]
            /\ table' = table \o [i \in DOMAIN Thin(new) |->
                 [path |-> files[Thin(new)[i]].thin.path, content |-> LoadedContent(Thin(new)[i])]]
            /\ stage' = "claiming"
            /\ UNCHANGED <<job, disk, opened, work, walk, indexed, err, cancel, cell>>
  /\ UNCHANGED <<hostVars, claims, pass, needed, first>>

ClaimsDone ==
  /\ stage = "claiming" /\ todo = {}
  /\ SetStage("round") /\ UNCHANGED hostVars /\ Unchanged2

(***************************************************************************)
(* Claims.  Members an index does not describe are offered before the      *)
(* first round, to learn their names; IR that became live is offered in    *)
(* its round.                                                              *)
(***************************************************************************)
StartClaims ==
  /\ stage = "claim"
  /\ todo' = {f \in Ids : files[f].needsClaim /\ ~files[f].start /\ files[f].id # 0}
  /\ SetStage("names")
  /\ UNCHANGED <<hostVars, live, claims, pass, cell, needed, first>>

NamesDone ==
  /\ stage = "names" /\ todo = {}
  /\ SetStage("round") /\ UNCHANGED hostVars /\ Unchanged2

(* The file that is offered next. *)
Offered == CHOOSE f \in todo : \A g \in todo : f <= g

Offering == stage \in {"names", "claiming"} /\ todo # {} /\ ~exited

(* Driver::session: made when the first IR file is met. *)
StartSession ==
  /\ Offering /\ BeginSession(job.saveTemps)
  /\ UNCHANGED inputVars /\ Unchanged2

StartPlugin ==
  /\ Offering
  /\ \E b \in job.loading : LoadPlugin(b)
  /\ UNCHANGED inputVars /\ Unchanged2

PluginLoadFailed ==
  /\ Offering
  /\ \/ host.active /\ host.failed /\ host.asking = 0 /\ UNCHANGED hostVars
     \/ job.unloadable /\ RefusePlugin
  /\ Fail("plugin") /\ Unchanged2

OfferFile ==
  /\ Offering /\ host.active /\ PluginsLoaded /\ host.asking = 0
  /\ OpenClaim(Offered)
  /\ UNCHANGED inputVars /\ Unchanged2

OfferToPlugin ==
  /\ Offering
  /\ \E b \in job.answers : AskPlugin(b, Content(ContentOf(Offered)).ir)
  /\ UNCHANGED inputVars /\ Unchanged2

(* Driver::claims: the number of the claim just made. *)
ClaimNumber(f) == Len(claims) + 1

(* claim_declined: only an object with native code can do without. *)
DeclineFails(f) == Content(ContentOf(f)).kind = "bitcode" \/ Content(ContentOf(f)).gcc = "slim"

EndOffer ==
  /\ Offering /\ host.asking = host.plugins + 1
  /\ CloseClaim
  /\ LET f == Offered
         c == ContentOf(f)
         k == Current
         syms == IF host.files[k].pending = <<>> THEN <<>> ELSE Head(host.files[k].pending).syms IN
     CASE host.failed -> Fail("plugin") /\ UNCHANGED <<todo, claims>>
       [] ~host.failed /\ ~Claimed(k) /\ stage = "claiming" /\ DeclineFails(f) ->
            Fail("unclaimed IR") /\ UNCHANGED <<todo, claims>>
       [] OTHER ->
            /\ claims' = IF Claimed(k) THEN Append(claims, k) ELSE claims
            /\ todo' = todo \ {Offered}
            /\ files' = [files EXCEPT ![f] =
                 CASE Claimed(k) /\ stage = "claiming" ->
                        [@ EXCEPT !.ir = ClaimNumber(f), !.object = FALSE]
                   [] Claimed(k) /\ stage = "names" ->
                        [@ EXCEPT !.lazy = DefinedBy(syms)]
                   [] ~Claimed(k) /\ stage = "names" /\ Content(c).kind = "rel" ->
                        [@ EXCEPT !.lazy = DefinedNames(c)]
                   [] OTHER -> @]
            /\ UNCHANGED <<job, disk, opened, table, work, walk, indexed, err, stage, cancel>>
  /\ UNCHANGED <<live, pass, cell, needed, first>>

(***************************************************************************)
(* Shared libraries: elf/dso.rs                                            *)
(***************************************************************************)
SharedFiles == {f \in Ids : files[f].role = "shared"}

SharedDefinitions(fs, s) ==
  UNION {{Candidate("Shared", f, i) :
            i \in {j \in DOMAIN Syms(f) : Syms(f)[j].sym = s /\ Syms(f)[j].use = "Shared"}}
           : f \in fs}

FirstOf(defs) == CHOOSE d \in defs : \A c \in defs \ {d} : TieLess(d, c)

(* bind_unextracted: a name whose archive member nobody asked for is the   *)
(* first live library's.                                                   *)
BindUnextracted(cl) ==
  [s \in Names |->
     LET defs == SharedDefinitions(SharedFiles \cap live, s)
     IN IF cl[s].kind = "Lazy" /\ defs # {} THEN FirstOf(defs) ELSE cl[s]]

Owner(cl, s) == IF cl[s].kind = "Shared" THEN {cl[s].file} ELSE {}

NativeFiles == {f \in live : files[f].role # "shared" /\ files[f].ir = 0}

(* needed_by_ir: what IR alone refers to counts in the first resolution,   *)
(* unless the library's definition has a version.                          *)
NeededByIr(cl) ==
  UNION {{g \in Owner(cl, s) : s \notin Content(ContentOf(g)).versioned}
           : s \in StrongRefs({f \in live : files[f].ir # 0})}

(* What a needed library refers to in one it does not itself need. *)
NeededBy(cl, f) ==
  UNION {{g \in Owner(cl, s) : files[g].soname \notin Content(ContentOf(f)).needs}
           : s \in References(f, "Reference")}

(* plan_needed_with: the rounds end at the least set that holds what is    *)
(* wanted at once and what a needed library needs.                         *)
Wanted(cl, also) ==
  {f \in SharedFiles : ~files[f].asNeeded} \cup also
  \cup (UNION {Owner(cl, s) : s \in StrongRefs(NativeFiles)})

PlanNeeded(cl, also) ==
  {f \in SharedFiles : \A S \in SUBSET SharedFiles :
     /\ Wanted(cl, also) \subseteq S
     /\ \A g \in S : NeededBy(cl, g) \subseteq S
     => f \in S}

\* Slip: what an unneeded library defined is left to it.
RebindNothing(cl, nd) == cl

(* rebind_unneeded: a needed library takes over, or nobody. *)
RebindUnneeded(cl, nd) ==
  [s \in Names |->
     LET defs == SharedDefinitions(nd, s)
     IN IF Owner(cl, s) \subseteq nd THEN cl[s]
        ELSE IF defs = {} THEN UndefinedDefinition ELSE FirstOf(defs)]

(***************************************************************************)
(* Resolutions for the plugins                                             *)
(***************************************************************************)
Mentioned(fs) == UNION {{Syms(f)[i].sym : i \in DOMAIN Syms(f)} : f \in fs}

\* Slip: names the linker itself uses (the entry point) are forgotten.
LtoRegularOfObjects == Mentioned({f \in NativeFiles : files[f].role # "internal"})

(* mark_usage *)
LtoRegular == Mentioned(NativeFiles)
LtoDynamic == Mentioned(SharedFiles \cap live)
LtoHidden ==
  UNION {{Syms(f)[i].sym : i \in {j \in DOMAIN Syms(f) : Syms(f)[j].hidden}}
           : f \in {g \in NativeFiles : files[g].role # "internal"}}

Winner(d) ==
  CASE d.kind \in {"Undefined", "Lazy"}             -> "undefined"
    [] d.kind = "Shared"                            -> "shared"
    [] d.kind \in {"Regular", "Weak", "Common"}     ->
         IF files[d.file].ir # 0 THEN "ir" ELSE "regular"

(* symbol_resolution *)
SymbolResolution(fact) ==
  IF fact.undefined
    THEN CASE fact.winner = "undefined" -> "undefined"
           [] fact.winner = "ir"        -> "resolved ir"
           [] fact.winner = "regular"   -> "resolved exec"
           [] fact.winner = "shared"    -> "resolved dyn"
  ELSE IF ~fact.prevailing
    THEN IF fact.winner = "ir" THEN "preempted ir" ELSE "preempted"
  ELSE IF job.relocatable \/ fact.regular \/ fact.wrapped THEN "prevailing"
  ELSE IF ~fact.hidden /\ ~fact.scriptLocal /\ (fact.dynamic \/ job.exportAll \/ fact.listed)
    THEN "ironly exp" ELSE "ironly"

(* file_resolution of file f, in the table cl. *)
FileResolution(f, cl) ==
  [i \in DOMAIN Syms(f) |->
     LET e == Syms(f)[i]
         d == cl[e.sym]
         undefined == ~IsDefinitionUse(e.use)
     IN SymbolResolution(
          [undefined |-> undefined, winner |-> Winner(d),
           prevailing |-> ~undefined /\ Winner(d) = "ir" /\ d.file = f /\ d.index = i,
           regular |-> e.sym \in LtoRegular, dynamic |-> e.sym \in LtoDynamic,
           hidden |-> e.hidden \/ e.sym \in LtoHidden, listed |-> e.sym \in job.listed,
           scriptLocal |-> e.sym \in job.scriptLocal, wrapped |-> e.sym \in job.wrapped])]

\* Slip: any claim of a live file is included.
IncludedLive(i) == host.files[claims[i]].handle \in live

(* A claim counts if it is the latest one of a live file. *)
Included(i) ==
  LET f == host.files[claims[i]].handle IN files[f].ir = i /\ f \in live

IrFiles == {f \in Ids : files[f].ir # 0}

(* resolve, between the two resolutions: the plugins get their answers. *)
TellPlugins ==
  /\ stage = "resolved" /\ pass = 1 /\ host.active /\ IrFiles # {}
  /\ \E bound \in {IF job.relocatable THEN cell ELSE BindUnextracted(cell)} :
     \E nd \in {IF job.relocatable THEN SharedFiles ELSE PlanNeeded(bound, NeededByIr(bound))} :
     \E cl \in {IF job.relocatable THEN bound ELSE RebindUnneeded(bound, nd)} :
       /\ cell' = cl /\ needed' = nd
       /\ PublishResolutions(
            [k \in {claims[i] : i \in DOMAIN claims} |->
               LET i == CHOOSE j \in DOMAIN claims : claims[j] = k IN
               IF Included(i)
                 THEN [state |-> "included", values |-> FileResolution(host.files[k].handle, cl)]
                 ELSE [state |-> "not included", values |-> <<>>]])
       /\ first' = [bound |-> {s \in Names : Winner(cl[s]) # "undefined"},
                    ir |-> {s \in Names : Winner(cl[s]) = "ir"},
                    native |-> {files[f].position : f \in NativeFiles},
                    hidden |-> LtoHidden \cup
                      {e.sym : e \in {d \in UNION {Range(Syms(f)) : f \in IrFiles} : d.hidden}}]
  /\ SetStage("symbols")
  /\ UNCHANGED <<live, todo, claims, pass>>

CompileIr ==
  /\ stage \in {"symbols", "new input"}
  /\ \E b \in job.compiling : RunHandler(b)
  /\ UNCHANGED inputVars /\ Unchanged2

(***************************************************************************)
(* What the plugins write (external): an object with every definition that *)
(* prevails and may be seen from outside the IR, and one with the          *)
(* references that leave it and the library calls code generation adds.    *)
(***************************************************************************)
ObjectPath(n) == <<"tmp", "ltrans", n>>

Told(values) ==
  UNION {{host.files[k].symbols[1].syms[i] : i \in {j \in DOMAIN host.files[k].resolution :
                                                     host.files[k].resolution[j] \in values}}
           : k \in {r \in DOMAIN host.files : host.files[r].state = "included"}}

NativeObject(syms) ==
  [kind |-> "rel", arch |-> "any", fits |-> TRUE, gcc |-> "none", syms |-> syms, ir |-> <<>>]

Generated ==
  LET defs == SetToSeq(Told({"prevailing", "ironly exp"}))
      refs == {e.sym : e \in Told({"resolved exec", "resolved dyn", "undefined", "preempted"})}
      uses == SetToSeq({[sym |-> s, use |-> "Reference", hidden |-> FALSE]
                          : s \in refs \cup job.libcalls})
  IN <<NativeObject(defs), NativeObject(uses)>>

(***************************************************************************)
(* The second resolution                                                   *)
(***************************************************************************)
FirstIr == CHOOSE f \in IrFiles : \A g \in IrFiles : f <= g

(* lto_object: the position is that of the first IR file. *)
LtoObject(id) ==
  [Input(files[FirstIr].position, "object", id) EXCEPT !.start = TRUE, !.lto = "generated"]

(* prepare_after_lto: what was live stays live. *)
PreparedAfterLto(f) ==
  [files[f] EXCEPT !.start = @ \/ f \in live, !.lto = "after", !.needsClaim = FALSE]

AttrsAfterLto ==
  [Specs[Len(Specs)].attrs EXCEPT !.whole = FALSE, !.lazy = FALSE, !.static = @ \/ job.staticOutput]

LtoLibrary(name) ==
  [op |-> "lib", nth |-> 1,
   searched |-> [kind |-> "lib", name |-> name, static |-> AttrsAfterLto.static]]

(* The objects replace the IR; the libraries the plugins ask for are       *)
(* walked behind the other inputs (add_after_lto).                         *)
ReplaceIr ==
  /\ stage = "symbols" /\ HandlersDone
  /\ EndHandlers
  /\ IF host.failed \/ host.errors > 0 THEN Fail("plugin") /\ Unchanged2
     ELSE IF cancel THEN Fail("cancelled") /\ Unchanged2
     ELSE /\ job' = [job EXCEPT !.content = [c \in DOMAIN @ \cup {"defs", "uses"} |->
                       CASE c = "defs" -> Generated[1] [] c = "uses" -> Generated[2]
                         [] OTHER -> @[c]]]
          /\ table' = table \o << [path |-> ObjectPath("1"), content |-> "defs"],
                                  [path |-> ObjectPath("2"), content |-> "uses"] >>
          /\ files' = FlattenSeq([f \in Ids |->
                IF files[f].ir = 0 THEN <<PreparedAfterLto(f)>>
                ELSE IF f = FirstIr THEN <<LtoObject(Len(table) + 1), LtoObject(Len(table) + 2)>>
                ELSE <<>>])
          /\ walk' = [walk EXCEPT !.dirs = job.ltoDirs \o job.dirs, !.lto = "after", !.depth = 0,
                                  !.deferred = <<>>, !.ordinal = files[Len(files)].position[1]]
          /\ work' = IF job.relocatable THEN <<>>
                     ELSE [i \in DOMAIN job.ltoLibs |-> LtoLibrary(job.ltoLibs[i])]
          /\ todo' = IF job.newInputHook THEN {1, 2} ELSE {}
          /\ stage' = "new input"
          /\ live' = {} /\ pass' = 2
          /\ indexed' = {}
          /\ UNCHANGED <<disk, opened, err, cancel, claims, cell, needed, first>>

(* new_input: the handlers hear of each object. *)
OfferObject ==
  /\ stage = "new input" /\ todo # {} /\ host.asking = 0 /\ Usable
  /\ host' = [host EXCEPT !.asking = 1] /\ UNCHANGED <<exited, cleaned>>
  /\ UNCHANGED inputVars /\ Unchanged2

ObjectOffered ==
  /\ stage = "new input" /\ HandlersDone
  /\ EndHandlers
  /\ IF host.failed THEN Fail("plugin") ELSE UNCHANGED inputVars
  /\ todo' = todo \ {Offered}
  /\ UNCHANGED <<live, claims, pass, cell, needed, first>>

ObjectsOffered ==
  /\ stage = "new input" /\ todo = {} /\ ~host.failed /\ ~exited
  /\ SetStage("walk") /\ UNCHANGED hostVars /\ Unchanged2

(* A library is added unless it is an input already; one that cannot be    *)
(* found is left out.                                                      *)
AddLtoLibrary ==
  /\ stage = "walk" /\ work # <<>> /\ Next1.op = "lib"
  /\ LET p == Nth(walk.dirs, Next1.searched, Next1.nth)
         c == Opened(p)
         present == \E f \in Ids : /\ files[f].role \in {"object", "shared"} /\ files[f].id # 0
                                   /\ table[files[f].id].path = p
     IN IF p = NoPath \/ present
          THEN work' = Tail(work) /\ UNCHANGED <<table, err, stage>>
        ELSE IF OpenFailed(c)
          THEN work' = <<>> /\ err' = Failure(c) /\ stage' = "finish" /\ UNCHANGED table
        ELSE /\ table' = Append(table, [path |-> p, content |-> c])
             /\ work' = IF SearchedMismatch(c, walk.target)
                          THEN <<[Next1 EXCEPT !.nth = @ + 1]>> \o Tail(work)
                          ELSE <<Item(p, Len(table) + 1, AttrsAfterLto, NotSearched)>> \o Tail(work)
             /\ UNCHANGED <<err, stage>>
  /\ UNCHANGED <<job, disk, opened, files, walk, indexed, cancel, hostVars>> /\ Unchanged2

(***************************************************************************)
(* The end                                                                 *)
(***************************************************************************)
(* link_inputs: the shared libraries that stay. *)
PlanLibraries ==
  /\ stage = "resolved" /\ (pass = 2 \/ ~host.active \/ IrFiles = {})
  /\ \E bound \in {BindUnextracted(cell)} : \E nd \in {PlanNeeded(bound, {})} :
       needed' = nd /\ cell' = RebindUnneeded(bound, nd)
  /\ SetStage("planned")
  /\ UNCHANGED <<hostVars, live, todo, claims, pass, first>>

(* A later stage of the link fails: the LtoLink is dropped. *)
LaterStageFails ==
  /\ stage = "planned" /\ ~Cleaning
  /\ Fail("link") /\ UNCHANGED hostVars /\ Unchanged2

(* The session ends, by LtoLink::finish after the output is written or by  *)
(* Drop for Session on every other way out.                                *)
BeginCleanUp ==
  /\ stage \in {"planned", "failed"} /\ BeginEnd
  /\ UNCHANGED inputVars /\ Unchanged2

CleanUpPlugin ==
  /\ stage \in {"planned", "failed"}
  /\ \E b \in job.cleaning : CleanUp(b)
  /\ UNCHANGED inputVars /\ Unchanged2

(* finish returns what the clean-up handlers reported, ... *)
FinishLink ==
  /\ stage = "planned"
  /\ IF host.active THEN EndSession ELSE UNCHANGED hostVars
  /\ IF host.errors > 0 THEN Fail("plugin") ELSE SetStage("done")
  /\ Unchanged2

(* ... Drop loses it. *)
DropSession ==
  /\ stage = "failed" /\ EndSession
  /\ UNCHANGED inputVars /\ Unchanged2

(***************************************************************************)
(* The specification                                                       *)
(***************************************************************************)
Init ==
  /\ InitInputs
  /\ host = NoHost /\ exited = FALSE /\ cleaned = [p \in 1 .. NumPlugins |-> 0]
  /\ live = {} /\ todo = {} /\ claims = <<>> /\ pass = 1 /\ needed = {}
  /\ cell = [s \in Names |-> UndefinedDefinition]
  /\ first = [bound |-> {}, ir |-> {}, native |-> {}, hidden |-> {}]

CollectStep ==
  \/ ResolveSpecs \/ (\E i \in DOMAIN Specs : OpenInput(i)) \/ PushInputs
  \/ LoadNext \/ NotLoaded \/ SkipIncompatible
  \/ AddObject \/ AddShared \/ AddArchive \/ AddScript \/ EndScript \/ AddOther
  \/ WalkDone \/ (\E k \in DOMAIN walk.deferred : ReadIndex(k))
  \/ FinishInputs(IF pass = 1 THEN "claim" ELSE "round")

Collect == CollectStep /\ UNCHANGED hostVars /\ Unchanged2

LtoStep ==
  \/ StartClaims \/ NamesDone \/ LoadRound \/ ClaimsDone
  \/ StartSession \/ StartPlugin \/ PluginLoadFailed \/ OfferFile \/ OfferToPlugin \/ EndOffer
  \/ TellPlugins \/ CompileIr \/ ReplaceIr \/ OfferObject \/ ObjectOffered \/ ObjectsOffered
  \/ AddLtoLibrary \/ PlanLibraries \/ LaterStageFails
  \/ BeginCleanUp \/ CleanUpPlugin \/ FinishLink \/ DropSession

Environment ==
  /\ (\E p \in DOMAIN job.rewritten : Rewrite(p)) \/ CancelLink
  /\ UNCHANGED hostVars /\ Unchanged2

Ended == exited \/ stage = "done" \/ (stage = "failed" /\ ~host.active)
Stutter == Ended /\ UNCHANGED vars

Next == Collect \/ LtoStep \/ Environment \/ Stutter

Spec == Init /\ [][Next]_vars /\ WF_vars(Collect \/ LtoStep)

(***************************************************************************)
(* Properties                                                              *)
(***************************************************************************)
(* Input positions order the files as the command line does, scripts and   *)
(* archives included; only the objects made from IR share one.             *)
Before(p, q) == p[1] < q[1] \/ (p[1] = q[1] /\ p[2] < q[2])

PositionsOrdered ==
  \A i, j \in Ids : i < j =>
    \/ Before(files[i].position, files[j].position)
    \/ /\ files[i].position = files[j].position
       /\ files[i].lto = "generated" /\ files[j].lto = "generated"

(* The names that make a file live are its own: what an archive's index    *)
(* says of a member ends up with that member, wherever the archives stand  *)
(* in the file list, and nothing of it with another file.                  *)
NamesIn(syms) == {syms[i].sym : i \in DOMAIN syms}

LazyNamesAreOwn ==
  stage \in {"claim", "names", "round", "claiming", "resolved"} /\ pass = 1 =>
    \A f \in Ids :
      LET c == Content(ContentOf(f)) IN
      /\ files[f].start => files[f].lazy = <<>>
      /\ files[f].role \in {"object", "member"} /\ ~files[f].start /\ files[f].id # 0
         /\ ~files[f].incompatible =>
           IF c.kind = "rel" /\ c.gcc = "none"
             THEN ToSet(files[f].lazy) = ToSet(DefinedNames(ContentOf(f)))
             ELSE ToSet(files[f].lazy) \subseteq NamesIn(c.ir) \cup {"lto marker"}

(* The file list is the command line's: in its order, each file with its   *)
(* own names, whatever was read in parallel, deferred or generated.        *)
FileListSound == PositionsOrdered /\ LazyNamesAreOwn

(* An input that fails does not hide an earlier one that is broken: the    *)
(* error returned is the first of the command line.                        *)
FirstErrorReported ==
  (stage = "failed" /\ err.at > 0) =>
    \A k \in DOMAIN walk.deferred :
      BadIndex(walk.deferred[k].content) => err.at <= walk.deferred[k].at

(* Two mentions of one path are the same file, even when it is replaced    *)
(* while the inputs are opened.                                            *)
SamePathSameFile ==
  stage = "walk" =>
    \A i, j \in DOMAIN Specs :
      /\ Specs[i].kind # "bytes" /\ Specs[j].kind # "bytes"
      /\ ResolveSpec(Specs[i]) = ResolveSpec(Specs[j])
      /\ ~OpenFailed(opened[i]) /\ ~OpenFailed(opened[j])
      => opened[i] = opened[j]

(* What a claim says of a file comes from the plugin that claimed it.      *)
SymbolsOfClaimer ==
  \A k \in DOMAIN host.files :
    LET r == host.files[k] IN
    r.claimedBy # 0 => \A i \in DOMAIN r.symbols : r.symbols[i].plugin = r.claimedBy

(* Each symbol has one definition that prevails in the IR, and has one if  *)
(* the IR won it; a file claimed twice speaks through its last claim.      *)
Prevailing == {"prevailing", "ironly", "ironly exp"}

PrevailingAs(s) ==
  UNION {{<<k, i>> : i \in {j \in DOMAIN host.files[k].resolution :
                              /\ host.files[k].resolution[j] \in Prevailing
                              /\ host.files[k].symbols[1].syms[j].sym = s}}
           : k \in DOMAIN host.files}

OnePrevailing ==
  stage = "symbols" =>
    \A s \in Names :
      Cardinality(PrevailingAs(s)) = IF s \in first.ir THEN 1 ELSE 0

(* What the plugin hears of a symbol, and what the link hears of a file,   *)
(* is consistent, although plugins decline files they described and files  *)
(* are claimed twice.                                                      *)
ClaimsSound == SymbolsOfClaimer /\ OnePrevailing

(* LTO takes no definition away: a name that a native object of the first  *)
(* resolution needs, or that a needed shared library takes from the IR,    *)
(* still has a definition afterwards.                                      *)
LtoKeepsDefinitions ==
  (stage \in {"planned", "done"} /\ pass = 2) =>
    \A f \in live : \A s \in References(f, "Reference") :
      \/ /\ files[f].position \in first.native /\ files[f].lto # "generated"
         /\ s \in first.bound
      \/ /\ f \in needed /\ s \in first.ir \ job.scriptLocal
         /\ s \notin first.hidden
      => cell[s].kind \notin {"Undefined", "Lazy"}

(* Nothing is bound to a library that will not be loaded, and a strong     *)
(* reference of the output keeps its library.                              *)
NeededLibrariesBound ==
  stage \in {"planned", "done"} =>
    \A s \in Names :
      /\ cell[s].kind = "Shared" => cell[s].file \in needed
      /\ s \in StrongRefs(NativeFiles) /\ SharedDefinitions(SharedFiles, s) # {}
           => cell[s].kind # "Undefined"

(* A plugin session that fails at any point still ends as one that does    *)
(* not, although only Drop is left to do it.  After a failure no plugin is *)
(* asked anything more; no clean-up handler, which deletes the plugin's    *)
(* objects, runs while the link may still read them; and when the link has *)
(* ended, other than by the exit of the process, each handler that was     *)
(* registered, by a plugin whose loading then failed too, has been called  *)
(* exactly once, and none if temporaries are kept (Session::finish, Drop). *)
SessionEndsOnce ==
  /\ host.failed /\ host.phase # "finished" => host.asking \notin 1 .. host.plugins
  /\ \A p \in 1 .. NumPlugins :
       /\ cleaned[p] > 0 => stage \in {"planned", "failed", "done"}
       /\ Ended /\ ~exited =>
            cleaned[p] = IF p \in host.cleaners /\ ~host.saveTemps THEN 1 ELSE 0

(* Cyclic scripts, incompatible libraries, failing plugins: collecting and *)
(* resolving always come to an end.                                        *)
Terminates == <>Ended
=============================================================================
