------------------------------ MODULE Resolve ------------------------------
(***************************************************************************)
(* Symbol resolution with archive extraction: resolve_symbols_with, its    *)
(* parallel passes, the ELF COMDAT hook and early loading (prefetch).      *)
(*                                                                         *)
(* Every parallel pass is a set of tasks that run in any order, each       *)
(* atomic operation (a shard- or stripe-locked update, a fetch_or, a       *)
(* fetch_min, a swap) being one step.  Passes end at a barrier, which is   *)
(* an action enabled once no task is left.                                 *)
(***************************************************************************)
EXTENDS ResolveInputs, FiniteSets

CONSTANT
  Inputs       \* the [input files, load hook used?] pairs to start from

(* Archive members are relocatable objects: only files live at the start   *)
(* can be shared libraries.                                                *)
ASSUME InputsAssumption ==
  \A input \in Inputs :
    /\ input.files \in [Files -> InputFile]
    /\ input.hooked \in BOOLEAN
    /\ \A f \in Files : ~input.files[f].start =>
         \A i \in DOMAIN input.files[f].entries :
           input.files[f].entries[i].use # "Shared"

VARIABLES
  files,       \* the input files
  hooked,      \* with_load_hook: groups are offered by slot as files load
  phase,       \* the pass under way
  round,       \* the resolution round
  live,        \* files that are part of the link
  load,        \* files this round makes live
  loading,     \* files of `load' whose loading task has not run
  offers,      \* <<f, g>>: file f has yet to offer group g this round
  errors,      \* files whose load failed this round
  claims,      \* claims[g]: the round and file that hold group g
  held,        \* <<f, g>>: f held key g when it offered it (GroupClaims)
  discarded,   \* discarded[f]: groups of f whose copy was discarded
  done,        \* items the insertion pass has processed
  won,         \* inserted lazy items about to read the REFERENCED flag
  defs,        \* defs[s]: the best definition in the symbol table
  referenced,  \* symbols with the REFERENCED flag
  weakReferenced, \* symbols with the WEAK_REFERENCED flag
  candidates,  \* extraction candidates of this round
  extracted,   \* members extracted, per round
  claimed,     \* prefetch: files claimed by a task
  visits,      \* prefetch: spawned visits that have not run
  follow,      \* prefetch: <<by, m>>: by has yet to try to claim member m
  early,       \* early[f]: result of loading f ahead of its round
  loads,       \* loads[f]: how often f was loaded and not unloaded
  outcome      \* running, failed on a file, or done with a result

vars == <<files, hooked, phase, round, live, load, loading, offers, errors,
          claims, held, discarded, done, won, defs, referenced, weakReferenced,
          candidates, extracted, claimed, visits, follow, early, loads, outcome>>

inputVars == <<files, hooked>>
loadVars == <<loading, offers, errors, held>>
insertVars == <<done, won, defs, referenced, weakReferenced, candidates>>
prefetchVars == <<claimed, visits, follow, early>>

NoClaim == [round |-> 0, file |-> 0]

StartFiles == {f \in Files : files[f].start}

(* The items of this round's insertion pass: the real symbols of the files *)
(* being made live and, in the first round, the lazy names of the others.  *)
Work == RealItems(files, load) \cup
        (IF round = 0 THEN LazyItems(files, Files \ StartFiles) ELSE {})

Init ==
  /\ \E input \in Inputs : files = input.files /\ hooked = input.hooked
  /\ phase = "load"
  /\ round = 0
  /\ live = {}
  /\ load = StartFiles
  /\ loading = load
  /\ offers = {}
  /\ errors = {}
  /\ claims = [g \in Groups |-> NoClaim]
  /\ held = {}
  /\ discarded = [f \in Files |-> {}]
  /\ done = {}
  /\ won = {}
  /\ defs = [s \in Symbols |-> UndefinedDefinition]
  /\ referenced = {}
  /\ weakReferenced = {}
  /\ candidates = {}
  /\ extracted = <<>>
  /\ claimed = {}
  /\ visits = {}
  /\ follow = {}
  /\ early = [f \in Files |-> "none"]
  /\ loads = [f \in Files |-> 0]
  /\ outcome = [status |-> "running"]

-----------------------------------------------------------------------------
(***************************************************************************)
(* Loading the round's files (load_files), one task per file.              *)
(***************************************************************************)

(* The task of file f: take the early result, or load the file.  With the  *)
(* load hook, the file's group slots are known now and on_load offers      *)
(* them, one atomic operation each.                                        *)
LoadFile(f) ==
  /\ phase = "load"
  /\ f \in loading
  /\ loading' = loading \ {f}
  /\ early' = [early EXCEPT ![f] = "none"]
  /\ loads' = IF early[f] = "none" THEN [loads EXCEPT ![f] = @ + 1]
                                   ELSE loads
  /\ IF early[f] = "error" \/ files[f].broken
       THEN errors' = errors \cup {f} /\ UNCHANGED offers
       ELSE /\ UNCHANGED errors
            /\ offers' = IF hooked
                 THEN offers \cup {<<f, g>> : g \in GroupsOf(files[f])}
                 ELSE offers
  /\ UNCHANGED <<inputVars, phase, round, live, load, claims, held,
                 discarded, insertVars, extracted, claimed, visits, follow,
                 outcome>>

(* GroupSlots::offer: fetch_min of the pair (round, rank). *)
SlotOffer(claim, f) ==
  IF \/ claim = NoClaim
     \/ claim.round > round + 1
     \/ claim.round = round + 1 /\ Position[claim.file] > Position[f]
    THEN [round |-> round + 1, file |-> f] ELSE claim

(* ComdatHook::on_load, one offer. *)
OnLoad(f, g) ==
  /\ phase = "load"
  /\ <<f, g>> \in offers
  /\ offers' = offers \ {<<f, g>>}
  /\ claims' = [claims EXCEPT ![g] = SlotOffer(@, f)]
  /\ UNCHANGED <<inputVars, phase, round, live, load, loading, errors, held,
                 discarded, insertVars, extracted, prefetchVars, loads,
                 outcome>>

(* The end of load_files: the error of the first file by input position    *)
(* ends the resolution; otherwise the hook's after_load starts, where a    *)
(* resolution without load hook makes the offers, by key.                  *)
LoadDone ==
  /\ phase = "load"
  /\ loading = {} /\ offers = {}
  /\ IF errors # {}
       THEN /\ phase' = "failed"
            /\ outcome' = [status |-> "failed", file |-> FirstFile(errors)]
            /\ UNCHANGED offers
       ELSE /\ phase' = "hook"
            /\ UNCHANGED outcome
            /\ offers' = IF hooked THEN {}
                 ELSE UNION {{<<f, g>> : g \in GroupsOf(files[f])} : f \in load}
  /\ UNCHANGED <<inputVars, round, live, load, loading, errors, claims, held,
                 discarded, insertVars, extracted, prefetchVars, loads>>

-----------------------------------------------------------------------------
(***************************************************************************)
(* ComdatHook::after_load: offers by key, then each file settles which of  *)
(* its group copies it keeps.                                              *)
(***************************************************************************)

(* ClaimRound::offer: the offer wins if the key is vacant, or was claimed  *)
(* this round by a later file.                                             *)
KeyOffer(claim, f) ==
  IF \/ claim = NoClaim
     \/ claim.round = round + 1 /\ Position[f] < Position[claim.file]
    THEN [round |-> round + 1, file |-> f] ELSE claim

OfferKey(f, g) ==
  /\ phase = "hook"
  /\ <<f, g>> \in offers
  /\ offers' = offers \ {<<f, g>>}
  /\ claims' = [claims EXCEPT ![g] = KeyOffer(@, f)]
  /\ held' = IF claims'[g].file = f THEN held \cup {<<f, g>>} ELSE held
  /\ UNCHANGED <<inputVars, phase, round, live, load, loading, errors,
                 discarded, insertVars, extracted, prefetchVars, loads,
                 outcome>>

\* Slip: with claims by key, what the offer returned is taken as final.
KeptWhenOffered(f, g) ==
  IF hooked THEN claims[g] = [round |-> round + 1, file |-> f]
            ELSE <<f, g>> \in held

(* GroupSlots::holds, or an offer that held its key and still owns it. *)
Kept(f, g) ==
  IF hooked THEN claims[g] = [round |-> round + 1, file |-> f]
            ELSE <<f, g>> \in held /\ claims[g].file = f

(* Once every offer is in: the copies that lost are discarded (a file is   *)
(* settled by one task, and tasks read only the claims), the files become  *)
(* live and their names are interned.                                      *)
Settle ==
  /\ phase = "hook"
  /\ offers = {}
  /\ discarded' = [f \in Files |->
       IF f \in load THEN {g \in GroupsOf(files[f]) : ~Kept(f, g)}
                     ELSE discarded[f]]
  /\ held' = {}
  /\ live' = live \cup load
  /\ candidates' = {}
  /\ phase' = "insert"
  /\ UNCHANGED <<inputVars, round, load, loading, offers, errors, claims,
                 done, won, defs, referenced, weakReferenced, extracted,
                 prefetchVars, loads, outcome>>

-----------------------------------------------------------------------------
(***************************************************************************)
(* insert_and_mark: one task per entry of the round's symbols.             *)
(***************************************************************************)

Todo == Work \ done

\* Slip: a symbol with any reference flag set is not a candidate again.
MarkReferenceOnce(it) ==
  /\ phase = "insert"
  /\ it \in Todo
  /\ UseOf(files, discarded, it) = "Reference"
  /\ LET s == SymOf(files, it)
     IN /\ referenced' = referenced \cup {s}
        /\ candidates' = IF s \in referenced \cup weakReferenced
                           THEN candidates ELSE candidates \cup {s}
  /\ done' = done \cup {it}
  /\ UNCHANGED <<inputVars, phase, round, live, load, loadVars, claims,
                 discarded, won, defs, weakReferenced, extracted,
                 prefetchVars, loads, outcome>>

(* A non-weak reference: set_flags; a candidate if this call set the bit. *)
MarkReference(it) ==
  /\ phase = "insert"
  /\ it \in Todo
  /\ UseOf(files, discarded, it) = "Reference"
  /\ LET s == SymOf(files, it)
     IN /\ referenced' = referenced \cup {s}
        /\ candidates' = IF s \in referenced THEN candidates
                                             ELSE candidates \cup {s}
  /\ done' = done \cup {it}
  /\ UNCHANGED <<inputVars, phase, round, live, load, loadVars, claims,
                 discarded, won, defs, weakReferenced, extracted,
                 prefetchVars, loads, outcome>>

(* A weak reference sets its flag; an ignored symbol does nothing. *)
MarkOther(it) ==
  /\ phase = "insert"
  /\ it \in Todo
  /\ UseOf(files, discarded, it) \in {"WeakReference", "Ignore"}
  /\ weakReferenced' = IF UseOf(files, discarded, it) = "WeakReference"
                         THEN weakReferenced \cup {SymOf(files, it)}
                         ELSE weakReferenced
  /\ done' = done \cup {it}
  /\ UNCHANGED <<inputVars, phase, round, live, load, loadVars, claims,
                 discarded, won, defs, referenced, candidates, extracted,
                 prefetchVars, loads, outcome>>

(* A definition: insert_definition, under the symbol's stripe lock.  A     *)
(* winner that extracts goes on to read the flags.                         *)
InsertDefinition(it) ==
  /\ phase = "insert"
  /\ it \in Todo
  /\ IsDefinitionItem(files, discarded, it)
  /\ LET s == SymOf(files, it)
         c == CandidateOf(files, it)
         wins == TakesPrecedence(c, defs[s])
     IN /\ defs' = IF wins THEN [defs EXCEPT ![s] = c] ELSE defs
        /\ won' = IF wins /\ Extracts(c) THEN won \cup {it} ELSE won
  /\ done' = done \cup {it}
  /\ UNCHANGED <<inputVars, phase, round, live, load, loadVars, claims,
                 discarded, referenced, weakReferenced, candidates,
                 extracted, prefetchVars, loads, outcome>>

(* The flag read that follows: a candidate if it is referenced already. *)
ReadFlag(it) ==
  /\ phase = "insert"
  /\ it \in won
  /\ won' = won \ {it}
  /\ candidates' = IF SymOf(files, it) \in referenced
                     THEN candidates \cup {SymOf(files, it)} ELSE candidates
  /\ UNCHANGED <<inputVars, phase, round, live, load, loadVars, claims,
                 discarded, done, defs, referenced, weakReferenced,
                 extracted, prefetchVars, loads, outcome>>

-----------------------------------------------------------------------------
(***************************************************************************)
(* Choosing the members to extract, and loading members early.             *)
(***************************************************************************)

\* Slip: one member per round.
FirstMember ==
  LET all == {defs[s].file : s \in {t \in candidates : Extracts(defs[t])}} \ live
  IN {m \in all : \A n \in all : m <= n}

(* The members the round's candidates ask for. *)
Members ==
  {defs[s].file : s \in {t \in candidates : Extracts(defs[t])}} \ live

(* No member left to extract: on to the report.  Otherwise the members are *)
(* the next round's files; after the first round, with the load hook,      *)
(* prefetch runs first, its claims preset to the live files.               *)
Choose ==
  /\ phase = "insert"
  /\ Todo = {} /\ won = {}
  /\ IF Members = {}
       THEN /\ phase' = "report"
            /\ UNCHANGED <<round, load, loading, extracted, claimed, follow>>
       ELSE /\ extracted' = Append(extracted, Members)
            /\ load' = Members
            /\ loading' = Members
            /\ round' = round + 1
            /\ IF round = 0 /\ hooked
                 THEN /\ phase' = "prefetch"
                      /\ claimed' = live
                      /\ follow' = {<<0, m>> : m \in Members}
                 ELSE phase' = "load" /\ UNCHANGED <<claimed, follow>>
  /\ UNCHANGED <<inputVars, live, offers, errors, claims, held, discarded,
                 insertVars, visits, early, loads, outcome>>

(* The swap of claimed[m], by the start loop (0) or by a visit: whoever    *)
(* sets the flag spawns the visit of m.                                    *)
ClaimMember(by, m) ==
  /\ phase = "prefetch"
  /\ <<by, m>> \in follow
  /\ follow' = follow \ {<<by, m>>}
  /\ claimed' = claimed \cup {m}
  /\ visits' = IF m \in claimed THEN visits ELSE visits \cup {m}
  /\ UNCHANGED <<inputVars, phase, round, live, load, loadVars, claims,
                 discarded, insertVars, extracted, early, loads, outcome>>

\* Slip: a visit follows the references of the live files only.
NoLazyMembers(f) == {m \in live : m = f}

(* LookupView::lazy_file of the strong references of a loaded file. *)
LazyMembers(f) ==
  {defs[s].file : s \in {t \in Symbols :
     /\ Extracts(defs[t])
     /\ StrongReferences(files, discarded, RealItems(files, {f}), t) # {}}}

(* Prefetcher::visit: load a member ahead of its round and follow its      *)
(* strong references to members whose lazy definition is the best so far.  *)
Visit(f) ==
  /\ phase = "prefetch"
  /\ f \in visits
  /\ visits' = visits \ {f}
  /\ IF ~files[f].early THEN UNCHANGED <<early, loads, follow>>
     ELSE /\ early' = [early EXCEPT ![f] =
                         IF files[f].broken THEN "error" ELSE "ok"]
          /\ loads' = [loads EXCEPT ![f] = @ + 1]
          /\ follow' = IF files[f].broken THEN follow
                        ELSE follow \cup {<<f, m>> : m \in LazyMembers(f)}
  /\ UNCHANGED <<inputVars, phase, round, live, load, loadVars, claims,
                 discarded, insertVars, extracted, claimed, outcome>>

\* Slip: waits for a result of every claimed member.
PrefetchAllLoaded ==
  /\ phase = "prefetch"
  /\ visits = {} /\ follow = {}
  /\ \A f \in claimed \ live : early[f] # "none"
  /\ phase' = "load"
  /\ UNCHANGED <<inputVars, round, live, load, loadVars, claims, discarded,
                 insertVars, extracted, prefetchVars, loads, outcome>>

PrefetchDone ==
  /\ phase = "prefetch"
  /\ visits = {} /\ follow = {}
  /\ phase' = "load"
  /\ UNCHANGED <<inputVars, round, live, load, loadVars, claims, discarded,
                 insertVars, extracted, prefetchVars, loads, outcome>>

-----------------------------------------------------------------------------
(* The strong references of live files no definition satisfies             *)
(* (collect_undefined), and the live definitions that conflict with the    *)
(* winner (collect_duplicates); both are sorted, hence sets here.          *)
CollectUndefined ==
  {it \in RealItems(files, live) :
     /\ UseOf(files, discarded, it) = "Reference"
     /\ defs[SymOf(files, it)].kind \in {"Undefined", "Lazy"}}

CollectDuplicates ==
  {it \in RealItems(files, live) :
     /\ IsDefinitionItem(files, discarded, it)
     /\ defs[SymOf(files, it)] # CandidateOf(files, it)
     /\ IsDuplicate(AllowMultipleDefinition, defs[SymOf(files, it)],
                    CandidateOf(files, it))}

(* The end: members loaded early but not extracted are unloaded. *)
Report ==
  /\ phase = "report"
  /\ phase' = "done"
  /\ loads' = [f \in Files |-> IF early[f] # "none" /\ f \notin live
                                  THEN 0 ELSE loads[f]]
  /\ outcome' = [status |-> "done", defs |-> defs,
                 undefined |-> CollectUndefined,
                 duplicates |-> CollectDuplicates]
  /\ UNCHANGED <<inputVars, round, live, load, loadVars, claims, discarded,
                 insertVars, extracted, prefetchVars>>

Terminating == phase \in {"done", "failed"} /\ UNCHANGED vars

Next ==
  \/ \E f \in Files : LoadFile(f) \/ Visit(f)
  \/ \E f \in Files, g \in Groups : OnLoad(f, g) \/ OfferKey(f, g)
  \/ LoadDone
  \/ Settle
  \/ \E it \in Todo : MarkReference(it) \/ MarkOther(it) \/ InsertDefinition(it)
  \/ \E it \in won : ReadFlag(it)
  \/ Choose
  \/ \E p \in follow : ClaimMember(p[1], p[2])
  \/ PrefetchDone
  \/ Report
  \/ Terminating

(* Every pass runs on a thread pool that runs every spawned task, and the  *)
(* driver goes on when the pass ends.                                      *)
Spec == Init /\ [][Next]_vars /\ WF_vars(Next)

-----------------------------------------------------------------------------
(***************************************************************************)
(* Properties                                                              *)
(***************************************************************************)

(* The variables have their types: in particular only referenced symbols are  *)
(* extraction candidates, and only inserted winners read flags.            *)
TypeOK ==
  /\ files \in [Files -> InputFile] /\ hooked \in BOOLEAN
  /\ phase \in {"load", "hook", "insert", "prefetch", "report", "done", "failed"}
  /\ round \in Nat
  /\ live \subseteq Files /\ load \subseteq Files
  /\ loading \subseteq Files /\ errors \subseteq Files
  /\ offers \subseteq Files \X Groups /\ held \subseteq Files \X Groups
  /\ claims \in [Groups -> [round: Nat, file: Files \cup {0}]]
  /\ discarded \in [Files -> SUBSET Groups]
  /\ done \subseteq Item /\ won \subseteq done
  /\ defs \in [Symbols -> Definition]
  /\ referenced \subseteq Symbols /\ weakReferenced \subseteq Symbols
  /\ candidates \subseteq referenced
  /\ extracted \in Seq(SUBSET Files)
  /\ claimed \subseteq Files /\ visits \subseteq Files
  /\ follow \subseteq (Files \cup {0}) \X Files
  /\ early \in [Files -> {"none", "ok", "error"}]
  /\ loads \in [Files -> Nat]

(* The candidates inserted so far for symbol s. *)
Inserted(s) == CandidatesOf(files, discarded, done, s)

(* Whatever the order in which tasks insert definitions, a symbol's cell    *)
(* always holds the one candidate that takes precedence over every other   *)
(* one inserted so far (insert_definition; the Resolver documentation: "The    *)
(* table then always ends up with the maximum candidate").                 *)
TableHoldsBest ==
  \A s \in Symbols :
    IF Inserted(s) = {} THEN defs[s] = UndefinedDefinition
    ELSE /\ defs[s] \in Inserted(s)
         /\ \A c \in Inserted(s) \ {defs[s]} :
              TakesPrecedence(defs[s], c) /\ ~TakesPrecedence(c, defs[s])

(* At the end of a round every member a strong reference of a live file    *)
(* asks for has been chosen: the candidate lists, filled while flags are   *)
(* set and definitions inserted concurrently, miss none, although a symbol *)
(* is a candidate only in the round that first references it.              *)
NoMissedExtraction ==
  (phase \in {"load", "prefetch", "report", "done"}) =>
    \A it \in RealItems(files, live) :
      LET d == defs[SymOf(files, it)]
      IN UseOf(files, discarded, it) = "Reference" /\ Extracts(d)
           => d.file \in live \cup load

(* Among the live files that carry a COMDAT group, exactly one keeps its   *)
(* copy, whether the offers are made by slot as files load or by key.      *)
OneCopyPerGroup ==
  phase \in {"insert", "report", "done"} =>
    \A g \in Groups :
      LET carriers == {f \in live : g \in GroupsOf(files[f])}
      IN carriers # {} =>
           Cardinality({f \in carriers : g \notin discarded[f]}) = 1

(* No file is loaded twice although prefetch may load it before its round, *)
(* and once resolution ends only live files are loaded.                    *)
LoadedOnce ==
  /\ \A f \in Files : loads[f] <= 1
  /\ phase = "done" => {f \in Files : loads[f] > 0} = live

(* prefetch loads a superset of what the later rounds extract, when every  *)
(* member may load early and loads without error: no round after it loads  *)
(* a file itself.                                                          *)
PrefetchCoversRounds ==
  (/\ hooked /\ phase = "load" /\ round > 0
   /\ \A f \in Files \ StartFiles : files[f].early /\ ~files[f].broken)
  => \A f \in loading : early[f] = "ok"

(* Loading ahead of the rounds changes what is loaded when, and nothing    *)
(* else: no file twice, none that is not needed, none left to a later      *)
(* round although several tasks reach it at once.                          *)
EarlyLoadingSound == LoadedOnce /\ PrefetchCoversRounds

(* Resolution ends. *)
Termination == <>(phase \in {"done", "failed"})

(* The rounds completed: the last one runs until Choose ends it. *)
CompletedRounds ==
  LET all == <<StartFiles>> \o extracted
  IN IF phase \in {"report", "done"} THEN all
     ELSE SubSeq(all, 1, Len(all) - 1)

Abstract == INSTANCE ResolveAbs WITH
  Inputs <- {input.files : input \in Inputs}, rounds <- CompletedRounds

(* The result is that of a sequential, deterministic rule, whatever the    *)
(* scheduling and whichever way groups are claimed: each round makes live  *)
(* exactly the members the rule names, and the definitions, the undefined  *)
(* symbols, the duplicates and the error reported are its.                 *)
ImplementsSequentialRule == Abstract!Spec
=============================================================================
