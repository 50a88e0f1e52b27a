----------------------------- MODULE PluginHost -----------------------------
(***************************************************************************)
(* The LTO plugin host: plugin/session.rs and plugin/host.rs.  One session *)
(* owns the process-wide Host; the linker drives it (load, claim,          *)
(* all_symbols_read, new_input, end) and the plugins answer from inside    *)
(* their handlers, through callbacks that change the same Host.            *)
(*                                                                         *)
(* A handler is external code.  It is modelled by what it can do to the    *)
(* Host before it returns: add symbols, report an error or a fatal error,  *)
(* add files, and the status it returns.                                   *)
(***************************************************************************)
EXTENDS Integers, Sequences, FiniteSets

CONSTANTS
  NumPlugins,
  FatalExits    \* whether a fatal_hook ends the process: the cases considered

ASSUME PluginAssumption ==
  NumPlugins \in Nat /\ FatalExits \in SUBSET BOOLEAN /\ FatalExits # {}

VARIABLES
  host,      \* the Host of STATE
  exited,    \* the fatal hook ended the process
  cleaned    \* cleaned[p]: how often plugin p's clean-up handler was called

hostVars == <<host, exited, cleaned>>

(* What a handler does: `adds' symbols of the file asked about, reports    *)
(* errors, is fatal, returns a bad status, claims the file; an entry point *)
(* registers a clean-up handler or does not.                               *)
Behaviours ==
  [adds: BOOLEAN, errors: BOOLEAN, fatal: BOOLEAN, bad: BOOLEAN, claims: BOOLEAN, cleans: BOOLEAN]

(* `cleaning' is the plugin whose clean-up comes next, 0 before end. *)
NoHost ==
  [active |-> FALSE, phase |-> "finished", plugins |-> 0, files |-> <<>>, asking |-> 0,
   failed |-> FALSE, errors |-> 0, saveTemps |-> FALSE, cleaners |-> {}, cleaning |-> 0]

(* begin: refused while another session is active. *)
BeginSession(saveTemps) ==
  /\ ~host.active
  /\ host' = [NoHost EXCEPT !.active = TRUE, !.phase = "loading", !.saveTemps = saveTemps]
  /\ UNCHANGED <<exited, cleaned>>

(* What a handler leaves behind: record_message keeps its messages; a      *)
(* fatal one, and a bad status, fail the session.                          *)
Messages(h, b) ==
  [h EXCEPT !.errors = @ + (IF b.errors \/ b.fatal \/ b.bad THEN 1 ELSE 0),
            !.failed = @ \/ b.fatal \/ b.bad]

Exits(b) == IF b.fatal THEN FatalExits ELSE {FALSE}

(* A failed session refuses further use. *)
Usable == host.active /\ ~host.failed /\ ~exited

MayLoad == Usable /\ host.phase = "loading" /\ host.plugins < NumPlugins

(* load: the entry point of one plugin registers its handlers; a plugin    *)
(* that then fails stays in the list, with the handlers it has.            *)
LoadPlugin(b) ==
  /\ MayLoad
  /\ host' = [Messages(host, b) EXCEPT !.plugins = @ + 1,
        !.cleaners = IF b.cleans THEN @ \cup {host.plugins + 1} ELSE @]
  /\ exited' \in Exits(b)
  /\ UNCHANGED cleaned

(* load, before the entry point: the library cannot be opened or has no    *)
(* onload (Error::Io), or was used in this process before (Error::Limit).  *)
(* The plugin is not in the list, and the session has not failed.          *)
RefusePlugin == MayLoad /\ UNCHANGED hostVars

PluginsLoaded == host.plugins = NumPlugins

Record(handle) ==
  [handle |-> handle, inClaim |-> TRUE, claimedBy |-> 0, pending |-> <<>>, symbols |-> <<>>,
   resolution |-> <<>>, state |-> "pending"]

(* claim, before the handlers: a new record, open for add_symbols. *)
OpenClaim(handle) ==
  /\ Usable /\ host.phase \in {"loading", "claiming"}
  /\ host' = [host EXCEPT !.phase = "claiming", !.files = Append(@, Record(handle)), !.asking = 1]
  /\ UNCHANGED <<exited, cleaned>>

Current == Len(host.files)

(* Symbols added before declining do not reach the next plugin. *)
Declined(record) == [record EXCEPT !.pending = <<>>]

(* Who is asked after a handler of host h answered b. *)
AskedNext(h, b) == IF h.failed \/ b.claims THEN h.plugins + 1 ELSE h.asking + 1

(* One claim handler; `given' are the symbols it would describe. *)
AskPlugin(b, given) ==
  /\ host.active /\ ~exited /\ host.asking \in 1 .. host.plugins
  /\ LET p == host.asking
         h == Messages(host, b)
         added == [host.files[Current] EXCEPT
                     !.pending = IF b.adds THEN @ \o <<[plugin |-> p, syms |-> given]>> ELSE @]
     IN host' = [h EXCEPT
          !.asking = AskedNext(h, b),
          !.files[Current] = CASE h.failed              -> added
                               [] ~h.failed /\ b.claims -> [added EXCEPT !.claimedBy = p]
                               [] OTHER                 -> Declined(added)]
  /\ exited' \in Exits(b)
  /\ UNCHANGED cleaned

(* claim, after the handlers: the record is closed and keeps what its      *)
(* claimer added.                                                          *)
CloseClaim ==
  /\ host.active /\ ~exited /\ host.asking = host.plugins + 1
  /\ host' = [host EXCEPT !.asking = 0, !.errors = 0,
        !.files[Current] = [@ EXCEPT !.inClaim = FALSE, !.symbols = host.files[Current].pending,
                                     !.pending = <<>>]]
  /\ UNCHANGED <<exited, cleaned>>

Claimed(k) == host.files[k].claimedBy # 0
SymbolsOf(k) == IF host.files[k].symbols = <<>> THEN <<>> ELSE Head(host.files[k].symbols).syms

(* all_symbols_read, before the handlers: the resolutions are published.   *)
PublishResolutions(resolutions) ==
  /\ Usable /\ host.phase \in {"loading", "claiming"}
  /\ host' = [host EXCEPT !.phase = "all symbols read", !.asking = 1,
        !.files = [k \in DOMAIN @ |->
           IF k \in DOMAIN resolutions
             THEN [@[k] EXCEPT !.state = resolutions[k].state,
                               !.resolution = resolutions[k].values]
             ELSE @[k]]]
  /\ UNCHANGED <<exited, cleaned>>

(* One handler of the all-symbols-read or new-input kind. *)
RunHandler(b) ==
  /\ host.active /\ ~exited /\ host.phase = "all symbols read"
  /\ host.asking \in 1 .. host.plugins
  /\ LET h == Messages(host, b) IN
     host' = [h EXCEPT !.asking = IF h.failed THEN host.plugins + 1 ELSE @ + 1]
  /\ exited' \in Exits(b)
  /\ UNCHANGED cleaned

HandlersDone == host.active /\ ~exited /\ host.asking = host.plugins + 1

(* The handlers' messages are reported and forgotten. *)
EndHandlers == host' = [host EXCEPT !.asking = 0, !.errors = 0] /\ UNCHANGED <<exited, cleaned>>

(* end, from finish or from Drop, before the handlers. *)
BeginEnd ==
  /\ host.active /\ ~exited /\ host.phase # "finished"
  /\ host' = [host EXCEPT !.phase = "finished", !.cleaning = 1]
  /\ UNCHANGED <<exited, cleaned>>

Cleaning == host.active /\ ~exited /\ host.phase = "finished"

\* Slip: a failed session does not call the clean-up handlers.
CalledIfUsable(p) == p \in host.cleaners /\ ~host.saveTemps /\ ~host.failed

(* The handlers called: the registered ones, unless temporaries are kept. *)
Called(p) == p \in host.cleaners /\ ~host.saveTemps

(* The next clean-up handler; its status only makes a warning. *)
CleanUp(b) ==
  /\ Cleaning /\ host.cleaning \in 1 .. host.plugins
  /\ IF Called(host.cleaning)
       THEN /\ host' = [host EXCEPT !.cleaning = @ + 1,
                  !.errors = @ + (IF b.errors \/ b.fatal THEN 1 ELSE 0),
                  !.failed = @ \/ b.fatal]
            /\ cleaned' = [cleaned EXCEPT ![host.cleaning] = @ + 1]
            /\ exited' \in Exits(b)
       ELSE /\ host' = [host EXCEPT !.cleaning = @ + 1]
            /\ UNCHANGED <<exited, cleaned>>

(* end, after the handlers: the Host goes away.  What it was stays known   *)
(* here, for the properties.                                               *)
EndSession ==
  /\ Cleaning /\ host.cleaning = host.plugins + 1
  /\ host' = [NoHost EXCEPT !.failed = host.failed, !.plugins = host.plugins,
                !.saveTemps = host.saveTemps, !.cleaners = host.cleaners]
  /\ UNCHANGED <<exited, cleaned>>
=============================================================================
