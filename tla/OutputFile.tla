----------------------------- MODULE OutputFile -----------------------------
(***************************************************************************)
(* How an output file takes its place: OutputFile::create, finish and      *)
(* Drop, for links that write the same path at once, are cancelled, fail   *)
(* at any system call or are killed between two.                           *)
(*                                                                         *)
(* Each link creates at most one file, named after it.  The contents are   *)
(* OutputImage's; here a file is partial until commit_file succeeds.       *)
(* Closing the old output on a background thread (hold_old_output,         *)
(* release_in_background) changes no directory entry and is left out.      *)
(***************************************************************************)
CONSTANTS
  Links,        \* the links writing this path
  Strategies,   \* the replacement strategies they may use
  Previous,     \* what may be at the path before: NoFile, Old, Special
  MayCapture,   \* whether a link may ask for the image in memory
  NoFile, Old, Special

ASSUME OutputFileAssumption ==
  /\ Strategies \subseteq {"Rename", "Atomic", "Unlink"}
  /\ Previous \subseteq {NoFile, Old, Special}
  /\ NoFile # Old /\ NoFile # Special /\ Old # Special
  /\ Links \cap {NoFile, Old, Special} = {}
  /\ MayCapture \in BOOLEAN

VARIABLES
  previous,   \* what was at the path before the first link
  path,       \* the file at the output path
  temps,      \* links whose temporary file is in the directory
  partial,    \* files whose contents are not complete
  strategy,   \* each link's ReplaceStrategy
  capture,    \* links with an output buffer
  dest,       \* each link's Destination
  file,       \* the file a link writes to
  pc,         \* where each link is
  cancelled,  \* links whose token was cancelled
  killed,     \* links whose process was killed
  removed,    \* links that removed the old output and did not replace it
  undeleted   \* links that tried to remove their temporary file and could not

vars == <<previous, path, temps, partial, strategy, capture, dest, file, pc,
          cancelled, killed, removed, undeleted>>

config == <<previous, strategy, capture>>

Steps == {"create", "temp", "remove", "open", "write", "finish", "commit",
          "replace", "rename", "discard", "drop", "stop", "ok", "failed", "cancelled"}

Ended(l) == l \in killed \/ pc[l] \in {"ok", "failed", "cancelled"}

Init ==
  /\ previous \in Previous
  /\ path = previous
  /\ temps = {} /\ partial = {}
  /\ strategy \in [Links -> Strategies]
  /\ capture \in SUBSET (IF MayCapture THEN Links ELSE {})
  /\ dest = [l \in Links |-> "none"]
  /\ file = [l \in Links |-> NoFile]
  /\ pc = [l \in Links |-> "create"]
  /\ cancelled = {} /\ killed = {} /\ removed = {} /\ undeleted = {}

-----------------------------------------------------------------------------
(***************************************************************************)
(* create                                                                  *)
(***************************************************************************)
Goto(l, step) == pc' = [pc EXCEPT ![l] = step]
At(l, step) == l \notin killed /\ pc[l] = step

(* The checks of create: cancelled, captured, an existing special file (or *)
(* one under /dev or /proc) opened as it is, else the strategy.            *)
Create(l) ==
  /\ At(l, "create")
  /\ \/ l \in cancelled /\ Goto(l, "cancelled") /\ UNCHANGED dest
     \/ /\ l \notin cancelled
        /\ IF l \in capture
             THEN dest' = [dest EXCEPT ![l] = "memory"] /\ Goto(l, "write")
           ELSE IF path = Special
             THEN \/ dest' = [dest EXCEPT ![l] = "stream"] /\ Goto(l, "write")
                  \/ UNCHANGED dest /\ Goto(l, "failed")
           ELSE IF strategy[l] = "Unlink"
             THEN dest' = [dest EXCEPT ![l] = "direct"] /\ Goto(l, "remove")
           ELSE UNCHANGED dest /\ Goto(l, "temp")
  /\ UNCHANGED <<config, path, temps, partial, file, cancelled, killed, removed, undeleted>>

(* create_temp, under a name no other link uses; without one, the output   *)
(* is written in place.                                                    *)
CreateTemp(l) ==
  /\ At(l, "temp")
  /\ \/ /\ temps' = temps \cup {l}
        /\ partial' = partial \cup {l}
        /\ file' = [file EXCEPT ![l] = l]
        /\ dest' = [dest EXCEPT ![l] = "temp"]
        /\ \/ Goto(l, "write")
           \/ Goto(l, "drop")     \* set_len or the buffer failed
     \/ /\ dest' = [dest EXCEPT ![l] = "direct"]
        /\ Goto(l, "remove")
        /\ UNCHANGED <<temps, partial, file>>
  /\ UNCHANGED <<config, path, cancelled, killed, removed, undeleted>>

(* The old output is removed, or stays if it cannot be. *)
RemoveOld(l) ==
  /\ At(l, "remove")
  /\ path' \in {path, NoFile}
  /\ Goto(l, "open")
  /\ UNCHANGED <<config, temps, partial, dest, file, cancelled, killed, removed, undeleted>>

(* The path is opened and truncated: a new file, or the one that is there. *)
OpenDirect(l) ==
  /\ At(l, "open")
  /\ \/ /\ path' = IF path = NoFile THEN l ELSE path
        /\ file' = [file EXCEPT ![l] = path']
        /\ partial' = partial \cup {path'}
        /\ Goto(l, "write") \/ Goto(l, "drop")
     \/ /\ Goto(l, "failed")
        /\ UNCHANGED <<path, file, partial>>
  /\ UNCHANGED <<config, temps, dest, cancelled, killed, removed, undeleted>>

-----------------------------------------------------------------------------
(***************************************************************************)
(* The image is written (OutputImage), then finish commits it.             *)
(***************************************************************************)

(* write_chunks and the rest of the link: every chunk checks the token.    *)
Write(l) ==
  /\ At(l, "write")
  /\ \/ Goto(l, "drop")
     \/ Goto(l, IF l \in cancelled THEN "stop" ELSE "finish")
  /\ UNCHANGED <<config, path, temps, partial, dest, file, cancelled, killed, removed, undeleted>>

Finish(l) ==
  /\ At(l, "finish")
  /\ Goto(l, IF l \in cancelled THEN "stop" ELSE "commit")
  /\ UNCHANGED <<config, path, temps, partial, dest, file, cancelled, killed, removed, undeleted>>

\* Slip: the outcome of commit_file is not checked.
CommitUnchecked(l) ==
  /\ At(l, "commit")
  /\ partial' \in {partial, partial \ {file[l]}}
  /\ Goto(l, IF dest[l] # "temp" THEN "ok"
             ELSE IF strategy[l] = "Rename" THEN "replace" ELSE "rename")
  /\ UNCHANGED <<config, path, temps, dest, file, cancelled, killed, removed, undeleted>>

(* commit_file: contents, permissions and, if asked, fsync; a stream gets  *)
(* its bytes, a captured image goes to the buffer.                         *)
Commit(l) ==
  /\ At(l, "commit")
  /\ \/ /\ partial' = partial \ {file[l]}
        /\ Goto(l, IF dest[l] # "temp" THEN "ok"
                   ELSE IF strategy[l] = "Rename" THEN "replace" ELSE "rename")
     \/ /\ dest[l] # "memory"
        /\ UNCHANGED partial
        /\ Goto(l, IF dest[l] = "temp" THEN "discard"
                   ELSE IF dest[l] = "direct" THEN "drop" ELSE "failed")
  /\ UNCHANGED <<config, path, temps, dest, file, cancelled, killed, removed, undeleted>>

(* ReplaceStrategy::Rename removes the old output first. *)
Replace(l) ==
  /\ At(l, "replace")
  /\ Goto(l, "rename")
  /\ \/ UNCHANGED <<path, removed>>
     \/ /\ path # NoFile
        /\ path' = NoFile
        /\ removed' = removed \cup {l}
  /\ UNCHANGED <<config, temps, partial, dest, file, cancelled, killed, undeleted>>

Rename(l) ==
  /\ At(l, "rename")
  /\ \/ /\ path' = l
        /\ temps' = temps \ {l}
        /\ removed' = removed \ {l}
        /\ Goto(l, "ok")
     \/ /\ Goto(l, "discard")
        /\ UNCHANGED <<path, temps, removed>>
  /\ UNCHANGED <<config, partial, dest, file, cancelled, killed, undeleted>>

\* Slip: a failed commit leaves its temporary file behind.
DiscardNothing(l) ==
  /\ At(l, "discard")
  /\ Goto(l, "failed")
  /\ UNCHANGED <<config, path, temps, partial, dest, file, cancelled, killed, removed, undeleted>>

(* The temporary file is removed, if the system call succeeds; its outcome *)
(* is ignored.                                                             *)
RemoveTemp(l) ==
  \/ temps' = temps \ {l} /\ UNCHANGED undeleted
  \/ UNCHANGED temps /\ undeleted' = undeleted \cup {l}

(* The error path of a commit through a temporary file. *)
Discard(l) ==
  /\ At(l, "discard")
  /\ RemoveTemp(l)
  /\ Goto(l, "failed")
  /\ UNCHANGED <<config, path, partial, dest, file, cancelled, killed, removed>>

\* Slip: whatever was written, the file at the path is removed.
DropPath(l) ==
  /\ \/ At(l, "drop") /\ Goto(l, "failed")
     \/ At(l, "stop") /\ Goto(l, "cancelled")
  /\ temps' = temps \ {l}
  /\ path' \in (IF dest[l] \in {"direct", "temp"} THEN {path, NoFile} ELSE {path})
  /\ UNCHANGED <<config, partial, dest, file, cancelled, killed, removed, undeleted>>

(* Drop (and the error path of a direct commit): the temporary file, or    *)
(* whatever is at the path of an output written in place, is removed.      *)
Drop(l) ==
  /\ \/ At(l, "drop") /\ Goto(l, "failed")
     \/ At(l, "stop") /\ Goto(l, "cancelled")
  /\ IF dest[l] = "temp" THEN RemoveTemp(l) ELSE UNCHANGED <<temps, undeleted>>
  /\ path' \in (IF dest[l] = "direct" THEN {path, NoFile} ELSE {path})
  /\ UNCHANGED <<config, partial, dest, file, cancelled, killed, removed>>

-----------------------------------------------------------------------------
(* CancelToken::cancel, from any thread, at any time. *)
Cancel(l) ==
  /\ l \notin cancelled /\ ~Ended(l)
  /\ cancelled' = cancelled \cup {l}
  /\ UNCHANGED <<config, path, temps, partial, dest, file, pc, killed, removed, undeleted>>

Kill(l) ==
  /\ ~Ended(l)
  /\ killed' = killed \cup {l}
  /\ UNCHANGED <<config, path, temps, partial, dest, file, pc, cancelled, removed, undeleted>>

Terminating == (\A l \in Links : Ended(l)) /\ UNCHANGED vars

Next ==
  \/ \E l \in Links :
       \/ Create(l) \/ CreateTemp(l) \/ RemoveOld(l) \/ OpenDirect(l)
       \/ Write(l) \/ Finish(l) \/ Commit(l) \/ Replace(l) \/ Rename(l)
       \/ Discard(l) \/ Drop(l)
       \/ Cancel(l) \/ Kill(l)
  \/ Terminating

Spec == Init /\ [][Next]_vars

-----------------------------------------------------------------------------
(***************************************************************************)
(* Properties                                                              *)
(***************************************************************************)

(* The variables have their types, and a link that writes or commits has a *)
(* place to write to.                                                      *)
TypeOK ==
  /\ previous \in {NoFile, Old, Special}
  /\ path \in Links \cup {NoFile, Old, Special}
  /\ temps \subseteq Links /\ partial \subseteq Links \cup {Old, Special}
  /\ strategy \in [Links -> Strategies] /\ capture \subseteq Links
  /\ dest \in [Links -> {"none", "memory", "temp", "direct", "stream"}]
  /\ file \in [Links -> Links \cup {NoFile, Old, Special}]
  /\ pc \in [Links -> Steps]
  /\ cancelled \subseteq Links /\ killed \subseteq Links
  /\ removed \subseteq Links /\ undeleted \subseteq Links
  /\ \A l \in Links :
       /\ pc[l] \in {"write", "finish", "commit"} => dest[l] # "none"
       /\ pc[l] \in {"write", "finish", "commit", "replace", "rename"}
            /\ dest[l] \in {"temp", "direct"} => file[l] # NoFile

(* No link writes the path itself (Unlink, or no temporary file). *)
NoneInPlace == \A l \in Links : dest[l] # "direct"

(* While every link has a temporary file, whatever is at the path is whole *)
(* at every instant: the old output, the special file, or a file that a    *)
(* link committed (finish: "renames a temporary file into place").         *)
PathIsWhole ==
  NoneInPlace => /\ path \notin partial
                 /\ path \in Links => dest[path] = "temp" /\ pc[path] = "ok"

(* Then an existing output also never goes missing, other than through the *)
(* removal that precedes a rename (ReplaceStrategy::Rename); in particular *)
(* a link that fails or is killed before, or uses Atomic, keeps it, and of *)
(* two links that commit at once one is in place at the end.  Whoever      *)
(* removed it has a whole file, still in the directory under its temporary *)
(* name unless its rename failed.                                          *)
PathIsKept ==
  NoneInPlace /\ path = NoFile =>
    /\ previous = Old => removed # {}
    /\ (\E l \in Links : pc[l] = "ok" /\ dest[l] = "temp") => removed # {}
    /\ \A l \in removed : /\ strategy[l] = "Rename" /\ file[l] \notin partial
                          /\ l \in temps \/ pc[l] = "failed"

(* No temporary file outlives its link unnoticed: on every way out of a    *)
(* link that was not killed, a file that is still there is one the link    *)
(* tried to remove and could not, and that link reported a failure or was  *)
(* cancelled (finish removes it on failure, Drop when the link gives up).  *)
NoStrayTemp ==
  \A l \in temps : \/ l \in killed \/ ~Ended(l)
                   \/ l \in undeleted /\ pc[l] \in {"failed", "cancelled"}

(* What finish says of its failures ("the previous output is left in       *)
(* place"), once every link has returned: with temporary files and nobody  *)
(* killed, an output that was there is there or has been replaced.  The    *)
(* run previous_output refutes it: Rename removes the old output first.    *)
FailureKeepsOutput ==
  NoneInPlace /\ killed = {} /\ (\A l \in Links : Ended(l)) /\ previous = Old
    => path # NoFile
=============================================================================
