-------------------------- MODULE OutputFileProofs --------------------------
(***************************************************************************)
(* For any set of links writing the same path, whatever fails and whoever  *)
(* is killed: the path names a whole file at every instant while links use *)
(* temporary files, is lost only to the removal before a rename, and no    *)
(* link leaves a temporary file it did not try to remove.                  *)
(***************************************************************************)
EXTENDS OutputFile, TLAPS

Holding == {"write", "finish", "commit", "replace", "rename", "discard", "drop", "stop"}
Unwritten == {"write", "finish", "commit", "discard", "drop", "stop", "failed", "cancelled"}

(* What the destination of a link says about where it is. *)
DestOK ==
  \A l \in Links :
    /\ pc[l] \in {"create", "temp"} => dest[l] = "none"
    /\ pc[l] = "replace" => strategy[l] = "Rename"
    /\ pc[l] \in {"remove", "open"} => dest[l] = "direct"
    /\ pc[l] \in {"replace", "rename", "discard"} => dest[l] = "temp"
    /\ dest[l] = "temp" => file[l] = l /\ pc[l] \in Holding \cup {"ok", "failed", "cancelled"}
    /\ dest[l] \in {"none", "memory", "stream"} => file[l] = NoFile
    /\ l \in temps => dest[l] = "temp" /\ (pc[l] \in Holding \/ l \in undeleted)
    /\ l \in undeleted => pc[l] \in {"failed", "cancelled"}
    /\ dest[l] = "temp" /\ pc[l] \in Holding => l \in temps

(* A file that is not whole belongs to a link that has not committed it,   *)
(* and what is at the path was committed.                                  *)
WholeOK ==
  NoneInPlace =>
    /\ \A x \in partial : x \in Links /\ dest[x] = "temp" /\ pc[x] \in Unwritten
    /\ path \in Links => dest[path] = "temp" /\ pc[path] = "ok"

(* A link that removed the old output has a whole file to put there. *)
RemovedOK ==
  NoneInPlace =>
    /\ \A l \in removed : /\ strategy[l] = "Rename" /\ dest[l] = "temp"
                          /\ l \notin partial
                          /\ pc[l] \in {"rename", "discard", "failed"}
                          /\ l \in temps \/ pc[l] = "failed"
    /\ path = NoFile /\ previous = Old => removed # {}
    /\ path = NoFile /\ (\E l \in Links : pc[l] = "ok" /\ dest[l] = "temp")
         => removed # {}

IInv == TypeOK /\ DestOK /\ WholeOK /\ RemovedOK

USE OutputFileAssumption DEF At, Goto, config, Holding, Unwritten, Steps

(* The initial states. *)
LEMMA InitIInv == Init => IInv
  BY DEF Init, IInv, TypeOK, DestOK, WholeOK, RemovedOK, NoneInPlace

(* create opens nothing at the path and makes no file. *)
LEMMA CreateIInv ==
  ASSUME NEW l \in Links, IInv, Create(l) PROVE IInv'
  <1>1. TypeOK'
    BY DEF IInv, Create, TypeOK
  <1>2. DestOK'
    BY DEF IInv, Create, TypeOK, DestOK
  <1>3. WholeOK'
    BY DEF IInv, Create, TypeOK, DestOK, WholeOK, NoneInPlace
  <1>4. RemovedOK'
    BY DEF IInv, Create, TypeOK, DestOK, WholeOK, RemovedOK, NoneInPlace
  <1> QED BY <1>1, <1>2, <1>3, <1>4 DEF IInv

(* A new temporary file is partial, and no link's but its own. *)
LEMMA CreateTempIInv ==
  ASSUME NEW l \in Links, IInv, CreateTemp(l) PROVE IInv'
  <1>1. TypeOK'
    BY DEF IInv, CreateTemp, TypeOK
  <1>2. DestOK'
    BY DEF IInv, CreateTemp, TypeOK, DestOK
  <1>3. WholeOK'
    BY DEF IInv, CreateTemp, TypeOK, DestOK, WholeOK, NoneInPlace
  <1>4. RemovedOK'
    BY DEF IInv, CreateTemp, TypeOK, DestOK, WholeOK, RemovedOK, NoneInPlace
  <1> QED BY <1>1, <1>2, <1>3, <1>4 DEF IInv

(* The path is given up to a link that writes in place. *)
LEMMA RemoveOldIInv ==
  ASSUME NEW l \in Links, IInv, RemoveOld(l) PROVE IInv'
  <1>1. TypeOK'
    BY DEF IInv, RemoveOld, TypeOK
  <1>2. DestOK'
    BY DEF IInv, RemoveOld, TypeOK, DestOK
  <1>3. WholeOK'
    BY DEF IInv, RemoveOld, TypeOK, DestOK, WholeOK, NoneInPlace
  <1>4. RemovedOK'
    BY DEF IInv, RemoveOld, TypeOK, DestOK, WholeOK, RemovedOK, NoneInPlace
  <1> QED BY <1>1, <1>2, <1>3, <1>4 DEF IInv

(* As above: the file truncated is then written in place. *)
LEMMA OpenDirectIInv ==
  ASSUME NEW l \in Links, IInv, OpenDirect(l) PROVE IInv'
  <1>1. TypeOK'
    <2>1. CASE pc' = [pc EXCEPT ![l] = "failed"]
      BY <2>1 DEF IInv, OpenDirect, TypeOK
    <2>2. CASE /\ path' = IF path = NoFile THEN l ELSE path
               /\ file' = [file EXCEPT ![l] = path']
               /\ partial' = partial \cup {path'}
               /\ \/ pc' = [pc EXCEPT ![l] = "write"]
                  \/ pc' = [pc EXCEPT ![l] = "drop"]
      <3>1. path' \in Links \cup {Old, Special}
        BY <2>2 DEF IInv, TypeOK
      <3>2. /\ file' \in [Links -> Links \cup {NoFile, Old, Special}]
            /\ \A k \in Links : file'[k] = IF k = l THEN path' ELSE file[k]
        BY <2>2, <3>1 DEF IInv, TypeOK
      <3>3. /\ pc' \in [Links -> Steps]
            /\ \A k \in Links \ {l} : pc'[k] = pc[k]
        BY <2>2 DEF IInv, TypeOK
      <3>4. dest[l] = "direct" /\ dest' = dest
        BY DEF IInv, DestOK, OpenDirect
      <3> QED BY <2>2, <3>1, <3>2, <3>3, <3>4 DEF IInv, OpenDirect, TypeOK
    <2> QED BY <2>1, <2>2 DEF OpenDirect
  <1>2. DestOK'
    BY DEF IInv, OpenDirect, TypeOK, DestOK
  <1>3. WholeOK'
    BY DEF IInv, OpenDirect, TypeOK, DestOK, WholeOK, NoneInPlace
  <1>4. RemovedOK'
    BY DEF IInv, OpenDirect, TypeOK, DestOK, WholeOK, RemovedOK, NoneInPlace
  <1> QED BY <1>1, <1>2, <1>3, <1>4 DEF IInv

(* Writing, or giving up. *)
LEMMA WriteIInv ==
  ASSUME NEW l \in Links, IInv, Write(l) PROVE IInv'
  <1>1. TypeOK'
    BY DEF IInv, Write, TypeOK
  <1>2. DestOK'
    BY DEF IInv, Write, TypeOK, DestOK
  <1>3. WholeOK'
    BY DEF IInv, Write, TypeOK, DestOK, WholeOK, NoneInPlace
  <1>4. RemovedOK'
    BY DEF IInv, Write, TypeOK, DestOK, WholeOK, RemovedOK, NoneInPlace
  <1> QED BY <1>1, <1>2, <1>3, <1>4 DEF IInv

(* The token is checked before anything is committed. *)
LEMMA FinishIInv ==
  ASSUME NEW l \in Links, IInv, Finish(l) PROVE IInv'
  <1>1. TypeOK'
    BY DEF IInv, Finish, TypeOK
  <1>2. DestOK'
    BY DEF IInv, Finish, TypeOK, DestOK
  <1>3. WholeOK'
    BY DEF IInv, Finish, TypeOK, DestOK, WholeOK, NoneInPlace
  <1>4. RemovedOK'
    BY DEF IInv, Finish, TypeOK, DestOK, WholeOK, RemovedOK, NoneInPlace
  <1> QED BY <1>1, <1>2, <1>3, <1>4 DEF IInv

(* The link's own file becomes whole before it can be renamed. *)
LEMMA CommitIInv ==
  ASSUME NEW l \in Links, IInv, Commit(l) PROVE IInv'
  <1>1. TypeOK'
    BY DEF IInv, Commit, TypeOK
  <1>2. DestOK'
    BY DEF IInv, Commit, TypeOK, DestOK
  <1>3. WholeOK'
    BY DEF IInv, Commit, TypeOK, DestOK, WholeOK, NoneInPlace
  <1>4. RemovedOK'
    BY DEF IInv, Commit, TypeOK, DestOK, WholeOK, RemovedOK, NoneInPlace
  <1> QED BY <1>1, <1>2, <1>3, <1>4 DEF IInv

(* The old output goes once the new one is whole. *)
LEMMA ReplaceIInv ==
  ASSUME NEW l \in Links, IInv, Replace(l) PROVE IInv'
  <1>1. TypeOK'
    BY DEF IInv, Replace, TypeOK
  <1>2. DestOK'
    BY DEF IInv, Replace, TypeOK, DestOK
  <1>3. WholeOK'
    BY DEF IInv, Replace, TypeOK, DestOK, WholeOK, NoneInPlace
  <1>4. RemovedOK'
    BY DEF IInv, Replace, TypeOK, DestOK, WholeOK, RemovedOK, NoneInPlace
  <1> QED BY <1>1, <1>2, <1>3, <1>4 DEF IInv

(* The file that gets the path is whole and no longer temporary. *)
LEMMA RenameIInv ==
  ASSUME NEW l \in Links, IInv, Rename(l) PROVE IInv'
  <1>1. TypeOK'
    BY DEF IInv, Rename, TypeOK
  <1>2. DestOK'
    BY DEF IInv, Rename, TypeOK, DestOK
  <1>3. WholeOK'
    BY DEF IInv, Rename, TypeOK, DestOK, WholeOK, NoneInPlace
  <1>4. RemovedOK'
    BY DEF IInv, Rename, TypeOK, DestOK, WholeOK, RemovedOK, NoneInPlace
  <1> QED BY <1>1, <1>2, <1>3, <1>4 DEF IInv

(* A failed commit takes its temporary file away, if it can. *)
LEMMA DiscardIInv ==
  ASSUME NEW l \in Links, IInv, Discard(l) PROVE IInv'
  <1>1. TypeOK'
    BY DEF IInv, Discard, RemoveTemp, TypeOK
  <1>2. DestOK'
    BY DEF IInv, Discard, RemoveTemp, TypeOK, DestOK
  <1>3. WholeOK'
    BY DEF IInv, Discard, RemoveTemp, TypeOK, DestOK, WholeOK, NoneInPlace
  <1>4. RemovedOK'
    BY DEF IInv, Discard, RemoveTemp, TypeOK, DestOK, WholeOK, RemovedOK, NoneInPlace
  <1> QED BY <1>1, <1>2, <1>3, <1>4 DEF IInv

(* An abandoned link takes its temporary file away, if it can, not the path. *)
LEMMA DropIInv ==
  ASSUME NEW l \in Links, IInv, Drop(l) PROVE IInv'
  <1>1. TypeOK'
    BY DEF IInv, Drop, RemoveTemp, TypeOK
  <1>2. DestOK'
    BY DEF IInv, Drop, RemoveTemp, TypeOK, DestOK
  <1>3. WholeOK'
    BY DEF IInv, Drop, RemoveTemp, TypeOK, DestOK, WholeOK, NoneInPlace
  <1>4. RemovedOK'
    BY DEF IInv, Drop, RemoveTemp, TypeOK, DestOK, WholeOK, RemovedOK, NoneInPlace
  <1> QED BY <1>1, <1>2, <1>3, <1>4 DEF IInv

(* Cancelling changes no file. *)
LEMMA CancelIInv ==
  ASSUME NEW l \in Links, IInv, Cancel(l) PROVE IInv'
  <1>1. TypeOK'
    BY DEF IInv, Cancel, TypeOK
  <1>2. DestOK'
    BY DEF IInv, Cancel, TypeOK, DestOK
  <1>3. WholeOK'
    BY DEF IInv, Cancel, TypeOK, DestOK, WholeOK, NoneInPlace
  <1>4. RemovedOK'
    BY DEF IInv, Cancel, TypeOK, DestOK, WholeOK, RemovedOK, NoneInPlace
  <1> QED BY <1>1, <1>2, <1>3, <1>4 DEF IInv

(* Killing changes no file. *)
LEMMA KillIInv ==
  ASSUME NEW l \in Links, IInv, Kill(l) PROVE IInv'
  <1>1. TypeOK'
    BY DEF IInv, Kill, TypeOK
  <1>2. DestOK'
    BY DEF IInv, Kill, TypeOK, DestOK
  <1>3. WholeOK'
    BY DEF IInv, Kill, TypeOK, DestOK, WholeOK, NoneInPlace
  <1>4. RemovedOK'
    BY DEF IInv, Kill, TypeOK, DestOK, WholeOK, RemovedOK, NoneInPlace
  <1> QED BY <1>1, <1>2, <1>3, <1>4 DEF IInv

(* No step breaks the invariant. *)
LEMMA NextIInv == IInv /\ [Next]_vars => IInv'
  <1> SUFFICES ASSUME IInv, [Next]_vars PROVE IInv'
    OBVIOUS
  <1>1. CASE UNCHANGED vars
    BY <1>1 DEF IInv, TypeOK, DestOK, WholeOK, RemovedOK, NoneInPlace, vars
  <1>2. CASE Next
    <2>1. CASE Terminating BY <2>1, <1>1 DEF Terminating
    <2>2. ASSUME NEW l \in Links,
                 \/ Create(l) \/ CreateTemp(l) \/ RemoveOld(l) \/ OpenDirect(l)
                 \/ Write(l) \/ Finish(l) \/ Commit(l) \/ Replace(l) \/ Rename(l)
                 \/ Discard(l) \/ Drop(l)
                 \/ Cancel(l) \/ Kill(l)
          PROVE IInv'
      BY <2>2, CreateIInv, CreateTempIInv, RemoveOldIInv, OpenDirectIInv, WriteIInv, FinishIInv, CommitIInv, ReplaceIInv, RenameIInv, DiscardIInv, DropIInv, CancelIInv, KillIInv
    <2> QED BY <1>2, <2>1, <2>2 DEF Next
  <1> QED BY <1>1, <1>2

(* The invariant holds throughout. *)
THEOREM InvariantHolds == Spec => []IInv
  BY InitIInv, NextIInv, PTL DEF Spec

(* Every reachable state is well typed: a link that writes or commits has  *)
(* a file to write to, for any number of links.                            *)
THEOREM OutputTypeOK == Spec => []TypeOK
  <1>1. IInv => TypeOK BY DEF IInv
  <1> QED BY <1>1, InvariantHolds, PTL

(* While links use temporary files, what is at the output path is whole at *)
(* every instant.                                                          *)
THEOREM OutputPathIsWhole == Spec => []PathIsWhole
  <1>1. IInv => PathIsWhole
    BY DEF IInv, TypeOK, WholeOK, PathIsWhole, NoneInPlace
  <1> QED BY <1>1, InvariantHolds, PTL

(* Then the output path is empty only after the removal that precedes a    *)
(* rename, by a link whose own file is whole.                              *)
THEOREM OutputPathIsKept == Spec => []PathIsKept
  <1>1. IInv => PathIsKept
    BY DEF IInv, TypeOK, DestOK, WholeOK, RemovedOK, PathIsKept, NoneInPlace
  <1> QED BY <1>1, InvariantHolds, PTL

(* A temporary file that outlives a link that was not killed is one the    *)
(* link tried to remove and could not, and the link did not succeed.       *)
THEOREM OutputNoStrayTemp == Spec => []NoStrayTemp
  <1>1. IInv => NoStrayTemp
    BY DEF IInv, TypeOK, DestOK, NoStrayTemp, Ended
  <1> QED BY <1>1, InvariantHolds, PTL
=============================================================================
