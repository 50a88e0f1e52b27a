-------------------------------- MODULE Fork --------------------------------
(***************************************************************************)
(* The qld binary with --fork (main.rs): the link runs in a child process, *)
(* which reports its exit status over a socket once the output is          *)
(* complete; the parent relays its stdout and stderr, and exits with the   *)
(* reported status while the child is still freeing memory.                *)
(*                                                                         *)
(* The linking process is also modelled when it is the parent itself (no   *)
(* --fork, or no child could be started): it then has no hook and nothing  *)
(* is relayed.  Text is a number of messages per stream.                   *)
(***************************************************************************)
EXTENDS Naturals, Sequences, FiniteSets

CONSTANTS
  MaxMessages,  \* messages the link prints on each stream
  SocketSize,   \* messages a relay socket holds
  None

ASSUME ForkAssumption ==
  /\ MaxMessages \in Nat /\ SocketSize \in Nat \ {0}
  /\ None \notin Nat

Streams == {"out", "err"}
Signal == 137   \* 128 + SIGKILL

VARIABLES
  launch,     \* "undecided", "child" or "here"
  relayed,    \* streams of the parent that are pipes or sockets
  shared,     \* whether stdout and stderr are the same one
  gone,       \* streams whose reader has gone
  child,      \* the linking process
  held,       \* per stream, messages in the sink or the stdout buffer
  emitted,    \* per stream, messages the link printed
  failed, fatal, \* the link failed; a plugin ended the process
  errors,     \* the sink's error_count is not 0
  complete,   \* the output is in place
  code,       \* the code notify was called with, or the process returns
  sent,       \* notify's SENT
  status,     \* how the linking process ended, or None
  helper,     \* a process the linker started has copies of its streams
  socket,     \* per channel, streams of the messages in it
  shut,       \* channels the child shut down
  relays,     \* channels whose relay thread is running
  byte,       \* the byte in the status socket, or None
  parent,     \* "start", "status", "join", "wait", "here" or "exited"
  reported,   \* what read_status returned
  exit,       \* the parent's exit status, or None
  delivered   \* per stream, messages that reached it

linkVars == <<child, held, emitted, failed, fatal, errors, complete, code, sent, status, helper>>
channelVars == <<socket, shut, relays, byte, delivered>>
parentVars == <<launch, relayed, parent, reported, exit>>
forkVars == <<launch, relayed, shared, gone, child, held, emitted, failed, fatal, errors,
              complete, code, sent, status, helper, socket, shut, relays, byte,
              parent, reported, exit, delivered>>

(* The child's channel of a relayed stream: one socket for both streams if *)
(* they are the same pipe.                                                 *)
Channel(s) == IF shared THEN "out" ELSE s
Channels == {Channel(s) : s \in relayed}

ForkInit ==
  /\ launch = "undecided"
  /\ relayed \in SUBSET Streams
  /\ shared \in BOOLEAN /\ (shared => relayed = Streams)
  /\ gone = {}
  /\ child = "none"
  /\ held = [s \in Streams |-> 0] /\ emitted = held /\ delivered = held
  /\ failed = FALSE /\ fatal = FALSE /\ errors = FALSE /\ complete = FALSE
  /\ code = None /\ sent = FALSE /\ status = None
  /\ helper = "none"
  /\ socket = [c \in Streams |-> <<>>]
  /\ shut = {} /\ relays = {} /\ byte = None
  /\ parent = "start" /\ reported = None /\ exit = None

-----------------------------------------------------------------------------
(***************************************************************************)
(* The parent                                                              *)
(***************************************************************************)

(* link_in_child: relay threads first, then the child.                     *)
Spawn ==
  /\ parent = "start"
  /\ launch' = "child" /\ parent' = "status"
  /\ relays' = Channels
  /\ child' = "link"
  /\ UNCHANGED <<relayed, shared, gone, held, emitted, failed, fatal, errors, complete,
                 code, sent, status, helper, socket, shut, byte, reported, exit,
                 delivered>>

(* Without --fork, where fork::allowed says no, or if a thread or the      *)
(* child cannot be started.                                                *)
LinkHere ==
  /\ parent = "start"
  /\ launch' = "here" /\ parent' = "here"
  /\ relayed' = {}
  /\ child' = "link"
  /\ UNCHANGED <<shared, gone, held, emitted, failed, fatal, errors, complete, code,
                 sent, status, helper, channelVars, reported, exit>>

\* Slip: the parent keeps its copies of the child's ends.
NeverClosed == FALSE

(* Nothing can be written to the child's sockets any more. *)
Closed == status # None /\ helper # "running"

(* read_status: the byte, or end of file. *)
ReadStatus ==
  /\ parent = "status"
  /\ byte # None \/ Closed
  /\ reported' = byte
  /\ parent' = "join"
  /\ UNCHANGED <<launch, relayed, shared, gone, linkVars, channelVars, exit>>

\* Slip: the parent exits with the status without joining the relays.
JoinNothing ==
  /\ parent = "join"
  /\ IF reported # None THEN exit' = reported /\ parent' = "exited"
     ELSE parent' = "wait" /\ UNCHANGED exit
  /\ UNCHANGED <<launch, relayed, shared, gone, linkVars, channelVars, reported>>

Join ==
  /\ parent = "join" /\ relays = {}
  /\ IF reported # None THEN exit' = reported /\ parent' = "exited"
     ELSE parent' = "wait" /\ UNCHANGED exit
  /\ UNCHANGED <<launch, relayed, shared, gone, linkVars, channelVars, reported>>

(* child.wait and exit_code, or the end of this process. *)
Wait ==
  /\ parent \in {"wait", "here"} /\ status # None
  /\ exit' = status /\ parent' = "exited"
  /\ UNCHANGED <<launch, relayed, shared, gone, linkVars, channelVars, reported>>

(* relay: copy until end of file, or until the stream is gone. *)
Relay(c) ==
  /\ c \in relays
  /\ \/ /\ socket[c] # <<>> /\ Head(socket[c]) \notin gone
        /\ delivered' = [delivered EXCEPT ![Head(socket[c])] = @ + 1]
        /\ socket' = [socket EXCEPT ![c] = Tail(@)]
        /\ UNCHANGED relays
     \/ /\ socket[c] # <<>> /\ Head(socket[c]) \in gone
        /\ socket' = [socket EXCEPT ![c] = <<>>]
        /\ relays' = relays \ {c}
        /\ UNCHANGED delivered
     \/ /\ socket[c] = <<>> /\ (c \in shut \/ Closed)
        /\ relays' = relays \ {c}
        /\ UNCHANGED <<socket, delivered>>
  /\ UNCHANGED <<parentVars, shared, gone, linkVars, shut, byte>>

-----------------------------------------------------------------------------
(***************************************************************************)
(* The linking process                                                     *)
(***************************************************************************)

(* A diagnostic, counted if it is an error (or a warning that              *)
(* --fatal-warnings promotes), or text on stdout.                          *)
Emit(s) ==
  /\ child = "link" /\ emitted[s] < MaxMessages
  /\ held' = [held EXCEPT ![s] = @ + 1]
  /\ emitted' = [emitted EXCEPT ![s] = @ + 1]
  /\ errors' \in (IF s = "err" THEN {errors, TRUE} ELSE {errors})
  /\ UNCHANGED <<parentVars, shared, gone, child, failed, fatal, complete, code,
                 sent, status, helper, channelVars>>

(* An LTO plugin's compiler. *)
StartHelper ==
  /\ child = "link" /\ helper = "none"
  /\ helper' = "running"
  /\ UNCHANGED <<parentVars, shared, gone, child, held, emitted, failed, fatal, errors,
                 complete, code, sent, status, channelVars>>

HelperEnds ==
  /\ helper = "running"
  /\ helper' = "ended"
  /\ UNCHANGED <<parentVars, shared, gone, child, held, emitted, failed, fatal, errors,
                 complete, code, sent, status, channelVars>>

(* The output is in place: qld::link runs the hook, if there is one. *)
Linked ==
  /\ child = "link" /\ helper # "running"
  /\ complete' = TRUE
  /\ child' = IF launch = "child" THEN "hook" ELSE "run"
  /\ UNCHANGED <<parentVars, shared, gone, held, emitted, failed, fatal, errors, code,
                 sent, status, helper, channelVars>>

(* The link fails, with an error that run prints. *)
LinkFails ==
  /\ child = "link" /\ helper # "running"
  /\ failed' = TRUE
  /\ held' = [held EXCEPT !["err"] = @ + 1]
  /\ emitted' = [emitted EXCEPT !["err"] = @ + 1]
  /\ child' = "run"
  /\ UNCHANGED <<parentVars, shared, gone, fatal, errors, complete, code, sent,
                 status, helper, channelVars>>

(* exit_on_fatal, in a plugin's callback: the process exits at once, with  *)
(* what the sink holds.                                                    *)
PluginFatal ==
  /\ child = "link"
  /\ failed' = TRUE /\ fatal' = TRUE
  /\ code' = 1
  /\ child' = "exit"
  /\ UNCHANGED <<parentVars, shared, gone, held, emitted, errors, complete, sent,
                 status, helper, channelVars>>

(* A message of the sink or of stdout's buffer is written: to the stream,  *)
(* or to its relay, waiting while the socket is full.                      *)
Writes(s) ==
  /\ held[s] > 0
  /\ held' = [held EXCEPT ![s] = @ - 1]
  /\ IF s \notin relayed
       THEN /\ delivered' = [delivered EXCEPT ![s] = @ + (IF s \in gone THEN 0 ELSE 1)]
            /\ UNCHANGED socket
     ELSE IF Channel(s) \in shut \/ Channel(s) \notin relays
       THEN UNCHANGED <<delivered, socket>>
     ELSE /\ Len(socket[Channel(s)]) < SocketSize
          /\ socket' = [socket EXCEPT ![Channel(s)] = Append(@, s)]
          /\ UNCHANGED delivered
  /\ UNCHANGED <<parentVars, shared, gone, child, emitted, failed, fatal, errors, complete,
                 code, sent, status, helper, shut, relays, byte>>

FlushSink == child \in {"hook", "run"} /\ Writes("err")

\* Slip: an output that is complete is reported as a success.
HookReportsSuccess ==
  /\ child = "hook" /\ held["err"] = 0
  /\ code' = 0
  /\ child' = "notify"
  /\ UNCHANGED <<parentVars, shared, gone, held, emitted, failed, fatal, errors,
                 complete, sent, status, helper, channelVars>>

(* The hook, once the sink is flushed. *)
Hook ==
  /\ child = "hook" /\ held["err"] = 0
  /\ code' = IF errors THEN 1 ELSE 0
  /\ child' = "notify"
  /\ UNCHANGED <<parentVars, shared, gone, held, emitted, failed, fatal, errors,
                 complete, sent, status, helper, channelVars>>

(* The end of run; the child then calls notify, which returns at once if   *)
(* the hook did.                                                           *)
Run ==
  /\ child = "run" /\ held["err"] = 0
  /\ code' = IF failed \/ errors THEN 1 ELSE 0
  /\ child' = IF launch = "child" /\ ~sent THEN "notify" ELSE "exit"
  /\ UNCHANGED <<parentVars, shared, gone, held, emitted, failed, fatal, errors,
                 complete, sent, status, helper, channelVars>>

(* notify, and the end of the process, flush stdout. *)
FlushStdout == child \in {"notify", "exit"} /\ Writes("out")

(* notify: end the relays, then send the status. *)
ShutDown ==
  /\ child = "notify" /\ held["out"] = 0
  /\ sent' = TRUE
  /\ shut' = Channels
  /\ child' = "send"
  /\ UNCHANGED <<parentVars, shared, gone, held, emitted, failed, fatal, errors,
                 complete, code, status, helper, socket, relays, byte, delivered>>

Send ==
  /\ child = "send"
  /\ byte' = code
  /\ child' = IF failed THEN "exit" ELSE "run"
  /\ UNCHANGED <<parentVars, shared, gone, held, emitted, failed, fatal, errors,
                 complete, code, sent, status, helper, socket, shut, relays,
                 delivered>>

Exit ==
  /\ child = "exit" /\ held["out"] = 0
  /\ child' = "dead" /\ status' = code
  /\ UNCHANGED <<parentVars, shared, gone, held, emitted, failed, fatal, errors,
                 complete, code, sent, helper, channelVars>>

(* The linking process dies at any moment. *)
Crash ==
  /\ child \notin {"none", "dead"}
  /\ child' = "dead" /\ status' = Signal
  /\ UNCHANGED <<parentVars, shared, gone, held, emitted, failed, fatal, errors,
                 complete, code, sent, helper, channelVars>>

(* Whoever reads a stream goes away: with the same pipe, for both. *)
ReaderGone(s) ==
  /\ s \notin gone /\ exit = None
  /\ gone' = IF shared THEN Streams ELSE gone \cup {s}
  /\ UNCHANGED <<parentVars, shared, linkVars, channelVars>>

Stopped == parent = "exited" /\ child = "dead" /\ helper # "running" /\ UNCHANGED forkVars

ParentNext == Spawn \/ LinkHere \/ ReadStatus \/ Join \/ Wait
LinkEnds == Linked \/ LinkFails
LinkerNext ==
  FlushSink \/ Hook \/ Run \/ FlushStdout \/ ShutDown \/ Send \/ Exit

ForkNext ==
  \/ ParentNext
  \/ \E c \in Streams : Relay(c)
  \/ \E s \in Streams : Emit(s) \/ ReaderGone(s)
  \/ StartHelper \/ HelperEnds \/ LinkEnds \/ PluginFatal
  \/ LinkerNext
  \/ Crash
  \/ Stopped

(* Every process and thread runs on, and the link and the processes it     *)
(* starts end; nothing has to crash.                                       *)
Fairness ==
  /\ WF_forkVars(ParentNext) /\ WF_forkVars(LinkerNext)
  /\ WF_forkVars(LinkEnds) /\ WF_forkVars(HelperEnds)
  /\ \A c \in Streams : WF_forkVars(Relay(c))

ForkSpec == ForkInit /\ [][ForkNext]_forkVars /\ Fairness

-----------------------------------------------------------------------------
(***************************************************************************)
(* Properties                                                              *)
(***************************************************************************)

(* The status qld exits with is that of the link, whichever process ran    *)
(* it: the child's own exit status if it exits at all, and success only    *)
(* for an output that is in place with no error in the sink                *)
(* (--fatal-warnings, --noinhibit-exec).                                   *)
StatusIsReal ==
  exit # None =>
    /\ exit = 0 => complete /\ ~failed /\ ~errors
    /\ status \notin {None, Signal} => exit = status
    /\ exit \in {0, 1, Signal}
    /\ failed /\ status # Signal => exit = 1

(* Whoever waits for qld has every message of the link when it exits, even *)
(* though the child may still be running: the child flushes both streams   *)
(* before it ends the relays, which the parent drains before it exits.     *)
(* (A plugin's fatal error and a crash lose what was not written.)         *)
NothingLost ==
  /\ exit # None /\ ~fatal
  /\ reported # None \/ (launch = "here" /\ status # Signal)
  => \A s \in Streams \ gone : delivered[s] = emitted[s]

(* qld exits, even if the child crashes before it reports, whoever holds   *)
(* copies of its sockets, and with a socket full of text.                  *)
ParentExits == <>(exit # None)
=============================================================================
