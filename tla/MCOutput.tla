------------------------------ MODULE MCOutput ------------------------------
(***************************************************************************)
(* Instances of OutputImage, OutputFile and Fork for TLC: what leaves the  *)
(* process.  The contents of an output, its directory entry and the status *)
(* a parent process reports share nothing but the moment of the commit, so *)
(* a behaviour is about one of them and the other two rest.                *)
(***************************************************************************)
EXTENDS OutputImage, OutputFile, Fork

CONSTANT Subjects   \* "image", "file", "fork"

VARIABLE subject

(* An image of two and a half blocks of four bytes.  Layouts of up to      *)
(* three chunks of 0, 1, 3 or 5 bytes, with gaps: chunks straddle blocks,  *)
(* share a region, or leave a block empty.                                 *)
MCRanges == [offset: 0..9, size: {0, 1, 3, 5}]

OneChunk == {<<a>> : a \in MCRanges}
TwoChunks == {<<a, b>> : a \in MCRanges, b \in MCRanges}
ThreeChunks ==
  {<<a, b, c>> : a \in [offset: 0..4, size: {1, 3}], b \in [offset: 2..6, size: {0, 1, 3, 5}],
                 c \in [offset: 5..9, size: {1, 3}]}

AllLayouts == {l \in OneChunk \cup TwoChunks \cup ThreeChunks : ValidLayout(l)}
FewLayouts ==
  {<<[offset |-> 0, size |-> 3], [offset |-> 6, size |-> 3]>>,
   <<[offset |-> 1, size |-> 1], [offset |-> 3, size |-> 3]>>}

MCFields == [offset: {0, 3, 5, 8}, size: {2}]

FileRests ==
  previous = NoFile /\ strategy = [l \in Links |-> "Rename"] /\ capture = {} /\ Init

(* A process that linked without a child and has exited. *)
ForkRests ==
  /\ launch = "here" /\ relayed = {} /\ shared = FALSE /\ gone = {} /\ child = "dead"
  /\ held = [s \in Streams |-> 0] /\ emitted = held /\ delivered = held
  /\ failed = FALSE /\ fatal = FALSE /\ errors = FALSE /\ complete = TRUE
  /\ code = 0 /\ sent = FALSE /\ status = 0 /\ helper = "none"
  /\ socket = [c \in Streams |-> <<>>] /\ shut = {} /\ relays = {} /\ byte = None
  /\ parent = "exited" /\ reported = None /\ exit = 0

OutputInit ==
  /\ subject \in Subjects
  /\ ImageInit
  /\ IF subject = "file" THEN Init ELSE FileRests
  /\ IF subject = "fork" THEN ForkInit ELSE ForkRests

OutputNext ==
  \/ subject = "image" /\ ImageNext /\ UNCHANGED <<vars, forkVars, subject>>
  \/ subject = "file" /\ Next /\ UNCHANGED <<imageVars, forkVars, subject>>
  \/ subject = "fork" /\ ForkNext /\ UNCHANGED <<vars, imageVars, subject>>

(* The fairness of the processes that Fork states. *)
OutputSpec ==
  OutputInit /\ [][OutputNext]_<<vars, imageVars, forkVars, subject>> /\ Fairness
=============================================================================
