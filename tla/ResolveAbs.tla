---------------------------- MODULE ResolveAbs -----------------------------
(***************************************************************************)
(* What symbol resolution promises, as a sequential rule without tasks,    *)
(* flags, candidate lists or claims: a round makes live exactly the        *)
(* archive members that a strong reference of a live file asks for, and    *)
(* every quantity is a function of the rounds so far.  The specification   *)
(* has one behaviour per input.                                            *)
(***************************************************************************)
EXTENDS ResolveInputs

CONSTANT Inputs  \* the input file tables to start from

VARIABLES
  files,    \* the input files
  rounds,   \* rounds[i]: the files made live in round i
  outcome   \* running, failed on a file, or done with a result

vars == <<files, rounds, outcome>>

Live == UNION {rounds[i] : i \in DOMAIN rounds}

RoundOf(f) == CHOOSE i \in DOMAIN rounds : f \in rounds[i]

(* The live file that keeps group g: in the earliest round that has the    *)
(* group, the first file on the command line.                              *)
KeeperOf(g) ==
  LET carriers == {f \in Live : g \in GroupsOf(files[f])}
  IN CHOOSE f \in carriers : \A h \in carriers :
       \/ RoundOf(f) < RoundOf(h)
       \/ RoundOf(f) = RoundOf(h) /\ Position[f] <= Position[h]

Discarded ==
  [f \in Files |-> IF f \in Live THEN {g \in GroupsOf(files[f]) : KeeperOf(g) # f}
                                 ELSE {}]

(* Everything that competes for symbol s: the lazy names of all members    *)
(* and the definitions of the live files, without the discarded copies.    *)
Competing(s) ==
  CandidatesOf(files, Discarded,
    LazyItems(files, {f \in Files : ~files[f].start}) \cup RealItems(files, Live), s)

Best(s) ==
  IF Competing(s) = {} THEN UndefinedDefinition
  ELSE CHOOSE d \in Competing(s) :
         \A c \in Competing(s) \ {d} : TakesPrecedence(d, c)

(* The members the next round makes live. *)
NextRound ==
  IF rounds = <<>> THEN {f \in Files : files[f].start}
  ELSE {Best(s).file : s \in {t \in Symbols :
          /\ Extracts(Best(t))
          /\ StrongReferences(files, Discarded, RealItems(files, Live), t) # {}}}
       \ Live

Result ==
  LET its == RealItems(files, Live)
      best == [s \in Symbols |-> Best(s)]
      winner(it) == best[SymOf(files, it)]
  IN [status |-> "done",
      defs |-> best,
      undefined |-> {it \in its :
        /\ UseOf(files, Discarded, it) = "Reference"
        /\ winner(it).kind \in {"Undefined", "Lazy"}},
      duplicates |-> {it \in its :
        /\ IsDefinitionItem(files, Discarded, it)
        /\ winner(it) # CandidateOf(files, it)
        /\ IsDuplicate(AllowMultipleDefinition, winner(it), CandidateOf(files, it))}]

Init ==
  /\ files \in Inputs
  /\ rounds = <<>>
  /\ outcome = [status |-> "running"]

Broken == {f \in NextRound : files[f].broken}

(* A round; the first one runs even if no file is live at the start. *)
Round ==
  /\ outcome.status = "running"
  /\ rounds = <<>> \/ NextRound # {}
  /\ Broken = {}
  /\ rounds' = Append(rounds, NextRound)
  /\ UNCHANGED <<files, outcome>>

(* A member of the round does not load: its first error is the outcome. *)
Fail ==
  /\ outcome.status = "running"
  /\ Broken # {}
  /\ outcome' = [status |-> "failed", file |-> FirstFile(Broken)]
  /\ UNCHANGED <<files, rounds>>

Finish ==
  /\ outcome.status = "running"
  /\ rounds # <<>> /\ NextRound = {}
  /\ outcome' = Result
  /\ UNCHANGED <<files, rounds>>

Next == Round \/ Fail \/ Finish

Spec == Init /\ [][Next]_vars /\ WF_vars(Next)
=============================================================================
