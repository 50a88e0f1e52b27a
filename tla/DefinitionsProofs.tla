------------------------- MODULE DefinitionsProofs -------------------------
(***************************************************************************)
(* The combined order the symbol table uses (ElfRules::compare, then the   *)
(* tie key) is a strict total order on the candidates of a symbol, for     *)
(* every position, size and file number, although compare itself is not    *)
(* the transitive preorder its trait asks for.                             *)
(***************************************************************************)
EXTENDS Definitions, TLAPS

Candidate == {d \in Definition : IsDefined(d)}

(* Candidates of one symbol come from distinct entries of distinct files. *)
SameEntry(x, y) ==
  x.position = y.position /\ x.file = y.file /\ x.index = y.index

LEMMA CandidateFields ==
  ASSUME NEW x \in Candidate
  PROVE  /\ x.kind \in {"Lazy", "Shared", "Weak", "Common", "Regular"}
         /\ x.file \in Nat /\ x.index \in Nat /\ x.position \in Nat
         /\ x.size \in Nat
BY DEF Candidate, Definition, Kinds, IsDefined

LEMMA RankValues ==
  /\ Rank("Lazy") = 1 /\ Rank("Shared") = 2 /\ Rank("Weak") = 3
  /\ Rank("Common") = 4 /\ Rank("Regular") = 5
BY DEF Rank

(* What precedence between two candidates amounts to. *)
LEMMA PrecedenceCases ==
  ASSUME NEW x \in Candidate, NEW y \in Candidate
  PROVE  TakesPrecedence(x, y) <=>
           IF x.kind \in {"Lazy", "Shared"} /\ y.kind \in {"Lazy", "Shared"}
             THEN TieLess(x, y)
           ELSE IF x.kind = y.kind
             THEN IF x.kind = "Common" /\ x.size # y.size THEN x.size > y.size
                                       ELSE TieLess(x, y)
           ELSE Rank(x.kind) > Rank(y.kind)
<1>1. IsDefined(x) /\ IsDefined(y)
  BY DEF Candidate
<1> QED
  BY <1>1, CandidateFields, RankValues
  DEF TakesPrecedence, Compare, Cmp, LazyAgainstShared, TieLess

(* Two candidates cannot each replace the other, and none replaces itself. *)
THEOREM PrecedenceAsymmetric ==
  ASSUME NEW x \in Candidate, NEW y \in Candidate, TakesPrecedence(x, y)
  PROVE  ~TakesPrecedence(y, x)
BY CandidateFields, RankValues, PrecedenceCases DEF TieLess

(* Precedence is transitive. *)
THEOREM PrecedenceTransitive ==
  ASSUME NEW x \in Candidate, NEW y \in Candidate, NEW z \in Candidate,
         TakesPrecedence(x, y), TakesPrecedence(y, z)
  PROVE  TakesPrecedence(x, z)
BY CandidateFields, RankValues, PrecedenceCases DEF TieLess

(* Of two candidates from different entries one takes precedence. *)
THEOREM PrecedenceTotal ==
  ASSUME NEW x \in Candidate, NEW y \in Candidate, ~SameEntry(x, y)
  PROVE  TakesPrecedence(x, y) \/ TakesPrecedence(y, x)
BY CandidateFields, RankValues, PrecedenceCases DEF TieLess, SameEntry
=============================================================================
