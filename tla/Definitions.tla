---------------------------- MODULE Definitions ----------------------------
(***************************************************************************)
(* Candidate definitions of a symbol and the precedence between them: the *)
(* DefinitionKind and Definition types, the ELF rules (ElfRules) and       *)
(* takes_precedence, the test under which a candidate replaces the best    *)
(* definition of a symbol.                                                 *)
(*                                                                         *)
(* The auxiliary word of a definition is kept as the two things the rules  *)
(* read from it: the size of a common symbol and the AUX_COMDAT bit.       *)
(***************************************************************************)
EXTENDS Integers

Kinds == {"Undefined", "Lazy", "Shared", "Weak", "Common", "Regular"}

Definition == [kind: Kinds, file: Nat, index: Nat, position: Nat,
               size: Nat, comdat: BOOLEAN]

\* The content of a symbol's cell before any candidate is inserted.
UndefinedDefinition ==
  [kind |-> "Undefined", file |-> 0, index |-> 0, position |-> 0,
   size |-> 0, comdat |-> FALSE]

IsDefined(d) == d.kind # "Undefined"

(* The default Resolver::extracts: a best definition that is lazy asks for *)
(* its archive member.                                                     *)
Extracts(d) == d.kind = "Lazy"

(* ElfRules::rank: higher wins. *)
Rank(kind) ==
  [Undefined |-> 0, Lazy |-> 1, Shared |-> 2, Weak |-> 3, Common |-> 4,
   Regular |-> 5][kind]

(* An Ordering is -1 (less), 0 (equal) or 1 (greater). *)
Cmp(x, y) == IF x < y THEN -1 ELSE IF x > y THEN 1 ELSE 0

LazyAgainstShared(a, b) ==
  \/ a.kind = "Lazy" /\ b.kind = "Shared"
  \/ a.kind = "Shared" /\ b.kind = "Lazy"

(* ElfRules::compare.  An archive member and a shared library: the earlier *)
(* input wins.  Two commons: the larger one.  Otherwise by rank.           *)
Compare(a, b) ==
  IF LazyAgainstShared(a, b)
    THEN Cmp(b.position, a.position)
    ELSE IF a.kind = b.kind /\ a.kind = "Common"
      THEN Cmp(a.size, b.size)
      ELSE Cmp(Rank(a.kind), Rank(b.kind))

(* Definition::tie_key, compared lexicographically. *)
TieLess(a, b) ==
  \/ a.position < b.position
  \/ a.position = b.position /\ a.file < b.file
  \/ a.position = b.position /\ a.file = b.file /\ a.index < b.index

\* Slip: an equal candidate replaces the current one, whatever its place.
TakesPrecedenceIfEqual(candidate, current) ==
  /\ IsDefined(candidate)
  /\ ~IsDefined(current) \/ Compare(candidate, current) \in {0, 1}

(* takes_precedence: whether `candidate' replaces `current'. *)
TakesPrecedence(candidate, current) ==
  /\ IsDefined(candidate)
  /\ \/ ~IsDefined(current)
     \/ Compare(candidate, current) = 1
     \/ Compare(candidate, current) = 0 /\ TieLess(candidate, current)

(* ElfRules::is_duplicate; `allow' is --allow-multiple-definition. *)
IsDuplicate(allow, winner, other) ==
  /\ ~allow
  /\ winner.kind = "Regular"
  /\ other.kind = "Regular"
  /\ ~(winner.comdat /\ other.comdat)
=============================================================================
