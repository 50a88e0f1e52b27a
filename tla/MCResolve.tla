----------------------------- MODULE MCResolve -----------------------------
(***************************************************************************)
(* Instances of Resolve for TLC: families of small inputs.                 *)
(***************************************************************************)
EXTENDS Resolve, TLC

CONSTANTS a, b, g, h   \* symbols and groups, as model values

(* Command-line order differs from file numbering: 1, 3, 2, 4. *)
MCPosition == <<1, 3, 2, 4>>

E(s, use) == [sym |-> s, use |-> use, size |-> 0, group |-> NoGroup]
Common(s, size) == [sym |-> s, use |-> "Common", size |-> size, group |-> NoGroup]
InGroup(s, use, grp) == [sym |-> s, use |-> use, size |-> 0, group |-> grp]

Object(entries) ==
  [start |-> TRUE, lazy |-> <<>>, entries |-> entries,
   early |-> FALSE, broken |-> FALSE]
Member(lazy, entries) ==
  [start |-> FALSE, lazy |-> lazy, entries |-> entries,
   early |-> TRUE, broken |-> FALSE]

(* A member as it is, one that must wait for its round (a thin archive's), *)
(* and one that does not load.                                             *)
Variants(m) ==
  {m, [m EXCEPT !.early = FALSE], [m EXCEPT !.broken = TRUE]}

(* Precedence and extraction: a main object, two archive members (with     *)
(* stale index entries among them) and an object or shared library.        *)
Mains == {<<E(a, "Reference"), E(b, "WeakReference")>>,
          <<E(b, "Reference"), E(a, "Reference")>>,
          <<E(b, "Reference"), Common(a, 4)>>}
MembersA == {Member(<<a>>, <<E(a, "Regular"), E(b, "Reference")>>),
             Member(<<a, b>>, <<E(b, "Reference")>>),
             Member(<<b>>, <<E(b, "Weak"), Common(a, 8)>>)}
MembersB == {Member(<<a>>, <<E(a, "Regular")>>),
             Member(<<b>>, <<E(b, "Regular"), E(a, "Reference")>>),
             Member(<<b>>, <<E(b, "Ignore"), E(a, "Weak")>>)}
Others == {Object(<<E(a, "Shared")>>), Object(<<E(b, "Shared")>>),
           Object(<<E(a, "Weak"), E(b, "WeakReference")>>)}

ExtractInputs ==
  {[files |-> <<Object(m), x, y, z>>, hooked |-> hk] :
     m \in Mains, x \in MembersA, y \in UNION {Variants(w) : w \in MembersB},
     z \in Others, hk \in BOOLEAN}

(* A shared library between two members of one index name. *)
BetweenInputs ==
  {[files |-> <<Member(<<a>>, <<E(a, "Regular")>>), Member(<<a>>, <<E(a, "Regular")>>),
                Object(<<E(a, "Shared")>>), Object(<<E(a, "Reference")>>)>>,
    hooked |-> hk] : hk \in BOOLEAN}

(* COMDAT groups: the main object may carry a group itself; members that   *)
(* are extracted in the same or in different rounds carry copies.          *)
GroupMains == {<<E(a, "Reference"), E(b, "Reference")>>,
               <<E(a, "Reference"), InGroup(b, "Weak", g)>>}
GroupMembers2 == {Member(<<a>>, <<InGroup(a, "Weak", g), E(b, "Reference")>>),
                  Member(<<a>>, <<InGroup(a, "Regular", h), InGroup(b, "Regular", g)>>)}
GroupMembers3 == {Member(<<b>>, <<InGroup(b, "Regular", g), InGroup(a, "Regular", h)>>),
                  Member(<<a, b>>, <<InGroup(a, "Weak", g), InGroup(b, "Weak", g)>>),
                  Member(<<b>>, <<E(b, "Regular"), InGroup(a, "Weak", g)>>)}
GroupMembers4 == {Member(<<b>>, <<InGroup(b, "Weak", g)>>),
                  Object(<<InGroup(b, "Weak", g)>>),
                  Object(<<InGroup(b, "Regular", g), InGroup(a, "Weak", h)>>)}

GroupInputs ==
  {[files |-> <<Object(m), x, y, z>>, hooked |-> hk] :
     m \in GroupMains, x \in GroupMembers2, y \in GroupMembers3,
     z \in GroupMembers4, hk \in BOOLEAN}

MCInputs == ExtractInputs \cup BetweenInputs \cup GroupInputs
=============================================================================
