------------------------------ MODULE MCPasses ------------------------------
(***************************************************************************)
(* Instances of Intern, GcMark and MergePass for TLC: the passes of a link *)
(* that share out work over names or sections.  They follow each other and *)
(* share nothing but the pool, so a behaviour is about one of them and the *)
(* others have nothing to do.                                              *)
(***************************************************************************)
EXTENDS Intern, GcMark, MergePass

VARIABLE pass   \* "intern", "mark" or "merge"

(***************************************************************************)
(* Interning: five names in two shards, a table of at most three, and up   *)
(* to two batches of two jobs each.  Jobs come in and out of position      *)
(* order, share names, repeat them, and share a position.                  *)
(***************************************************************************)
MCShardOf == <<1, 2, 1, 1, 1>>

NameLists == {<<1, 2>>, <<2, 3, 2>>, <<3, 1, 4>>, <<5>>}

FirstBatches ==
  {<<[position |-> 2, names |-> a], [position |-> q, names |-> b]>> :
     a \in NameLists, b \in NameLists, q \in {1, 2}}

SecondBatches ==
  {<<[position |-> q, names |-> <<3, 1>>], [position |-> 5, names |-> b]>> :
     b \in {<<>>, <<2, 3>>, <<4, 4>>}, q \in {5, 6}}

MCWorkloads == {<<>>} \cup {<<x, y>> : x \in FirstBatches, y \in SecondBatches}

(***************************************************************************)
(* Marking: graphs of four sections, with cycles, shared targets, self     *)
(* references and out-of-range (5) targets, marked in one or two calls.    *)
(***************************************************************************)
EdgeLists == {<<>>, <<3, 4>>, <<4, 1, 5>>}

NoGraph == [edges |-> [s \in Sections |-> <<>>], calls |-> <<>>]

MCGraphs ==
  {NoGraph}
  \cup {[edges |-> <<e1, e2, e3, <<2>>>>, calls |-> c] :
          e1 \in {<<2, 3, 4>>, <<3, 3>>}, e2 \in EdgeLists, e3 \in EdgeLists,
          c \in {<<<<1, 2>>>>, <<<<1>>, <<3, 1, 5>>>>, <<<<3, 2, 1>>>>}}

(***************************************************************************)
(* Merging: small sections of strings and of fixed-size entries.           *)
(***************************************************************************)
Section(data, strings, unit, align, output) ==
  [data |-> data, strings |-> strings, unit |-> unit, align |-> align, output |-> output,
   live |-> TRUE]
Str(data) == Section(data, TRUE, 1, 1, "rodata")
Str2(data) == Section(data, TRUE, 1, 2, "rodata")
Wide(data) == Section(data, TRUE, 2, 1, "rodata")
Fixed(data) == Section(data, FALSE, 2, 2, "rodata")
Fixed1(data) == Section(data, FALSE, 1, 1, "rodata")
Gone(s) == [s EXCEPT !.live = FALSE]

Texts == { <<>>, <<0>>, <<1, 0>>, <<2, 1, 0>>, <<1, 0, 2, 1, 0>>, <<0, 1, 0>>, <<1, 1, 0, 2, 0>>,
           <<2, 0, 1, 0>> }

Case(sections, tail, dead) == [sections |-> sections, tail |-> tail, dead |-> dead]

NoCase == Case(<<>>, FALSE, {})

MCCases ==
  {NoCase}
  \cup {Case(<<Str(a), Str(b)>>, t, {}) : a \in Texts, b \in Texts, t \in BOOLEAN}
  \cup {Case(<<Str2(a), Str2(b)>>, t, {<<1, 1>>}) : a \in Texts, b \in Texts, t \in BOOLEAN}
  \cup {Case(<<Str(a), Fixed1(b), Gone(Str(<<1, 0>>)), Str(a)>>, FALSE, {}) : a, b \in Texts}
  \cup {Case(<<Wide(a), Wide(<<1, 0, 0, 0>>), Fixed(b)>>, t, {}) :
           a \in {<<0, 0>>, <<0, 1, 0, 0>>, <<1, 0, 0, 0, 0, 1, 0, 0>>, <<1, 0>>, <<1, 0, 0>>},
           b \in {<<>>, <<1, 0>>, <<0, 0, 1, 1, 0, 0>>, <<1>>}, t \in BOOLEAN}

-----------------------------------------------------------------------------
InternRests == batches = <<>> /\ Init
MarkRests == calls = <<>> /\ MarkInit
MergeRests == case = NoCase /\ MergeInit

PassInit ==
  \/ pass = "intern" /\ Init /\ MarkRests /\ MergeRests
  \/ pass = "mark" /\ InternRests /\ MarkInit /\ MergeRests
  \/ pass = "merge" /\ InternRests /\ MarkRests /\ MergeInit

PassNext ==
  \/ pass = "intern" /\ Next /\ UNCHANGED <<pass, markVars, mergeVars>>
  \/ pass = "mark" /\ MarkNext /\ UNCHANGED <<pass, vars, mergeVars>>
  \/ pass = "merge" /\ MergeNext /\ UNCHANGED <<pass, vars, markVars>>

MarkStep == pass = "mark" /\ MarkNext

(* The pool runs every mark task: a step of the marking is always taken    *)
(* while one is possible.                                                  *)
PassSpec ==
  /\ PassInit /\ [][PassNext]_<<pass, vars, markVars, mergeVars>>
  /\ WF_markVars(MarkStep)
=============================================================================
