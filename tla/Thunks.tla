------------------------------- MODULE Thunks -------------------------------
(***************************************************************************)
(* Range-extension thunks (src/elf/arch/thunk.rs): which branches of a    *)
(* layout need one, in which pool it goes and where in the pool; and what *)
(* the writer finds for a branch afterwards.  A planned thunk is a record *)
(* [output, pool, target, offset], a plan is the set of them: it is       *)
(* sorted and deduplicated in the code, so the set says the same.         *)
(***************************************************************************)
EXTENDS ElfLayout

CONSTANT Reach        \* bytes a direct branch reaches, forwards and back

ASSUME ThunkConstants == Reach \in Nat \ {0}

AbsDiff(a, b) == IF a >= b THEN a - b ELSE b - a

InRange(place, target) == -Reach <= target - place /\ target - place < Reach

\* A branch is [id, offset, target, value]: at `offset` of input section `id`,
\* to `value` of input section `target`.
BranchPlace(lay, b) == lay.inputs[b.id].addr + b.offset

BranchTarget(lay, b) == lay.inputs[b.target].addr + b.value

\* The first of the nearest pools, as they are sorted.
Nearest(lay, output, place) ==
  LET pools == {p \in lay.pools : p.output = output}
      nearest == {p \in pools : \A q \in pools :
                    AbsDiff(p.address, place) <= AbsDiff(q.address, place)}
  IN IF pools = {} THEN 0
     ELSE (CHOOSE p \in nearest : \A q \in nearest : p.index <= q.index).index

PoolContent(lay, output, pool) ==
  LET found == {p \in lay.pools : p.output = output /\ p.index = pool}
  IN IF found = {} THEN 0 ELSE (CHOOSE p \in found : TRUE).content

\* Sections of code that are not dropped are scanned for branches out of range.
Needed(in, lay) ==
  {[output |-> lay.inputs[b.id].output,
    pool |-> Nearest(lay, lay.inputs[b.id].output, BranchPlace(lay, b)),
    target |-> BranchTarget(lay, b)] :
     b \in {c \in in.branches : /\ ~lay.inputs[c.id].dropped
                                /\ in.outs[lay.inputs[c.id].output].exec
                                /\ ~InRange(BranchPlace(lay, c), BranchTarget(lay, c))}}

\* The pools of an output are laid out in order, each after the room the
\* earlier ones take, and the thunks of a pool by the address they lead to.
Assign(needed, lay) ==
  LET count(o, p) == Cardinality({n \in needed : n.output = o /\ n.pool = p})
      pools(o) == SetToSortSeq({n.pool : n \in {m \in needed : m.output = o}},
                               LAMBDA a, b : a < b)
      Step(o, extra, p) ==
        LET at == PoolContent(lay, o, p) + extra
        IN extra + (AlignUp(at, 4) + ThunkSize * count(o, p) - at)
      before(o, p) == FoldLeft(LAMBDA extra, q : Step(o, extra, q), 0,
                               SelectSeq(pools(o), LAMBDA q : q < p))
  IN {[output |-> n.output, pool |-> n.pool, target |-> n.target,
       offset |-> AlignUp(PoolContent(lay, n.output, n.pool) + before(n.output, n.pool), 4)
                  + ThunkSize * Cardinality({m \in needed :
                      m.output = n.output /\ m.pool = n.pool /\ m.target < n.target})] :
        n \in needed}

Plan(in, lay) == Assign(Needed(in, lay), lay)

\* Slip: the first thunk for the destination, wherever it is.
ThunkForFirst(lay, output, target, place) ==
  LET all == {t \in lay.thunks : t.output = output /\ t.target = target}
  IN IF all = {} THEN {}
     ELSE {(CHOOSE t \in all : \A u \in all : t.address <= u.address).address}

\* The writer takes the thunk for the destination that is nearest to it.
ThunkFor(lay, output, target, place) ==
  LET all == {t \in lay.thunks : t.output = output /\ t.target = target}
      nearest == {t \in all : \A u \in all :
                    AbsDiff(t.address, place) <= AbsDiff(u.address, place)}
  IN IF all = {} THEN {}
     ELSE {(CHOOSE t \in nearest : \A u \in nearest : t.address <= u.address).address}

\* Where the writer makes a branch go: to its target, or to a thunk when that
\* is out of range and a thunk was placed.
BranchGoes(in, lay, b) ==
  LET place == BranchPlace(lay, b)
      target == BranchTarget(lay, b)
      thunk == ThunkFor(lay, lay.inputs[b.id].output, target, place)
  IN IF InRange(place, target) \/ thunk = {} THEN target
     ELSE CHOOSE a \in thunk : TRUE
=============================================================================
