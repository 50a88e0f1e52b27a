---------------------------- MODULE GcMarkProofs ----------------------------
(***************************************************************************)
(* Proofs about GcMark, for any number of sections, any graph and any list *)
(* of calls: a mark is exact, and no section is claimed or expanded twice. *)
(***************************************************************************)
EXTENDS GcMark, FiniteSetTheorems, TLAPS

-----------------------------------------------------------------------------
(***************************************************************************)
(* Sequences                                                               *)
(***************************************************************************)

LEMMA ElementsTail ==
  ASSUME NEW S, NEW q \in Seq(S), q # <<>>
  PROVE  /\ Tail(q) \in Seq(S) /\ Head(q) \in S
         /\ Elements(q) = {Head(q)} \cup Elements(Tail(q))
<1>1. Len(q) \in Nat \ {0} /\ Len(Tail(q)) = Len(q) - 1 /\ q[1] = Head(q)
  OBVIOUS
<1>2. \A i \in 1..(Len(q) - 1) : Tail(q)[i] = q[i + 1]
  OBVIOUS
<1>3. ASSUME NEW i \in DOMAIN q PROVE q[i] \in {Head(q)} \cup Elements(Tail(q))
  <2>1. CASE i = 1
    BY <1>1, <2>1
  <2>2. CASE i # 1
    <3>1. i - 1 \in 1..(Len(q) - 1)
      BY <1>1, <2>2
    <3>2. q[i] = Tail(q)[i - 1]
      BY <1>2, <3>1
    <3> QED
      BY <1>1, <3>1, <3>2 DEF Elements
  <2> QED
    BY <2>1, <2>2
<1>4. ASSUME NEW i \in DOMAIN Tail(q) PROVE Tail(q)[i] \in Elements(q)
  BY <1>1, <1>2 DEF Elements
<1>5. Head(q) \in Elements(q)
  BY <1>1 DEF Elements
<1> QED
  BY <1>3, <1>4, <1>5 DEF Elements

LEMMA ElementsSplit ==
  ASSUME NEW S, NEW q \in Seq(S), NEW n \in 0..Len(q)
  PROVE  /\ SubSeq(q, 1, n) \in Seq(S) /\ SubSeq(q, n + 1, Len(q)) \in Seq(S)
         /\ Len(SubSeq(q, 1, n)) = n /\ Len(SubSeq(q, n + 1, Len(q))) = Len(q) - n
         /\ \A i \in 1..n : SubSeq(q, 1, n)[i] = q[i]
         /\ \A i \in 1..(Len(q) - n) : SubSeq(q, n + 1, Len(q))[i] = q[i + n]
         /\ Elements(q) = Elements(SubSeq(q, 1, n)) \cup Elements(SubSeq(q, n + 1, Len(q)))
<1> DEFINE l == SubSeq(q, 1, n)
           r == SubSeq(q, n + 1, Len(q))
<1>1. l \in Seq(S) /\ r \in Seq(S)
  OBVIOUS
<1>2. Len(l) = n /\ Len(r) = Len(q) - n
  OBVIOUS
<1>3. \A i \in 1..n : l[i] = q[i]
  OBVIOUS
<1>4. \A i \in 1..(Len(q) - n) : r[i] = q[i + n]
  OBVIOUS
<1> HIDE DEF l, r
<1>5. ASSUME NEW i \in DOMAIN q PROVE q[i] \in Elements(l) \cup Elements(r)
  <2>1. CASE i <= n
    BY <1>1, <1>2, <1>3, <2>1 DEF Elements
  <2>2. CASE i > n
    <3>1. i - n \in 1..(Len(q) - n)
      BY <2>2
    <3>2. q[i] = r[i - n] /\ i - n \in DOMAIN r
      BY <1>1, <1>2, <1>4, <3>1
    <3> QED
      BY <3>2 DEF Elements
  <2> QED
    BY <2>1, <2>2
<1>6. Elements(l) \subseteq Elements(q) /\ Elements(r) \subseteq Elements(q)
  <2>1. ASSUME NEW i \in DOMAIN l PROVE l[i] \in Elements(q)
    BY <1>1, <1>2, <1>3 DEF Elements
  <2>2. ASSUME NEW i \in DOMAIN r PROVE r[i] \in Elements(q)
    <3>1. i \in 1..(Len(q) - n)
      BY <1>1, <1>2
    <3>2. r[i] = q[i + n] /\ i + n \in DOMAIN q
      BY <1>4, <3>1
    <3> QED
      BY <3>2 DEF Elements
  <2> QED
    BY <2>1, <2>2 DEF Elements
<1>7. Elements(q) = Elements(l) \cup Elements(r)
  BY <1>5, <1>6 DEF Elements
<1> QED
  BY <1>1, <1>2, <1>3, <1>4, <1>7 DEF l, r
-----------------------------------------------------------------------------
(***************************************************************************)
(* The inductive invariant                                                 *)
(***************************************************************************)

MarkTypeOK ==
  /\ edges \in [Sections -> Seq(Ids)] /\ calls \in Seq(Seq(Ids))
  /\ call \in 0..Len(calls)
  /\ roots \in Seq(Ids)
  /\ bits \subseteq Sections
  /\ stack \in [Actors -> Seq(Sections)]
  /\ targets \in [Actors -> Seq(Ids)]
  /\ pc \in [Actors -> {"idle", "chunk", "pop", "test", "claim"}]
  /\ expanded \in [Sections -> Nat]

(* What an actor holds at each point of its program.  Between calls nobody *)
(* holds anything.                                                         *)
Control ==
  /\ pc[Main] # "pop" /\ \A t \in Tasks : pc[t] # "chunk"
  /\ \A a \in Actors :
       /\ pc[a] = "claim" => targets[a] # <<>> /\ Head(targets[a]) \in Sections
       /\ pc[a] \in {"idle", "chunk", "pop"} => targets[a] = <<>>
       /\ pc[a] \in {"idle", "chunk"} => stack[a] = <<>>
  /\ pc[Main] = "idle" => roots = <<>> /\ \A t \in Tasks : pc[t] = "idle"

Targeted(x) == \E a \in Actors : x \in Elements(targets[a])
Stacked(x) == \E a \in Actors : x \in Elements(stack[a])

(* What is marked, and what is about to be, is in every closed set. *)
OnlyReachable ==
  \A live \in SUBSET Sections : Closed(live) =>
    /\ bits \subseteq live
    /\ \A x \in Elements(roots) \cap Sections : x \in live
    /\ \A x \in Sections : Targeted(x) => x \in live

(* Nothing is forgotten: roots and targets of marked sections are marked,  *)
(* or still to be looked at, or the section still to be expanded.          *)
NothingForgotten ==
  /\ \A x \in RootSet : x \in bits \/ x \in Elements(roots) \/ Targeted(x)
  /\ \A s \in bits : \/ Stacked(s)
                      \/ \A x \in Elements(edges[s]) \cap Sections : x \in bits \/ Targeted(x)

(* A marked section is on one stack, in one place, or was expanded.        *)
OnePlace ==
  /\ \A a, b \in Actors : \A i \in DOMAIN stack[a], j \in DOMAIN stack[b] :
       stack[a][i] = stack[b][j] => a = b /\ i = j
  /\ \A s \in Sections :
       /\ Stacked(s) => s \in bits /\ expanded[s] = 0
       /\ s \notin bits => expanded[s] = 0
       /\ s \in bits /\ ~Stacked(s) => expanded[s] = 1

MarkInv == MarkTypeOK /\ Control /\ OnlyReachable /\ NothingForgotten /\ OnePlace

LEMMA InitMarkInv ==
  ASSUME GcAssumption, MarkInit
  PROVE  MarkInv
<1>1. MarkTypeOK
  BY DEF MarkInit, GcAssumption, MarkTypeOK
<1>2. (\A a \in Actors : Elements(targets[a]) = {} /\ Elements(stack[a]) = {}) /\ Elements(roots) = {}
  BY DEF MarkInit, Elements
<1>3. RootSet = {}
  BY DEF MarkInit, RootSet
<1>4. Control
  BY DEF MarkInit, Control, Actors, Main
<1> QED
  BY <1>1, <1>2, <1>3, <1>4
  DEF MarkInit, MarkInv, OnlyReachable, NothingForgotten, OnePlace, Targeted, Stacked

(* The sections that must be marked change only when a call begins.        *)
LEMMA SameGraph ==
  ASSUME UNCHANGED <<edges, calls, call>>
  PROVE  RootSet' = RootSet /\ \A live : Closed(live)' <=> Closed(live)
BY DEF RootSet, Closed, Elements

LEMMA MarkFromKeeps ==
  ASSUME GcAssumption, MarkInv, MarkFrom
  PROVE  MarkInv'
<1> USE DEF MarkInv
<1>0. /\ call + 1 \in 1..Len(calls) /\ call' = call + 1 /\ roots' = calls[call + 1]
      /\ pc' = [pc EXCEPT ![Main] = "chunk"] /\ roots = <<>>
      /\ UNCHANGED <<edges, calls, bits, stack, targets, expanded>>
  BY DEF MarkFrom, MarkTypeOK, Control
<1>1. MarkTypeOK'
  BY <1>0 DEF MarkTypeOK, Actors
<1>2. Control'
  BY <1>0 DEF MarkTypeOK, Control, Actors, Tasks, Main, MarkFrom
<1>3. RootSet' = RootSet \cup (Elements(roots') \cap Sections)
  <2>1. \A x : x \in RootSet <=> x \in Sections /\ \E i \in 1..call : x \in Elements(calls[i])
    BY DEF RootSet
  <2>2. \A x : x \in RootSet' <=> x \in Sections /\ \E i \in 1..(call + 1) : x \in Elements(calls[i])
    BY <1>0 DEF RootSet, Elements
  <2>3. 1..(call + 1) = 1..call \cup {call + 1}
    BY DEF MarkTypeOK
  <2>4. \A x : x \in RootSet' <=> x \in RootSet \/ (x \in Sections /\ x \in Elements(calls[call + 1]))
    BY <2>1, <2>2, <2>3
  <2>5. Elements(roots') = Elements(calls[call + 1])
    BY <1>0
  <2> QED
    BY <2>4, <2>5
<1>4. \A live : Closed(live)' => Closed(live) /\ Elements(roots') \cap Sections \subseteq live
  BY <1>0, <1>3 DEF Closed
<1>5. Elements(roots) = {}
  BY <1>0 DEF Elements
<1>6. \A x : (Targeted(x)' <=> Targeted(x)) /\ (Stacked(x)' <=> Stacked(x))
  BY <1>0 DEF Targeted, Stacked
<1>7. OnlyReachable'
  BY <1>0, <1>4, <1>6 DEF OnlyReachable
<1>8. NothingForgotten'
  BY <1>0, <1>3, <1>5, <1>6 DEF NothingForgotten
<1>9. OnePlace'
  BY <1>0, <1>6 DEF OnePlace
<1> QED
  BY <1>1, <1>2, <1>7, <1>8, <1>9

LEMMA NextChunkKeeps ==
  ASSUME GcAssumption, MarkInv, NextChunk
  PROVE  MarkInv'
<1> USE DEF MarkInv
<1> DEFINE n == IF Len(roots) < SplitThreshold THEN Len(roots) ELSE SplitThreshold
<1>0. n \in 0..Len(roots)
  BY DEF MarkTypeOK, GcAssumption
<1>1. /\ targets' = [targets EXCEPT ![Main] = SubSeq(roots, 1, n)]
      /\ roots' = SubSeq(roots, n + 1, Len(roots))
  BY DEF NextChunk
<1> HIDE DEF n
<1>2. /\ pc' = [pc EXCEPT ![Main] = "test"] /\ pc[Main] = "chunk"
      /\ UNCHANGED <<edges, calls, call, bits, stack, expanded>>
  BY DEF NextChunk
<1>3. /\ roots' \in Seq(Ids) /\ SubSeq(roots, 1, n) \in Seq(Ids)
      /\ Elements(roots) = Elements(SubSeq(roots, 1, n)) \cup Elements(roots')
  BY <1>0, <1>1, ElementsSplit DEF MarkTypeOK
<1>4. MarkTypeOK'
  BY <1>1, <1>2, <1>3 DEF MarkTypeOK, Actors
<1>5. Control'
  BY <1>1, <1>2 DEF MarkTypeOK, Control, Actors, Tasks, Main
<1>6. Elements(targets[Main]) = {}
  BY <1>2 DEF Control, Elements, Actors
<1>7. \A x : Targeted(x)' <=> Targeted(x) \/ x \in Elements(SubSeq(roots, 1, n))
  BY <1>1, <1>6 DEF Targeted, MarkTypeOK, Actors
<1>8. \A x : Stacked(x)' <=> Stacked(x)
  BY <1>2 DEF Stacked
<1>9. OnlyReachable'
  BY <1>2, <1>3, <1>7, SameGraph DEF OnlyReachable
<1>10. NothingForgotten'
  BY <1>2, <1>3, <1>7, <1>8, SameGraph DEF NothingForgotten
<1>11. OnePlace'
  BY <1>2, <1>8 DEF OnePlace
<1> QED
  BY <1>4, <1>5, <1>9, <1>10, <1>11

LEMMA TestKeeps ==
  ASSUME GcAssumption, MarkInv, NEW a \in Actors, Test(a)
  PROVE  MarkInv'
<1> USE DEF MarkInv
<1> DEFINE target == Head(targets[a])
<1>1. /\ pc[a] = "test" /\ targets[a] \in Seq(Ids) /\ targets[a] # <<>>
      /\ UNCHANGED <<edges, calls, call, roots, bits, stack, expanded>>
  BY DEF Test, MarkTypeOK
<1>2. /\ Tail(targets[a]) \in Seq(Ids)
      /\ Elements(targets[a]) = {target} \cup Elements(Tail(targets[a]))
  BY <1>1, ElementsTail
<1>3. \A x : Stacked(x)' <=> Stacked(x)
  BY <1>1 DEF Stacked
<1>4. OnePlace'
  BY <1>1, <1>3 DEF OnePlace
<1>5. CASE target \notin Sections \/ target \in bits
  <2>1. targets' = [targets EXCEPT ![a] = Tail(targets[a])] /\ pc' = pc
    BY <1>5 DEF Test
  <2>2. MarkTypeOK'
    BY <1>1, <1>2, <2>1 DEF MarkTypeOK
  <2>3. Control'
    BY <1>1, <2>1 DEF MarkTypeOK, Control, Actors
  <2>4. /\ \A x : Targeted(x)' => Targeted(x)
        /\ \A x \in Sections : Targeted(x) => Targeted(x)' \/ x \in bits
    BY <1>2, <1>5, <2>1 DEF Targeted, MarkTypeOK
  <2>5. OnlyReachable'
    BY <1>1, <2>4, SameGraph DEF OnlyReachable
  <2>6. NothingForgotten'
    <3>1. RootSet \subseteq Sections
      BY DEF RootSet
    <3> QED
      BY <1>1, <1>3, <2>4, <3>1, SameGraph DEF NothingForgotten
  <2> QED
    BY <1>4, <2>2, <2>3, <2>5, <2>6
<1>6. CASE target \in Sections /\ target \notin bits
  <2>1. targets' = targets /\ pc' = [pc EXCEPT ![a] = "claim"]
    BY <1>6 DEF Test
  <2>2. MarkTypeOK'
    BY <1>1, <2>1 DEF MarkTypeOK
  <2>3. Control'
    BY <1>1, <1>6, <2>1 DEF MarkTypeOK, Control, Actors
  <2>4. \A x : Targeted(x)' <=> Targeted(x)
    BY <2>1 DEF Targeted
  <2>5. OnlyReachable'
    BY <1>1, <2>4, SameGraph DEF OnlyReachable
  <2>6. NothingForgotten'
    BY <1>1, <1>3, <2>4, SameGraph DEF NothingForgotten
  <2> QED
    BY <1>4, <2>2, <2>3, <2>5, <2>6
<1> QED
  BY <1>5, <1>6

LEMMA ClaimKeeps ==
  ASSUME GcAssumption, MarkInv, NEW a \in Actors, Claim(a)
  PROVE  MarkInv'
<1> USE DEF MarkInv
<1> DEFINE target == Head(targets[a])
<1>1. /\ pc[a] = "claim" /\ targets[a] \in Seq(Ids) /\ targets[a] # <<>> /\ target \in Sections
      /\ bits' = bits \cup {target}
      /\ targets' = [targets EXCEPT ![a] = Tail(targets[a])]
      /\ pc' = [pc EXCEPT ![a] = "test"]
      /\ UNCHANGED <<edges, calls, call, roots, expanded>>
  BY DEF Claim, MarkTypeOK, Control
<1>2. /\ Tail(targets[a]) \in Seq(Ids)
      /\ Elements(targets[a]) = {target} \cup Elements(Tail(targets[a]))
  BY <1>1, ElementsTail
<1>3. stack' = IF target \in bits THEN stack
               ELSE [stack EXCEPT ![a] = Append(stack[a], target)]
  BY DEF Claim
<1> HIDE DEF target
<1>4. /\ Targeted(target)
      /\ \A x : Targeted(x)' => Targeted(x)
      /\ \A x : Targeted(x) => Targeted(x)' \/ x = target
  BY <1>1, <1>2 DEF Targeted, MarkTypeOK
<1>5. OnlyReachable'
  BY <1>1, <1>4, SameGraph DEF OnlyReachable
<1>6. MarkTypeOK'
  BY <1>1, <1>2, <1>3 DEF MarkTypeOK
<1>7. Control'
  BY <1>1, <1>3 DEF MarkTypeOK, Control, Actors, Tasks, Main
<1>8. CASE target \in bits
  <2>1. \A x : Stacked(x)' <=> Stacked(x)
    BY <1>3, <1>8 DEF Stacked
  <2>2. NothingForgotten'
    BY <1>1, <1>4, <1>8, <2>1, SameGraph DEF NothingForgotten
  <2>3. OnePlace'
    BY <1>1, <1>3, <1>8, <2>1 DEF OnePlace
  <2> QED
    BY <1>5, <1>6, <1>7, <2>2, <2>3
<1>9. CASE target \notin bits
  <2> DEFINE q == Append(stack[a], target)
  <2>1. /\ stack' = [stack EXCEPT ![a] = q] /\ stack \in [Actors -> Seq(Sections)]
        /\ Len(stack[a]) \in Nat /\ DOMAIN stack[a] = 1..Len(stack[a])
        /\ DOMAIN q = 1..(Len(stack[a]) + 1)
        /\ q[Len(stack[a]) + 1] = target
        /\ \A i \in 1..Len(stack[a]) : q[i] = stack[a][i]
    BY <1>1, <1>3, <1>9 DEF MarkTypeOK
  <2> HIDE DEF q
  <2>2. Elements(q) = Elements(stack[a]) \cup {target}
    <3>1. ASSUME NEW i \in DOMAIN q PROVE q[i] \in Elements(stack[a]) \cup {target}
      BY <2>1 DEF Elements
    <3>2. ASSUME NEW i \in DOMAIN stack[a] PROVE stack[a][i] \in Elements(q)
      BY <2>1 DEF Elements
    <3>3. target \in Elements(q)
      <4>1. Len(stack[a]) + 1 \in DOMAIN q
        BY <2>1
      <4> QED
        BY <2>1, <4>1 DEF Elements
    <3> QED
      BY <3>1, <3>2, <3>3 DEF Elements
  <2>3. \A x : Stacked(x)' <=> Stacked(x) \/ x = target
    BY <2>1, <2>2 DEF Stacked
  <2>4. ~Stacked(target)
    BY <1>1, <1>9 DEF OnePlace
  <2>5. NothingForgotten'
    BY <1>1, <1>4, <2>3, SameGraph DEF NothingForgotten
  <2>6. OnePlace'
    <3>1. \A b \in Actors : \A i \in DOMAIN stack[b] : stack[b][i] # target
      BY <2>4 DEF Stacked, Elements
    <3>2. ASSUME NEW b \in Actors, NEW c \in Actors, NEW i \in DOMAIN stack'[b],
                 NEW j \in DOMAIN stack'[c], stack'[b][i] = stack'[c][j]
          PROVE  b = c /\ i = j
      <4>1. \A d \in Actors : \A k \in DOMAIN stack'[d] :
              \/ k \in DOMAIN stack[d] /\ stack'[d][k] = stack[d][k]
              \/ d = a /\ k = Len(stack[a]) + 1 /\ stack'[d][k] = target
        BY <2>1
      <4> QED
        BY <3>1, <3>2, <4>1 DEF OnePlace
    <3>3. ASSUME NEW s \in Sections
          PROVE  /\ Stacked(s)' => s \in bits' /\ expanded'[s] = 0
                 /\ s \notin bits' => expanded'[s] = 0
                 /\ s \in bits' /\ ~Stacked(s)' => expanded'[s] = 1
      BY <1>1, <1>9, <2>3 DEF OnePlace
    <3> QED
      BY <3>2, <3>3 DEF OnePlace
  <2> QED
    BY <1>5, <1>6, <1>7, <2>5, <2>6
<1> QED
  BY <1>8, <1>9

(* Stacks may be moved and split among actors: the same sections, each in  *)
(* one place as before.                                                    *)
LEMMA MovedStacks ==
  ASSUME MarkInv, NEW a \in Actors, NEW b \in Actors, a # b, stack[b] = <<>>,
         NEW n \in 0..Len(stack[a]),
         stack' = [stack EXCEPT ![a] = SubSeq(stack[a], 1, n),
                                ![b] = SubSeq(stack[a], n + 1, Len(stack[a]))],
         UNCHANGED <<bits, expanded>>
  PROVE  /\ stack' \in [Actors -> Seq(Sections)]
         /\ \A x : Stacked(x)' <=> Stacked(x)
         /\ OnePlace'
<1> USE DEF MarkInv
<1> DEFINE l == SubSeq(stack[a], 1, n)
           r == SubSeq(stack[a], n + 1, Len(stack[a]))
<1>1. stack[a] \in Seq(Sections) /\ stack \in [Actors -> Seq(Sections)]
  BY DEF MarkTypeOK
<1>2. /\ l \in Seq(Sections) /\ r \in Seq(Sections)
      /\ Len(l) = n /\ Len(r) = Len(stack[a]) - n
      /\ \A i \in 1..n : l[i] = stack[a][i]
      /\ \A i \in 1..(Len(stack[a]) - n) : r[i] = stack[a][i + n]
      /\ Elements(stack[a]) = Elements(l) \cup Elements(r)
  BY <1>1, ElementsSplit
<1>3. /\ stack' = [stack EXCEPT ![a] = l, ![b] = r]
      /\ DOMAIN l = 1..n /\ DOMAIN r = 1..(Len(stack[a]) - n)
      /\ DOMAIN stack[a] = 1..Len(stack[a]) /\ Len(stack[a]) \in Nat
  BY <1>1, <1>2
<1> HIDE DEF l, r
<1>4. stack'[a] = l /\ stack'[b] = r /\ \A c \in Actors \ {a, b} : stack'[c] = stack[c]
  BY <1>1, <1>3
<1>5. \A x : Stacked(x)' <=> Stacked(x)
  <2>1. Elements(stack[b]) = {}
    BY DEF Elements
  <2> QED
    BY <1>2, <1>4, <2>1 DEF Stacked
<1>6. ASSUME NEW c \in Actors, NEW k \in DOMAIN stack'[c]
      PROVE  \/ c # a /\ c # b /\ k \in DOMAIN stack[c] /\ stack'[c][k] = stack[c][k]
             \/ c = a /\ k \in 1..n /\ k \in DOMAIN stack[a] /\ stack'[c][k] = stack[a][k]
             \/ c = b /\ k + n \in DOMAIN stack[a] /\ k \in Nat \ {0} /\ stack'[c][k] = stack[a][k + n]
  <2>1. CASE c = a
    BY <1>2, <1>3, <1>4, <2>1
  <2>2. CASE c = b
    <3>1. k \in 1..(Len(stack[a]) - n) /\ stack'[c][k] = r[k]
      BY <1>3, <1>4, <2>2
    <3>2. k + n \in 1..Len(stack[a]) /\ k \in Nat \ {0}
      BY <1>3, <3>1
    <3> QED
      BY <1>2, <1>3, <2>2, <3>1, <3>2
  <2>3. CASE c # a /\ c # b
    BY <1>4, <2>3
  <2> QED
    BY <2>1, <2>2, <2>3
<1>7. ASSUME NEW c \in Actors, NEW d \in Actors, NEW i \in DOMAIN stack'[c],
             NEW j \in DOMAIN stack'[d], stack'[c][i] = stack'[d][j]
      PROVE  c = d /\ i = j
  <2>1. \A e, f \in Actors : \A k \in DOMAIN stack[e], m \in DOMAIN stack[f] :
          stack[e][k] = stack[f][m] => e = f /\ k = m
    BY DEF OnePlace
  <2>2. \/ c # a /\ c # b /\ i \in DOMAIN stack[c] /\ stack'[c][i] = stack[c][i]
        \/ c = a /\ i \in 1..n /\ i \in DOMAIN stack[a] /\ stack'[c][i] = stack[a][i]
        \/ c = b /\ i + n \in DOMAIN stack[a] /\ i \in Nat \ {0} /\ stack'[c][i] = stack[a][i + n]
    BY <1>6
  <2>3. \/ d # a /\ d # b /\ j \in DOMAIN stack[d] /\ stack'[d][j] = stack[d][j]
        \/ d = a /\ j \in 1..n /\ j \in DOMAIN stack[a] /\ stack'[d][j] = stack[a][j]
        \/ d = b /\ j + n \in DOMAIN stack[a] /\ j \in Nat \ {0} /\ stack'[d][j] = stack[a][j + n]
    BY <1>6
  <2>4. CASE c # a /\ c # b
    BY <1>7, <2>1, <2>2, <2>3, <2>4
  <2>5. CASE c = a
    <3>1. i \in 1..n /\ i \in DOMAIN stack[a] /\ stack'[c][i] = stack[a][i]
      BY <2>2, <2>5
    <3>2. CASE d = b
      <4>1. j + n \in DOMAIN stack[a] /\ j \in Nat \ {0} /\ stack'[d][j] = stack[a][j + n]
        BY <2>3, <3>2
      <4>2. i = j + n
        BY <1>7, <2>1, <3>1, <4>1
      <4> QED
        BY <3>1, <4>1, <4>2
    <3> QED
      BY <1>7, <2>1, <2>3, <2>5, <3>1, <3>2
  <2>6. CASE c = b
    <3>1. i + n \in DOMAIN stack[a] /\ i \in Nat \ {0} /\ stack'[c][i] = stack[a][i + n]
      BY <2>2, <2>6
    <3>2. CASE d = a
      <4>1. j \in 1..n /\ j \in DOMAIN stack[a] /\ stack'[d][j] = stack[a][j]
        BY <2>3, <3>2
      <4>2. i + n = j
        BY <1>7, <2>1, <3>1, <4>1
      <4> QED
        BY <3>1, <4>1, <4>2
    <3>3. CASE d = b
      <4>1. j + n \in DOMAIN stack[a] /\ j \in Nat \ {0} /\ stack'[d][j] = stack[a][j + n]
        BY <2>3, <3>3
      <4>2. i + n = j + n
        BY <1>7, <2>1, <3>1, <4>1
      <4> QED
        BY <2>6, <3>1, <3>3, <4>1, <4>2
    <3>4. CASE d # a /\ d # b
      BY <1>7, <2>1, <2>3, <3>1, <3>4
    <3> QED
      BY <3>2, <3>3, <3>4
  <2> QED
    BY <2>4, <2>5, <2>6
<1>8. stack' \in [Actors -> Seq(Sections)]
  BY <1>1, <1>2, <1>3
<1> QED
  BY <1>5, <1>7, <1>8 DEF OnePlace

LEMMA SpawnChunkKeeps ==
  ASSUME GcAssumption, MarkInv, SpawnChunk
  PROVE  MarkInv'
<1> USE DEF MarkInv
<1>1. /\ pc[Main] = "test" /\ targets[Main] = <<>> /\ stack[Main] \in Seq(Sections)
      /\ UNCHANGED <<edges, calls, call, roots, bits, targets, expanded>>
  BY DEF SpawnChunk, MarkTypeOK, Actors
<1>2. \A x : Targeted(x)' <=> Targeted(x)
  BY <1>1 DEF Targeted
<1>3. OnlyReachable'
  BY <1>1, <1>2, SameGraph DEF OnlyReachable
<1>4. CASE stack[Main] = <<>>
  <2>1. pc' = [pc EXCEPT ![Main] = "chunk"] /\ stack' = stack
    BY <1>4 DEF SpawnChunk
  <2>2. MarkTypeOK' /\ Control'
    BY <1>1, <1>4, <2>1 DEF MarkTypeOK, Control, Actors, Tasks, Main
  <2>3. \A x : Stacked(x)' <=> Stacked(x)
    BY <2>1 DEF Stacked
  <2>4. NothingForgotten' /\ OnePlace'
    BY <1>1, <1>2, <2>1, <2>3, SameGraph DEF NothingForgotten, OnePlace
  <2> QED
    BY <1>3, <2>2, <2>4
<1>5. CASE stack[Main] # <<>>
  <2>1. PICK t \in Tasks :
          /\ Spawn(t)
          /\ stack' = [stack EXCEPT ![t] = stack[Main], ![Main] = <<>>]
          /\ pc' = [pc EXCEPT ![t] = "pop", ![Main] = "chunk"]
    BY <1>5 DEF SpawnChunk
  <2>2. t \in Actors /\ Main \in Actors /\ t # Main /\ pc[t] = "idle"
    BY <2>1 DEF Actors, Tasks, Main, Spawn, Idle
  <2>3. stack[t] = <<>> /\ targets[t] = <<>>
    BY <2>2 DEF Control
  <2>4. SubSeq(stack[Main], 1, 0) = <<>> /\ SubSeq(stack[Main], 1, Len(stack[Main])) = stack[Main]
    BY <1>1
  <2>5. stack' = [stack EXCEPT ![Main] = SubSeq(stack[Main], 1, 0),
                               ![t] = SubSeq(stack[Main], 0 + 1, Len(stack[Main]))]
    <3>1. DOMAIN stack = Actors
      BY DEF MarkTypeOK
    <3>2. 0 + 1 = 1
      OBVIOUS
    <3> QED
      BY <2>1, <2>2, <2>4, <3>1, <3>2
  <2>6. 0 \in 0..Len(stack[Main])
    BY <1>1
  <2>7. /\ stack' \in [Actors -> Seq(Sections)]
        /\ \A x : Stacked(x)' <=> Stacked(x)
        /\ OnePlace'
    BY <1>1, <2>2, <2>3, <2>5, <2>6, MovedStacks
  <2>8. MarkTypeOK'
    BY <1>1, <2>1, <2>2, <2>7 DEF MarkTypeOK
  <2>9. Control'
    <3>1. stack'[Main] = <<>> /\ \A a \in Actors \ {Main, t} : stack'[a] = stack[a]
      BY <2>1, <2>2 DEF MarkTypeOK
    <3>2. pc'[Main] = "chunk" /\ pc'[t] = "pop" /\ \A a \in Actors \ {Main, t} : pc'[a] = pc[a]
      BY <2>1, <2>2 DEF MarkTypeOK
    <3>3. \A a \in Actors :
            /\ pc'[a] = "claim" => targets'[a] # <<>> /\ Head(targets'[a]) \in Sections
            /\ pc'[a] \in {"idle", "chunk", "pop"} => targets'[a] = <<>>
            /\ pc'[a] \in {"idle", "chunk"} => stack'[a] = <<>>
      BY <1>1, <2>2, <2>3, <3>1, <3>2 DEF Control
    <3>4. \A u \in Tasks : pc'[u] # "chunk"
      <4>1. \A u \in Tasks : u \in Actors /\ u # Main
        BY DEF Actors, Tasks, Main
      <4>2. \A u \in Tasks : pc[u] # "chunk"
        BY DEF Control
      <4> QED
        BY <3>2, <4>1, <4>2
    <3> QED
      BY <3>2, <3>3, <3>4 DEF Control
  <2>10. NothingForgotten'
    BY <1>1, <1>2, <2>7, SameGraph DEF NothingForgotten
  <2> QED
    BY <1>3, <2>7, <2>8, <2>9, <2>10
<1> QED
  BY <1>4, <1>5

LEMMA ScopeEndKeeps ==
  ASSUME MarkInv, ScopeEnd
  PROVE  MarkInv'
<1> USE DEF MarkInv
<1>1. /\ UNCHANGED <<edges, calls, call, roots, bits, stack, targets, expanded>>
      /\ pc' = [pc EXCEPT ![Main] = "idle"] /\ roots = <<>> /\ pc[Main] = "chunk"
      /\ \A t \in Tasks : pc[t] = "idle"
  BY DEF ScopeEnd, Idle
<1>2. \A x : (Targeted(x)' <=> Targeted(x)) /\ (Stacked(x)' <=> Stacked(x))
  BY <1>1 DEF Targeted, Stacked
<1>3. MarkTypeOK' /\ Control'
  BY <1>1 DEF MarkTypeOK, Control, Actors, Tasks, Main
<1>4. OnlyReachable' /\ NothingForgotten'
  BY <1>1, <1>2, SameGraph DEF OnlyReachable, NothingForgotten
<1>5. OnePlace'
  BY <1>1, <1>2 DEF OnePlace
<1> QED
  BY <1>3, <1>4, <1>5

LEMMA ExpandedKeeps ==
  ASSUME GcAssumption, MarkInv, NEW t \in Tasks, Expanded(t)
  PROVE  MarkInv'
<1> USE DEF MarkInv
<1>1. /\ pc[t] = "test" /\ targets[t] = <<>> /\ t \in Actors /\ t # Main
      /\ stack[t] \in Seq(Sections)
      /\ UNCHANGED <<edges, calls, call, roots, bits, targets, expanded>>
  BY DEF Expanded, MarkTypeOK, Actors, Tasks, Main
<1>2. \A x : Targeted(x)' <=> Targeted(x)
  BY <1>1 DEF Targeted
<1>3. OnlyReachable'
  BY <1>1, <1>2, SameGraph DEF OnlyReachable
<1>4. CASE ~(Len(stack[t]) > SplitThreshold)
  <2>1. pc' = [pc EXCEPT ![t] = "pop"] /\ stack' = stack
    BY <1>4 DEF Expanded
  <2>2. MarkTypeOK' /\ Control'
    BY <1>1, <2>1 DEF MarkTypeOK, Control, Actors
  <2>3. \A x : Stacked(x)' <=> Stacked(x)
    BY <2>1 DEF Stacked
  <2>4. NothingForgotten' /\ OnePlace'
    BY <1>1, <1>2, <2>1, <2>3, SameGraph DEF NothingForgotten, OnePlace
  <2> QED
    BY <1>3, <2>2, <2>4
<1>5. CASE Len(stack[t]) > SplitThreshold
  <2> DEFINE keep == Len(stack[t]) \div 2
  <2>1. PICK u \in Tasks :
          /\ Spawn(u)
          /\ stack' = [stack EXCEPT ![t] = SubSeq(stack[t], 1, keep),
                                    ![u] = SubSeq(stack[t], keep + 1, Len(stack[t]))]
          /\ pc' = [pc EXCEPT ![t] = "pop", ![u] = "pop"]
    BY <1>5 DEF Expanded
  <2>2. u \in Actors /\ u # Main /\ u # t /\ pc[u] = "idle"
    BY <1>1, <2>1 DEF Actors, Tasks, Main, Spawn, Idle
  <2>3. stack[u] = <<>> /\ targets[u] = <<>>
    BY <2>2 DEF Control
  <2>4. keep \in 0..Len(stack[t])
    <3>1. Len(stack[t]) \in Nat
      BY <1>1
    <3>2. \A k \in Nat : k \div 2 \in 0..k
      OBVIOUS
    <3> QED
      BY <3>1, <3>2
  <2> HIDE DEF keep
  <2>5. /\ stack' \in [Actors -> Seq(Sections)]
        /\ \A x : Stacked(x)' <=> Stacked(x)
        /\ OnePlace'
    BY <1>1, <2>1, <2>2, <2>3, <2>4, MovedStacks
  <2>6. MarkTypeOK'
    BY <1>1, <2>1, <2>2, <2>5 DEF MarkTypeOK
  <2>7. Control'
    BY <1>1, <2>1, <2>2, <2>3 DEF MarkTypeOK, Control, Actors
  <2>8. NothingForgotten'
    BY <1>1, <1>2, <2>5, SameGraph DEF NothingForgotten
  <2> QED
    BY <1>3, <2>5, <2>6, <2>7, <2>8
<1> QED
  BY <1>4, <1>5

LEMMA PopKeeps ==
  ASSUME GcAssumption, MarkInv, NEW t \in Tasks, Pop(t)
  PROVE  MarkInv'
<1> USE DEF MarkInv
<1>1. /\ pc[t] = "pop" /\ targets[t] = <<>> /\ t \in Actors /\ t # Main
      /\ stack[t] \in Seq(Sections)
      /\ UNCHANGED <<edges, calls, call, roots, bits>>
  BY DEF Pop, MarkTypeOK, Control, Actors, Tasks, Main
<1>2. CASE stack[t] = <<>>
  <2>1. pc' = [pc EXCEPT ![t] = "idle"] /\ UNCHANGED <<stack, targets, expanded>>
    BY <1>2 DEF Pop
  <2>2. MarkTypeOK' /\ Control'
    BY <1>1, <1>2, <2>1 DEF MarkTypeOK, Control, Actors
  <2>3. \A x : (Targeted(x)' <=> Targeted(x)) /\ (Stacked(x)' <=> Stacked(x))
    BY <2>1 DEF Targeted, Stacked
  <2>4. OnlyReachable' /\ NothingForgotten'
    BY <1>1, <2>3, SameGraph DEF OnlyReachable, NothingForgotten
  <2>5. OnePlace'
    BY <1>1, <2>1, <2>3 DEF OnePlace
  <2> QED
    BY <2>2, <2>4, <2>5
<1>3. CASE stack[t] # <<>>
  <2> DEFINE m == Len(stack[t])
             q == SubSeq(stack[t], 1, m - 1)
  <2>0. PICK section : section = stack[t][m]
    OBVIOUS
  <2>1. /\ stack' = [stack EXCEPT ![t] = q]
        /\ targets' = [targets EXCEPT ![t] = edges[section]]
        /\ expanded' = [expanded EXCEPT ![section] = @ + 1]
        /\ pc' = [pc EXCEPT ![t] = "test"]
    BY <1>3, <2>0 DEF Pop
  <2>2. /\ m \in Nat \ {0} /\ m \in DOMAIN stack[t] /\ DOMAIN stack[t] = 1..m
        /\ section \in Sections /\ q \in Seq(Sections)
        /\ DOMAIN q = 1..(m - 1) /\ \A i \in 1..(m - 1) : q[i] = stack[t][i]
    BY <1>1, <1>3, <2>0
  <2> HIDE DEF q, m
  <2>3. stack'[t] = q /\ \A c \in Actors \ {t} : stack'[c] = stack[c]
    BY <1>1, <2>1 DEF MarkTypeOK
  <2>4. \A c \in Actors : \A k \in DOMAIN stack'[c] :
          k \in DOMAIN stack[c] /\ stack'[c][k] = stack[c][k]
    BY <2>2, <2>3
  <2>5. Stacked(section) /\ section \in bits /\ expanded[section] = 0
    <3>1. section \in Elements(stack[t])
      BY <2>0, <2>2 DEF Elements
    <3> QED
      BY <1>1, <2>2, <3>1 DEF Stacked, OnePlace
  <2>6. ~Stacked(section)'
    <3>1. ASSUME NEW c \in Actors, NEW k \in DOMAIN stack'[c], stack'[c][k] = section
          PROVE  FALSE
      <4>1. k \in DOMAIN stack[c] /\ stack[c][k] = stack[t][m]
        BY <2>0, <2>4, <3>1
      <4>2. c = t /\ k = m
        BY <1>1, <2>2, <4>1 DEF OnePlace
      <4>3. k \in 1..(m - 1)
        BY <2>2, <2>3, <3>1, <4>2
      <4> QED
        BY <2>2, <4>2, <4>3
    <3> QED
      BY <3>1 DEF Stacked, Elements
  <2>7. \A x : Stacked(x) <=> Stacked(x)' \/ x = section
    <3>1. ASSUME NEW x, NEW c \in Actors, NEW k \in DOMAIN stack[c], stack[c][k] = x
          PROVE  x = section \/ Stacked(x)'
      <4>1. CASE c = t /\ k = m
        BY <2>0, <3>1, <4>1
      <4>2. CASE c = t /\ k # m
        <5>1. k \in 1..(m - 1) /\ k \in DOMAIN stack'[t] /\ stack'[t][k] = stack[t][k]
          BY <2>2, <2>3, <4>2
        <5>2. x \in Elements(stack'[t])
          BY <3>1, <4>2, <5>1 DEF Elements
        <5> QED
          BY <1>1, <4>2, <5>2 DEF Stacked
      <4>3. CASE c # t
        <5>1. x \in Elements(stack'[c])
          BY <2>3, <3>1, <4>3 DEF Elements
        <5> QED
          BY <5>1 DEF Stacked
      <4> QED
        BY <4>1, <4>2, <4>3
    <3>2. \A x : Stacked(x) => Stacked(x)' \/ x = section
      BY <3>1 DEF Stacked, Elements
    <3>3. \A x : Stacked(x)' => Stacked(x)
      BY <2>4 DEF Stacked, Elements
    <3> QED
      BY <2>5, <3>2, <3>3
  <2>8. Elements(targets[t]) = {}
    BY <1>1 DEF Elements
  <2>9. \A x : Targeted(x)' <=> Targeted(x) \/ x \in Elements(edges[section])
    BY <1>1, <2>1, <2>8 DEF Targeted, MarkTypeOK
  <2>10. MarkTypeOK'
    BY <1>1, <2>1, <2>2 DEF MarkTypeOK
  <2>11. Control'
    BY <1>1, <2>1 DEF MarkTypeOK, Control, Actors
  <2>12. OnlyReachable'
    BY <1>1, <2>5, <2>9, SameGraph DEF OnlyReachable, Closed
  <2>13. NothingForgotten'
    BY <1>1, <2>7, <2>9, SameGraph DEF NothingForgotten
  <2>14. OnePlace'
    <3>1. \A c, d \in Actors : \A i \in DOMAIN stack'[c], j \in DOMAIN stack'[d] :
            stack'[c][i] = stack'[d][j] => c = d /\ i = j
      BY <2>4 DEF OnePlace
    <3>2. ASSUME NEW s \in Sections
          PROVE  /\ Stacked(s)' => s \in bits' /\ expanded'[s] = 0
                 /\ s \notin bits' => expanded'[s] = 0
                 /\ s \in bits' /\ ~Stacked(s)' => expanded'[s] = 1
      <4>1. expanded'[s] = IF s = section THEN 1 ELSE expanded[s]
        BY <2>1, <2>2, <2>5 DEF MarkTypeOK
      <4> QED
        BY <1>1, <2>5, <2>6, <2>7, <4>1 DEF OnePlace
    <3> QED
      BY <3>1, <3>2 DEF OnePlace
  <2> QED
    BY <2>10, <2>11, <2>12, <2>13, <2>14
<1> QED
  BY <1>2, <1>3

LEMMA StutterKeeps ==
  ASSUME MarkInv, UNCHANGED markVars
  PROVE  MarkInv'
<1> USE DEF MarkInv, markVars
<1>1. \A x : (Targeted(x)' <=> Targeted(x)) /\ (Stacked(x)' <=> Stacked(x))
  BY DEF Targeted, Stacked
<1>2. MarkTypeOK' /\ Control'
  BY DEF MarkTypeOK, Control
<1>3. OnlyReachable' /\ NothingForgotten'
  BY <1>1, SameGraph DEF OnlyReachable, NothingForgotten
<1>4. OnePlace'
  BY <1>1 DEF OnePlace
<1> QED
  BY <1>2, <1>3, <1>4

-----------------------------------------------------------------------------
(***************************************************************************)
(* The theorems                                                            *)
(***************************************************************************)

(* MarkInv is an invariant of mark_from: what every actor holds, that only *)
(* reachable sections are marked, that nothing reachable is forgotten, and *)
(* that a claimed section is in one place.                                 *)
THEOREM GcMarkInvariant == MarkSpec => []MarkInv
<1>1. MarkInit => MarkInv
  BY InitMarkInv, GcAssumption
<1>2. MarkInv /\ [MarkNext]_markVars => MarkInv'
  <2> SUFFICES ASSUME MarkInv, [MarkNext]_markVars PROVE MarkInv'
    OBVIOUS
  <2>1. CASE MarkFrom
    BY <2>1, MarkFromKeeps, GcAssumption
  <2>2. CASE NextChunk
    BY <2>2, NextChunkKeeps, GcAssumption
  <2>3. ASSUME NEW a \in Actors, Test(a) PROVE MarkInv'
    BY <2>3, TestKeeps, GcAssumption
  <2>4. ASSUME NEW a \in Actors, Claim(a) PROVE MarkInv'
    BY <2>4, ClaimKeeps, GcAssumption
  <2>5. CASE SpawnChunk
    BY <2>5, SpawnChunkKeeps, GcAssumption
  <2>6. CASE ScopeEnd
    BY <2>6, ScopeEndKeeps
  <2>7. ASSUME NEW t \in Tasks, Pop(t) PROVE MarkInv'
    BY <2>7, PopKeeps, GcAssumption
  <2>8. ASSUME NEW t \in Tasks, Expanded(t) PROVE MarkInv'
    BY <2>8, ExpandedKeeps, GcAssumption
  <2>9. CASE UNCHANGED markVars
    BY <2>9, StutterKeeps
  <2> QED
    BY <2>1, <2>2, <2>3, <2>4, <2>5, <2>6, <2>7, <2>8, <2>9 DEF MarkNext, MarkEnded
<1> QED
  BY <1>1, <1>2, PTL DEF MarkSpec

LEMMA MarkInvIsExact ==
  ASSUME MarkInv
  PROVE  MarkIsExact
<1> SUFFICES ASSUME pc[Main] = "idle" PROVE bits = Reachable
  BY DEF MarkIsExact
<1> USE DEF MarkInv
<1>1. \A a \in Actors : targets[a] = <<>> /\ stack[a] = <<>>
  BY DEF Control, Actors
<1>2. \A x : ~Targeted(x) /\ ~Stacked(x) /\ x \notin Elements(roots)
  BY <1>1 DEF Control, Targeted, Stacked, Elements
<1>3. bits \in SUBSET Sections /\ Closed(bits)
  BY <1>2 DEF MarkTypeOK, NothingForgotten, Closed
<1>4. ASSUME NEW s \in Sections PROVE s \in bits <=> s \in Reachable
  BY <1>3 DEF Reachable, OnlyReachable
<1> QED
  BY <1>3, <1>4 DEF Reachable

LEMMA MarkInvExpandedOnce ==
  ASSUME MarkInv
  PROVE  ExpandedOnce
<1> DEFINE places == UNION {{<<a, i>> : i \in DOMAIN stack[a]} : a \in Actors}
<1> SUFFICES ASSUME NEW s \in Sections
             PROVE  expanded[s] + Cardinality({p \in places : stack[p[1]][p[2]] = s})
                      = IF s \in bits THEN 1 ELSE 0
  BY DEF ExpandedOnce
<1> USE DEF MarkInv
<1> DEFINE of == {p \in places : stack[p[1]][p[2]] = s}
<1>1. ASSUME NEW p \in of
      PROVE  \E a \in Actors : \E i \in DOMAIN stack[a] : p = <<a, i>> /\ stack[a][i] = s
  OBVIOUS
<1>2. ASSUME NEW a \in Actors, NEW i \in DOMAIN stack[a], stack[a][i] = s
      PROVE  <<a, i>> \in of
  BY <1>2
<1> HIDE DEF of
<1>3. CASE Stacked(s)
  <2>1. PICK a \in Actors : \E i \in DOMAIN stack[a] : stack[a][i] = s
    BY <1>3 DEF Stacked, Elements
  <2>2. PICK i \in DOMAIN stack[a] : stack[a][i] = s
    BY <2>1
  <2>3. \A b \in Actors : \A j \in DOMAIN stack[b] : stack[b][j] = s => b = a /\ j = i
    BY <2>2 DEF OnePlace
  <2>4. of = {<<a, i>>}
    BY <1>1, <1>2, <2>2, <2>3
  <2>5. Cardinality(of) = 1
    BY <2>4, FS_Singleton
  <2>6. s \in bits /\ expanded[s] = 0
    BY <1>3 DEF OnePlace
  <2> QED
    BY <2>5, <2>6 DEF of
<1>4. CASE ~Stacked(s)
  <2>1. of = {}
    BY <1>1, <1>4 DEF Stacked, Elements
  <2>2. Cardinality(of) = 0
    BY <2>1, FS_EmptySet
  <2>3. expanded[s] = IF s \in bits THEN 1 ELSE 0
    BY <1>4 DEF OnePlace
  <2> QED
    BY <2>2, <2>3 DEF of
<1> QED
  BY <1>3, <1>4

(* When a call of mark_from returns, exactly the sections reachable from   *)
(* the roots of all calls are marked, and no section was ever claimed or   *)
(* expanded twice: the plain load and the fetch_or of AtomicBitSet::set    *)
(* race, tasks split their stacks, and the result depends on neither.      *)
THEOREM GcMarkSound == MarkSpec => []MarkSound
<1>1. MarkInv => MarkSound
  BY MarkInvIsExact, MarkInvExpandedOnce DEF MarkSound
<1> QED
  BY <1>1, GcMarkInvariant, PTL
=============================================================================
