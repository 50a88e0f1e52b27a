------------------------------- MODULE GcMark -------------------------------
(***************************************************************************)
(* The parallel mark of garbage collection: GcMarker::mark_from and        *)
(* mark_reachable on the atomic bitset.                                    *)
(*                                                                         *)
(* Actor 0 is the body of the rayon scope, which claims the roots chunk by *)
(* chunk; the others are mark tasks.  An actor takes the next target, tests *)
(* its mark bit with a plain load and, if it looked clear, claims it with  *)
(* fetch_or; the sections it claimed go on its own stack.  A task with     *)
(* too long a stack hands the top half to a new task.                      *)
(***************************************************************************)
EXTENDS Integers, Sequences, FiniteSets

CONSTANTS
  NumSections,     \* sections are 1..NumSections; larger numbers are out of range
  MaxSection,      \* the largest section number an edge or a root can name
  SplitThreshold,  \* a task hands off half its stack once it is longer
  Graphs           \* the [edges, calls] to mark: the edges of each section and
                   \* the roots of each successive call of mark_from

Sections == 1..NumSections
Ids == 1..MaxSection

ASSUME GcAssumption ==
  /\ NumSections \in Nat /\ MaxSection \in Nat /\ SplitThreshold \in Nat \ {0}
  /\ \A graph \in Graphs :
       /\ graph.edges \in [Sections -> Seq(Ids)]
       /\ graph.calls \in Seq(Seq(Ids))

(* Every running task holds a section nobody else holds, so this many      *)
(* tasks at most run at the same time.                                     *)
Tasks == 1..NumSections
Main == 0
Actors == Tasks \cup {Main}

VARIABLES
  edges,    \* edges[s]: the targets of section s
  calls,    \* the calls of mark_from: the roots of each
  call,     \* the call under way
  roots,    \* roots of this call that are in no chunk yet
  bits,     \* the marked sections
  stack,    \* stack[a]: sections claimed and not expanded yet
  targets,  \* targets[a]: the targets (or roots of the chunk) left to claim
  pc,       \* what each actor does next
  expanded  \* expanded[s]: how often the edges of s were enumerated

markVars == <<edges, calls, call, roots, bits, stack, targets, pc, expanded>>

Elements(seq) == {seq[i] : i \in DOMAIN seq}

MarkInit ==
  /\ \E graph \in Graphs : edges = graph.edges /\ calls = graph.calls
  /\ call = 0
  /\ roots = <<>>
  /\ bits = {}
  /\ stack = [a \in Actors |-> <<>>]
  /\ targets = [a \in Actors |-> <<>>]
  /\ pc = [a \in Actors |-> "idle"]
  /\ expanded = [s \in Sections |-> 0]

Idle == {t \in Tasks : pc[t] = "idle"}

(* scope.spawn: the task gets a name no running task has. *)
Spawn(t) == t \in Idle /\ \A u \in Idle : t <= u

-----------------------------------------------------------------------------
(* mark_from is called with the next list of roots. *)
MarkFrom ==
  /\ pc[Main] = "idle"
  /\ call < Len(calls)
  /\ call' = call + 1
  /\ roots' = calls[call + 1]
  /\ pc' = [pc EXCEPT ![Main] = "chunk"]
  /\ UNCHANGED <<edges, calls, bits, stack, targets, expanded>>

(* The scope body takes the next chunk of roots. *)
NextChunk ==
  /\ pc[Main] = "chunk"
  /\ roots # <<>>
  /\ LET n == IF Len(roots) < SplitThreshold THEN Len(roots) ELSE SplitThreshold
     IN /\ targets' = [targets EXCEPT ![Main] = SubSeq(roots, 1, n)]
        /\ roots' = SubSeq(roots, n + 1, Len(roots))
  /\ pc' = [pc EXCEPT ![Main] = "test"]
  /\ UNCHANGED <<edges, calls, call, bits, stack, expanded>>

(* AtomicBitSet::set, the plain load: out of range or marked, skip. *)
Test(a) ==
  /\ pc[a] = "test"
  /\ targets[a] # <<>>
  /\ LET target == Head(targets[a])
     IN IF target \notin Sections \/ target \in bits
          THEN /\ targets' = [targets EXCEPT ![a] = Tail(@)]
               /\ UNCHANGED pc
          ELSE /\ pc' = [pc EXCEPT ![a] = "claim"]
               /\ UNCHANGED targets
  /\ UNCHANGED <<edges, calls, call, roots, bits, stack, expanded>>

\* Slip: the result of fetch_or is not looked at.
ClaimAlways(a) ==
  /\ pc[a] = "claim"
  /\ bits' = bits \cup {Head(targets[a])}
  /\ stack' = [stack EXCEPT ![a] = Append(@, Head(targets[a]))]
  /\ targets' = [targets EXCEPT ![a] = Tail(@)]
  /\ pc' = [pc EXCEPT ![a] = "test"]
  /\ UNCHANGED <<edges, calls, call, roots, expanded>>

(* AtomicBitSet::set, the fetch_or: whoever sets the bit pushes the section. *)
Claim(a) ==
  /\ pc[a] = "claim"
  /\ LET target == Head(targets[a])
     IN /\ bits' = bits \cup {target}
        /\ stack' = IF target \in bits THEN stack
                    ELSE [stack EXCEPT ![a] = Append(@, target)]
  /\ targets' = [targets EXCEPT ![a] = Tail(@)]
  /\ pc' = [pc EXCEPT ![a] = "test"]
  /\ UNCHANGED <<edges, calls, call, roots, expanded>>

(* The chunk is filtered: spawn a task for the roots it won, if any. *)
SpawnChunk ==
  /\ pc[Main] = "test"
  /\ targets[Main] = <<>>
  /\ IF stack[Main] = <<>>
       THEN pc' = [pc EXCEPT ![Main] = "chunk"] /\ UNCHANGED stack
       ELSE \E t \in Tasks :
              /\ Spawn(t)
              /\ stack' = [stack EXCEPT ![t] = stack[Main], ![Main] = <<>>]
              /\ pc' = [pc EXCEPT ![t] = "pop", ![Main] = "chunk"]
  /\ UNCHANGED <<edges, calls, call, roots, bits, targets, expanded>>

(* The scope ends when its body and every task have ended. *)
ScopeEnd ==
  /\ pc[Main] = "chunk"
  /\ roots = <<>>
  /\ Idle = Tasks
  /\ pc' = [pc EXCEPT ![Main] = "idle"]
  /\ UNCHANGED <<edges, calls, call, roots, bits, stack, targets, expanded>>

\* Slip: a task with an empty stack waits for more instead of ending.
PopOrWait(t) ==
  /\ pc[t] = "pop"
  /\ stack[t] # <<>>
  /\ LET section == stack[t][Len(stack[t])]
     IN /\ stack' = [stack EXCEPT ![t] = SubSeq(@, 1, Len(@) - 1)]
        /\ targets' = [targets EXCEPT ![t] = edges[section]]
        /\ expanded' = [expanded EXCEPT ![section] = @ + 1]
        /\ pc' = [pc EXCEPT ![t] = "test"]
  /\ UNCHANGED <<edges, calls, call, roots, bits>>

(* A task pops a section and enumerates its edges, or ends. *)
Pop(t) ==
  /\ pc[t] = "pop"
  /\ IF stack[t] = <<>>
       THEN /\ pc' = [pc EXCEPT ![t] = "idle"]
            /\ UNCHANGED <<stack, targets, expanded>>
       ELSE LET section == stack[t][Len(stack[t])]
            IN /\ stack' = [stack EXCEPT ![t] = SubSeq(@, 1, Len(@) - 1)]
               /\ targets' = [targets EXCEPT ![t] = edges[section]]
               /\ expanded' = [expanded EXCEPT ![section] = @ + 1]
               /\ pc' = [pc EXCEPT ![t] = "test"]
  /\ UNCHANGED <<edges, calls, call, roots, bits>>

(* Every target is claimed: a long stack is split, the upper half going to *)
(* a new task.                                                             *)
Expanded(t) ==
  /\ pc[t] = "test"
  /\ targets[t] = <<>>
  /\ IF Len(stack[t]) > SplitThreshold
       THEN LET keep == Len(stack[t]) \div 2
            IN \E u \in Tasks :
                 /\ Spawn(u)
                 /\ stack' = [stack EXCEPT
                       ![t] = SubSeq(stack[t], 1, keep),
                       ![u] = SubSeq(stack[t], keep + 1, Len(stack[t]))]
                 /\ pc' = [pc EXCEPT ![t] = "pop", ![u] = "pop"]
       ELSE pc' = [pc EXCEPT ![t] = "pop"] /\ UNCHANGED stack
  /\ UNCHANGED <<edges, calls, call, roots, bits, targets, expanded>>

Finished == pc[Main] = "idle" /\ call = Len(calls)

MarkEnded == Finished /\ UNCHANGED markVars

MarkNext ==
  \/ MarkFrom
  \/ NextChunk
  \/ \E a \in Actors : Test(a) \/ Claim(a)
  \/ SpawnChunk
  \/ ScopeEnd
  \/ \E t \in Tasks : Pop(t) \/ Expanded(t)
  \/ MarkEnded

(* The pool runs every task: a step is always taken while one is possible. *)
MarkSpec == MarkInit /\ [][MarkNext]_markVars /\ WF_markVars(MarkNext)

-----------------------------------------------------------------------------
(***************************************************************************)
(* Properties                                                              *)
(***************************************************************************)

(* The roots of the calls made so far. *)
RootSet == (UNION {Elements(calls[i]) : i \in 1..call}) \cap Sections

(* A set of sections that contains the roots and the targets of its own    *)
(* members.                                                                *)
Closed(live) ==
  /\ RootSet \subseteq live
  /\ \A s \in live : Elements(edges[s]) \cap Sections \subseteq live

(* The sections reachable from the roots: the least closed set. *)
Reachable == {s \in Sections : \A live \in SUBSET Sections : Closed(live) => s \in live}

(* When a call of mark_from returns, exactly the reachable sections are    *)
(* marked, whatever the scheduling ("The set of marked sections is the     *)
(* reachable set, so the result does not depend on scheduling").           *)
MarkIsExact == pc[Main] = "idle" => bits = Reachable

(* Exactly one of several racing claims wins a section: no section is on   *)
(* two stacks or twice on one, and its edges are enumerated at most once   *)
(* over all calls.                                                         *)
ExpandedOnce ==
  \A s \in Sections :
    LET places == UNION {{<<a, i>> : i \in DOMAIN stack[a]} : a \in Actors}
    IN expanded[s] + Cardinality({p \in places : stack[p[1]][p[2]] = s})
         = IF s \in bits THEN 1 ELSE 0

(* The mark is exact and does no section twice, however tasks race for the *)
(* bits and split their stacks.                                            *)
MarkSound == MarkIsExact /\ ExpandedOnce

(* The mark ends. *)
Termination == <>[]Finished
=============================================================================
