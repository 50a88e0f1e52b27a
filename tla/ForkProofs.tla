----------------------------- MODULE ForkProofs -----------------------------
(***************************************************************************)
(* Proofs about Fork, for any number of messages and any socket size: the  *)
(* status qld exits with is that of the link, and no message of a link     *)
(* that reported its status is lost.                                       *)
(***************************************************************************)
EXTENDS Fork, FiniteSetTheorems, FunctionTheorems, TLAPS

-----------------------------------------------------------------------------
(***************************************************************************)
(* Messages in a socket                                                    *)
(***************************************************************************)

(* How many messages of stream s are in q. *)
Count(q, s) == Cardinality({i \in DOMAIN q : q[i] = s})

LEMMA CountNat ==
  ASSUME NEW S, NEW q \in Seq(S), NEW s
  PROVE  /\ IsFiniteSet({i \in DOMAIN q : q[i] = s})
         /\ Count(q, s) \in Nat
         /\ q = <<>> => Count(q, s) = 0
<1>1. DOMAIN q = 1..Len(q) /\ Len(q) \in Nat
  OBVIOUS
<1>2. IsFiniteSet(1..Len(q))
  BY <1>1, FS_Interval
<1>3. IsFiniteSet({i \in DOMAIN q : q[i] = s})
  BY <1>1, <1>2, FS_Subset
<1>4. Count(q, s) \in Nat
  BY <1>3, FS_CardinalityType DEF Count
<1>5. q = <<>> => {i \in DOMAIN q : q[i] = s} = {}
  OBVIOUS
<1> QED
  BY <1>3, <1>4, <1>5, FS_EmptySet DEF Count

LEMMA CountAppend ==
  ASSUME NEW S, NEW q \in Seq(S), NEW x \in S, NEW s
  PROVE  Count(Append(q, x), s) = IF x = s THEN Count(q, s) + 1 ELSE Count(q, s)
<1> DEFINE n == Len(q) + 1
           old == {i \in DOMAIN q : q[i] = s}
           r == Append(q, x)
<1>1. /\ DOMAIN q = 1..Len(q) /\ Len(q) \in Nat /\ n \notin DOMAIN q
      /\ DOMAIN r = DOMAIN q \cup {n} /\ r[n] = x
      /\ \A i \in DOMAIN q : r[i] = q[i]
  OBVIOUS
<1>2. IsFiniteSet(old)
  BY CountNat
<1> HIDE DEF n, r
<1>3. CASE x = s
  <2>1. {i \in DOMAIN r : r[i] = s} = old \cup {n}
    BY <1>1, <1>3
  <2>2. Cardinality(old \cup {n}) = Cardinality(old) + 1
    BY <1>1, <1>2, FS_AddElement
  <2> QED
    BY <1>3, <2>1, <2>2 DEF Count, r
<1>4. CASE x # s
  <2>1. {i \in DOMAIN r : r[i] = s} = old
    BY <1>1, <1>4
  <2> QED
    BY <1>4, <2>1 DEF Count, r
<1> QED
  BY <1>3, <1>4

LEMMA CountTail ==
  ASSUME NEW S, NEW q \in Seq(S), q # <<>>, NEW s
  PROVE  Count(Tail(q), s) = IF Head(q) = s THEN Count(q, s) - 1 ELSE Count(q, s)
<1> DEFINE all == {i \in DOMAIN q : q[i] = s}
           rest == {i \in DOMAIN Tail(q) : Tail(q)[i] = s}
           up == [i \in rest |-> i + 1]
<1>1. /\ DOMAIN q = 1..Len(q) /\ Len(q) \in Nat \ {0} /\ q[1] = Head(q)
      /\ DOMAIN Tail(q) = 1..(Len(q) - 1)
      /\ \A i \in 1..(Len(q) - 1) : Tail(q)[i] = q[i + 1]
      /\ Tail(q) \in Seq(S)
  OBVIOUS
<1>2. IsFiniteSet(all) /\ IsFiniteSet(rest)
  BY <1>1, CountNat
<1>3. ASSUME NEW i \in rest PROVE i \in Nat /\ i + 1 \in all \ {1}
  BY <1>1
<1>4. ASSUME NEW j \in all \ {1} PROVE j - 1 \in rest /\ (j - 1) + 1 = j
  <2>1. j \in 1..Len(q) /\ j # 1 /\ q[j] = s
    BY <1>1
  <2>2. j - 1 \in 1..(Len(q) - 1) /\ (j - 1) + 1 = j
    BY <1>1, <2>1
  <2> QED
    BY <1>1, <2>1, <2>2
<1> HIDE DEF all, rest
<1>5. up \in [rest -> all \ {1}]
  BY <1>3
<1>6. \A i, j \in rest : up[i] = up[j] => i = j
  BY <1>3
<1>7. \A j \in all \ {1} : \E i \in rest : up[i] = j
  BY <1>4
<1>8. ExistsBijection(rest, all \ {1})
  BY <1>5, <1>6, <1>7, Fun_IsBij DEF ExistsBijection
<1>9. Cardinality(all \ {1}) = Cardinality(rest)
  BY <1>2, <1>8, FS_Bijection
<1>10. Cardinality(all \ {1}) = IF 1 \in all THEN Cardinality(all) - 1 ELSE Cardinality(all)
  BY <1>2, FS_RemoveElement
<1>11. 1 \in all <=> Head(q) = s
  BY <1>1 DEF all
<1> QED
  BY <1>9, <1>10, <1>11 DEF Count, all, rest

-----------------------------------------------------------------------------
(***************************************************************************)
(* The inductive invariant                                                 *)
(***************************************************************************)

ForkTypeOK ==
  /\ launch \in {"undecided", "child", "here"}
  /\ relayed \subseteq Streams /\ shared \in BOOLEAN /\ gone \subseteq Streams
  /\ child \in {"none", "link", "hook", "run", "notify", "send", "exit", "dead"}
  /\ held \in [Streams -> Nat] /\ emitted \in [Streams -> Nat] /\ delivered \in [Streams -> Nat]
  /\ failed \in BOOLEAN /\ fatal \in BOOLEAN /\ errors \in BOOLEAN /\ complete \in BOOLEAN
  /\ sent \in BOOLEAN
  /\ code \in {None, 0, 1} /\ byte \in {None, 0, 1} /\ reported \in {None, 0, 1}
  /\ status \in {None, 0, 1, Signal} /\ exit \in {None, 0, 1, Signal}
  /\ helper \in {"none", "running", "ended"}
  /\ socket \in [Streams -> Seq(Streams)]
  /\ shut \subseteq Streams /\ relays \subseteq Streams
  /\ parent \in {"start", "status", "join", "wait", "here", "exited"}

(* Which process is where: only a child has a hook, a socket for its status *)
(* and relays, and the parent has a status once it exits.                  *)
Control ==
  /\ launch = "undecided" <=> parent = "start"
  /\ launch = "undecided" <=> child = "none"
  /\ parent \in {"status", "join", "wait"} => launch = "child"
  /\ parent = "here" => launch = "here"
  /\ launch = "here" => relayed = {} /\ child \notin {"hook", "notify", "send"}
  /\ sent => launch = "child" /\ child \in {"send", "run", "exit", "dead"}
  /\ child = "send" => sent
  /\ shut # {} => sent
  /\ status # None <=> child = "dead"
  /\ exit # None <=> parent = "exited"
  /\ parent \in {"start", "status", "wait", "here"} => reported = None
  /\ exit # None /\ reported # None => relays = {}

(* The verdict on the link, fixed once it has ended. *)
Verdict == IF failed \/ errors THEN 1 ELSE 0
Decided == complete \/ failed

(* Every status that is computed, sent, read or returned is the verdict.   *)
Verdicts ==
  /\ child \in {"none", "link"} => ~failed
  /\ child = "hook" => complete /\ ~failed
  /\ child = "run" => Decided
  /\ child \in {"notify", "send", "exit"} => Decided /\ code = Verdict
  /\ byte # None => sent /\ child \in {"run", "exit", "dead"} /\ Decided /\ byte = Verdict
  /\ reported # None => reported = byte
  /\ status \notin {None, Signal} => Decided /\ status = Verdict
  /\ exit # None => exit = status \/ (reported # None /\ exit = reported)

(* A socket holds messages of the relayed streams it is the channel of.    *)
Sockets ==
  /\ child = "none" => \A c \in Streams : socket[c] = <<>>
  /\ \A c \in Streams : \A i \in DOMAIN socket[c] :
       socket[c][i] \in relayed /\ Channel(socket[c][i]) = c
  /\ shared => gone \in {{}, Streams}

(* A message that was printed for a reader who is still there is held, in  *)
(* the socket or delivered; the relay of its stream runs until it has      *)
(* nothing more to relay; and what a process must flush before a step is   *)
(* flushed.                                                                *)
Accounts ==
  /\ \A s \in Streams \ gone :
       held[s] + Count(socket[Channel(s)], s) + delivered[s] = emitted[s]
  /\ \A s \in relayed \ gone : launch = "child" =>
       \/ Channel(s) \in relays
       \/ socket[Channel(s)] = <<>> /\ (Channel(s) \in shut \/ child = "dead")
  /\ child \in {"notify", "send"} => held["err"] = 0
  /\ child = "exit" /\ ~fatal => held["err"] = 0
  /\ sent => \A s \in Streams : held[s] = 0
  /\ status \notin {None, Signal} /\ ~fatal => \A s \in Streams : held[s] = 0

ForkInv == ForkTypeOK /\ Control /\ Verdicts /\ Sockets /\ Accounts

LEMMA InitForkInv ==
  ASSUME ForkAssumption, ForkInit
  PROVE  ForkInv
<1> USE DEF ForkInit, ForkAssumption
<1>1. ForkTypeOK
  <2>1. socket \in [Streams -> Seq(Streams)]
    OBVIOUS
  <2>2. held \in [Streams -> Nat] /\ emitted \in [Streams -> Nat] /\ delivered \in [Streams -> Nat]
    OBVIOUS
  <2> QED
    BY <2>1, <2>2 DEF ForkTypeOK
<1>2. Control /\ Verdicts
  BY DEF Control, Verdicts, Signal
<1>3. Sockets
  BY DEF Sockets
<1>4. \A s \in Streams : socket[Channel(s)] = <<>> /\ Count(<<>>, s) = 0
  <2>1. \A s \in Streams : Channel(s) \in Streams
    BY DEF Channel, Streams
  <2>2. <<>> \in Seq(Streams)
    OBVIOUS
  <2>3. \A s \in Streams : Count(<<>>, s) = 0
    BY <2>2, CountNat
  <2> QED
    BY <2>1, <2>3
<1>5. Accounts
  BY <1>4 DEF Accounts
<1> QED
  BY <1>1, <1>2, <1>3, <1>5 DEF ForkInv

LEMMA ParentKeeps ==
  ASSUME ForkAssumption, ForkInv, ParentNext
  PROVE  ForkInv'
<1> USE DEF ForkInv, ForkAssumption
<1>1. CASE Spawn
  <2> USE <1>1 DEF Spawn
  <2>1. ForkTypeOK'
    BY DEF ForkTypeOK, Channels, Channel, Streams
  <2>2. Control' /\ Verdicts'
    BY DEF ForkTypeOK, Control, Verdicts, Verdict, Decided
  <2>3. Sockets'
    BY DEF Control, Sockets, Channel
  <2>4. Accounts'
    BY DEF ForkTypeOK, Control, Accounts, Channels, Channel
  <2> QED
    BY <2>1, <2>2, <2>3, <2>4
<1>2. CASE LinkHere
  <2> USE <1>2 DEF LinkHere, channelVars
  <2>1. ForkTypeOK'
    BY DEF ForkTypeOK
  <2>2. Control' /\ Verdicts'
    BY DEF ForkTypeOK, Control, Verdicts, Verdict, Decided
  <2>3. Sockets'
    BY DEF Control, Sockets, Channel
  <2>4. Accounts'
    BY DEF ForkTypeOK, Control, Accounts, Channel
  <2> QED
    BY <2>1, <2>2, <2>3, <2>4
<1>3. CASE ReadStatus
  <2> USE <1>3 DEF ReadStatus, linkVars, channelVars
  <2>1. ForkTypeOK'
    BY DEF ForkTypeOK
  <2>2. Control' /\ Verdicts'
    BY DEF ForkTypeOK, Control, Verdicts, Verdict, Decided
  <2>3. Sockets' /\ Accounts'
    BY DEF Sockets, Accounts, Channel
  <2> QED
    BY <2>1, <2>2, <2>3
<1>4. CASE Join
  <2> USE <1>4 DEF Join, linkVars, channelVars
  <2>1. ForkTypeOK'
    BY DEF ForkTypeOK
  <2>2. Control' /\ Verdicts'
    BY DEF ForkTypeOK, Control, Verdicts, Verdict, Decided
  <2>3. Sockets' /\ Accounts'
    BY DEF Sockets, Accounts, Channel
  <2> QED
    BY <2>1, <2>2, <2>3
<1>5. CASE Wait
  <2> USE <1>5 DEF Wait, linkVars, channelVars
  <2>1. ForkTypeOK'
    BY DEF ForkTypeOK
  <2>2. Control' /\ Verdicts'
    BY DEF ForkTypeOK, Control, Verdicts, Verdict, Decided
  <2>3. Sockets' /\ Accounts'
    BY DEF Sockets, Accounts, Channel
  <2> QED
    BY <2>1, <2>2, <2>3
<1> QED
  BY <1>1, <1>2, <1>3, <1>4, <1>5 DEF ParentNext

(* Every stream has a channel, and what is in it counts. *)
LEMMA ChannelFacts ==
  ASSUME ForkTypeOK
  PROVE  \A s \in Streams : /\ Channel(s) \in Streams
                            /\ socket[Channel(s)] \in Seq(Streams)
                            /\ \A r : Count(socket[Channel(s)], r) \in Nat
<1>1. \A s \in Streams : Channel(s) \in Streams
  BY DEF Channel, Streams
<1>2. \A s \in Streams : socket[Channel(s)] \in Seq(Streams)
  BY <1>1 DEF ForkTypeOK
<1> QED
  BY <1>1, <1>2, CountNat

LEMMA RelayKeeps ==
  ASSUME ForkAssumption, ForkInv, NEW c \in Streams, Relay(c)
  PROVE  ForkInv'
<1> USE DEF ForkInv, ForkAssumption
<1>1. /\ c \in relays /\ socket[c] \in Seq(Streams)
      /\ UNCHANGED <<launch, relayed, parent, reported, exit, shared, gone>>
      /\ UNCHANGED <<child, held, emitted, failed, fatal, errors, complete, code, sent, status>>
      /\ UNCHANGED <<helper, shut, byte>>
  BY DEF Relay, parentVars, linkVars, ForkTypeOK
<1>2. \A s : Channel(s)' = Channel(s)
  BY <1>1 DEF Channel
<1>3. relays' \subseteq relays
  BY DEF Relay
<1>4. Control' /\ Verdicts'
  BY <1>1, <1>3 DEF ForkTypeOK, Control, Verdicts, Verdict, Decided
<1>5. ASSUME socket[c] # <<>>, Head(socket[c]) \notin gone,
             delivered' = [delivered EXCEPT ![Head(socket[c])] = @ + 1],
             socket' = [socket EXCEPT ![c] = Tail(socket[c])], relays' = relays
      PROVE  ForkInv'
  <2> DEFINE h == Head(socket[c])
  <2>1. /\ h \in Streams /\ Tail(socket[c]) \in Seq(Streams) /\ h = socket[c][1]
        /\ 1 \in DOMAIN socket[c]
    BY <1>1, <1>5
  <2>2. h \in relayed /\ Channel(h) = c
    BY <2>1 DEF Sockets
  <2> HIDE DEF h
  <2>3. ForkTypeOK'
    <3>1. delivered' \in [Streams -> Nat]
      <4>1. delivered \in [Streams -> Nat] /\ delivered' = [delivered EXCEPT ![h] = delivered[h] + 1]
        BY <1>5 DEF ForkTypeOK, h
      <4> QED
        BY <2>1, <4>1
    <3>2. socket' \in [Streams -> Seq(Streams)]
      BY <1>5, <2>1 DEF ForkTypeOK
    <3>3. relays' = relays
      BY <1>5
    <3> QED
      BY <1>1, <3>1, <3>2, <3>3 DEF ForkTypeOK
  <2>4. Sockets'
    <3>1. \A i \in DOMAIN Tail(socket[c]) : i + 1 \in DOMAIN socket[c] /\ Tail(socket[c])[i] = socket[c][i + 1]
      BY <1>1, <1>5
    <3>2. child # "none"
      BY <1>1, <1>5 DEF Sockets
    <3> QED
      BY <1>1, <1>2, <1>5, <3>1, <3>2 DEF Sockets, ForkTypeOK
  <2>5. Accounts'
    <3>1. ASSUME NEW s \in Streams \ gone
          PROVE  held'[s] + Count(socket'[Channel(s)], s) + delivered'[s] = emitted'[s]
      <4>1. held[s] + Count(socket[Channel(s)], s) + delivered[s] = emitted[s]
        BY <3>1 DEF Accounts
      <4>2. /\ held[s] \in Nat /\ delivered[s] \in Nat /\ Count(socket[Channel(s)], s) \in Nat
            /\ Channel(s) \in Streams
        BY ChannelFacts DEF ForkTypeOK
      <4>3. CASE Channel(s) # c
        <5>1. s # h /\ socket'[Channel(s)] = socket[Channel(s)] /\ delivered'[s] = delivered[s]
          BY <1>5, <2>1, <2>2, <4>2, <4>3 DEF ForkTypeOK, h
        <5> QED
          BY <1>1, <4>1, <5>1
      <4>4. CASE Channel(s) = c
        <5>1. Count(Tail(socket[c]), s) = IF h = s THEN Count(socket[c], s) - 1 ELSE Count(socket[c], s)
          BY <1>1, <1>5, CountTail DEF h
        <5>2. delivered'[s] = IF h = s THEN delivered[s] + 1 ELSE delivered[s]
          BY <1>5, <2>1 DEF ForkTypeOK, h
        <5>3. socket'[Channel(s)] = Tail(socket[c])
          BY <1>5, <4>4 DEF ForkTypeOK
        <5> QED
          BY <1>1, <4>1, <4>2, <4>4, <5>1, <5>2, <5>3
      <4> QED
        BY <4>3, <4>4
    <3>2. \A s \in relayed \ gone : launch = "child" =>
            \/ Channel(s) \in relays'
            \/ socket'[Channel(s)] = <<>> /\ (Channel(s) \in shut \/ child = "dead")
      <4> SUFFICES ASSUME NEW s \in relayed \ gone, launch = "child", Channel(s) \notin relays
                   PROVE  socket'[Channel(s)] = <<>> /\ (Channel(s) \in shut \/ child = "dead")
        BY <1>5
      <4>1. Channel(s) # c /\ Channel(s) \in Streams
        BY <1>1, ChannelFacts DEF ForkTypeOK
      <4>2. socket'[Channel(s)] = socket[Channel(s)]
        BY <1>5, <4>1 DEF ForkTypeOK
      <4> QED
        BY <4>2 DEF Accounts
    <3> QED
      BY <1>1, <1>2, <3>1, <3>2 DEF Accounts
  <2> QED
    BY <1>4, <2>3, <2>4, <2>5
<1>6. ASSUME socket[c] # <<>>, Head(socket[c]) \in gone,
             socket' = [socket EXCEPT ![c] = <<>>], relays' = relays \ {c}, delivered' = delivered
      PROVE  ForkInv'
  <2>1. ForkTypeOK'
    BY <1>1, <1>6 DEF ForkTypeOK
  <2>2. Sockets'
    BY <1>1, <1>2, <1>6 DEF Sockets, ForkTypeOK
  <2>3. ASSUME NEW s \in Streams \ gone PROVE Channel(s) # c
    <3>1. /\ Head(socket[c]) \in Streams /\ Head(socket[c]) = socket[c][1]
          /\ 1 \in DOMAIN socket[c]
      BY <1>1, <1>6
    <3>2. Channel(Head(socket[c])) = c
      BY <3>1 DEF Sockets
    <3>3. ~shared
      BY <1>6, <2>3, <3>1 DEF Sockets
    <3> QED
      BY <1>6, <2>3, <3>2, <3>3 DEF Channel
  <2>4. \A s \in Streams \ gone : socket'[Channel(s)] = socket[Channel(s)]
    BY <1>6, <2>3, ChannelFacts DEF ForkTypeOK
  <2>5. \A s \in relayed \ gone : Channel(s) # c /\ socket'[Channel(s)] = socket[Channel(s)]
    BY <2>3, <2>4 DEF ForkTypeOK
  <2>6. Accounts'
    BY <1>1, <1>2, <1>6, <2>4, <2>5 DEF Accounts
  <2> QED
    BY <1>4, <2>1, <2>2, <2>6
<1>7. ASSUME socket[c] = <<>>, c \in shut \/ Closed, relays' = relays \ {c},
             UNCHANGED <<socket, delivered>>
      PROVE  ForkInv'
  <2>1. ForkTypeOK'
    <3>1. relays' \subseteq relays /\ socket' = socket /\ delivered' = delivered
      BY <1>7
    <3> QED
      BY <1>1, <3>1 DEF ForkTypeOK
  <2>2. Sockets'
    BY <1>1, <1>2, <1>7 DEF Sockets
  <2>3. c \in shut \/ child = "dead"
    BY <1>7 DEF Closed, Control
  <2>4. Accounts'
    BY <1>1, <1>2, <1>7, <2>3 DEF Accounts
  <2> QED
    BY <1>4, <2>1, <2>2, <2>4
<1> QED
  BY <1>5, <1>6, <1>7 DEF Relay

LEMMA WritesKeeps ==
  ASSUME ForkAssumption, ForkInv, NEW s \in Streams, Writes(s),
         child \in {"hook", "run", "notify", "exit"}
  PROVE  ForkInv'
<1> USE DEF ForkInv, ForkAssumption
<1>1. /\ held[s] > 0 /\ held' = [held EXCEPT ![s] = @ - 1]
      /\ UNCHANGED <<launch, relayed, parent, reported, exit, shared, gone, child, emitted>>
      /\ UNCHANGED <<failed, fatal, errors, complete, code, sent, status, helper, shut>>
      /\ UNCHANGED <<relays, byte>>
  BY DEF Writes, parentVars
<1>2. \A r : Channel(r)' = Channel(r)
  BY <1>1 DEF Channel
<1>3. /\ held[s] \in Nat /\ held' \in [Streams -> Nat] /\ held'[s] = held[s] - 1
      /\ \A r \in Streams \ {s} : held'[r] = held[r]
  BY <1>1 DEF ForkTypeOK
<1>4. Control' /\ Verdicts'
  BY <1>1 DEF ForkTypeOK, Control, Verdicts, Verdict, Decided
<1>5. ~sent /\ shut = {}
  BY <1>1 DEF Accounts, Control
<1>6. /\ child' \in {"notify", "send"} => held'["err"] = 0
      /\ child' = "exit" /\ ~fatal' => held'["err"] = 0
      /\ status' \in {None, Signal}
  BY <1>1, <1>3 DEF Accounts, Control, Streams
<1>7. ASSUME s \notin relayed,
             delivered' = [delivered EXCEPT ![s] = @ + (IF s \in gone THEN 0 ELSE 1)],
             socket' = socket
      PROVE  ForkInv'
  <2>1. ForkTypeOK'
    <3>1. \A n \in Nat : n + (IF s \in gone THEN 0 ELSE 1) \in Nat
      OBVIOUS
    <3>2. delivered' \in [Streams -> Nat]
      BY <1>7, <3>1 DEF ForkTypeOK
    <3>3. socket' = socket
      BY <1>7
    <3> QED
      BY <1>1, <1>3, <3>2, <3>3 DEF ForkTypeOK
  <2>2. Sockets'
    BY <1>1, <1>2, <1>7 DEF Sockets
  <2>3. ASSUME NEW r \in Streams \ gone
        PROVE  held'[r] + Count(socket'[Channel(r)], r) + delivered'[r] = emitted'[r]
    <3>1. held[r] + Count(socket[Channel(r)], r) + delivered[r] = emitted[r]
      BY <2>3 DEF Accounts
    <3>2. held[r] \in Nat /\ delivered[r] \in Nat /\ Count(socket[Channel(r)], r) \in Nat
      BY ChannelFacts DEF ForkTypeOK
    <3>3. delivered'[r] = IF r = s THEN delivered[r] + 1 ELSE delivered[r]
      BY <1>7, <2>3 DEF ForkTypeOK
    <3> QED
      BY <1>1, <1>3, <1>7, <3>1, <3>2, <3>3
  <2>4. Accounts'
    BY <1>1, <1>2, <1>5, <1>6, <1>7, <2>3 DEF Accounts
  <2> QED
    BY <1>4, <2>1, <2>2, <2>4
<1>8. ASSUME s \in relayed, Channel(s) \in shut \/ Channel(s) \notin relays,
             UNCHANGED <<delivered, socket>>
      PROVE  ForkInv'
  <2>1. ForkTypeOK'
    BY <1>1, <1>3, <1>8 DEF ForkTypeOK
  <2>2. Sockets'
    BY <1>1, <1>2, <1>8 DEF Sockets
  <2>3. launch = "child"
    BY <1>8 DEF ForkTypeOK, Control
  <2>4. s \in gone
    BY <1>5, <1>8, <2>3 DEF Accounts
  <2>5. Accounts'
    BY <1>1, <1>2, <1>3, <1>5, <1>6, <1>8, <2>4 DEF Accounts
  <2> QED
    BY <1>4, <2>1, <2>2, <2>5
<1>9. ASSUME s \in relayed, Channel(s) \in relays,
             socket' = [socket EXCEPT ![Channel(s)] = Append(@, s)], delivered' = delivered
      PROVE  ForkInv'
  <2> DEFINE q == socket[Channel(s)]
  <2>1. Channel(s) \in Streams /\ q \in Seq(Streams)
    BY ChannelFacts
  <2>2. /\ DOMAIN Append(q, s) = DOMAIN q \cup {Len(q) + 1}
        /\ Append(q, s)[Len(q) + 1] = s /\ \A i \in DOMAIN q : Append(q, s)[i] = q[i]
        /\ Append(q, s) \in Seq(Streams)
    BY <2>1
  <2>3. /\ socket'[Channel(s)] = Append(q, s) /\ socket' \in [Streams -> Seq(Streams)]
        /\ \A c \in Streams \ {Channel(s)} : socket'[c] = socket[c]
    BY <1>9, <2>1, <2>2 DEF ForkTypeOK
  <2> HIDE DEF q
  <2>4. ForkTypeOK'
    BY <1>1, <1>3, <1>9, <2>3 DEF ForkTypeOK
  <2>5. Sockets'
    <3>1. ASSUME NEW c \in Streams, NEW i \in DOMAIN socket'[c]
          PROVE  socket'[c][i] \in relayed /\ Channel(socket'[c][i]) = c
      <4>1. CASE c = Channel(s)
        <5>1. (i \in DOMAIN q /\ socket'[c][i] = q[i]) \/ socket'[c][i] = s
          BY <2>2, <2>3, <4>1
        <5> QED
          BY <1>9, <2>1, <4>1, <5>1 DEF Sockets, q
      <4>2. CASE c # Channel(s)
        BY <2>3, <4>2 DEF Sockets
      <4> QED
        BY <4>1, <4>2
    <3> QED
      BY <1>1, <1>2, <3>1 DEF Sockets
  <2>6. ASSUME NEW r \in Streams \ gone
        PROVE  held'[r] + Count(socket'[Channel(r)], r) + delivered'[r] = emitted'[r]
    <3>1. held[r] + Count(socket[Channel(r)], r) + delivered[r] = emitted[r]
      BY <2>6 DEF Accounts
    <3>2. /\ held[r] \in Nat /\ delivered[r] \in Nat /\ Count(socket[Channel(r)], r) \in Nat
          /\ Channel(r) \in Streams
      BY ChannelFacts DEF ForkTypeOK
    <3>3. CASE Channel(r) # Channel(s)
      BY <1>1, <1>3, <1>9, <2>3, <3>1, <3>2, <3>3
    <3>4. CASE Channel(r) = Channel(s)
      <4>1. Count(socket'[Channel(r)], r) = IF r = s THEN Count(socket[Channel(r)], r) + 1
                                            ELSE Count(socket[Channel(r)], r)
        <5>1. Count(Append(q, s), r) = IF s = r THEN Count(q, r) + 1 ELSE Count(q, r)
          BY <2>1, CountAppend
        <5>2. socket'[Channel(r)] = Append(q, s) /\ socket[Channel(r)] = q
          BY <2>3, <3>4 DEF q
        <5> QED
          BY <5>1, <5>2
      <4> QED
        BY <1>1, <1>3, <1>9, <3>1, <3>2, <4>1
    <3> QED
      BY <3>3, <3>4
  <2>7. ASSUME NEW r \in relayed \ gone, launch = "child"
        PROVE  \/ Channel(r) \in relays
               \/ socket'[Channel(r)] = <<>> /\ (Channel(r) \in shut \/ child = "dead")
    <3>1. r \in Streams
      BY <2>7 DEF ForkTypeOK
    <3> QED
      BY <1>9, <2>3, <2>7, <3>1, ChannelFacts DEF Accounts
  <2>8. Accounts'
    BY <1>1, <1>2, <1>5, <1>6, <2>6, <2>7 DEF Accounts
  <2> QED
    BY <1>4, <2>4, <2>5, <2>8
<1> QED
  BY <1>7, <1>8, <1>9 DEF Writes

LEMMA LinkerKeeps ==
  ASSUME ForkAssumption, ForkInv, LinkerNext
  PROVE  ForkInv'
<1> USE DEF ForkInv, ForkAssumption
<1>1. CASE Hook
  <2> USE <1>1 DEF Hook, parentVars, channelVars
  <2>1. ForkTypeOK'
    BY DEF ForkTypeOK
  <2>2. Control'
    BY DEF ForkTypeOK, Control
  <2>3. Verdicts'
    BY DEF ForkTypeOK, Control, Verdicts, Verdict, Decided
  <2>4. Sockets'
    BY DEF ForkTypeOK, Control, Sockets, Channel
  <2>5. Accounts'
    BY DEF ForkTypeOK, Control, Accounts, Channel, Streams
  <2> QED
    BY <2>1, <2>2, <2>3, <2>4, <2>5
<1>2. CASE Run
  <2> USE <1>2 DEF Run, parentVars, channelVars
  <2>1. ForkTypeOK'
    BY DEF ForkTypeOK
  <2>2. Control'
    BY DEF ForkTypeOK, Control
  <2>3. Verdicts'
    BY DEF ForkTypeOK, Control, Verdicts, Verdict, Decided
  <2>4. Sockets'
    BY DEF ForkTypeOK, Control, Sockets, Channel
  <2>5. Accounts'
    BY DEF ForkTypeOK, Control, Accounts, Channel, Streams
  <2> QED
    BY <2>1, <2>2, <2>3, <2>4, <2>5
<1>3. CASE ShutDown
  <2> USE <1>3 DEF ShutDown, parentVars, channelVars
  <2>1. ForkTypeOK'
    BY DEF ForkTypeOK, Channels, Channel, Streams
  <2>2. Control'
    BY DEF ForkTypeOK, Control
  <2>3. Verdicts'
    BY DEF ForkTypeOK, Control, Verdicts, Verdict, Decided
  <2>4. Sockets'
    BY DEF ForkTypeOK, Control, Sockets, Channel
  <2>5. Accounts'
    BY DEF ForkTypeOK, Control, Accounts, Channel, Streams
  <2> QED
    BY <2>1, <2>2, <2>3, <2>4, <2>5
<1>4. CASE Send
  <2> USE <1>4 DEF Send, parentVars, channelVars
  <2>1. ForkTypeOK'
    BY DEF ForkTypeOK
  <2>2. Control'
    BY DEF ForkTypeOK, Control
  <2>3. Verdicts'
    BY DEF ForkTypeOK, Control, Verdicts, Verdict, Decided
  <2>4. Sockets'
    BY DEF ForkTypeOK, Control, Sockets, Channel
  <2>5. Accounts'
    BY DEF ForkTypeOK, Control, Accounts, Channel, Streams
  <2> QED
    BY <2>1, <2>2, <2>3, <2>4, <2>5
<1>5. CASE Exit
  <2> USE <1>5 DEF Exit, parentVars, channelVars
  <2>1. ForkTypeOK'
    BY DEF ForkTypeOK, Verdicts, Verdict
  <2>2. Control'
    BY DEF ForkTypeOK, Control, Verdicts, Verdict
  <2>3. Verdicts'
    BY DEF ForkTypeOK, Control, Verdicts, Verdict, Decided
  <2>4. Sockets'
    BY DEF ForkTypeOK, Control, Sockets, Channel
  <2>5. Accounts'
    BY DEF ForkTypeOK, Control, Accounts, Channel, Streams
  <2> QED
    BY <2>1, <2>2, <2>3, <2>4, <2>5
<1>6. CASE FlushSink
  BY <1>6, WritesKeeps DEF FlushSink, Streams
<1>7. CASE FlushStdout
  BY <1>7, WritesKeeps DEF FlushStdout, Streams
<1> QED
  BY <1>1, <1>2, <1>3, <1>4, <1>5, <1>6, <1>7 DEF LinkerNext

(* A message that is printed is counted on both sides. *)
LEMMA EmitAccounts ==
  ASSUME ForkInv, NEW r \in Streams,
         held' = [held EXCEPT ![r] = @ + 1], emitted' = [emitted EXCEPT ![r] = @ + 1]
  PROVE  /\ held' \in [Streams -> Nat] /\ emitted' \in [Streams -> Nat]
         /\ \A s \in Streams \ gone :
              held'[s] + Count(socket[Channel(s)], s) + delivered[s] = emitted'[s]
<1> USE DEF ForkInv
<1>1. held' \in [Streams -> Nat] /\ emitted' \in [Streams -> Nat]
  BY DEF ForkTypeOK
<1>2. ASSUME NEW s \in Streams \ gone
      PROVE  held'[s] + Count(socket[Channel(s)], s) + delivered[s] = emitted'[s]
  <2>1. held[s] + Count(socket[Channel(s)], s) + delivered[s] = emitted[s]
    BY DEF Accounts
  <2>2. /\ held[s] \in Nat /\ delivered[s] \in Nat /\ emitted[s] \in Nat
        /\ Count(socket[Channel(s)], s) \in Nat
    BY ChannelFacts DEF ForkTypeOK
  <2>3. /\ held'[s] = IF s = r THEN held[s] + 1 ELSE held[s]
        /\ emitted'[s] = IF s = r THEN emitted[s] + 1 ELSE emitted[s]
    BY DEF ForkTypeOK
  <2> QED
    BY <2>1, <2>2, <2>3
<1> QED
  BY <1>1, <1>2

LEMMA LinkKeeps ==
  ASSUME ForkAssumption, ForkInv,
         StartHelper \/ HelperEnds \/ LinkEnds \/ PluginFatal \/ Crash
  PROVE  ForkInv'
<1> USE DEF ForkInv, ForkAssumption
<1>1. CASE StartHelper
  <2> USE <1>1 DEF StartHelper, parentVars, channelVars
  <2>1. ForkTypeOK'
    BY DEF ForkTypeOK
  <2>2. Control'
    BY DEF ForkTypeOK, Control
  <2>3. Verdicts'
    BY DEF ForkTypeOK, Control, Verdicts, Verdict, Decided
  <2>4. Sockets'
    BY DEF ForkTypeOK, Control, Sockets, Channel
  <2>5. Accounts'
    BY DEF ForkTypeOK, Control, Accounts, Channel, Streams
  <2> QED
    BY <2>1, <2>2, <2>3, <2>4, <2>5
<1>2. CASE HelperEnds
  <2> USE <1>2 DEF HelperEnds, parentVars, channelVars
  <2>1. ForkTypeOK'
    BY DEF ForkTypeOK
  <2>2. Control'
    BY DEF ForkTypeOK, Control
  <2>3. Verdicts'
    BY DEF ForkTypeOK, Control, Verdicts, Verdict, Decided
  <2>4. Sockets'
    BY DEF ForkTypeOK, Control, Sockets, Channel
  <2>5. Accounts'
    BY DEF ForkTypeOK, Control, Accounts, Channel, Streams
  <2> QED
    BY <2>1, <2>2, <2>3, <2>4, <2>5
<1>3. CASE Linked
  <2> USE <1>3 DEF Linked, parentVars, channelVars
  <2>1. ForkTypeOK'
    BY DEF ForkTypeOK
  <2>2. Control'
    BY DEF ForkTypeOK, Control
  <2>3. Verdicts'
    BY DEF ForkTypeOK, Control, Verdicts, Verdict, Decided
  <2>4. Sockets'
    BY DEF ForkTypeOK, Control, Sockets, Channel
  <2>5. Accounts'
    BY DEF ForkTypeOK, Control, Accounts, Channel, Streams
  <2> QED
    BY <2>1, <2>2, <2>3, <2>4, <2>5
<1>4. CASE LinkFails
  <2> USE <1>4 DEF LinkFails, parentVars, channelVars
  <2>0. "err" \in Streams
    BY DEF Streams
  <2>1. /\ held' \in [Streams -> Nat] /\ emitted' \in [Streams -> Nat]
        /\ \A s \in Streams \ gone :
             held'[s] + Count(socket[Channel(s)], s) + delivered[s] = emitted'[s]
    BY <2>0, EmitAccounts
  <2>2. ForkTypeOK'
    BY <2>1 DEF ForkTypeOK
  <2>3. Control'
    BY DEF ForkTypeOK, Control
  <2>4. Verdicts'
    BY DEF ForkTypeOK, Control, Verdicts, Verdict, Decided
  <2>5. Sockets'
    BY DEF ForkTypeOK, Control, Sockets, Channel
  <2>6. Accounts'
    BY <2>1 DEF ForkTypeOK, Control, Accounts, Channel
  <2> QED
    BY <2>2, <2>3, <2>4, <2>5, <2>6
<1>5. CASE PluginFatal
  <2> USE <1>5 DEF PluginFatal, parentVars, channelVars
  <2>1. ForkTypeOK'
    BY DEF ForkTypeOK
  <2>2. Control'
    BY DEF ForkTypeOK, Control
  <2>3. Verdicts'
    BY DEF ForkTypeOK, Control, Verdicts, Verdict, Decided
  <2>4. Sockets'
    BY DEF ForkTypeOK, Control, Sockets, Channel
  <2>5. Accounts'
    BY DEF ForkTypeOK, Control, Accounts, Channel, Streams
  <2> QED
    BY <2>1, <2>2, <2>3, <2>4, <2>5
<1>6. CASE Crash
  <2> USE <1>6 DEF Crash, parentVars, channelVars
  <2>1. ForkTypeOK'
    BY DEF ForkTypeOK, Signal
  <2>2. Control'
    BY DEF ForkTypeOK, Control, Signal
  <2>3. Verdicts'
    BY DEF ForkTypeOK, Control, Verdicts, Verdict, Decided
  <2>4. Sockets'
    BY DEF ForkTypeOK, Control, Sockets, Channel
  <2>5. Accounts'
    BY DEF ForkTypeOK, Control, Accounts, Channel, Streams
  <2> QED
    BY <2>1, <2>2, <2>3, <2>4, <2>5
<1> QED
  BY <1>1, <1>2, <1>3, <1>4, <1>5, <1>6 DEF LinkEnds

LEMMA EmitKeeps ==
  ASSUME ForkAssumption, ForkInv, NEW r \in Streams, Emit(r)
  PROVE  ForkInv'
<1> USE DEF ForkInv, ForkAssumption, Emit, parentVars, channelVars
<1>1. /\ held' \in [Streams -> Nat] /\ emitted' \in [Streams -> Nat]
      /\ \A s \in Streams \ gone :
           held'[s] + Count(socket[Channel(s)], s) + delivered[s] = emitted'[s]
  BY EmitAccounts
<1>2. errors' \in BOOLEAN
  BY DEF ForkTypeOK
<1>3. ForkTypeOK'
  BY <1>1, <1>2 DEF ForkTypeOK
<1>4. Control'
  BY DEF ForkTypeOK, Control
<1>5. Verdicts'
  BY DEF ForkTypeOK, Control, Verdicts, Decided
<1>6. Sockets'
  BY DEF ForkTypeOK, Control, Sockets, Channel
<1>7. Accounts'
  BY <1>1 DEF ForkTypeOK, Control, Accounts, Channel
<1> QED
  BY <1>3, <1>4, <1>5, <1>6, <1>7

LEMMA ReaderGoneKeeps ==
  ASSUME ForkAssumption, ForkInv, NEW r \in Streams, ReaderGone(r)
  PROVE  ForkInv'
<1> USE DEF ForkInv, ForkAssumption, ReaderGone, parentVars, linkVars, channelVars
<1>1. gone \subseteq gone' /\ gone' \subseteq Streams /\ (shared => gone' = Streams)
  BY DEF ForkTypeOK
<1>2. ForkTypeOK'
  BY <1>1 DEF ForkTypeOK
<1>3. Control' /\ Verdicts'
  BY DEF ForkTypeOK, Control, Verdicts, Verdict, Decided
<1>4. Sockets'
  BY <1>1 DEF Sockets, Channel
<1>5. Accounts'
  BY <1>1 DEF Accounts, Channel
<1> QED
  BY <1>2, <1>3, <1>4, <1>5

LEMMA StutterKeeps ==
  ASSUME ForkInv, UNCHANGED forkVars
  PROVE  ForkInv'
<1> USE DEF ForkInv, forkVars
<1>1. ForkTypeOK' /\ Control'
  BY DEF ForkTypeOK, Control
<1>2. Verdicts'
  BY DEF Verdicts, Verdict, Decided
<1>3. Sockets' /\ Accounts'
  BY DEF Sockets, Accounts, Channel
<1> QED
  BY <1>1, <1>2, <1>3

-----------------------------------------------------------------------------
(***************************************************************************)
(* The theorems                                                            *)
(***************************************************************************)

(* ForkInv is an invariant of qld with and without --fork: where parent    *)
(* and child are, that every status on its way is the link's verdict, and  *)
(* where every message is.                                                 *)
THEOREM ForkInvariant == ForkSpec => []ForkInv
<1>1. ForkInit => ForkInv
  BY InitForkInv, ForkAssumption
<1>2. ForkInv /\ [ForkNext]_forkVars => ForkInv'
  <2> SUFFICES ASSUME ForkInv, [ForkNext]_forkVars PROVE ForkInv'
    OBVIOUS
  <2>1. CASE ParentNext
    BY <2>1, ParentKeeps, ForkAssumption
  <2>2. ASSUME NEW c \in Streams, Relay(c) PROVE ForkInv'
    BY <2>2, RelayKeeps, ForkAssumption
  <2>3. ASSUME NEW s \in Streams, Emit(s) PROVE ForkInv'
    BY <2>3, EmitKeeps, ForkAssumption
  <2>4. ASSUME NEW s \in Streams, ReaderGone(s) PROVE ForkInv'
    BY <2>4, ReaderGoneKeeps, ForkAssumption
  <2>5. CASE StartHelper \/ HelperEnds \/ LinkEnds \/ PluginFatal \/ Crash
    BY <2>5, LinkKeeps, ForkAssumption
  <2>6. CASE LinkerNext
    BY <2>6, LinkerKeeps, ForkAssumption
  <2>7. CASE UNCHANGED forkVars
    BY <2>7, StutterKeeps
  <2> QED
    BY <2>1, <2>2, <2>3, <2>4, <2>5, <2>6, <2>7 DEF ForkNext, Stopped
<1> QED
  BY <1>1, <1>2, PTL DEF ForkSpec

(* The status qld exits with is the link's: whether the parent read it     *)
(* from the child's socket, waited for the child, or linked by itself, and *)
(* wherever the child crashed.                                             *)
THEOREM ForkStatusIsReal == ForkSpec => []StatusIsReal
<1>1. ForkInv => StatusIsReal
  <2> SUFFICES ASSUME ForkInv, exit # None PROVE StatusIsReal
    BY DEF StatusIsReal
  <2> USE ForkAssumption DEF ForkInv, ForkAssumption
  <2>1. exit \in {0, 1, Signal}
    BY DEF ForkTypeOK
  <2>2. CASE exit = status
    BY <2>1, <2>2 DEF ForkTypeOK, Verdicts, Verdict, Decided, StatusIsReal, Signal
  <2>3. CASE reported # None /\ exit = reported
    BY <2>1, <2>3 DEF ForkTypeOK, Verdicts, Verdict, Decided, StatusIsReal, Signal
  <2> QED
    BY <2>2, <2>3 DEF Verdicts
<1> QED
  BY <1>1, ForkInvariant, PTL

(* A reader who is still there has every message of the link when qld      *)
(* exits on a reported status, or after linking by itself, for any number  *)
(* of messages through sockets of any size.                                *)
THEOREM ForkNothingLost == ForkSpec => []NothingLost
<1>1. ForkInv => NothingLost
  <2> SUFFICES ASSUME ForkInv, exit # None, ~fatal,
                      reported # None \/ (launch = "here" /\ status # Signal),
                      NEW s \in Streams \ gone
               PROVE  delivered[s] = emitted[s]
    BY DEF NothingLost
  <2> USE ForkAssumption DEF ForkInv, ForkAssumption
  <2>1. held[s] = 0
    <3>1. CASE reported # None
      BY <3>1 DEF Verdicts, Accounts
    <3>2. CASE reported = None /\ launch = "here" /\ status # Signal
      <4>1. status # None
        BY <3>2 DEF Verdicts
      <4> QED
        BY <3>2, <4>1 DEF Accounts
    <3> QED
      BY <3>1, <3>2
  <2>2. socket[Channel(s)] \in Seq(Streams) /\ Channel(s) \in Streams
    BY ChannelFacts
  <2>3. Count(socket[Channel(s)], s) = 0
    <3>1. CASE s \in relayed
      <4>1. launch = "child" /\ reported # None
        BY <3>1 DEF ForkTypeOK, Control
      <4>2. relays = {}
        BY <4>1 DEF Control
      <4>3. socket[Channel(s)] = <<>>
        BY <3>1, <4>1, <4>2 DEF Accounts
      <4> QED
        BY <2>2, <4>3, CountNat
    <3>2. CASE s \notin relayed
      <4>1. {i \in DOMAIN socket[Channel(s)] : socket[Channel(s)][i] = s} = {}
        BY <2>2, <3>2 DEF Sockets
      <4> QED
        BY <4>1, FS_EmptySet DEF Count
    <3> QED
      BY <3>1, <3>2
  <2>4. held[s] + Count(socket[Channel(s)], s) + delivered[s] = emitted[s]
    BY DEF Accounts
  <2> QED
    BY <2>1, <2>3, <2>4 DEF ForkTypeOK
<1> QED
  BY <1>1, ForkInvariant, PTL
=============================================================================
