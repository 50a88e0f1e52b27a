------------------------------ MODULE InternAbs ------------------------------
(***************************************************************************)
(* What interning a batch promises: new names are numbered from the length *)
(* of the table upward, in order of their first occurrence (job position,  *)
(* index in the job; names that share one, by contents), and every place   *)
(* gets the ID of its name.  A batch whose new names do not fit changes    *)
(* nothing.                                                                *)
(***************************************************************************)
EXTENDS Integers, Sequences, FiniteSets

CONSTANTS NumNames, Limit, Workloads

VARIABLES batches, table, outcome

Occurs(jobs, n) ==
  UNION {{<<jobs[j].position, i>> :
            i \in {k \in DOMAIN jobs[j].names : jobs[j].names[k] = n}} :
         j \in DOMAIN jobs}

AtOrBefore(a, b) == a[1] < b[1] \/ (a[1] = b[1] /\ a[2] <= b[2])

FirstOccurrence(jobs, n) ==
  CHOOSE a \in Occurs(jobs, n) : \A b \in Occurs(jobs, n) : AtOrBefore(a, b)

NewNames(jobs) ==
  {n \in 1..NumNames : /\ Occurs(jobs, n) # {}
                       /\ \A k \in DOMAIN table : table[k] # n}

NewBefore(jobs, m, n) ==
  LET a == FirstOccurrence(jobs, m)
      b == FirstOccurrence(jobs, n)
  IN (a # b /\ AtOrBefore(a, b)) \/ (a = b /\ m < n)

Numbered(jobs) ==
  [k \in 1..Cardinality(NewNames(jobs)) |->
     CHOOSE n \in NewNames(jobs) :
       Cardinality({m \in NewNames(jobs) : NewBefore(jobs, m, n)}) = k - 1]

IdIn(names, n) == CHOOSE k \in DOMAIN names : names[k] = n

Init == batches \in Workloads /\ table = <<>> /\ outcome = [status |-> "none"]

InternBatch ==
  LET jobs == Head(batches)
  IN /\ batches # <<>>
     /\ Len(table) + Cardinality(NewNames(jobs)) <= Limit
     /\ table' = table \o Numbered(jobs)
     /\ outcome' = [status |-> "ok", ids |->
          [p \in UNION {{<<j, i>> : i \in DOMAIN jobs[j].names} :
                          j \in DOMAIN jobs} |->
             IdIn(table', jobs[p[1]].names[p[2]])]]
     /\ batches' = Tail(batches)

Overflow ==
  /\ batches # <<>>
  /\ Len(table) + Cardinality(NewNames(Head(batches))) > Limit
  /\ outcome' = [status |-> "overflow"]
  /\ batches' = Tail(batches)
  /\ UNCHANGED table

Next == InternBatch \/ Overflow

Spec == Init /\ [][Next]_<<batches, table, outcome>>
=============================================================================
