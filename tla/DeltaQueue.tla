----------------------------- MODULE DeltaQueue -----------------------------
(***************************************************************************)
(* What the FM export promises, free of jobs, snapshots and channels:       *)
(* changes queue up, and a publication takes a batch of them at once, the   *)
(* newest of each key, and writes exactly those.                            *)
(***************************************************************************)
EXTENDS Integers, Sequences, SequencesExt

CONSTANTS Deltas, KeyOf, None

VARIABLES
  queued,      \* the deltas in the order they were made
  applied,     \* deltas that were published
  superseded,  \* deltas a newer one of the same key replaced
  published    \* the delta each key shows, None before the first

vars == <<queued, applied, superseded, published>>

Keys == {KeyOf[d] : d \in Deltas}
Newer(d, e) == KeyOf[d] = KeyOf[e] /\ \E i, j \in 1..Len(queued) :
                 i > j /\ queued[i] = d /\ queued[j] = e
Pending == ToSet(queued) \ (applied \union superseded)
NewestOf(ds) == {d \in ds : \A e \in ds : ~Newer(e, d)}

Init ==
  /\ queued = << >>
  /\ applied = {}
  /\ superseded = {}
  /\ published = [k \in Keys |-> None]

Enqueue(d) ==
  /\ d \notin ToSet(queued)
  /\ queued' = Append(queued, d)
  /\ UNCHANGED <<applied, superseded, published>>

\* No delta is left behind a newer one of its key.
Publish(batch) ==
  /\ batch # {}
  /\ \A d \in batch, e \in Pending \ batch : ~Newer(d, e)
  /\ applied' = applied \union NewestOf(batch)
  /\ superseded' = superseded \union (batch \ NewestOf(batch))
  /\ published' = [k \in Keys |->
       IF \E d \in batch : KeyOf[d] = k
         THEN CHOOSE d \in NewestOf(batch) : KeyOf[d] = k ELSE published[k]]
  /\ UNCHANGED queued

Next ==
  \/ \E d \in Deltas : Enqueue(d)
  \/ \E batch \in SUBSET Pending : Publish(batch)

Spec == Init /\ [][Next]_vars
=============================================================================
