--------------------------- MODULE ReviewedChange ---------------------------
(***************************************************************************)
(* What the writeback lifecycle promises, free of requests, locks, scratch  *)
(* copies and git: a change is offered against the content it was made on,  *)
(* one reviewer claims it, and it is published only onto that very content, *)
(* which gains the change and loses nothing.                                *)
(***************************************************************************)
EXTENDS FiniteSets

CONSTANTS Proposals, None

VARIABLES
  content,   \* the changes the published file holds
  seen,      \* the content each proposal was made on, None before
  state      \* "none", "open", "claimed", "applied" or "closed"

vars == <<content, seen, state>>

Init ==
  /\ content = {}
  /\ seen = [p \in Proposals |-> None]
  /\ state = [p \in Proposals |-> "none"]

Read(p) ==
  /\ seen[p] = None
  /\ seen' = [seen EXCEPT ![p] = content]
  /\ UNCHANGED <<content, state>>

Offer(p) ==
  /\ state[p] = "none" /\ seen[p] # None
  /\ state' = [state EXCEPT ![p] = "open"]
  /\ UNCHANGED <<content, seen>>

Claim(p) ==
  /\ state[p] = "open"
  /\ state' = [state EXCEPT ![p] = "claimed"]
  /\ UNCHANGED <<content, seen>>

\* Compare and swap: the content is the one the change was reviewed against.
Apply(p) ==
  /\ state[p] = "claimed"
  /\ content = seen[p]
  /\ content' = content \union {p}
  /\ state' = [state EXCEPT ![p] = "applied"]
  /\ UNCHANGED seen

\* Rejected or superseded while open, or failed once claimed; a new request
\* closes every open proposal of its session at once.
Close(ps) ==
  /\ \/ \A p \in ps : state[p] = "open"
     \/ \E p \in Proposals : ps = {p} /\ state[p] = "claimed"
  /\ state' = [p \in Proposals |-> IF p \in ps THEN "closed" ELSE state[p]]
  /\ UNCHANGED <<content, seen>>

Next ==
  \/ \E p \in Proposals : Read(p) \/ Offer(p) \/ Claim(p) \/ Apply(p)
  \/ \E ps \in SUBSET Proposals : Close(ps)

Spec == Init /\ [][Next]_vars
=============================================================================
