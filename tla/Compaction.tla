----------------------------- MODULE Compaction -----------------------------
(***************************************************************************)
(* CompactionService.compact_session on one chat: the messages that are not *)
(* compacted, all but the newest, are summarised together with the previous *)
(* summary; the new summary is stored, the messages are marked and the      *)
(* previous summary is deleted, each by itself and after a model call.      *)
(***************************************************************************)
EXTENDS Naturals, FiniteSets, FiniteSetsExt

CONSTANTS
  Jobs,          \* compactions of the chat
  MaxMessages,   \* bound on the messages sent
  MaxSummaries,  \* bound on the summaries ever made
  KeepRecent,    \* KEEP_RECENT
  MinToCompact   \* MIN_MESSAGES_TO_COMPACT

ASSUME CompactionAssumption ==
  {MaxMessages, MaxSummaries, KeepRecent, MinToCompact} \subseteq Nat

VARIABLES
  sent,        \* messages are numbered as they are sent
  compacted,   \* those with compacted_at
  summaries,   \* number and covered messages of the summaries there are
  created,     \* how many summaries there have been
  job
chat == <<sent, compacted, summaries, created, job>>

NoSummary == [number |-> 0, covers |-> {}]
Waiting == [pc |-> "idle", messages |-> {}, previous |-> NoSummary]

CompactionInit ==
  /\ sent = 0
  /\ compacted = {}
  /\ summaries = {}
  /\ created = 0
  /\ job = [j \in Jobs |-> Waiting]

SendMessage ==
  /\ sent < MaxMessages
  /\ sent' = sent + 1
  /\ UNCHANGED <<compacted, summaries, created, job>>

(* Too few messages end it.                                                 *)
ListMessages(j) ==
  LET live == (1 .. sent) \ compacted IN
  /\ job[j].pc = "idle"
  /\ Cardinality(live) >= MinToCompact
  /\ job' = [job EXCEPT ![j].pc = "listed", ![j].messages =
       {m \in live : Cardinality({n \in live : n > m}) >= KeepRecent}]
  /\ UNCHANGED <<sent, compacted, summaries, created>>

IsNewest(s) == s \in summaries /\ \A t \in summaries : t.number <= s.number

ReadPrevious(j) ==
  /\ job[j].pc = "listed"
  /\ \E s \in summaries \union {NoSummary} :
       /\ IF summaries = {} THEN s = NoSummary ELSE IsNewest(s)
       /\ job' = [job EXCEPT ![j].pc = "asking", ![j].previous = s]
  /\ UNCHANGED <<sent, compacted, summaries, created>>

(* The model has answered.                                                  *)
CreateSummary(j) ==
  /\ job[j].pc = "asking"
  /\ created < MaxSummaries
  /\ created' = created + 1
  /\ summaries' = summaries \union
       {[number |-> created', covers |-> job[j].previous.covers \union job[j].messages]}
  /\ job' = [job EXCEPT ![j].pc = "created"]
  /\ UNCHANGED <<sent, compacted>>

MarkCompacted(j) ==
  /\ job[j].pc = "created"
  /\ compacted' = compacted \union job[j].messages
  /\ job' = [job EXCEPT ![j].pc = "marked"]
  /\ UNCHANGED <<sent, summaries, created>>

(* Mutant: whatever is older than the newest summary goes.                  *)
DeleteOlder(j) ==
  /\ job[j].pc = "marked"
  /\ summaries' = {s \in summaries : IsNewest(s)}
  /\ job' = [job EXCEPT ![j] = Waiting]
  /\ UNCHANGED <<sent, compacted, created>>

(* Only the summary it has read goes.                                       *)
DeletePrevious(j) ==
  /\ job[j].pc = "marked"
  /\ summaries' = summaries \ {job[j].previous}
  /\ job' = [job EXCEPT ![j] = Waiting]
  /\ UNCHANGED <<sent, compacted, created>>

(* The model fails, the client cancels or the server dies.                  *)
Abandon(j) ==
  /\ job[j].pc # "idle"
  /\ job' = [job EXCEPT ![j] = Waiting]
  /\ UNCHANGED <<sent, compacted, summaries, created>>

CompactionNext ==
  \/ SendMessage
  \/ \E j \in Jobs : \/ ListMessages(j) \/ ReadPrevious(j) \/ CreateSummary(j)
                     \/ MarkCompacted(j) \/ DeletePrevious(j) \/ Abandon(j)

CompactionSpec == CompactionInit /\ [][CompactionNext]_chat

-----------------------------------------------------------------------------
CompactionTypeOK ==
  /\ sent \in 0 .. MaxMessages /\ created \in 0 .. MaxSummaries
  /\ compacted \subseteq 1 .. sent
  /\ summaries \subseteq [number : 1 .. created, covers : SUBSET (1 .. sent)]
  /\ \A j \in Jobs : /\ job[j].pc \in {"idle", "listed", "asking", "created", "marked"}
                     /\ job[j].messages \subseteq 1 .. sent

(* A compacted message, which no prompt contains any more, is covered by a  *)
(* summary that exists, although compactions overlap, stop half way and     *)
(* delete each other's summaries.                                           *)
CompactedIsCovered ==
  \A m \in compacted : \E s \in summaries : m \in s.covers
=============================================================================
