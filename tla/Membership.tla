----------------------------- MODULE Membership -----------------------------
(***************************************************************************)
(* The members and the owner of one project.  A view checks that its caller *)
(* is the owner and calls ProjectAccessService later.  All services but     *)
(* add_member hold the project row FOR UPDATE and are one step; add_member  *)
(* reads a membership and writes it by primary key, locking nothing.        *)
(***************************************************************************)
EXTENDS Common

CONSTANTS
  Accounts,        \* the users
  MemberRequests   \* concurrent requests

VARIABLES
  owner,        \* Project.owner
  permission,   \* the tier of each user's membership, "none" without a row
  memberRequest \* what each request was allowed to do
membership == <<owner, permission, memberRequest>>

Tiers == {"viewer", "editor", "owner"}
NoRequest == [pc |-> "idle", op |-> "add", user |-> None, tier |-> "viewer"]

(* ProjectCreateView gives a project its owner's row.                       *)
MembershipInit ==
  /\ owner \in Accounts
  /\ permission = [u \in Accounts |-> IF u = owner THEN "owner" ELSE "none"]
  /\ memberRequest = [r \in MemberRequests |-> NoRequest]

(* The checks of the four views.  Nothing grants OWNER but a transfer,      *)
(* which is to a member.                                                    *)
Authorise(r, op, u, tier) ==
  /\ memberRequest[r].pc = "idle"
  /\ \E admin \in Accounts : permission[admin] = "owner"
  /\ op = "add" => u # owner
  /\ op = "transfer" => permission[u] # "none"
  /\ (tier = "owner") = (op = "transfer")
  /\ op = "remove" => tier = "viewer"
  /\ memberRequest' = [memberRequest EXCEPT
       ![r] = [pc |-> "authorised", op |-> op, user |-> u, tier |-> tier]]
  /\ UNCHANGED <<owner, permission>>

Runs(r, op, u, tier) ==
  memberRequest[r] = [pc |-> "authorised", op |-> op, user |-> u, tier |-> tier]
Answer(r) == memberRequest' = [memberRequest EXCEPT ![r] = NoRequest]
SetPermission(u, tier) == permission' = [permission EXCEPT ![u] = tier]

(* get_or_create: a row that is there and says something else is written    *)
(* later.                                                                   *)
GetOrCreate(r, u, tier) ==
  /\ Runs(r, "add", u, tier)
  /\ CASE permission[u] = "none" -> SetPermission(u, tier) /\ Answer(r)
       [] permission[u] = tier   -> Answer(r) /\ UNCHANGED permission
       [] OTHER -> /\ memberRequest' = [memberRequest EXCEPT ![r].pc = "found"]
                   /\ UNCHANGED permission
  /\ UNCHANGED owner

(* An update of a row that is gone raises.                                  *)
SaveFound(r) ==
  LET u == memberRequest[r].user IN
  /\ memberRequest[r].pc = "found"
  /\ SetPermission(u, IF permission[u] = "none" THEN "none" ELSE memberRequest[r].tier)
  /\ Answer(r)
  /\ UNCHANGED owner

(* The owner's row is refused, a missing one answered with 404.             *)
ChangePermission(r, u, tier) ==
  /\ Runs(r, "change", u, tier)
  /\ SetPermission(u, IF permission[u] \in {"none", "owner"} THEN permission[u] ELSE tier)
  /\ Answer(r)
  /\ UNCHANGED owner

RemoveMember(r, u) ==
  /\ Runs(r, "remove", u, "viewer")
  /\ SetPermission(u, IF permission[u] = "owner" THEN "owner" ELSE "none")
  /\ Answer(r)
  /\ UNCHANGED owner

(* Mutant: the row moves, the project keeps its old owner.                  *)
TransferRowOnly(r, u) ==
  /\ Runs(r, "transfer", u, "owner")
  /\ permission' = [v \in Accounts |->
       CASE v = u -> "owner"
         [] permission[v] = "owner" /\ v # u -> "editor"
         [] OTHER -> permission[v]]
  /\ Answer(r)
  /\ UNCHANGED owner

(* Whoever has the OWNER tier by now is demoted; the new owner gets a row   *)
(* again if it was removed meanwhile.                                       *)
TransferOwnership(r, u) ==
  /\ Runs(r, "transfer", u, "owner")
  /\ IF permission[u] = "owner"
     THEN UNCHANGED <<owner, permission>>
     ELSE /\ permission' = [v \in Accounts |->
                CASE v = u -> "owner"
                  [] permission[v] = "owner" /\ v # u -> "editor"
                  [] OTHER -> permission[v]]
          /\ owner' = u
  /\ Answer(r)

MemberStep(r) ==
  \/ SaveFound(r)
  \/ \E u \in Accounts :
       \/ \E op \in {"add", "change", "remove", "transfer"}, tier \in Tiers : Authorise(r, op, u, tier)
       \/ \E tier \in Tiers : GetOrCreate(r, u, tier) \/ ChangePermission(r, u, tier)
       \/ RemoveMember(r, u)
       \/ TransferOwnership(r, u)

MembershipNext == \E r \in MemberRequests : MemberStep(r)
MembershipSpec == MembershipInit /\ [][MembershipNext]_membership

-----------------------------------------------------------------------------
MembershipTypeOK ==
  /\ owner \in Accounts
  /\ permission \in [Accounts -> Tiers \union {"none"}]
  /\ memberRequest \in [MemberRequests ->
       [pc : {"idle", "authorised", "found"}, op : {"add", "change", "remove", "transfer"},
        user : Accounts \union {None}, tier : Tiers]]

(* Whoever has the OWNER tier is Project.owner, so at most one user has it, *)
(* however transfers, changes and unlocked additions overlap.  (Nobody may  *)
(* have it: an addition that found a row writes over a transfer.)           *)
OwnerTierIsOwners == \A u \in Accounts : permission[u] = "owner" => u = owner
=============================================================================
