---------------------------- MODULE ServicesProofs ----------------------------
(***************************************************************************)
(* The parts of MCServices together: every behaviour of the composition is  *)
(* a behaviour of each part, so what is proved of the parts, for any values  *)
(* of the constants, holds of it.  First the one part that has no module of  *)
(* proofs of its own, the members of a project: the OWNER tier follows      *)
(* Project.owner, for any users and any number of overlapping requests.     *)
(***************************************************************************)
EXTENDS MCServices, BindingGovernanceProofs, ScheduleImportProofs, CriticalPathProofs,
        SessionProofs

\* Only a transfer carries the OWNER tier, and only an addition finds a row
\* now and writes it later.
OnlyTransfersGrant ==
  \A r \in MemberRequests : LET m == memberRequest[r] IN
    /\ (m.tier = "owner") = (m.op = "transfer")
    /\ m.pc = "found" => m.op = "add"

MembershipInv == MembershipTypeOK /\ OnlyTransfersGrant /\ OwnerTierIsOwners

\* Every step keeps the types of members, owner and requests.
LEMMA MembershipTyped ==
  ASSUME MembershipTypeOK, [MembershipNext]_membership
  PROVE  MembershipTypeOK'
<1> USE DEF MembershipTypeOK, Tiers
<1>1. ASSUME NEW r \in MemberRequests, NEW op \in {"add", "change", "remove", "transfer"},
             NEW u \in Accounts, NEW tier \in Tiers, Authorise(r, op, u, tier)
      PROVE  MembershipTypeOK'
  BY <1>1 DEF Authorise
<1>2. ASSUME NEW r \in MemberRequests, SaveFound(r)
      PROVE  MembershipTypeOK'
  BY <1>2 DEF SaveFound, SetPermission, Answer, NoRequest
<1>3. ASSUME NEW r \in MemberRequests, NEW u \in Accounts, NEW tier \in Tiers,
             GetOrCreate(r, u, tier) \/ ChangePermission(r, u, tier)
      PROVE  MembershipTypeOK'
  <2>1. CASE GetOrCreate(r, u, tier)
    BY <2>1 DEF GetOrCreate, Runs, SetPermission, Answer, NoRequest
  <2>2. CASE ChangePermission(r, u, tier)
    BY <2>2 DEF ChangePermission, SetPermission, Answer, NoRequest
  <2> QED BY <1>3, <2>1, <2>2
<1>4. ASSUME NEW r \in MemberRequests, NEW u \in Accounts,
             RemoveMember(r, u) \/ TransferOwnership(r, u)
      PROVE  MembershipTypeOK'
  <2>1. CASE RemoveMember(r, u)
    BY <2>1 DEF RemoveMember, SetPermission, Answer, NoRequest
  <2>2. CASE TransferOwnership(r, u)
    BY <2>2 DEF TransferOwnership, Answer, NoRequest
  <2> QED BY <1>4, <2>1, <2>2
<1>5. CASE UNCHANGED membership
  BY <1>5 DEF membership
<1> HIDE DEF MembershipTypeOK, Tiers
<1> QED
  BY <1>1, <1>2, <1>3, <1>4, <1>5 DEF MembershipNext, MemberStep

\* No request but a transfer comes to carry the OWNER tier.
LEMMA GrantsStep ==
  ASSUME MembershipTypeOK, OnlyTransfersGrant, [MembershipNext]_membership
  PROVE  OnlyTransfersGrant'
<1> USE DEF MembershipTypeOK, OnlyTransfersGrant
<1>1. ASSUME NEW r \in MemberRequests, Answer(r)
      PROVE  OnlyTransfersGrant'
  BY <1>1 DEF Answer, NoRequest
<1>2. ASSUME NEW r \in MemberRequests, NEW op \in {"add", "change", "remove", "transfer"},
             NEW u \in Accounts, NEW tier \in Tiers, Authorise(r, op, u, tier)
      PROVE  OnlyTransfersGrant'
  BY <1>2 DEF Authorise
<1>3. ASSUME NEW r \in MemberRequests, NEW u \in Accounts, NEW tier \in Tiers,
             GetOrCreate(r, u, tier)
      PROVE  OnlyTransfersGrant'
  <2>1. CASE permission[u] \in {"none", tier}
    BY <1>1, <1>3, <2>1 DEF GetOrCreate
  <2>2. CASE permission[u] \notin {"none", tier}
    <3>1. memberRequest' = [memberRequest EXCEPT ![r].pc = "found"]
      BY <1>3, <2>2 DEF GetOrCreate
    <3>2. memberRequest[r].op = "add"
      BY <1>3 DEF GetOrCreate, Runs
    <3> QED BY <3>1, <3>2
  <2> QED BY <2>1, <2>2
<1>4. CASE UNCHANGED membership
  BY <1>4 DEF membership
<1> HIDE DEF MembershipTypeOK, OnlyTransfersGrant
<1> QED
  BY <1>1, <1>2, <1>3, <1>4 DEF MembershipNext, MemberStep, SaveFound, ChangePermission,
     RemoveMember, TransferOwnership

\* No step gives the OWNER tier to anyone but Project.owner.
LEMMA OwnerStep ==
  ASSUME MembershipTypeOK, OnlyTransfersGrant, OwnerTierIsOwners, [MembershipNext]_membership
  PROVE  OwnerTierIsOwners'
<1> USE DEF MembershipTypeOK, OwnerTierIsOwners
<1>1. ASSUME NEW r \in MemberRequests, NEW op \in {"add", "change", "remove", "transfer"},
             NEW u \in Accounts, NEW tier \in Tiers, Authorise(r, op, u, tier)
      PROVE  OwnerTierIsOwners'
  BY <1>1 DEF Authorise
<1>2. ASSUME NEW r \in MemberRequests, SaveFound(r)
      PROVE  OwnerTierIsOwners'
  <2>1. memberRequest[r].tier # "owner"
    BY <1>2 DEF SaveFound, OnlyTransfersGrant
  <2> QED BY <1>2, <2>1 DEF SaveFound, SetPermission
<1>3. ASSUME NEW r \in MemberRequests, NEW u \in Accounts, NEW tier \in Tiers,
             GetOrCreate(r, u, tier)
      PROVE  OwnerTierIsOwners'
  <2>1. tier # "owner"
    BY <1>3 DEF GetOrCreate, Runs, OnlyTransfersGrant
  <2> QED BY <1>3, <2>1 DEF GetOrCreate, SetPermission
<1>4. ASSUME NEW r \in MemberRequests, NEW u \in Accounts, NEW tier \in Tiers,
             ChangePermission(r, u, tier)
      PROVE  OwnerTierIsOwners'
  <2>1. tier # "owner"
    BY <1>4 DEF ChangePermission, Runs, OnlyTransfersGrant
  <2> QED BY <1>4, <2>1 DEF ChangePermission, SetPermission
<1>5. ASSUME NEW r \in MemberRequests, NEW u \in Accounts, RemoveMember(r, u)
      PROVE  OwnerTierIsOwners'
  BY <1>5 DEF RemoveMember, SetPermission
<1>6. ASSUME NEW r \in MemberRequests, NEW u \in Accounts, TransferOwnership(r, u)
      PROVE  OwnerTierIsOwners'
  BY <1>6 DEF TransferOwnership
<1>7. CASE UNCHANGED membership
  BY <1>7 DEF membership
<1> HIDE DEF MembershipTypeOK, OwnerTierIsOwners
<1> QED
  BY <1>1, <1>2, <1>3, <1>4, <1>5, <1>6, <1>7 DEF MembershipNext, MemberStep

\* The inductive invariant holds however the requests overlap.
THEOREM MembershipInvariant == MembershipSpec => []MembershipInv
<1>1. MembershipInit => MembershipInv
  BY DEF MembershipInit, MembershipInv, MembershipTypeOK, OnlyTransfersGrant,
     OwnerTierIsOwners, NoRequest, Tiers
<1>2. MembershipInv /\ [MembershipNext]_membership => MembershipInv'
  BY MembershipTyped, GrantsStep, OwnerStep DEF MembershipInv
<1> QED
  BY <1>1, <1>2, PTL DEF MembershipSpec

\* However transfers, tier changes and unlocked additions overlap, nobody but
\* Project.owner has the OWNER tier, so no two users have it.
THEOREM OneOwnerTier == MembershipSpec => []OwnerTierIsOwners
BY MembershipInvariant, PTL DEF MembershipInv

\* The members, the owner and the requests of a project keep to their types.
THEOREM MembershipTypeCorrect == MembershipSpec => []MembershipTypeOK
BY MembershipInvariant, PTL DEF MembershipInv

\* An addition reads a member's row and writes it later.  Where a transfer made that member
\* the owner in between, the write takes the OWNER tier away and the project has nobody left
\* with it.  AdditionsSpareOwner says there is no such addition.
AdditionsSpareOwner ==
  \A r \in MemberRequests : memberRequest[r].pc = "found" => memberRequest[r].user # owner
OwnerHasTier == permission[owner] = "owner"

\* Every other request leaves the owner's row as it is or moves the tier with the ownership.
LEMMA TierStep ==
  ASSUME MembershipTypeOK, OwnerHasTier, AdditionsSpareOwner, [MembershipNext]_membership
  PROVE  OwnerHasTier'
<1> USE DEF MembershipTypeOK, OwnerHasTier
<1>1. ASSUME NEW r \in MemberRequests, NEW op \in {"add", "change", "remove", "transfer"},
             NEW u \in Accounts, NEW tier \in Tiers, Authorise(r, op, u, tier)
      PROVE  OwnerHasTier'
  BY <1>1 DEF Authorise
<1>2. ASSUME NEW r \in MemberRequests, SaveFound(r)
      PROVE  OwnerHasTier'
  BY <1>2 DEF SaveFound, SetPermission, AdditionsSpareOwner
<1>3. ASSUME NEW r \in MemberRequests, NEW u \in Accounts, NEW tier \in Tiers,
             GetOrCreate(r, u, tier) \/ ChangePermission(r, u, tier)
      PROVE  OwnerHasTier'
  BY <1>3 DEF GetOrCreate, ChangePermission, SetPermission
<1>4. ASSUME NEW r \in MemberRequests, NEW u \in Accounts, RemoveMember(r, u)
      PROVE  OwnerHasTier'
  BY <1>4 DEF RemoveMember, SetPermission
<1>5. ASSUME NEW r \in MemberRequests, NEW u \in Accounts, TransferOwnership(r, u)
      PROVE  OwnerHasTier'
  BY <1>5 DEF TransferOwnership
<1>6. CASE UNCHANGED membership
  BY <1>6 DEF membership
<1> HIDE DEF MembershipTypeOK, OwnerHasTier
<1> QED
  BY <1>1, <1>2, <1>3, <1>4, <1>5, <1>6 DEF MembershipNext, MemberStep

\* Only an addition that found its member's row before the member became the owner can
\* leave a project without an OWNER member: transfers, tier changes and removals cannot,
\* however they overlap.
THEOREM OwnerKeepsTier == MembershipSpec /\ []AdditionsSpareOwner => []OwnerHasTier
<1>1. MembershipInit => OwnerHasTier
  BY DEF MembershipInit, OwnerHasTier
<1>2. MembershipInv /\ OwnerHasTier /\ AdditionsSpareOwner /\ [MembershipNext]_membership
        => OwnerHasTier'
  BY TierStep DEF MembershipInv
<1> QED
  BY <1>1, <1>2, MembershipInvariant, PTL DEF MembershipSpec

(***************************************************************************)
(* The composition.  A step of it is a step of the part it has chosen, and  *)
(* leaves the variables of the others alone.                                *)
(***************************************************************************)
services == <<part, governance, imports, network, membership, tables, chat>>

\* What the composition does to schedule links, the governance of bindings does.
LEMMA GovernancePart == ServicesSpec => GovernanceSpec
<1>1. ServicesInit => GovernanceInit
  BY DEF ServicesInit
<1>2. [ServicesNext]_services => [GovernanceNext]_governance
  BY DEF ServicesNext, services
<1> QED
  BY <1>1, <1>2, PTL DEF ServicesSpec, GovernanceSpec, services

\* What it does to schedule versions, the import pipeline does.
LEMMA ImportPart == ServicesSpec => ScheduleSpec
<1>1. ServicesInit => ScheduleInit
  BY DEF ServicesInit
<1>2. [ServicesNext]_services => [ScheduleNext]_imports
  BY DEF ServicesNext, services
<1> QED
  BY <1>1, <1>2, PTL DEF ServicesSpec, ScheduleSpec, services

\* What it does to members and owner, the membership services do.
LEMMA MembershipPart == ServicesSpec => MembershipSpec
<1>1. ServicesInit => MembershipInit
  BY DEF ServicesInit
<1>2. [ServicesNext]_services => [MembershipNext]_membership
  BY DEF ServicesNext, services
<1> QED
  BY <1>1, <1>2, PTL DEF ServicesSpec, MembershipSpec, services

\* What it does to quantity tables, the editable tables do.
LEMMA TablesPart == ServicesSpec => TablesSpec
<1>1. ServicesInit => TablesInit
  BY DEF ServicesInit
<1>2. [ServicesNext]_services => [TablesNext]_tables
  BY DEF ServicesNext, services
<1> QED
  BY <1>1, <1>2, PTL DEF ServicesSpec, TablesSpec, services

\* What it does to a chat session, sending and compaction do.
LEMMA ChatPart == ServicesSpec => CompactionSpec
<1>1. ServicesInit => CompactionInit
  BY DEF ServicesInit
<1>2. [ServicesNext]_services => [CompactionNext]_chat
  BY DEF ServicesNext, services
<1> QED
  BY <1>1, <1>2, PTL DEF ServicesSpec, CompactionSpec, services

\* The network has a schedule in the behaviours that are about it and nothing
\* computed in the others.
OfNetwork == part = "network"

\* What it computes of a network is a critical path run, in the instances that have one;
\* the others compute nothing.
LEMMA NetworkPart ==
  /\ ServicesSpec /\ OfNetwork => CPMSpec
  /\ ServicesSpec /\ ~OfNetwork => [](computed = <<>>)
<1> DEFINE Empty == computed = <<>>
<1>1. /\ ServicesInit /\ OfNetwork => CPMInit
      /\ ServicesInit /\ ~OfNetwork => Empty
  BY DEF ServicesInit, Chosen, OfNetwork
<1>2. [ServicesNext]_services => [CPMNext]_network
  BY DEF ServicesNext, services
<1>3. ~OfNetwork /\ Empty /\ [ServicesNext]_services => ~OfNetwork' /\ Empty'
  BY DEF ServicesNext, services, network, OfNetwork
<1> HIDE DEF Empty
<1>4. ServicesSpec /\ ~OfNetwork => []Empty
  BY <1>1, <1>3, PTL DEF ServicesSpec, services
<1>5. ServicesSpec /\ OfNetwork => CPMSpec
  BY <1>1, <1>2, PTL DEF ServicesSpec, CPMSpec, services
<1> QED
  BY <1>4, <1>5 DEF Empty

\* What is said of the dates of a network is said of computed ones.
LEMMA NothingComputed ==
  computed = <<>> => NetworkTypeOK /\ PassesKeepLinks /\ FloatIsExact
BY DEF NetworkTypeOK, PassesKeepLinks, FloatIsExact

\* Every variable of the six parts keeps to its type, for any number of
\* requests, uploads, decisions, jobs and schedules.
THEOREM ServicesTypeCorrect == ServicesSpec => []ServicesTypeOK
<1>1. ServicesSpec => []GovernanceTypeOK /\ []ImportTypeOK
  BY GovernancePart, ImportPart, GovernanceTypeCorrect, ImportTypeCorrect, PTL
<1>2. ServicesSpec => []MembershipTypeOK /\ []TablesTypeOK /\ []CompactionTypeOK
  BY MembershipPart, TablesPart, ChatPart, MembershipTypeCorrect, TablesTypeCorrect,
     CompactionTypeCorrect, PTL
<1>3. ServicesSpec => []NetworkTypeOK
  <2>1. computed = <<>> => NetworkTypeOK
    BY NothingComputed
  <2> QED BY <2>1, NetworkPart, NetworkTyped, PTL
<1> QED
  BY <1>1, <1>2, <1>3, PTL DEF ServicesTypeOK

\* What the parts promise, about bindings, versions, dates, owners, sessions
\* and chats, they promise together.
ServicesSafe ==
  /\ StatusIsRecorded /\ SupersessionsEnd /\ SupersessionIsPaired /\ LingeringLinkWasRepaired
  /\ VersionsFormALine /\ SelectedFollowsCurrent /\ OnlySuccessLeavesTraces
  /\ PassesKeepLinks /\ FloatIsExact
  /\ OwnerTierIsOwners /\ CleanIsSaved /\ CompactedIsCovered

\* Every invariant of the composition holds of it, whatever part a behaviour is
\* about and whatever the sizes of all of them.
THEOREM ServicesCorrect == ServicesSpec => []ServicesSafe
<1>1. ServicesSpec => /\ []StatusIsRecorded /\ []SupersessionsEnd
                      /\ []SupersessionIsPaired /\ []LingeringLinkWasRepaired
  BY GovernancePart, EveryStatusIsRecorded, ReplacementsEnd, SupersessionsArePaired,
     OnlyRepairsLinger, PTL
<1>2. ServicesSpec => []VersionsFormALine /\ []SelectedFollowsCurrent /\ []OnlySuccessLeavesTraces
  BY ImportPart, OneLineOfVersions, SelectionFollows, FailureLeavesNothing, PTL
<1>3. ServicesSpec => []PassesKeepLinks /\ []FloatIsExact
  <2>1. computed = <<>> => PassesKeepLinks /\ FloatIsExact
    BY NothingComputed
  <2> QED BY <2>1, NetworkPart, LinksAreKept, FloatIsCorrect, PTL
<1>4. ServicesSpec => []OwnerTierIsOwners /\ []CleanIsSaved /\ []CompactedIsCovered
  BY MembershipPart, TablesPart, ChatPart, OneOwnerTier, CleanSessionsAreSaved, NoMessageLost,
     PTL
<1> QED
  BY <1>1, <1>2, <1>3, <1>4, PTL DEF ServicesSafe
=============================================================================
