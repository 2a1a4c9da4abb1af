---------------------------- MODULE TenantOwners ----------------------------
(***************************************************************************)
(* The owners of one tenant: memberships, tenant-owner roles and the        *)
(* invitations to them (access-administration.service.ts,                   *)
(* membership-invitation.service.ts).                                       *)
(*                                                                         *)
(* endRole and changeMembershipStatus are two steps each.  BEGIN fixes      *)
(* now(), against which the count of owners compares valid_until; the       *)
(* count, the update and the commit follow under an advisory lock.  A role  *)
(* that another request ends in between is still valid at that now().       *)
(* The other operations take no decision on the owners and are one step.    *)
(* Only owners may delegate the owner role or change a status, so each      *)
(* request needs somebody who can sign in as one when it is authorised.     *)
(***************************************************************************)
EXTENDS FiniteSets

CONSTANTS Member,       \* the people who have or may get a membership
          Founder,      \* the member the tenant starts with as owner
          AccessRequest,\* requests that may be under way at the same time
          Grants        \* kinds of assignment: "held", and "limited" in time

ASSUME OwnerAssumption == Founder \in Member /\ Grants \subseteq {"held", "limited"}

VARIABLES owStatus,     \* memberships.status
          owLapsed,     \* members whose memberships.valid_until is past
          owRole,       \* the member's owner role, none when it is over
          owInvited,    \* members with an open invitation
          owRequest     \* per request: what it began with, if it is under way

owVars == <<owStatus, owLapsed, owRole, owInvited, owRequest>>

MemberStatus == {"active", "suspended", "revoked"}
Change == {"end"} \cup MemberStatus
NotBegun == [change |-> "none"]

OwnersTypeOK ==
  /\ owStatus \in [Member -> MemberStatus] /\ owLapsed \subseteq Member
  /\ owRole \in [Member -> {"none", "held", "limited"}] /\ owInvited \subseteq Member
  /\ owRequest \in [AccessRequest ->
         {NotBegun} \cup [change : Change, member : Member, valid : SUBSET Member]]

\* The others are members in some other role.
OwnersInit ==
  /\ owStatus = [m \in Member |-> "active"] /\ owLapsed = {}
  /\ owRole = [m \in Member |-> IF m = Founder THEN "held" ELSE "none"]
  /\ owInvited = {}
  /\ owRequest = [r \in AccessRequest |-> NotBegun]

-----------------------------------------------------------------------------
\* resolvePrincipal and the workspace session take these members for owners.
SignsIn(m) == owStatus[m] = "active" /\ m \notin owLapsed /\ owRole[m] # "none"
Authorised == \E m \in Member : SignsIn(m)

\* createInvitation: one open invitation for an identity, role and scope.
InviteOwner(m) ==
  /\ Authorised /\ m \notin owInvited
  /\ owInvited' = owInvited \cup {m}
  /\ UNCHANGED <<owStatus, owLapsed, owRole, owRequest>>

\* revokeInvitation, bulkRevoke
RevokeInvitation(m) ==
  /\ Authorised /\ m \in owInvited
  /\ owInvited' = owInvited \ {m}
  /\ UNCHANGED <<owStatus, owLapsed, owRole, owRequest>>

\* align_membership_validity_with_status, before a membership is written: an
\* active one has no end, a revoked one has.
LapsedAfter(m, status) ==
  CASE status = "active" -> owLapsed \ {m}
    [] status = "revoked" -> owLapsed \cup {m}
    [] OTHER -> owLapsed

\* accept: the membership is active again, whatever it was.
Accept(m) ==
  /\ m \in owInvited
  /\ owInvited' = owInvited \ {m}
  /\ owStatus' = [owStatus EXCEPT ![m] = "active"]
  /\ owLapsed' = LapsedAfter(m, "active")
  /\ owRole' = [owRole EXCEPT ![m] = IF @ = "none" THEN "held" ELSE @]
  /\ UNCHANGED owRequest

\* assignRole: the exclusion constraint refuses overlapping grants.
AssignRole(m, g) ==
  /\ Authorised /\ owStatus[m] = "active" /\ owRole[m] = "none"
  /\ owRole' = [owRole EXCEPT ![m] = g]
  /\ UNCHANGED <<owStatus, owLapsed, owInvited, owRequest>>

\* valid_until of a role passes.
RoleExpires(m) ==
  /\ owRole[m] = "limited"
  /\ owRole' = [owRole EXCEPT ![m] = "none"]
  /\ UNCHANGED <<owStatus, owLapsed, owInvited, owRequest>>

-----------------------------------------------------------------------------
\* endRole or changeMembershipStatus is authorised and its transaction begins.
BeginChange(r, c, m) ==
  /\ owRequest[r] = NotBegun /\ Authorised
  /\ owRequest' = [owRequest EXCEPT ![r] =
         [change |-> c, member |-> m,
          valid |-> {x \in Member \ {m} : owRole[x] # "none"}]]
  /\ UNCHANGED <<owStatus, owLapsed, owRole, owInvited>>

\* mutant of CountedOwners: the status of the memberships is not asked for
CountedRoles(r) == owRequest[r].valid

\* assertAnotherActiveTenantOwner: status as committed, roles as of now()
CountedOwners(r) == {x \in owRequest[r].valid : owStatus[x] = "active"}

\* what the request tests under its row lock
Permitted(r) ==
  LET q == owRequest[r] IN
  /\ IF q.change = "end" THEN owRole[q.member] # "none"
                         ELSE owStatus[q.member] # q.change
  /\ q.change # "active" => CountedOwners(r) # {}

Apply(c, m) ==
  /\ owRole' = [owRole EXCEPT ![m] = IF c = "end" THEN "none" ELSE @]
  /\ owStatus' = [owStatus EXCEPT ![m] = IF c = "end" THEN @ ELSE c]
  /\ owLapsed' = IF c = "end" THEN owLapsed ELSE LapsedAfter(m, c)

FinishChange(r) ==
  /\ owRequest[r] # NotBegun
  /\ IF Permitted(r) THEN Apply(owRequest[r].change, owRequest[r].member)
                     ELSE UNCHANGED <<owStatus, owLapsed, owRole>>
  /\ owRequest' = [owRequest EXCEPT ![r] = NotBegun]
  /\ UNCHANGED owInvited

OwnersNext ==
  \/ \E m \in Member :
      \/ InviteOwner(m) \/ RevokeInvitation(m) \/ Accept(m) \/ RoleExpires(m)
      \/ \E g \in Grants : AssignRole(m, g)
      \/ \E r \in AccessRequest, c \in Change : BeginChange(r, c, m)
  \/ \E r \in AccessRequest : FinishChange(r)

OwnersSpec == OwnersInit /\ [][OwnersNext]_owVars

-----------------------------------------------------------------------------
\* "The tenant must retain at least one active tenant owner": somebody can
\* always sign in as one.
TenantRetainsOwner == \E m \in Member : SignsIn(m)

\* Each owner the request counts lost the role after its transaction began.
Overtaken(r) ==
  /\ CountedOwners(r) # {}
  /\ \A x \in CountedOwners(r) : owRole[x] = "none"

\* The last owner who can sign in leaves in two ways only: a role in time runs
\* out, or a request goes through although all the owners it counted have lost
\* the role since its transaction began.  Requests about statuses never
\* overtake one another, and whoever is counted by status and role can sign
\* in, which valid_until decides too, however members are revoked and made
\* active again (assertAnotherActiveTenantOwner, endRole,
\* changeMembershipStatus, align_membership_validity_with_status).
LastOwnerLeaves ==
  [][TenantRetainsOwner /\ ~TenantRetainsOwner' =>
       \/ \E m \in Member : RoleExpires(m)
       \/ \E r \in AccessRequest : FinishChange(r) /\ Overtaken(r)]_owVars
=============================================================================
