------------------------------ MODULE Membership ------------------------------
(***************************************************************************)
(* Users, organizations and memberships: registration, invitations, roles, *)
(* removal (auth_controller.py, membership_controller.py) and the checks   *)
(* that every organization-scoped request makes (auth.py,                  *)
(* org_permissions.py).                                                    *)
(*                                                                         *)
(* An action is one access to the database.  Handlers take no lock, and a  *)
(* SELECT sees what is committed when it runs; from its first INSERT or    *)
(* UPDATE on a transaction keeps all other writers out.  A row a handler   *)
(* has loaded stays as it was, and a commit writes only the columns whose  *)
(* value differs from the one loaded.                                      *)
(***************************************************************************)
EXTENDS Naturals, FiniteSets

CONSTANTS
  Threads,      \* API threads
  Users,        \* e-mail addresses
  MaxOrgs,      \* bound: organizations created
  MaxRequests   \* bound: requests served

Orgs == 1 .. MaxOrgs             \* primary keys, in the order of creation
Members == Users \X Orgs         \* a user is once in an organization
Tokens == Nat \ {0}              \* in the order of their issue
NoToken == 0
NoOrg == 0
Roles == {"Owner", "Admin", "Member"}
Removed == "Removed"             \* what a DELETE asks for, in place of a role
Nobody == "nobody"               \* the caller of no request

ASSUME MembershipAssumption ==
  MaxOrgs \in Nat /\ MaxRequests \in Nat /\ Nobody \notin Users

VARIABLES
  user,       \* User.status of each address, "Absent" before its INSERT
  mem,        \* Membership rows
  orgs,       \* organizations created
  issued,     \* invitation tokens issued
  pc,         \* where each thread is
  req,        \* its request and what it has loaded
  requests,   \* requests served so far
  overtaken   \* history: organizations where a commit overtook a request

vars == <<user, mem, orgs, issued, pc, req, requests, overtaken>>

-----------------------------------------------------------------------------
(* State functions.                                                        *)

Rows == [status : {"Absent", "Active", "Inactive", "Pending"},
         role : Roles, token : Tokens \cup {NoToken}]

NoRow == [status |-> "Absent", role |-> "Member", token |-> NoToken]

Labels == {"idle", "check", "guard", "write", "invite", "send", "register",
           "require", "act"}

\* by: current_user; m: the membership asked for; role: the new one; row: m as
\* loaded; known: whether the user invited or registering was found.
Requests == [by : Users, m : Users \X (Orgs \cup {NoOrg}),
             role : Roles \cup {Removed}, row : Rows, known : BOOLEAN,
             token : Tokens \cup {NoToken}]

NoRequest == [by |-> Nobody, m |-> <<Nobody, NoOrg>>, role |-> "Member",
              row |-> NoRow, known |-> FALSE, token |-> NoToken]

Org(t) == req[t].m[2]

IsOrgMember(u, o) == mem[<<u, o>>].status = "Active"
IsOrgAdmin(u, o) == IsOrgMember(u, o) /\ mem[<<u, o>>].role \in {"Owner", "Admin"}
IsOrgOwner(u, o) == IsOrgMember(u, o) /\ mem[<<u, o>>].role = "Owner"

\* Whether the organization is left without an owner if u is not counted.
LastOwnerGuardCountsAll(o, u) == \A v \in Users : ~IsOrgOwner(v, o)
LastOwnerGuard(o, u) == \A v \in Users \ {u} : ~IsOrgOwner(v, o)

\* A request for role r needs an admin, one for the role Owner an owner.
Permitted(u, o, r) == IF r = "Owner" THEN IsOrgOwner(u, o) ELSE IsOrgAdmin(u, o)

\* t has read something that a commit to m makes obsolete: the membership
\* asked for, the one of the caller, or who the owners are.
Overtakes(t, m) ==
  /\ pc[t] \in {"check", "guard", "write", "invite", "send", "act"}
  /\ Org(t) = m[2]
  /\ m \in {req[t].m, <<req[t].by, m[2]>>} \/ IsOrgOwner(m[1], m[2])

Request(th) ==
  /\ pc[th] = "idle"
  /\ requests < MaxRequests
  /\ requests' = requests + 1

Goto(th, label) == pc' = [pc EXCEPT ![th] = label]

Begin(th, label, by, m, role, row, known, token) ==
  /\ Request(th)
  /\ Goto(th, label)
  /\ req' = [req EXCEPT ![th] = [by |-> by, m |-> m, role |-> role, row |-> row,
                                 known |-> known, token |-> token]]

Return(th) ==
  /\ Goto(th, "idle")
  /\ req' = [req EXCEPT ![th] = NoRequest]
  /\ UNCHANGED requests

\* Goes on at label, or answers at once when there is none.
Proceed(th, label) ==
  IF label = "idle" THEN Return(th) ELSE Goto(th, label) /\ UNCHANGED <<req, requests>>

\* The rows f of the memberships ms are written and committed.
Commit(th, ms, f) ==
  /\ mem' = [m \in Members |-> IF m \in ms THEN f[m] ELSE mem[m]]
  /\ overtaken' = overtaken \cup
       {m[2] : m \in {x \in ms : \E t \in Threads \ {th} : Overtakes(t, x)}}

CommitNothing == UNCHANGED <<mem, overtaken>>

Init ==
  /\ user = [u \in Users |-> "Absent"]
  /\ mem = [m \in Members |-> NoRow]
  /\ orgs = 0
  /\ issued = 0
  /\ pc = [th \in Threads |-> "idle"]
  /\ req = [th \in Threads |-> NoRequest]
  /\ requests = 0
  /\ overtaken = {}

-----------------------------------------------------------------------------
(* Registration and new organizations.                                     *)

NewOrganization(th, u) ==
  /\ orgs < MaxOrgs
  /\ orgs' = orgs + 1
  /\ LET m == <<u, orgs + 1>>
     IN  Commit(th, {m}, [x \in {m} |->
           [status |-> "Active", role |-> "Owner", token |-> NoToken]])

\* An active user creates an organization and becomes its owner.
CreateOrganization(th) ==
  /\ Request(th)
  /\ \E u \in Users :
       /\ user[u] = "Active"
       /\ NewOrganization(th, u)
  /\ UNCHANGED <<user, issued, pc, req>>

\* The first query of register.  A user who is not Pending, and a Pending one
\* without a token, are refused.
RegisterRead(th) ==
  \E u \in Users, token \in NoToken .. issued :
    /\ user[u] \in {"Absent", "Pending"}
    /\ user[u] = "Pending" => token # NoToken
    /\ Begin(th, "register", u, <<u, NoOrg>>, "Member", NoRow,
             user[u] = "Pending", token)
    /\ UNCHANGED <<user, mem, orgs, issued, overtaken>>

\* The row of the user is flushed, hence nobody else writes until the commit.
\* An INSERT fails if the address is registered or invited by now.
MayFlush(r) == r.known \/ user[r.by] = "Absent"

\* The memberships a token is good for, and whether it was sent to u.
ClaimableAnyStatus(token) == {m \in Members : mem[m].token = token}
Claimable(token) ==
  {m \in Members : mem[m].status = "Pending" /\ mem[m].token = token}

SentToAnybody(m, u) == TRUE
SentTo(m, u) == m[1] = u

AcceptedKeepsToken(row) == [row EXCEPT !.status = "Active"]
Accepted(row) == [row EXCEPT !.status = "Active", !.token = NoToken]

RegisterWithToken(th) ==
  LET u == req[th].by
  IN  /\ pc[th] = "register" /\ req[th].token # NoToken /\ MayFlush(req[th])
      /\ \E m \in Claimable(req[th].token) :
           /\ SentTo(m, u)
           /\ user' = [user EXCEPT ![u] = "Active"]
           /\ Commit(th, {m, <<u, m[2]>>},
                [x \in {m, <<u, m[2]>>} |->
                   IF x[1] = u THEN Accepted(mem[m]) ELSE NoRow])
      /\ Return(th)
      /\ UNCHANGED <<orgs, issued>>

RegisterWithOrganization(th) ==
  LET u == req[th].by
  IN  /\ pc[th] = "register" /\ req[th].token = NoToken /\ MayFlush(req[th])
      /\ user' = [user EXCEPT ![u] = "Active"]
      /\ NewOrganization(th, u)
      /\ Return(th)
      /\ UNCHANGED issued

\* No such token, a token for somebody else, or the address taken: rollback.
RegisterRefused(th) ==
  LET r == req[th]
  IN  /\ pc[th] = "register"
      /\ \/ ~MayFlush(r)
         \/ r.token # NoToken /\ ~\E m \in Claimable(r.token) : SentTo(m, r.by)
      /\ Return(th)
      /\ CommitNothing
      /\ UNCHANGED <<user, orgs, issued>>

-----------------------------------------------------------------------------
(* invite_member.                                                          *)

\* The permission checks.  The second reads no less than the first, so that
\* the moment of the second one decides.
InviteCheck(th) ==
  \E u, v \in Users, o \in Orgs, r \in Roles :
    /\ user[u] = "Active"
    /\ Permitted(u, o, r)
    /\ Begin(th, "invite", u, <<v, o>>, r, NoRow, FALSE, NoToken)
    /\ UNCHANGED <<user, mem, orgs, issued, overtaken>>

\* The queries for the user and his membership.
InviteRead(th) ==
  LET m == req[th].m
  IN  /\ pc[th] = "invite"
      /\ UNCHANGED <<user, mem, orgs, issued, overtaken>>
      /\ IF mem[m].status = "Active"
         THEN Return(th)
         ELSE /\ Goto(th, "send")
              /\ req' = [req EXCEPT ![th].known = (user[m[1]] # "Absent"),
                                    ![th].row = mem[m]]
              /\ UNCHANGED requests

\* What the commit makes of m: a new row, or the columns that changed.
Invited(m, r, token) ==
  [status |-> IF r.row.status = "Pending" THEN mem[m].status ELSE "Pending",
   role |-> IF r.row.status # "Absent" /\ r.row.role = r.role
            THEN mem[m].role ELSE r.role,
   token |-> token]

\* Inserting a user or a membership that somebody has inserted meanwhile fails.
InviteConflict(r) ==
  \/ ~r.known /\ user[r.m[1]] # "Absent"
  \/ r.row.status = "Absent" /\ mem[r.m].status # "Absent"

InviteSend(th) ==
  LET r == req[th]
      m == r.m
  IN  /\ pc[th] = "send"
      /\ issued' = issued + 1
      /\ IF InviteConflict(r)
         THEN CommitNothing /\ UNCHANGED user
         ELSE /\ user' = [user EXCEPT ![m[1]] = IF r.known THEN @ ELSE "Pending"]
              /\ Commit(th, {m}, [x \in {m} |-> Invited(m, r, issued + 1)])
      /\ Return(th)
      /\ UNCHANGED orgs

-----------------------------------------------------------------------------
(* update_member_role and remove_member.                                   *)

LoadMembership(th) ==
  \E u \in Users, m \in Members, r \in Roles \cup {Removed} :
    /\ user[u] = "Active"
    /\ mem[m].status # "Absent"
    /\ Begin(th, "check", u, m, r, mem[m], FALSE, NoToken)
    /\ UNCHANGED <<user, mem, orgs, issued, overtaken>>

\* The caller's own membership, if it is the one asked for, is not read again:
\* its role is the one loaded.
RoleSeen(r) ==
  IF r.m = <<r.by, r.m[2]>> THEN r.row.role ELSE mem[<<r.by, r.m[2]>>].role

AllowedAdmin(r) ==
  /\ IsOrgMember(r.by, r.m[2])
  /\ RoleSeen(r) \in {"Owner", "Admin"}
Allowed(r) ==
  /\ IsOrgMember(r.by, r.m[2])
  /\ RoleSeen(r) \in (IF r.role = "Owner" THEN {"Owner"} ELSE {"Owner", "Admin"})

CheckPermission(th) ==
  LET r == req[th]
  IN  /\ pc[th] = "check"
      /\ Proceed(th, IF ~Allowed(r) THEN "idle"
                     ELSE IF r.row.role = "Owner" /\ r.role # "Owner" THEN "guard"
                     ELSE "write")
      /\ UNCHANGED <<user, mem, orgs, issued, overtaken>>

CheckLastOwner(th) ==
  LET r == req[th]
  IN  /\ pc[th] = "guard"
      /\ Proceed(th, IF LastOwnerGuard(r.m[2], r.m[1]) THEN "idle" ELSE "write")
      /\ UNCHANGED <<user, mem, orgs, issued, overtaken>>

\* The row of m with what a change of its role, or its removal, writes.
RewrittenAsRole(m, r) == [mem[m] EXCEPT !.role = r.role]
Rewritten(m, r) ==
  IF r.role = Removed
  THEN [mem[m] EXCEPT !.status = IF r.row.status = "Inactive" THEN @ ELSE "Inactive"]
  ELSE [mem[m] EXCEPT !.role = IF r.row.role = r.role THEN @ ELSE r.role]

WriteMembership(th) ==
  LET r == req[th]
  IN  /\ pc[th] = "write"
      /\ Commit(th, {r.m}, [m \in {r.m} |-> Rewritten(m, r)])
      /\ Return(th)
      /\ UNCHANGED <<user, orgs, issued>>

-----------------------------------------------------------------------------
(* Requests in the scope of an organization: adding or removing a camera,  *)
(* saving or deleting a rule.  What they do is left out.                   *)

\* jwt_required: the token names a user and an organization, of which he need
\* not be a member any more; its scope is dropped then.
BindUser(th) ==
  \E u \in Users, claim \in Orgs \cup {NoOrg} :
    /\ user[u] = "Active"
    /\ LET o == IF claim # NoOrg /\ IsOrgMember(u, claim) THEN claim ELSE NoOrg
       IN  Begin(th, "require", u, <<u, o>>, "Member", NoRow, FALSE, NoToken)
    /\ UNCHANGED <<user, mem, orgs, issued, overtaken>>

\* require_active_org, then is_org_admin.
RequireActiveOrg(th) ==
  LET o == Org(th)
  IN  /\ pc[th] = "require"
      /\ Proceed(th, IF o # NoOrg /\ IsOrgAdmin(req[th].by, o) THEN "act" ELSE "idle")
      /\ UNCHANGED <<user, mem, orgs, issued, overtaken>>

ActInOrg(th) ==
  /\ pc[th] = "act"
  /\ Return(th)
  /\ CommitNothing
  /\ UNCHANGED <<user, orgs, issued>>

-----------------------------------------------------------------------------
Next ==
  \E th \in Threads :
    \/ CreateOrganization(th)
    \/ RegisterRead(th) \/ RegisterWithToken(th)
    \/ RegisterWithOrganization(th) \/ RegisterRefused(th)
    \/ InviteCheck(th) \/ InviteRead(th) \/ InviteSend(th)
    \/ LoadMembership(th) \/ CheckPermission(th) \/ CheckLastOwner(th)
    \/ WriteMembership(th)
    \/ BindUser(th) \/ RequireActiveOrg(th) \/ ActInOrg(th)

Spec == Init /\ [][Next]_vars

-----------------------------------------------------------------------------
(* Properties.                                                             *)

Types ==
  /\ user \in [Users -> {"Absent", "Pending", "Active"}]
  /\ mem \in [Members -> Rows]
  /\ orgs \in 0 .. MaxOrgs
  /\ issued \in Nat
  /\ pc \in [Threads -> Labels]
  /\ req \in [Threads -> Requests \cup {NoRequest}]
  /\ \A th \in Threads : pc[th] = "idle" <=> req[th] = NoRequest
  /\ requests \in 0 .. MaxRequests
  /\ overtaken \subseteq Orgs

\* Memberships exist in existing organizations, of known users.
RowsBelong ==
  \A m \in Members :
    mem[m].status # "Absent" => m[2] <= orgs /\ user[m[1]] # "Absent"

\* Types; and only who was invited or has registered has a membership, in an
\* organization that exists.
TypeOK == Types /\ RowsBelong

HasOwner(o) == \E u \in Users : IsOrgOwner(u, o)

\* _last_owner_guard: no sequence of role changes, removals, invitations and
\* registrations takes its last owner from an organization, unless a commit
\* has made obsolete what another request had read.
OwnersUnlessOvertaken == \A o \in 1 .. orgs : o \in overtaken \/ HasOwner(o)

\* The same without the condition: what "Cannot remove the last Owner" says.
OrganizationKeepsAnOwner == \A o \in 1 .. orgs : HasOwner(o)

\* Between the permission checks and the commit of a request its caller is an
\* admin, and an owner if it makes an owner, unless a commit has made obsolete
\* what the request had read.
AuthorityUnlessOvertaken ==
  \A th \in Threads :
    pc[th] \in {"guard", "write", "invite", "send", "act"} =>
      \/ Org(th) \in overtaken
      \/ /\ IsOrgAdmin(req[th].by, Org(th))
         /\ req[th].role = "Owner" => IsOrgOwner(req[th].by, Org(th))

\* A removed member gets back only by a new invitation, though the row keeps
\* the token of the old one, and an active one loses his membership only by
\* removal; the latter unless a commit overtook the invitation that did it.
MembershipLifecycle ==
  [][\A m \in Members :
       LET old == mem[m].status
           new == mem'[m].status
       IN  /\ old = "Inactive" => new \in {"Inactive", "Pending"}
           /\ old = "Active" => new \in {"Active", "Inactive"} \/ m[2] \in overtaken
           /\ old # "Absent" => new # "Absent"]_vars

\* "An invited (Pending) account can only be claimed with the matching invite"
\* (register): a user becomes active together with a membership of his that was
\* pending, or, if he had not been invited, with a new organization.
ClaimedByInvitation ==
  [][\A u \in Users :
       user[u] # "Active" /\ user'[u] = "Active" =>
         \E o \in Orgs :
           /\ mem'[<<u, o>>].status = "Active"
           /\ mem[<<u, o>>].status = IF user[u] = "Pending" THEN "Pending" ELSE "Absent"
           /\ user[u] = "Absent" => o = orgs + 1]_vars

\* A token opens one membership, and only as long as that is not active;
\* two invitations at a time do not share one.  Broken only by an invitation
\* that was overtaken by its acceptance.
TokensOpenOneMembership ==
  \A m, n \in Members :
    /\ m # n /\ mem[m].token # NoToken => mem[m].token # mem[n].token
    /\ mem[m].status = "Active" => mem[m].token = NoToken \/ m[2] \in overtaken

\* The mail of send_invite_email says "Accept invite": register accepts it, and
\* only from users who are not active yet.
InvitationsCanBeAccepted ==
  \A m \in Members : mem[m].status = "Pending" => user[m[1]] = "Pending"
===============================================================================
