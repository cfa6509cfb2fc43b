------------------------------ MODULE Accounts ------------------------------
(***************************************************************************)
(* One organization, its users, their invitations and sessions, and the    *)
(* requests that change them.  A request is authenticated with the role    *)
(* its actor has then, and goes on as separate statements: only the        *)
(* transactions of Login and AcceptInvite hold several of them together.   *)
(***************************************************************************)
EXTENDS Naturals, FiniteSets

CONSTANTS
  Founder,     \* the user created with the organization
  Invitees,    \* the other users
  NoUser,      \* no user
  Sessions,    \* bound: rows of the table sessions
  Requests,    \* requests in progress at once
  MaxTokens,   \* bound: tokens generated for one user
  MaxRequests  \* bound: requests

ASSUME AccountsAssumption ==
  /\ Founder \notin Invitees /\ NoUser \notin Invitees \cup {Founder}
  /\ MaxTokens \in Nat \ {0} /\ MaxRequests \in Nat
  /\ IsFiniteSet(Invitees)

VARIABLES
  org,      \* the organization
  user,     \* user -> row
  session,  \* session that has not expired -> its user
  mailed,   \* user -> the invitation tokens that were sent to the user
  request,  \* request -> where it is and what it has read
  begun     \* requests so far

vars == <<org, user, session, mailed, request, begun>>

Users  == Invitees \cup {Founder}
Roles  == {"owner", "admin", "member"}

\* "deleted" is a soft deletion or an invitation that was purged.
NoRow == [state |-> "none", role |-> "member", token |-> 0, late |-> FALSE]
Gone  == [NoRow EXCEPT !.state = "deleted"]
NoRequest == [at |-> "idle", role |-> "member", target |-> Founder, to |-> "member",
              seen |-> "member", owners |-> 0, token |-> 0]

Steps == {"idle", "login", "accept", "mail", "resend", "countForRole", "writeRole",
          "countForDelete", "sessions", "deleteUser", "deleteOrg"}
Rows  == [state : {"none", "invited", "active", "deleted"}, role : Roles,
          token : 0..MaxTokens, late : BOOLEAN]

TypeOK ==
  /\ org \in {"none", "founding", "active", "deleted"}
  /\ user \in [Users -> Rows]
  /\ session \in [Sessions -> Users \cup {NoUser}]
  /\ mailed \in [Users -> SUBSET (1..MaxTokens)]
  /\ request \in [Requests ->
       [at : Steps, role : Roles, target : Users, to : Roles, seen : Roles,
        owners : 0..Cardinality(Users), token : 0..MaxTokens]]
  /\ begun \in 0..MaxRequests

Init ==
  /\ org = "none"
  /\ user = [u \in Users |-> NoRow]
  /\ session = [s \in Sessions |-> NoUser]
  /\ mailed = [u \in Users |-> {}]
  /\ request = [r \in Requests |-> NoRequest]
  /\ begun = 0

Live(u) == user[u].state \in {"invited", "active"}

\* Rows with the role of an owner: an invitation that is not accepted counts.
Owners == {u \in Users : Live(u) /\ user[u].role = "owner"}

-----------------------------------------------------------------------------
(* Who may do what.                                                         *)

RoleLevel(role) == CASE role = "owner" -> 3 [] role = "admin" -> 2 [] role = "member" -> 1

RoleHasAtLeast(role, required) == RoleLevel(role) >= RoleLevel(required)

\* What the Authenticator promises: the session exists, has not expired, and the
\* role is read from the user's row on every request.
ResolveToken(a) ==
  /\ user[a].state = "active"
  /\ \E s \in Sessions : session[s] = a

\* The routes that require a role, and the handlers that look at it themselves.
MinRole(op) ==
  CASE op \in {"invite", "resend"} -> "admin"
    [] op = "deleteOrg" -> "owner"
    [] op \in {"role", "deleteUser"} -> "member"

\* AuthMiddleware and RequireRole: actor a begins request r for operation op.
Admitted(r, a, op) ==
  /\ request[r].at = "idle"
  /\ begun < MaxRequests
  /\ begun' = begun + 1
  /\ ResolveToken(a)
  /\ RoleHasAtLeast(user[a].role, MinRole(op))

Continue(r, at) == request' = [request EXCEPT ![r].at = at]
End(r) == request' = [request EXCEPT ![r] = NoRequest]

-----------------------------------------------------------------------------
(* The organization.                                                        *)

\* The row of a user who needs no invitation.
CreateWithProvider(u, role) ==
  user' = [user EXCEPT ![u] = [NoRow EXCEPT !.state = "active", !.role = role]]

\* OrganizationHandler.Create: the organization's row, ...
InsertOrganization ==
  /\ org = "none"
  /\ org' = "founding"
  /\ UNCHANGED <<user, session, mailed, request, begun>>

\* ... then the owner's, in no common transaction; the Stripe customer that is
\* created last is best effort.
InsertOwner ==
  /\ org = "founding"
  /\ org' = "active"
  /\ CreateWithProvider(Founder, "owner")
  /\ UNCHANGED <<session, mailed, request, begun>>

\* OrganizationHandler.Delete: the subscription is cancelled first, or the
\* request fails; the WatchPoints are then paused as far as that succeeds.
CancelSubscription(r, a) ==
  /\ org = "active"
  /\ Admitted(r, a, "deleteOrg")
  /\ Continue(r, "deleteOrg")
  /\ UNCHANGED <<org, user, session, mailed>>

\* OrganizationRepository.Delete: users and sessions are left as they are.
DeleteOrganization(r) ==
  /\ request[r].at = "deleteOrg"
  /\ org' = "deleted"
  /\ End(r)
  /\ UNCHANGED <<user, session, mailed, begun>>

-----------------------------------------------------------------------------
(* Sessions.                                                                *)

\* SessionRepository.Create; the expired rows of the user go in the same
\* transaction.
CreateSession(u) ==
  \E s \in Sessions : session[s] = NoUser /\ session' = [session EXCEPT ![s] = u]

\* The row is found under its email as long as its organization is not deleted.
GetByEmail(u) == Live(u) /\ org # "deleted"

\* The UPDATE fails if the user is deleted by now.
UpdateLastLogin(u) == Live(u)

\* Login up to its transaction: the row, the password, and the status.
\* (The founder's password is set by hand: UpdatePassword has no caller.)
BeginLogin(r, u) ==
  /\ request[r].at = "idle"
  /\ begun < MaxRequests /\ begun' = begun + 1
  /\ GetByEmail(u) /\ user[u].state = "active"
  /\ request' = [request EXCEPT ![r].at = "login", ![r].target = u]
  /\ UNCHANGED <<org, user, session, mailed>>

\* The transaction of Login, which UpdateLastLogin may end.
CommitLogin(r) ==
  /\ request[r].at = "login"
  /\ IF UpdateLastLogin(request[r].target) THEN CreateSession(request[r].target) ELSE UNCHANGED session
  /\ End(r)
  /\ UNCHANGED <<org, user, mailed, begun>>

\* HandleLogout and InvalidateSession.
Logout(s) ==
  /\ session[s] # NoUser
  /\ session' = [session EXCEPT ![s] = NoUser]
  /\ UNCHANGED <<org, user, mailed, request, begun>>

\* expires_at passes, and ValidateSession refuses the session and deletes it.
ExpireSession(s) ==
  /\ session[s] # NoUser
  /\ session' = [session EXCEPT ![s] = NoUser]
  /\ UNCHANGED <<org, user, mailed, request, begun>>

-----------------------------------------------------------------------------
(* Invitations.                                                             *)

\* Every token is new: 32 random bytes, of which the row keeps the hash.
NewToken(u) == user[u].token + 1

\* The row of an invitation, which a user with this email prevents.
CreateInvited(u, role) ==
  /\ user[u].state = "none"
  /\ user' = [user EXCEPT ![u] = [state |-> "invited", role |-> role, token |-> NewToken(u),
                                  late |-> FALSE]]

\* UserHandler.Invite: the role is any, whoever invites.
Invite(r, a, u, role) ==
  /\ Admitted(r, a, "invite")
  /\ CreateInvited(u, role)
  /\ request' = [request EXCEPT ![r].at = "mail", ![r].role = user[a].role, ![r].target = u,
                                ![r].token = NewToken(u)]
  /\ UNCHANGED <<org, session, mailed>>

\* UserHandler.ResendInvite reads the status ...
BeginResend(r, a, u) ==
  /\ Admitted(r, a, "resend")
  /\ user[u].state = "invited" /\ NewToken(u) <= MaxTokens
  /\ request' = [request EXCEPT ![r].at = "resend", ![r].target = u]
  /\ UNCHANGED <<org, user, session, mailed>>

\* Mutant: UpdateInviteToken without its condition on the status.
UpdateInviteTokenOfAny(r) ==
  LET u == request[r].target IN
  /\ request[r].at = "resend" /\ NewToken(u) <= MaxTokens
  /\ user' = [user EXCEPT ![u].token = NewToken(u), ![u].late = FALSE]
  /\ request' = [request EXCEPT ![r].at = "mail", ![r].token = NewToken(u)]
  /\ UNCHANGED <<org, session, mailed, begun>>

\* ... and UpdateInviteToken looks at it once more.
UpdateInviteToken(r) ==
  LET u == request[r].target IN
  /\ request[r].at = "resend"
  /\ \/ /\ user[u].state = "invited" /\ NewToken(u) <= MaxTokens
        /\ user' = [user EXCEPT ![u].token = NewToken(u), ![u].late = FALSE]
        /\ request' = [request EXCEPT ![r].at = "mail", ![r].token = NewToken(u)]
     \/ /\ user[u].state # "invited"
        /\ UNCHANGED user
        /\ End(r)
  /\ UNCHANGED <<org, session, mailed, begun>>

\* SendInvite: if it fails the request fails, and the row stays.
SendInvite(r) ==
  /\ request[r].at = "mail"
  /\ \/ mailed' = [mailed EXCEPT ![request[r].target] = @ \cup {request[r].token}]
     \/ UNCHANGED mailed
  /\ End(r)
  /\ UNCHANGED <<org, user, session, begun>>

\* invite_expires_at passes.
ExpireInvite(u) ==
  /\ user[u].state = "invited" /\ ~user[u].late
  /\ user' = [user EXCEPT ![u].late = TRUE]
  /\ UNCHANGED <<org, session, mailed, request, begun>>

\* PurgeExpiredInvites, one DELETE.
PurgeExpiredInvites ==
  LET purged == {u \in Users : user[u].state = "invited" /\ user[u].late} IN
  /\ purged # {}
  /\ user' = [u \in Users |-> IF u \in purged THEN Gone ELSE user[u]]
  /\ UNCHANGED <<org, session, mailed, request, begun>>

\* The row that still has the hash of a token that was sent.
GetByInviteTokenHash(u) == user[u].state = "invited" /\ user[u].token \in mailed[u]

\* The UPDATE requires the row not to be deleted, and no more; it forgets the token.
UpdateStatus(u) ==
  /\ Live(u)
  /\ user' = [user EXCEPT ![u].state = "active", ![u].token = 0, ![u].late = FALSE]

\* AcceptInvite up to its transaction: the row and the expiry.
BeginAccept(r, u) ==
  /\ request[r].at = "idle"
  /\ begun < MaxRequests /\ begun' = begun + 1
  /\ GetByInviteTokenHash(u) /\ ~user[u].late
  /\ request' = [request EXCEPT ![r].at = "accept", ![r].target = u]
  /\ UNCHANGED <<org, user, session, mailed>>

\* Its transaction: the row is activated and a session created, or neither.
CommitAccept(r) ==
  LET u == request[r].target IN
  /\ request[r].at = "accept"
  /\ \/ UpdateStatus(u) /\ CreateSession(u)
     \/ ~Live(u) /\ UNCHANGED <<user, session>>
  /\ End(r)
  /\ UNCHANGED <<org, mailed, begun>>

-----------------------------------------------------------------------------
(* Roles and removal.                                                       *)

\* Mutant: an admin must leave owners alone, but may make others one.
AdminsPromote(role, target, to) ==
  /\ RoleHasAtLeast(role, "admin")
  /\ role = "admin" => target.role # "owner"

\* validateRoleTransition but for the last owner, with the row as it was read.
TransitionAllowed(role, target, to) ==
  /\ RoleHasAtLeast(role, "admin")
  /\ role = "admin" => to # "owner" /\ target.role # "owner"

\* UserHandler.UpdateRole reads the row and checks the matrix.
BeginUpdateRole(r, a, u, to) ==
  /\ Admitted(r, a, "role")
  /\ Live(u) /\ user[u].role # to
  /\ TransitionAllowed(user[a].role, user[u], to)
  /\ request' = [request EXCEPT
       ![r] = [@ EXCEPT !.at = IF user[u].role = "owner" THEN "countForRole" ELSE "writeRole",
                        !.role = user[a].role, !.target = u, !.to = to, !.seen = user[u].role]]
  /\ UNCHANGED <<org, user, session, mailed>>

\* UserHandler.Delete reads the row and checks who may remove it: oneself, an
\* owner, or an admin if it is a member.
BeginDeleteUser(r, a, u) ==
  /\ Admitted(r, a, "deleteUser")
  /\ Live(u)
  /\ \/ a = u
     \/ user[a].role = "owner"
     \/ user[a].role = "admin" /\ user[u].role = "member"
  /\ request' = [request EXCEPT
       ![r] = [@ EXCEPT !.at = IF user[u].role = "owner" THEN "countForDelete" ELSE "sessions",
                        !.role = user[a].role, !.target = u, !.seen = user[u].role]]
  /\ UNCHANGED <<org, user, session, mailed>>

\* Mutant: the count is compared with zero.
CountOwnersOffByOne(r) ==
  /\ request[r].at \in {"countForRole", "countForDelete"}
  /\ request' = [request EXCEPT
       ![r].owners = Cardinality(Owners),
       ![r].at = IF @ = "countForRole" THEN "writeRole" ELSE "sessions"]
  /\ UNCHANGED <<org, user, session, mailed, begun>>

\* CountOwners, a plain COUNT outside a transaction: the last owner is refused.
CountOwners(r) ==
  /\ request[r].at \in {"countForRole", "countForDelete"}
  /\ IF Cardinality(Owners) <= 1
     THEN End(r)
     ELSE request' = [request EXCEPT
            ![r].owners = Cardinality(Owners),
            ![r].at = IF @ = "countForRole" THEN "writeRole" ELSE "sessions"]
  /\ UNCHANGED <<org, user, session, mailed, begun>>

\* UserRepository.Update and Delete: rows that are deleted by now stay as they are.
Update(u, role) == user' = IF Live(u) THEN [user EXCEPT ![u].role = role] ELSE user
Delete(u)       == user' = IF Live(u) THEN [user EXCEPT ![u] = Gone] ELSE user

\* The end of UserHandler.UpdateRole.
WriteRole(r) ==
  /\ request[r].at = "writeRole"
  /\ Update(request[r].target, request[r].to)
  /\ End(r)
  /\ UNCHANGED <<org, session, mailed, begun>>

\* DeleteByUser; its failure does not stop the deletion.
DeleteByUser(r) ==
  /\ request[r].at = "sessions"
  /\ \/ session' = [s \in Sessions |->
          IF session[s] = request[r].target THEN NoUser ELSE session[s]]
     \/ UNCHANGED session
  /\ Continue(r, "deleteUser")
  /\ UNCHANGED <<org, user, mailed, begun>>

\* The end of UserHandler.Delete: the API keys of the user stay valid.
DeleteUser(r) ==
  /\ request[r].at = "deleteUser"
  /\ Delete(request[r].target)
  /\ End(r)
  /\ UNCHANGED <<org, session, mailed, begun>>

-----------------------------------------------------------------------------
\* A statement fails: the request ends with what it has done so far.
Abandon(r) ==
  /\ request[r].at # "idle"
  /\ End(r)
  /\ UNCHANGED <<org, user, session, mailed, begun>>

Begin(r) ==
  \/ \E a \in Users :
       \/ CancelSubscription(r, a)
       \/ \E u \in Users :
            \/ BeginResend(r, a, u) \/ BeginDeleteUser(r, a, u)
            \/ \E role \in Roles : Invite(r, a, u, role) \/ BeginUpdateRole(r, a, u, role)
  \/ \E u \in Users : BeginLogin(r, u) \/ BeginAccept(r, u)

Proceed(r) ==
  \/ DeleteOrganization(r) \/ CommitLogin(r) \/ CommitAccept(r) \/ UpdateInviteToken(r) \/ SendInvite(r)
  \/ CountOwners(r) \/ WriteRole(r) \/ DeleteByUser(r) \/ DeleteUser(r)

Next ==
  \/ InsertOrganization \/ InsertOwner \/ PurgeExpiredInvites
  \/ \E r \in Requests : Begin(r) \/ Proceed(r) \/ Abandon(r)
  \/ \E s \in Sessions : Logout(s) \/ ExpireSession(s)
  \/ \E u \in Users : ExpireInvite(u)

Spec == Init /\ [][Next]_vars

-----------------------------------------------------------------------------
(* Properties.                                                              *)

\* The owners disappear only if a request acts on what is no longer true: its
\* count of the owners, or the role its target had when it was read.  The purge
\* may remove an owner who never accepted, and then only such owners were left.
OwnersOutliveFreshChecks ==
  [][Owners # {} /\ Owners' = {} =>
       \/ \E u \in Owners : user[u].state = "invited" /\ user[u].late
       \/ \E r \in Requests :
            /\ request[r].at \in {"writeRole", "deleteUser"} /\ request'[r].at = "idle"
            /\ \/ request[r].owners > Cardinality(Owners)
               \/ request[r].seen # "owner"]_vars

\* A session is only ever created for a user who is active then, although the
\* status is read before the transaction that creates it.
SessionsAreForActiveUsers ==
  [][\A s \in Sessions :
       session'[s] \notin {NoUser, session[s]} => user'[session'[s]].state = "active"]_vars

\* The token of an accepted or withdrawn invitation opens nothing any more, even
\* if the invitation was being resent at that moment.
InvitationIsSpent ==
  \A u \in Users : user[u].token # 0 => user[u].state = "invited"

Consistent == TypeOK /\ InvitationIsSpent

\* An admin takes no role from an owner and removes none, unless the role of the
\* target changed after the request had read it.
AdminsLeaveOwnersAlone ==
  [][\A r \in Requests : \A u \in Users :
       /\ request[r].at \in {"writeRole", "deleteUser"} /\ request'[r].at = "idle"
       /\ request[r].role = "admin" /\ request[r].target = u
       /\ (u \in Owners) # (u \in Owners')
       => request[r].seen # user[u].role]_vars

\* Nobody becomes an owner but the founder, with the organization; by a change of
\* role that an owner asked for; or by an invitation.  The invitation need not be an
\* owner's: an admin, who may not promote anybody to owner, may invite one.
OwnersAreMade ==
  [][\A u \in Owners' \ Owners :
       \/ org = "founding" /\ u = Founder
       \/ \E r \in Requests :
            /\ request[r].at = "writeRole" /\ request'[r].at = "idle"
            /\ request[r].role = "owner" /\ request[r].target = u
       \/ \E r \in Requests :
            /\ request[r].at = "idle" /\ request'[r].at = "mail"
            /\ request'[r].role \in {"owner", "admin"} /\ request'[r].target = u]_vars

\* No step reaches further than the one who takes it may: a login no further than
\* the account, and to an owner's role no further than owners and invitations.
StepsAreAuthorized == SessionsAreForActiveUsers /\ AdminsLeaveOwnersAlone /\ OwnersAreMade
=============================================================================
