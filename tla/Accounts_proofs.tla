--------------------------- MODULE Accounts_proofs ---------------------------
(***************************************************************************)
(* Roles, sessions and invitations of an organization, for every number of *)
(* users, sessions, tokens and requests in progress.                       *)
(***************************************************************************)
EXTENDS Accounts, FiniteSetTheorems, TLAPS

RequestRows ==
  [at : Steps, role : Roles, target : Users, to : Roles, seen : Roles,
   owners : 0..Cardinality(Users), token : 0..MaxTokens]

(* What a request carries from the statements it has done to those it will. *)
RequestHolds(r) ==
  /\ request[r].at = "mail" => request[r].token # 0
  /\ request[r].at = "login" => user[request[r].target].state \in {"active", "deleted"}
  /\ request[r].at \in {"writeRole", "sessions", "deleteUser"} /\ request[r].seen = "owner" =>
       request[r].owners >= 2
  /\ request[r].at \in {"countForRole", "writeRole"} => request[r].role # "member"
  /\ request[r].at \in {"countForRole", "writeRole"} /\ request[r].role = "admin" =>
       request[r].to # "owner" /\ request[r].seen # "owner"
  /\ request[r].at \in {"countForDelete", "sessions", "deleteUser"} /\ request[r].role = "admin" =>
       request[r].seen # "owner"

IInv ==
  /\ TypeOK /\ InvitationIsSpent
  /\ \A r \in Requests : RequestHolds(r)

(* What each step does, as the action properties state it.                  *)
OwnersOutlive ==
  Owners # {} /\ Owners' = {} =>
    \/ \E u \in Owners : user[u].state = "invited" /\ user[u].late
    \/ \E r \in Requests :
         /\ request[r].at \in {"writeRole", "deleteUser"} /\ request'[r].at = "idle"
         /\ \/ request[r].owners > Cardinality(Owners)
            \/ request[r].seen # "owner"

SessionsAreEarned ==
  \A s \in Sessions :
    session'[s] \notin {NoUser, session[s]} => user'[session'[s]].state = "active"

OwnersLeftAlone ==
  \A r \in Requests : \A u \in Users :
    /\ request[r].at \in {"writeRole", "deleteUser"} /\ request'[r].at = "idle"
    /\ request[r].role = "admin" /\ request[r].target = u
    /\ (u \in Owners) # (u \in Owners')
    => request[r].seen # user[u].role

Good == IInv' /\ OwnersOutlive /\ SessionsAreEarned /\ OwnersLeftAlone

-----------------------------------------------------------------------------
(* Steps of one request.                                                    *)

RequestStep(r) ==
  /\ request' \in [Requests -> RequestRows] /\ \A q \in Requests \ {r} : request'[q] = request[q]

LEMMA NoRequestTyped == NoRequest \in RequestRows /\ NoRequest.at = "idle"
<1>1. Cardinality(Users) \in Nat
  <2>1. IsFiniteSet(Users)
    BY AccountsAssumption, FS_AddElement DEF Users
  <2> QED
    BY <2>1, FS_CardinalityType
<1> QED
  BY <1>1, AccountsAssumption DEF NoRequest, RequestRows, Steps, Roles, Users

LEMMA RequestTypes ==
  ASSUME IInv
  PROVE  request \in [Requests -> RequestRows] /\ Cardinality(Users) \in Nat /\ IsFiniteSet(Users)
<1>1. IsFiniteSet(Users)
  BY AccountsAssumption, FS_AddElement DEF Users
<1> QED
  BY <1>1, FS_CardinalityType DEF IInv, TypeOK, RequestRows

LEMMA RowWritten ==
  ASSUME IInv, NEW r \in Requests, NEW new \in RequestRows, request' = [request EXCEPT ![r] = new]
  PROVE  RequestStep(r) /\ request'[r] = new
  BY RequestTypes DEF RequestStep

LEMMA EndSteps ==
  ASSUME IInv, NEW r \in Requests, End(r)
  PROVE  RequestStep(r) /\ request'[r].at = "idle" /\ RequestHolds(r)'
<1>1. RequestStep(r) /\ request'[r] = NoRequest
  BY NoRequestTyped, RowWritten DEF End
<1> QED
  BY <1>1, NoRequestTyped DEF RequestHolds

LEMMA ContinueSteps ==
  ASSUME IInv, NEW r \in Requests, NEW at \in Steps, Continue(r, at)
  PROVE  /\ RequestStep(r) /\ request'[r].at = at
         /\ request'[r].role = request[r].role /\ request'[r].target = request[r].target
         /\ request'[r].to = request[r].to /\ request'[r].seen = request[r].seen
         /\ request'[r].owners = request[r].owners /\ request'[r].token = request[r].token
<1> DEFINE new == [request[r] EXCEPT !.at = at]
<1>1. request[r] \in RequestRows
  BY RequestTypes
<1>2. /\ new \in RequestRows /\ new.at = at
      /\ new.role = request[r].role /\ new.target = request[r].target /\ new.to = request[r].to
      /\ new.seen = request[r].seen /\ new.owners = request[r].owners /\ new.token = request[r].token
  BY <1>1 DEF RequestRows
<1>3. request' = [request EXCEPT ![r] = new]
  BY DEF Continue
<1> HIDE DEF new
<1>4. RequestStep(r) /\ request'[r] = new
  BY <1>2, <1>3, RowWritten
<1> QED
  BY <1>2, <1>4

\* Nobody who was active is invited again.
Lasting ==
  \A u \in Users : user[u].state \in {"active", "deleted"} => user'[u].state \in {"active", "deleted"}

Tables ==
  /\ org \in {"none", "founding", "active", "deleted"} /\ user \in [Users -> Rows]
  /\ session \in [Sessions -> Users \cup {NoUser}] /\ mailed \in [Users -> SUBSET (1..MaxTokens)]
  /\ begun \in 0..MaxRequests

LEMMA StepPreserves ==
  ASSUME IInv, Tables', request' \in [Requests -> RequestRows], InvitationIsSpent', Lasting,
         \A r \in Requests : request'[r] = request[r] \/ RequestHolds(r)'
  PROVE  IInv'
<1>1. TypeOK'
  BY DEF Tables, TypeOK, RequestRows
<1>2. ASSUME NEW r \in Requests, request'[r] = request[r]
      PROVE  RequestHolds(r)'
  <2>1. request[r].target \in Users /\ RequestHolds(r)
    BY RequestTypes DEF IInv, RequestRows
  <2> QED
    BY <1>2, <2>1 DEF RequestHolds, Lasting
<1> QED
  BY <1>1, <1>2 DEF IInv

\* A step that leaves the users alone, and makes no session.
LEMMA QuietPreserves ==
  ASSUME IInv, Tables', request' \in [Requests -> RequestRows], UNCHANGED user,
         \A r \in Requests : request'[r] = request[r] \/ RequestHolds(r)',
         \A s \in Sessions : session'[s] \in {NoUser, session[s]}
  PROVE  Good
<1>1. InvitationIsSpent' /\ Lasting
  BY DEF IInv, InvitationIsSpent, Lasting
<1>2. Owners' = Owners
  BY DEF Owners, Live
<1> QED
  BY <1>1, <1>2, StepPreserves DEF Good, OwnersOutlive, SessionsAreEarned, OwnersLeftAlone

\* A request that begins, with what it has read.
LEMMA BeginPreserves ==
  ASSUME IInv, NEW r \in Requests, RequestStep(r), RequestHolds(r)', UNCHANGED <<org, user, session, mailed>>,
         begun < MaxRequests, begun' = begun + 1
  PROVE  Good
<1>1. begun' \in 0..MaxRequests
  BY AccountsAssumption DEF IInv, TypeOK
<1>2. Tables'
  BY <1>1 DEF IInv, TypeOK, Tables
<1> QED
  BY <1>2, QuietPreserves DEF RequestStep

-----------------------------------------------------------------------------
(* Requests that begin.                                                     *)

LEMMA CancelSubscriptionPreserves ==
  ASSUME IInv, NEW r \in Requests, NEW a \in Users, CancelSubscription(r, a)
  PROVE  Good
<1>1. RequestStep(r) /\ request'[r].at = "deleteOrg"
  BY ContinueSteps DEF CancelSubscription, Steps
<1>2. RequestHolds(r)'
  BY <1>1 DEF RequestHolds
<1> QED
  BY <1>1, <1>2, BeginPreserves DEF CancelSubscription, Admitted

LEMMA BeginLoginPreserves ==
  ASSUME IInv, NEW r \in Requests, NEW u \in Users, BeginLogin(r, u)
  PROVE  Good
<1> DEFINE new == [request[r] EXCEPT !.at = "login", !.target = u]
<1>1. request[r] \in RequestRows
  BY RequestTypes
<1>2. new \in RequestRows /\ new.at = "login" /\ new.target = u
  BY <1>1 DEF RequestRows, Steps
<1>3. request' = [request EXCEPT ![r] = new]
  BY DEF BeginLogin
<1> HIDE DEF new
<1>4. RequestStep(r) /\ request'[r] = new
  BY <1>2, <1>3, RowWritten
<1>5. RequestHolds(r)'
  BY <1>2, <1>4 DEF RequestHolds, BeginLogin
<1> QED
  BY <1>4, <1>5, BeginPreserves DEF BeginLogin

LEMMA BeginAcceptPreserves ==
  ASSUME IInv, NEW r \in Requests, NEW u \in Users, BeginAccept(r, u)
  PROVE  Good
<1> DEFINE new == [request[r] EXCEPT !.at = "accept", !.target = u]
<1>1. request[r] \in RequestRows
  BY RequestTypes
<1>2. new \in RequestRows /\ new.at = "accept"
  BY <1>1 DEF RequestRows, Steps
<1>3. request' = [request EXCEPT ![r] = new]
  BY DEF BeginAccept
<1> HIDE DEF new
<1>4. RequestStep(r) /\ request'[r] = new
  BY <1>2, <1>3, RowWritten
<1>5. RequestHolds(r)'
  BY <1>2, <1>4 DEF RequestHolds
<1> QED
  BY <1>4, <1>5, BeginPreserves DEF BeginAccept

LEMMA BeginResendPreserves ==
  ASSUME IInv, NEW r \in Requests, NEW a \in Users, NEW u \in Users, BeginResend(r, a, u)
  PROVE  Good
<1> DEFINE new == [request[r] EXCEPT !.at = "resend", !.target = u]
<1>1. request[r] \in RequestRows
  BY RequestTypes
<1>2. new \in RequestRows /\ new.at = "resend"
  BY <1>1 DEF RequestRows, Steps
<1>3. request' = [request EXCEPT ![r] = new]
  BY DEF BeginResend
<1> HIDE DEF new
<1>4. RequestStep(r) /\ request'[r] = new
  BY <1>2, <1>3, RowWritten
<1>5. RequestHolds(r)'
  BY <1>2, <1>4 DEF RequestHolds
<1> QED
  BY <1>4, <1>5, BeginPreserves DEF BeginResend, Admitted

\* The matrix of roles: an admin gets no further with an owner, or to one.
LEMMA BeginUpdateRolePreserves ==
  ASSUME IInv, NEW r \in Requests, NEW a \in Users, NEW u \in Users, NEW to \in Roles,
         BeginUpdateRole(r, a, u, to)
  PROVE  Good
<1> DEFINE at  == IF user[u].role = "owner" THEN "countForRole" ELSE "writeRole"
           new == [request[r] EXCEPT !.at = at, !.role = user[a].role, !.target = u, !.to = to,
                                     !.seen = user[u].role]
<1>1. request[r] \in RequestRows /\ user[a].role \in Roles /\ user[u].role \in Roles
  BY RequestTypes DEF IInv, TypeOK, Rows
<1>2. /\ new \in RequestRows /\ new.at = at /\ new.role = user[a].role /\ new.to = to
      /\ new.seen = user[u].role
  BY <1>1 DEF RequestRows, Steps
<1>3. request' = [request EXCEPT ![r] = new]
  BY DEF BeginUpdateRole
<1> HIDE DEF new
<1>4. RequestStep(r) /\ request'[r] = new
  BY <1>2, <1>3, RowWritten
<1>5. user[a].role # "member"
  BY DEF BeginUpdateRole, TransitionAllowed, RoleHasAtLeast, RoleLevel
<1>6. RequestHolds(r)'
  BY <1>2, <1>4, <1>5 DEF RequestHolds, BeginUpdateRole, TransitionAllowed
<1> QED
  BY <1>4, <1>6, BeginPreserves DEF BeginUpdateRole, Admitted

LEMMA BeginDeleteUserPreserves ==
  ASSUME IInv, NEW r \in Requests, NEW a \in Users, NEW u \in Users, BeginDeleteUser(r, a, u)
  PROVE  Good
<1> DEFINE at  == IF user[u].role = "owner" THEN "countForDelete" ELSE "sessions"
           new == [request[r] EXCEPT !.at = at, !.role = user[a].role, !.target = u,
                                     !.seen = user[u].role]
<1>1. request[r] \in RequestRows /\ user[a].role \in Roles /\ user[u].role \in Roles
  BY RequestTypes DEF IInv, TypeOK, Rows
<1>2. new \in RequestRows /\ new.at = at /\ new.role = user[a].role /\ new.seen = user[u].role
  BY <1>1 DEF RequestRows, Steps
<1>3. request' = [request EXCEPT ![r] = new]
  BY DEF BeginDeleteUser
<1> HIDE DEF new
<1>4. RequestStep(r) /\ request'[r] = new
  BY <1>2, <1>3, RowWritten
<1>5. RequestHolds(r)'
  BY <1>2, <1>4 DEF RequestHolds, BeginDeleteUser
<1> QED
  BY <1>4, <1>5, BeginPreserves DEF BeginDeleteUser, Admitted

-----------------------------------------------------------------------------
(* Requests that go on.                                                     *)

LEMMA DeleteOrganizationPreserves ==
  ASSUME IInv, NEW r \in Requests, DeleteOrganization(r)
  PROVE  Good
<1>1. RequestStep(r) /\ RequestHolds(r)'
  BY EndSteps DEF DeleteOrganization
<1>2. Tables'
  BY DEF IInv, TypeOK, Tables, DeleteOrganization
<1> QED
  BY <1>1, <1>2, QuietPreserves DEF RequestStep, DeleteOrganization

\* The user is still there, and so still active: nobody is invited twice.
LEMMA CommitLoginPreserves ==
  ASSUME IInv, NEW r \in Requests, CommitLogin(r)
  PROVE  Good
<1> DEFINE u == request[r].target
<1>1. RequestStep(r) /\ RequestHolds(r)' /\ UNCHANGED <<org, user, mailed, begun>>
  BY EndSteps DEF CommitLogin
<1>2. u \in Users /\ user[u].state \in {"active", "deleted"}
  BY RequestTypes DEF CommitLogin, IInv, RequestHolds, RequestRows
<1>3. CASE UNCHANGED session
  <2>1. Tables'
    BY <1>1, <1>3 DEF IInv, TypeOK, Tables
  <2> QED
    BY <1>1, <1>3, <2>1, QuietPreserves DEF RequestStep
<1>4. CASE UpdateLastLogin(u) /\ CreateSession(u)
  <2>1. PICK s \in Sessions : session[s] = NoUser /\ session' = [session EXCEPT ![s] = u]
    BY <1>4 DEF CreateSession
  <2>2. Tables' /\ \A t \in Sessions : session'[t] \in {u, session[t]}
    BY <1>1, <1>2, <2>1 DEF IInv, TypeOK, Tables
  <2>3. user'[u].state = "active"
    BY <1>1, <1>2, <1>4 DEF UpdateLastLogin, Live
  <2>4. InvitationIsSpent' /\ Lasting /\ Owners' = Owners
    BY <1>1 DEF IInv, InvitationIsSpent, Lasting, Owners, Live
  <2>5. IInv'
    BY <1>1, <2>2, <2>4, StepPreserves DEF RequestStep
  <2>6. SessionsAreEarned
    BY <2>2, <2>3 DEF SessionsAreEarned
  <2> QED
    BY <2>4, <2>5, <2>6 DEF Good, OwnersOutlive, OwnersLeftAlone
<1> QED
  BY <1>3, <1>4 DEF CommitLogin

\* What the writes to the row of one user have in common.
LEMMA UserWritten ==
  ASSUME IInv, NEW u \in Users, NEW new \in Rows, user' = [user EXCEPT ![u] = new]
  PROVE  /\ user' \in [Users -> Rows] /\ user'[u] = new /\ \A v \in Users \ {u} : user'[v] = user[v]
         /\ (new.token # 0 => new.state = "invited") => InvitationIsSpent'
         /\ (user[u].state \in {"active", "deleted"} => new.state \in {"active", "deleted"}) => Lasting
         /\ \A v \in Users \ {u} : v \in Owners' <=> v \in Owners
<1>1. user' \in [Users -> Rows] /\ user'[u] = new /\ \A v \in Users \ {u} : user'[v] = user[v]
  BY DEF IInv, TypeOK
<1> QED
  BY <1>1 DEF IInv, InvitationIsSpent, Lasting, Owners, Live

\* Writes that keep an owner one.
LEMMA OwnerStays ==
  ASSUME IInv, NEW u \in Users, NEW new \in Rows, user' = [user EXCEPT ![u] = new],
         user[u].role = new.role \/ u \notin Owners,
         Live(u) => new.state \in {"invited", "active"}
  PROVE  Owners \subseteq Owners'
  BY UserWritten DEF Owners, Live

LEMMA ZeroIsToken == 0 \in 0..MaxTokens /\ 1 \in 0..MaxTokens
  BY AccountsAssumption

LEMMA RowAccepted ==
  ASSUME NEW row \in Rows
  PROVE  LET new == [row EXCEPT !.state = "active", !.token = 0, !.late = FALSE] IN
         new \in Rows /\ new.state = "active" /\ new.role = row.role /\ new.token = 0
<1>1. FALSE \in BOOLEAN /\ 0 \in 0..MaxTokens
  BY ZeroIsToken
<1> QED
  BY <1>1 DEF Rows

LEMMA RequestMailed ==
  ASSUME NEW row \in RequestRows, NEW token \in 0..MaxTokens
  PROVE  LET new == [row EXCEPT !.at = "mail", !.token = token] IN
         new \in RequestRows /\ new.at = "mail" /\ new.token = token
  BY DEF RequestRows, Steps

LEMMA CommitAcceptPreserves ==
  ASSUME IInv, NEW r \in Requests, CommitAccept(r)
  PROVE  Good
<1> PICK u : u = request[r].target
  OBVIOUS
<1>1. RequestStep(r) /\ RequestHolds(r)' /\ UNCHANGED <<org, mailed, begun>> /\ request[r].at = "accept"
  BY EndSteps DEF CommitAccept
<1>2. u \in Users
  BY RequestTypes DEF RequestRows
<1>3. CASE UNCHANGED <<user, session>>
  <2>1. Tables'
    BY <1>1, <1>3 DEF IInv, TypeOK, Tables
  <2> QED
    BY <1>1, <1>3, <2>1, QuietPreserves DEF RequestStep
<1>4. CASE UpdateStatus(u) /\ CreateSession(u)
  <2> DEFINE new == [user[u] EXCEPT !.state = "active", !.token = 0, !.late = FALSE]
  <2>1. user[u] \in Rows
    BY <1>2 DEF IInv, TypeOK
  <2>2. new \in Rows /\ new.state = "active" /\ new.token = 0 /\ new.role = user[u].role
    BY <2>1, RowAccepted
  <2>3. user' = [user EXCEPT ![u] = new]
    BY <1>4 DEF UpdateStatus
  <2> HIDE DEF new
  <2>4. /\ user' \in [Users -> Rows] /\ user'[u] = new
        /\ InvitationIsSpent' /\ Lasting /\ Owners \subseteq Owners'
    <3>1. user' \in [Users -> Rows] /\ user'[u] = new /\ InvitationIsSpent' /\ Lasting
      BY <1>2, <2>2, <2>3, UserWritten
    <3>2. new \in Rows /\ user[u].role = new.role /\ new.state \in {"invited", "active"}
      BY <2>2
    <3>3. Owners \subseteq Owners'
      BY <1>2, <2>3, <3>2, OwnerStays
    <3> QED
      BY <3>1, <3>3
  <2>5. PICK s \in Sessions : session[s] = NoUser /\ session' = [session EXCEPT ![s] = u]
    BY <1>4 DEF CreateSession
  <2>6. Tables' /\ \A t \in Sessions : session'[t] \in {u, session[t]}
    BY <1>1, <1>2, <2>4, <2>5 DEF IInv, TypeOK, Tables
  <2>7. IInv'
    BY <1>1, <2>4, <2>6, StepPreserves DEF RequestStep
  <2>8. SessionsAreEarned
    BY <2>2, <2>4, <2>6 DEF SessionsAreEarned
  <2>9. OwnersOutlive
    BY <2>4 DEF OwnersOutlive
  <2>10. OwnersLeftAlone
    BY <1>1 DEF OwnersLeftAlone, RequestStep, RequestRows
  <2> QED
    BY <2>7, <2>8, <2>9, <2>10 DEF Good
<1> QED
  BY <1>3, <1>4 DEF CommitAccept

LEMMA UpdateInviteTokenPreserves ==
  ASSUME IInv, NEW r \in Requests, UpdateInviteToken(r)
  PROVE  Good
<1> PICK u : u = request[r].target
  OBVIOUS
<1>1. u \in Users /\ user[u] \in Rows /\ request[r] \in RequestRows
  BY RequestTypes DEF RequestRows, IInv, TypeOK
<1>2. UNCHANGED <<org, session, mailed, begun>> /\ request[r].at = "resend"
  BY DEF UpdateInviteToken
<1>3. CASE UNCHANGED user /\ End(r)
  <2>1. RequestStep(r) /\ RequestHolds(r)' /\ Tables'
    BY <1>2, <1>3, EndSteps DEF IInv, TypeOK, Tables
  <2> QED
    BY <1>2, <1>3, <2>1, QuietPreserves DEF RequestStep
<1>4. ASSUME user[u].state = "invited", NewToken(u) <= MaxTokens,
             user' = [user EXCEPT ![u].token = NewToken(u), ![u].late = FALSE],
             request' = [request EXCEPT ![r].at = "mail", ![r].token = NewToken(u)]
      PROVE  Good
  <2> PICK token : token = NewToken(u)
    OBVIOUS
  <2>1. token \in 1..MaxTokens /\ token \in 0..MaxTokens
    BY <1>1, <1>4, AccountsAssumption DEF NewToken, Rows
  <2> PICK old \in Rows : old = user[u] /\ old.state = "invited"
    BY <1>1, <1>4
  <2> PICK row : row = [old EXCEPT !.token = token, !.late = FALSE]
    OBVIOUS
  <2>2. row \in Rows /\ row.state = "invited" /\ row.role = old.role
    <3>1. FALSE \in BOOLEAN /\ token \in 0..MaxTokens
      BY <2>1
    <3> QED
      BY <3>1 DEF Rows
  <2> DEFINE new == [request[r] EXCEPT !.at = "mail", !.token = token]
  <2>3. new \in RequestRows /\ new.at = "mail" /\ new.token = token
    BY <1>1, <2>1, RequestMailed
  <2>4. user' = [user EXCEPT ![u] = row] /\ request' = [request EXCEPT ![r] = new]
    BY <1>4
  <2> HIDE DEF new
  <2>5. user' \in [Users -> Rows] /\ InvitationIsSpent' /\ Lasting /\ Owners \subseteq Owners'
    <3>1. user' \in [Users -> Rows] /\ InvitationIsSpent' /\ Lasting
      <4>1. u \in Users /\ user[u].state = "invited" /\ user' = [user EXCEPT ![u] = row]
        BY <1>1, <1>4, <2>4
      <4>2. row \in Rows /\ row.state = "invited"
        BY <2>2
      <4>3. /\ row.token # 0 => row.state = "invited"
            /\ user[u].state \in {"active", "deleted"} => row.state \in {"active", "deleted"}
        BY <4>1, <4>2
      <4> QED
        BY <4>1, <4>2, <4>3, UserWritten
    <3>2. row \in Rows /\ user[u].role = row.role /\ row.state \in {"invited", "active"}
      BY <2>2
    <3>3. Owners \subseteq Owners'
      BY <1>1, <2>4, <3>2, OwnerStays
    <3> QED
      BY <3>1, <3>3
  <2>6. RequestStep(r) /\ request'[r] = new
    BY <2>3, <2>4, RowWritten
  <2>7. RequestHolds(r)'
    BY <2>1, <2>3, <2>6 DEF RequestHolds
  <2>8. Tables'
    BY <1>2, <2>5 DEF IInv, TypeOK, Tables
  <2>9. IInv'
    BY <2>5, <2>6, <2>7, <2>8, StepPreserves DEF RequestStep
  <2>10. OwnersOutlive /\ SessionsAreEarned
    BY <1>2, <2>5 DEF OwnersOutlive, SessionsAreEarned
  <2>11. OwnersLeftAlone
    BY <1>2, <2>6 DEF OwnersLeftAlone, RequestStep
  <2> QED
    BY <2>9, <2>10, <2>11 DEF Good
<1> QED
  BY <1>3, <1>4 DEF UpdateInviteToken

LEMMA SendInvitePreserves ==
  ASSUME IInv, NEW r \in Requests, SendInvite(r)
  PROVE  Good
<1>1. RequestStep(r) /\ RequestHolds(r)'
  BY EndSteps DEF SendInvite
<1>2. request[r].target \in Users /\ request[r].token \in 1..MaxTokens
  <2>1. request[r] \in RequestRows /\ request[r].token # 0
    BY RequestTypes DEF IInv, RequestHolds, SendInvite
  <2> QED
    BY <2>1, AccountsAssumption DEF RequestRows
<1>3. mailed' \in [Users -> SUBSET (1..MaxTokens)]
  BY <1>2 DEF IInv, TypeOK, SendInvite
<1>4. Tables'
  BY <1>3 DEF IInv, TypeOK, Tables, SendInvite
<1> QED
  BY <1>1, <1>4, QuietPreserves DEF RequestStep, SendInvite

\* Whoever goes on to write has counted two owners.
LEMMA CountOwnersPreserves ==
  ASSUME IInv, NEW r \in Requests, CountOwners(r)
  PROVE  Good
<1>1. UNCHANGED <<org, user, session, mailed, begun>>
  BY DEF CountOwners
<1>2. Tables'
  BY <1>1 DEF IInv, TypeOK, Tables
<1>3. CASE End(r)
  BY <1>1, <1>2, <1>3, EndSteps, QuietPreserves DEF RequestStep
<1>4. ASSUME Cardinality(Owners) > 1,
             request' = [request EXCEPT
               ![r].owners = Cardinality(Owners),
               ![r].at = IF @ = "countForRole" THEN "writeRole" ELSE "sessions"]
      PROVE  Good
  <2>1. request[r] \in RequestRows /\ RequestHolds(r)
    BY RequestTypes DEF IInv
  <2>2. Cardinality(Owners) \in 0..Cardinality(Users)
    <3>1. Owners \subseteq Users /\ IsFiniteSet(Users) /\ Cardinality(Users) \in Nat
      BY RequestTypes DEF Owners
    <3>2. Cardinality(Owners) <= Cardinality(Users) /\ Cardinality(Owners) \in Nat
      BY <3>1, FS_Subset, FS_CardinalityType
    <3> QED
      BY <3>1, <3>2
  <2> PICK at \in {"writeRole", "sessions"} :
             at = IF request[r].at = "countForRole" THEN "writeRole" ELSE "sessions"
    OBVIOUS
  <2> PICK owners \in 0..Cardinality(Users) : owners = Cardinality(Owners)
    BY <2>2
  <2> DEFINE new == [request[r] EXCEPT !.owners = owners, !.at = at]
  <2>3. /\ new \in RequestRows /\ new.at = at /\ new.owners = owners
        /\ new.role = request[r].role /\ new.to = request[r].to /\ new.seen = request[r].seen
    BY <2>1 DEF RequestRows, Steps
  <2>4. request' = [request EXCEPT ![r] = new]
    BY <1>4
  <2> HIDE DEF new
  <2>5. RequestStep(r) /\ request'[r] = new
    BY <2>3, <2>4, RowWritten
  <2>6. owners >= 2
    BY <1>4, RequestTypes
  <2>7. RequestHolds(r)'
    BY <2>1, <2>3, <2>5, <2>6 DEF RequestHolds, CountOwners
  <2> QED
    BY <1>1, <1>2, <2>5, <2>7, QuietPreserves DEF RequestStep
<1>5. Cardinality(Owners) \in Nat
  <2>1. Owners \subseteq Users /\ IsFiniteSet(Users)
    BY RequestTypes DEF Owners
  <2> QED
    BY <2>1, FS_Subset, FS_CardinalityType
<1> QED
  BY <1>3, <1>4, <1>5 DEF CountOwners

\* The last two statements: a write to the row of the target.
LEMMA TargetWritten ==
  ASSUME IInv, NEW r \in Requests, request[r].at \in {"writeRole", "deleteUser"}, End(r),
         UNCHANGED <<org, session, mailed, begun>>,
         NEW u \in Users, u = request[r].target, Live(u), NEW new \in Rows,
         user' = [user EXCEPT ![u] = new],
         new.token # 0 => new.state = "invited",
         user[u].state = "active" => new.state \in {"active", "deleted"},
         request[r].role = "admin" => request[r].seen # "owner" /\ u \notin Owners'
  PROVE  Good
<1>1. RequestStep(r) /\ request'[r].at = "idle" /\ RequestHolds(r)'
  BY EndSteps
<1>2. /\ user' \in [Users -> Rows] /\ InvitationIsSpent' /\ Lasting
      /\ \A v \in Users \ {u} : v \in Owners' <=> v \in Owners
  BY UserWritten DEF Live
<1>3. Tables'
  BY <1>2 DEF IInv, TypeOK, Tables
<1>4. IInv'
  BY <1>1, <1>2, <1>3, StepPreserves DEF RequestStep
<1>5. OwnersOutlive
  <2> SUFFICES ASSUME Owners # {}, Owners' = {}, request[r].seen = "owner"
               PROVE  request[r].owners > Cardinality(Owners)
    BY <1>1 DEF OwnersOutlive
  <2>1. Owners = {u}
    BY <1>2 DEF Owners
  <2>2. Cardinality(Owners) = 1
    BY <2>1, FS_Singleton
  <2>3. request[r].owners \in Nat /\ request[r].owners >= 2
    BY RequestTypes DEF IInv, RequestHolds, RequestRows
  <2> QED
    BY <2>2, <2>3
<1>6. OwnersLeftAlone
  <2> SUFFICES ASSUME NEW q \in Requests, NEW v \in Users,
                      request[q].at \in {"writeRole", "deleteUser"}, request'[q].at = "idle",
                      request[q].role = "admin", request[q].target = v,
                      (v \in Owners) # (v \in Owners'), request[q].seen = user[v].role
               PROVE  FALSE
    BY DEF OwnersLeftAlone
  <2>1. q = r /\ v = u
    BY <1>1 DEF RequestStep
  <2>2. u \notin Owners
    BY <2>1 DEF Owners
  <2> QED
    BY <2>1, <2>2
<1>7. SessionsAreEarned
  BY DEF SessionsAreEarned
<1> QED
  BY <1>4, <1>5, <1>6, <1>7 DEF Good

LEMMA WriteRolePreserves ==
  ASSUME IInv, NEW r \in Requests, WriteRole(r)
  PROVE  Good
<1> PICK u : u = request[r].target
  OBVIOUS
<1> PICK to : to = request[r].to
  OBVIOUS
<1>1. u \in Users /\ to \in Roles /\ user[u] \in Rows /\ RequestHolds(r)
  BY RequestTypes DEF RequestRows, IInv, TypeOK
<1>2. End(r) /\ request[r].at = "writeRole" /\ UNCHANGED <<org, session, mailed, begun>>
  BY DEF WriteRole
<1>3. CASE ~Live(u)
  <2>1. UNCHANGED user
    BY <1>3 DEF WriteRole, Update
  <2>2. Tables'
    BY <1>2, <2>1 DEF IInv, TypeOK, Tables
  <2> QED
    BY <1>2, <2>1, <2>2, EndSteps, QuietPreserves DEF RequestStep
<1>4. CASE Live(u)
  <2> DEFINE new == [user[u] EXCEPT !.role = to]
  <2>1. /\ new \in Rows /\ new.state = user[u].state /\ new.token = user[u].token /\ new.role = to
    BY <1>1 DEF Rows
  <2>2. user' = [user EXCEPT ![u] = new]
    BY <1>4 DEF WriteRole, Update
  <2> HIDE DEF new
  <2>3. user[u].token # 0 => user[u].state = "invited"
    BY <1>1 DEF IInv, InvitationIsSpent
  <2>4. request[r].role = "admin" => request[r].seen # "owner" /\ to # "owner"
    BY <1>1, <1>2 DEF RequestHolds
  <2>5. to # "owner" => u \notin Owners'
    BY <1>1, <2>1, <2>2, UserWritten DEF Owners
  <2> QED
    BY <1>1, <1>2, <1>4, <2>1, <2>2, <2>3, <2>4, <2>5, TargetWritten
<1> QED
  BY <1>3, <1>4

LEMMA DeleteByUserPreserves ==
  ASSUME IInv, NEW r \in Requests, DeleteByUser(r)
  PROVE  Good
<1>1. /\ RequestStep(r) /\ request'[r].at = "deleteUser" /\ request'[r].role = request[r].role
      /\ request'[r].seen = request[r].seen /\ request'[r].owners = request[r].owners
  BY ContinueSteps DEF DeleteByUser, Steps
<1>2. RequestHolds(r)'
  BY <1>1 DEF IInv, RequestHolds, DeleteByUser
<1>3. session' \in [Sessions -> Users \cup {NoUser}] /\ \A s \in Sessions : session'[s] \in {NoUser, session[s]}
  BY DEF DeleteByUser, IInv, TypeOK
<1>4. Tables'
  BY <1>3 DEF IInv, TypeOK, Tables, DeleteByUser
<1> QED
  BY <1>1, <1>2, <1>3, <1>4, QuietPreserves DEF RequestStep, DeleteByUser

LEMMA GoneTyped == Gone \in Rows /\ Gone.state = "deleted" /\ Gone.token = 0
  BY ZeroIsToken DEF Gone, NoRow, Rows, Roles

LEMMA DeleteUserPreserves ==
  ASSUME IInv, NEW r \in Requests, DeleteUser(r)
  PROVE  Good
<1> PICK u : u = request[r].target
  OBVIOUS
<1>1. u \in Users /\ RequestHolds(r)
  BY RequestTypes DEF RequestRows, IInv
<1>2. End(r) /\ request[r].at = "deleteUser" /\ UNCHANGED <<org, session, mailed, begun>>
  BY DEF DeleteUser
<1>3. CASE ~Live(u)
  <2>1. UNCHANGED user
    BY <1>3 DEF DeleteUser, Delete
  <2>2. Tables'
    BY <1>2, <2>1 DEF IInv, TypeOK, Tables
  <2> QED
    BY <1>2, <2>1, <2>2, EndSteps, QuietPreserves DEF RequestStep
<1>4. CASE Live(u)
  <2>1. user' = [user EXCEPT ![u] = Gone]
    BY <1>4 DEF DeleteUser, Delete
  <2>2. request[r].role = "admin" => request[r].seen # "owner"
    BY <1>1, <1>2 DEF RequestHolds
  <2>3. u \notin Owners'
    BY <1>1, <2>1, GoneTyped, UserWritten DEF Owners, Live
  <2> QED
    BY <1>1, <1>2, <1>4, <2>1, <2>2, <2>3, GoneTyped, TargetWritten
<1> QED
  BY <1>3, <1>4

LEMMA AbandonPreserves ==
  ASSUME IInv, NEW r \in Requests, Abandon(r)
  PROVE  Good
<1>1. RequestStep(r) /\ RequestHolds(r)'
  BY EndSteps DEF Abandon
<1>2. Tables'
  BY DEF IInv, TypeOK, Tables, Abandon
<1> QED
  BY <1>1, <1>2, QuietPreserves DEF RequestStep, Abandon

-----------------------------------------------------------------------------
(* Invitations, expiry, and the organization itself.                        *)

\* Steps that are not the end of a request about a role or a removal.
LEMMA AllStay ==
  ASSUME IInv, Tables', InvitationIsSpent', Lasting, Owners \subseteq Owners',
         request' \in [Requests -> RequestRows], UNCHANGED session,
         \A r \in Requests : request'[r] = request[r] \/ (request[r].at = "idle" /\ RequestHolds(r)')
  PROVE  Good
<1>1. IInv'
  BY StepPreserves
<1>2. OwnersOutlive /\ SessionsAreEarned
  BY DEF OwnersOutlive, SessionsAreEarned
<1>3. OwnersLeftAlone
  BY DEF OwnersLeftAlone
<1> QED
  BY <1>1, <1>2, <1>3 DEF Good

LEMMA InsertOrganizationPreserves ==
  ASSUME IInv, InsertOrganization
  PROVE  Good
<1>1. Tables' /\ request' \in [Requests -> RequestRows]
  BY RequestTypes DEF IInv, TypeOK, Tables, InsertOrganization
<1> QED
  BY <1>1, QuietPreserves DEF InsertOrganization

LEMMA InsertOwnerPreserves ==
  ASSUME IInv, InsertOwner
  PROVE  Good
<1> DEFINE new == [NoRow EXCEPT !.state = "active", !.role = "owner"]
<1>1. /\ new \in Rows /\ new.state = "active" /\ new.role = "owner" /\ new.token = 0
  BY ZeroIsToken DEF NoRow, Rows, Roles
<1>2. user' = [user EXCEPT ![Founder] = new] /\ Founder \in Users
  BY DEF InsertOwner, CreateWithProvider, Users
<1> HIDE DEF new
<1>3. /\ user' \in [Users -> Rows] /\ user'[Founder] = new /\ InvitationIsSpent' /\ Lasting
      /\ \A v \in Users \ {Founder} : v \in Owners' <=> v \in Owners
  BY <1>1, <1>2, UserWritten
<1>4. Owners \subseteq Owners'
  BY <1>1, <1>2, <1>3 DEF Owners, Live
<1>5. Tables' /\ request' \in [Requests -> RequestRows]
  BY <1>3, RequestTypes DEF IInv, TypeOK, Tables, InsertOwner
<1> QED
  BY <1>3, <1>4, <1>5, AllStay DEF InsertOwner

LEMMA InvitePreserves ==
  ASSUME IInv, NEW r \in Requests, NEW a \in Users, NEW u \in Users, NEW role \in Roles,
         Invite(r, a, u, role)
  PROVE  Good
<1>1. /\ user[u].state = "none" /\ user[u].token = 0 /\ request[r].at = "idle"
      /\ begun' \in 0..MaxRequests /\ UNCHANGED <<org, session, mailed>>
  BY AccountsAssumption DEF Invite, CreateInvited, Admitted, IInv, TypeOK, Rows, InvitationIsSpent
<1> DEFINE row == [state |-> "invited", role |-> role, token |-> 1, late |-> FALSE]
           new == [request[r] EXCEPT !.at = "mail", !.role = user[a].role, !.target = u, !.token = 1]
<1>2. NewToken(u) = 1 /\ 1 \in 0..MaxTokens
  BY <1>1, AccountsAssumption DEF NewToken
<1>3. row \in Rows /\ row.state = "invited"
  BY <1>2 DEF Rows
<1>4. new \in RequestRows /\ new.at = "mail" /\ new.token = 1
  <2>1. request[r] \in RequestRows /\ user[a].role \in Roles
    BY RequestTypes DEF IInv, TypeOK, Rows
  <2> QED
    BY <1>2, <2>1 DEF RequestRows, Steps
<1>5. user' = [user EXCEPT ![u] = row] /\ request' = [request EXCEPT ![r] = new]
  BY <1>2 DEF Invite, CreateInvited
<1> HIDE DEF row, new
<1>6. user' \in [Users -> Rows] /\ InvitationIsSpent' /\ Lasting
  BY <1>1, <1>3, <1>5, UserWritten
<1>7. Owners \subseteq Owners'
  BY <1>1, <1>3, <1>5, OwnerStays DEF Owners, Live
<1>8. RequestStep(r) /\ request'[r] = new
  BY <1>4, <1>5, RowWritten
<1>9. RequestHolds(r)'
  BY <1>4, <1>8 DEF RequestHolds
<1>10. Tables'
  BY <1>1, <1>6 DEF IInv, TypeOK, Tables
<1> QED
  BY <1>1, <1>6, <1>7, <1>8, <1>9, <1>10, AllStay DEF RequestStep

LEMMA ExpireInvitePreserves ==
  ASSUME IInv, NEW u \in Users, ExpireInvite(u)
  PROVE  Good
<1> DEFINE new == [user[u] EXCEPT !.late = TRUE]
<1>1. user[u] \in Rows
  BY DEF IInv, TypeOK
<1>2. /\ new \in Rows /\ new.state = "invited" /\ new.role = user[u].role
  BY <1>1 DEF Rows, ExpireInvite
<1>3. user' = [user EXCEPT ![u] = new]
  BY DEF ExpireInvite
<1> HIDE DEF new
<1>4. user' \in [Users -> Rows] /\ InvitationIsSpent' /\ Lasting /\ Owners \subseteq Owners'
  BY <1>2, <1>3, UserWritten, OwnerStays DEF ExpireInvite
<1>5. Tables' /\ request' \in [Requests -> RequestRows]
  BY <1>4, RequestTypes DEF IInv, TypeOK, Tables, ExpireInvite
<1> QED
  BY <1>4, <1>5, AllStay DEF ExpireInvite

\* The purge takes the last owner only if that one never accepted.
LEMMA PurgeExpiredInvitesPreserves ==
  ASSUME IInv, PurgeExpiredInvites
  PROVE  Good
<1> DEFINE purged == {u \in Users : user[u].state = "invited" /\ user[u].late}
<1>1. /\ user' = [u \in Users |-> IF u \in purged THEN Gone ELSE user[u]]
      /\ UNCHANGED <<org, session, mailed, request, begun>>
  BY DEF PurgeExpiredInvites
<1>2. user' \in [Users -> Rows]
  BY <1>1, GoneTyped DEF IInv, TypeOK
<1>3. InvitationIsSpent' /\ Lasting
  BY <1>1, GoneTyped DEF IInv, InvitationIsSpent, Lasting
<1>4. Tables' /\ request' \in [Requests -> RequestRows]
  BY <1>1, <1>2, RequestTypes DEF IInv, TypeOK, Tables
<1>5. IInv'
  BY <1>1, <1>3, <1>4, StepPreserves
<1>6. \A u \in Users \ purged : u \in Owners => u \in Owners'
  BY <1>1 DEF Owners, Live
<1>7. OwnersOutlive
  BY <1>6 DEF OwnersOutlive, Owners
<1>8. SessionsAreEarned
  BY <1>1 DEF SessionsAreEarned
<1>9. OwnersLeftAlone
  BY <1>1 DEF OwnersLeftAlone
<1> QED
  BY <1>5, <1>7, <1>8, <1>9 DEF Good

LEMMA SessionEndsPreserve ==
  ASSUME IInv, NEW s \in Sessions, Logout(s) \/ ExpireSession(s)
  PROVE  Good
<1>1. session' = [session EXCEPT ![s] = NoUser] /\ UNCHANGED <<org, user, mailed, request, begun>>
  BY DEF Logout, ExpireSession
<1>2. Tables' /\ request' \in [Requests -> RequestRows]
  BY <1>1, RequestTypes DEF IInv, TypeOK, Tables
<1>3. \A t \in Sessions : session'[t] \in {NoUser, session[t]}
  BY <1>1 DEF IInv, TypeOK
<1> QED
  BY <1>1, <1>2, <1>3, QuietPreserves

-----------------------------------------------------------------------------
(* The invariant, and what each step does.                                  *)

LEMMA InitHolds == Init => IInv
<1> SUFFICES ASSUME Init
             PROVE  IInv
  OBVIOUS
<1>1. NoRow \in Rows /\ NoRow.token = 0
  BY AccountsAssumption DEF NoRow, Rows, Roles
<1>2. TypeOK
  BY <1>1, NoRequestTyped, AccountsAssumption DEF Init, TypeOK, RequestRows
<1>3. InvitationIsSpent
  BY <1>1 DEF Init, InvitationIsSpent
<1>4. \A r \in Requests : RequestHolds(r)
  BY NoRequestTyped DEF Init, RequestHolds
<1> QED
  BY <1>2, <1>3, <1>4 DEF IInv

LEMMA NextPreserves ==
  ASSUME IInv, Next
  PROVE  Good
<1>1. ASSUME NEW r \in Requests, Begin(r)
      PROVE  Good
  <2>1. CASE \E a \in Users : CancelSubscription(r, a)
    BY <2>1, CancelSubscriptionPreserves
  <2>2. CASE \E a, u \in Users : BeginResend(r, a, u) \/ BeginDeleteUser(r, a, u)
    BY <2>2, BeginResendPreserves, BeginDeleteUserPreserves
  <2>3. CASE \E a, u \in Users : \E role \in Roles : Invite(r, a, u, role) \/ BeginUpdateRole(r, a, u, role)
    BY <2>3, InvitePreserves, BeginUpdateRolePreserves
  <2>4. CASE \E u \in Users : BeginLogin(r, u) \/ BeginAccept(r, u)
    BY <2>4, BeginLoginPreserves, BeginAcceptPreserves
  <2> QED
    BY <1>1, <2>1, <2>2, <2>3, <2>4 DEF Begin
<1>2. ASSUME NEW r \in Requests, Proceed(r) \/ Abandon(r)
      PROVE  Good
  BY <1>2, DeleteOrganizationPreserves, CommitLoginPreserves, CommitAcceptPreserves,
     UpdateInviteTokenPreserves, SendInvitePreserves, CountOwnersPreserves, WriteRolePreserves,
     DeleteByUserPreserves, DeleteUserPreserves, AbandonPreserves DEF Proceed
<1>3. CASE InsertOrganization \/ InsertOwner \/ PurgeExpiredInvites
  BY <1>3, InsertOrganizationPreserves, InsertOwnerPreserves, PurgeExpiredInvitesPreserves
<1>4. ASSUME NEW s \in Sessions, Logout(s) \/ ExpireSession(s)
      PROVE  Good
  BY <1>4, SessionEndsPreserve
<1>5. ASSUME NEW u \in Users, ExpireInvite(u)
      PROVE  Good
  BY <1>5, ExpireInvitePreserves
<1> QED
  BY <1>1, <1>2, <1>3, <1>4, <1>5 DEF Next

LEMMA StutterPreserves ==
  ASSUME IInv, UNCHANGED vars
  PROVE  Good
<1>1. Tables' /\ request' \in [Requests -> RequestRows]
  BY RequestTypes DEF vars, IInv, TypeOK, Tables
<1> QED
  BY <1>1, QuietPreserves DEF vars

\* The inductive invariant of users, sessions and invitations, for every number of
\* requests, invitees and tokens: what a request has read, and how far it may be true still.
THEOREM InvariantHolds == Spec => []IInv
<1>1. IInv /\ [Next]_vars => IInv'
  BY NextPreserves, StutterPreserves DEF Good
<1> QED
  BY <1>1, InitHolds, PTL DEF Spec

\* Rows are of the types that the code gives them, and the token of an invitation
\* that was accepted or withdrawn opens nothing, even if it was being resent.
THEOREM InvitationsAreSpent == Spec => []Consistent
<1>1. IInv => Consistent
  BY DEF IInv, Consistent
<1> QED
  BY <1>1, InvariantHolds, PTL

\* The last owner (users.go): the owners disappear only if a request acts on a count
\* or a role that is not true any more, or with an invitation nobody accepted.
THEOREM OwnersAreOutlived == Spec => OwnersOutliveFreshChecks
<1>1. IInv /\ [Next]_vars =>
        [Owners # {} /\ Owners' = {} =>
           \/ \E u \in Owners : user[u].state = "invited" /\ user[u].late
           \/ \E r \in Requests :
                /\ request[r].at \in {"writeRole", "deleteUser"} /\ request'[r].at = "idle"
                /\ \/ request[r].owners > Cardinality(Owners)
                   \/ request[r].seen # "owner"]_vars
  BY NextPreserves, StutterPreserves DEF Good, OwnersOutlive
<1> QED
  BY <1>1, InvariantHolds, PTL DEF Spec, OwnersOutliveFreshChecks

-----------------------------------------------------------------------------
(* Who becomes an owner.                                                    *)

Made(u) ==
  \/ org = "founding" /\ u = Founder
  \/ \E r \in Requests :
       /\ request[r].at = "writeRole" /\ request'[r].at = "idle"
       /\ request[r].role = "owner" /\ request[r].target = u
  \/ \E r \in Requests :
       /\ request[r].at = "idle" /\ request'[r].at = "mail"
       /\ request'[r].role \in {"owner", "admin"} /\ request'[r].target = u

\* An admin's change of role makes no owner, and a member's is not admitted.
LEMMA WriteRoleMakes ==
  ASSUME IInv, NEW r \in Requests, WriteRole(r), NEW u \in Users, u \in Owners', u \notin Owners
  PROVE  Made(u)
<1> PICK row \in RequestRows : row = request[r]
  BY RequestTypes
<1>1. request'[r].at = "idle" /\ row.at = "writeRole"
  BY EndSteps DEF WriteRole
<1>2. u = row.target /\ user' = [user EXCEPT ![u].role = row.to]
  <2>1. user' # user
    BY DEF Owners, Live
  <2>2. Live(row.target) /\ user' = [user EXCEPT ![row.target].role = row.to]
    BY <2>1 DEF WriteRole, Update
  <2>3. row.target = u
    BY <2>2 DEF IInv, TypeOK, Owners, Live
  <2> QED
    BY <2>2, <2>3
<1>3. row.to = "owner"
  BY <1>2 DEF IInv, TypeOK, Rows, Owners, Live
<1>4. row.role # "admin"
  BY <1>1, <1>3 DEF IInv, RequestHolds
<1>5. row.role # "member"
  BY <1>1 DEF IInv, RequestHolds
<1>6. row.role = "owner"
  BY <1>4, <1>5 DEF RequestRows, Roles
<1> QED
  BY <1>1, <1>2, <1>6 DEF Made

\* Whoever is invited is invited by an owner or an admin.
LEMMA InviteMakes ==
  ASSUME IInv, NEW r \in Requests, NEW a \in Users, NEW v \in Users, NEW role \in Roles,
         Invite(r, a, v, role), NEW u \in Users, u \in Owners', u \notin Owners
  PROVE  Made(u)
<1>1. request[r] \in RequestRows /\ user[a].role \in Roles
  BY RequestTypes DEF IInv, TypeOK, Rows
<1>2. user[a].role \in {"owner", "admin"}
  BY <1>1 DEF Invite, Admitted, MinRole, RoleHasAtLeast, RoleLevel, Roles
<1>3. u = v
  BY DEF Invite, CreateInvited, IInv, TypeOK, Owners, Live
<1>4. /\ request[r].at = "idle" /\ request'[r].at = "mail"
      /\ request'[r].role = user[a].role /\ request'[r].target = v
  BY <1>1, RequestTypes DEF Invite, Admitted, RequestRows
<1> QED
  BY <1>2, <1>3, <1>4 DEF Made

LEMMA OwnersMade ==
  ASSUME IInv, [Next]_vars, NEW u \in Users, u \in Owners', u \notin Owners
  PROVE  Made(u)
<1>1. user' # user
  BY DEF Owners, Live
<1>2. ASSUME NEW r \in Requests, WriteRole(r) PROVE Made(u)
  BY <1>2, WriteRoleMakes
<1>3. ASSUME NEW r \in Requests, NEW a \in Users, NEW v \in Users, NEW role \in Roles,
             Invite(r, a, v, role)
      PROVE  Made(u)
  BY <1>3, InviteMakes
<1>4. CASE InsertOwner
  BY <1>4 DEF InsertOwner, CreateWithProvider, Made, IInv, TypeOK, Owners, Live
<1>5. CASE PurgeExpiredInvites
  BY <1>5, GoneTyped DEF PurgeExpiredInvites, Owners, Live
<1>6. ASSUME NEW v \in Users, ExpireInvite(v) PROVE FALSE
  <2>1. user'[u].role = user[u].role /\ user'[u].state = user[u].state
    BY <1>6 DEF ExpireInvite, IInv, TypeOK, Rows
  <2> QED
    BY <2>1 DEF Owners, Live
<1>7. ASSUME NEW r \in Requests, DeleteUser(r) PROVE FALSE
  <2>1. request[r].target \in Users
    BY RequestTypes DEF RequestRows
  <2>2. user'[u] = user[u] \/ user'[u] = Gone
    BY <1>7, <2>1 DEF DeleteUser, Delete, IInv, TypeOK
  <2> QED
    BY <2>2, GoneTyped DEF Owners, Live
<1>8. ASSUME NEW r \in Requests, CommitAccept(r) PROVE FALSE
  <2> PICK v \in Users : v = request[r].target
    BY RequestTypes DEF RequestRows
  <2>1. Live(v) /\ user' = [user EXCEPT ![v].state = "active", ![v].token = 0, ![v].late = FALSE]
    BY <1>1, <1>8 DEF CommitAccept, UpdateStatus
  <2>2. user[v] \in Rows
    BY DEF IInv, TypeOK
  <2>3. PICK row \in Rows : row = user[v]
    BY <2>2
  <2>4. user'[v].role = user[v].role
    <3>1. user'[v] = [row EXCEPT !.state = "active", !.token = 0, !.late = FALSE]
      BY <2>1, <2>3 DEF IInv, TypeOK
    <3> QED
      BY <2>3, <3>1, RowAccepted
  <2>5. u # v => user'[u] = user[u]
    BY <2>1 DEF IInv, TypeOK
  <2> QED
    BY <2>1, <2>4, <2>5 DEF Owners, Live
<1>9. ASSUME NEW r \in Requests, UpdateInviteToken(r) PROVE FALSE
  <2> PICK v \in Users : v = request[r].target
    BY RequestTypes DEF RequestRows
  <2>1. user' = [user EXCEPT ![v].token = NewToken(v), ![v].late = FALSE]
    BY <1>1, <1>9 DEF UpdateInviteToken
  <2>2. user'[u].role = user[u].role /\ user'[u].state = user[u].state
    BY <2>1 DEF IInv, TypeOK, Rows
  <2> QED
    BY <2>2 DEF Owners, Live
<1>10. ASSUME NEW r \in Requests, Begin(r) PROVE Made(u)
  BY <1>1, <1>3, <1>10
  DEF Begin, CancelSubscription, BeginResend, BeginDeleteUser, BeginUpdateRole, BeginLogin, BeginAccept
<1>11. ASSUME NEW r \in Requests, Proceed(r) PROVE Made(u)
  BY <1>1, <1>2, <1>7, <1>8, <1>9, <1>11
  DEF Proceed, DeleteOrganization, CommitLogin, SendInvite, CountOwners, DeleteByUser
<1> QED
  BY <1>1, <1>4, <1>5, <1>6, <1>10, <1>11
  DEF Next, vars, Abandon, InsertOrganization, Logout, ExpireSession

\* Logins (auth) and roles (users.go): a session is only made for a user who is
\* active then; an admin does nothing to an owner whose role is the one it read;
\* and nobody becomes an owner but by founding, by an owner's change of role, or
\* by the invitation of an owner or an admin.
THEOREM StepsAreAlwaysAuthorized == Spec => StepsAreAuthorized
<1>1. IInv /\ [Next]_vars =>
        [\A s \in Sessions :
           session'[s] \notin {NoUser, session[s]} => user'[session'[s]].state = "active"]_vars
  BY NextPreserves, StutterPreserves DEF Good, SessionsAreEarned
<1>2. IInv /\ [Next]_vars =>
        [\A r \in Requests : \A u \in Users :
           /\ request[r].at \in {"writeRole", "deleteUser"} /\ request'[r].at = "idle"
           /\ request[r].role = "admin" /\ request[r].target = u
           /\ (u \in Owners) # (u \in Owners')
           => request[r].seen # user[u].role]_vars
  BY NextPreserves, StutterPreserves DEF Good, OwnersLeftAlone
<1>3. IInv /\ [Next]_vars =>
        [\A u \in Owners' \ Owners :
           \/ org = "founding" /\ u = Founder
           \/ \E r \in Requests :
                /\ request[r].at = "writeRole" /\ request'[r].at = "idle"
                /\ request[r].role = "owner" /\ request[r].target = u
           \/ \E r \in Requests :
                /\ request[r].at = "idle" /\ request'[r].at = "mail"
                /\ request'[r].role \in {"owner", "admin"} /\ request'[r].target = u]_vars
  <2>1. Owners' \subseteq Users
    BY DEF Owners
  <2> QED
    BY <2>1, OwnersMade DEF Made
<1> QED
  BY <1>1, <1>2, <1>3, InvariantHolds, PTL
  DEF Spec, StepsAreAuthorized, SessionsAreForActiveUsers, AdminsLeaveOwnersAlone, OwnersAreMade
=============================================================================
