----------------------------- MODULE TeamsProofs -----------------------------
(* No tenant is left without an owner, whatever old tokens say.            *)
EXTENDS Teams, FiniteSetTheorems, TLAPS

USE DEF TypeOK

(* Each action keeps TypeOK. *)

LEMMA TypeInit == Init => TypeOK
  BY DEF Init, OpeningTokens, Request

LEMMA TypeAccount == TypeOK /\ Account => TypeOK'
<1> SUFFICES ASSUME TypeOK, Account PROVE TypeOK'
  OBVIOUS
<1>1. ASSUME NEW t \in Tenants, NEW seats \in Seats, ChangePlan(t, seats)
      PROVE TypeOK'
  BY <1>1 DEF ChangePlan
<1>2. ASSUME NEW t \in Tenants, NEW u \in Users, Signup(t, u)
      PROVE TypeOK'
  <2>1. u \notin DOMAIN users /\ t \notin DOMAIN tenants
    BY <1>2 DEF Signup, FreshUsers, FreshTenants
  <2>2. /\ DOMAIN users' = DOMAIN users \cup {u}
        /\ users'[u] = [tenant |-> t, role |-> "owner"]
        /\ \A v \in DOMAIN users : users'[v] = users[v]
        /\ users' = [v \in DOMAIN users' |-> users'[v]]
    BY <1>2, <2>1 DEF Signup, WithUser
  <2>3. /\ DOMAIN tenants' = DOMAIN tenants \cup {t}
        /\ tenants' \in [DOMAIN tenants' -> Seats]
    BY <1>2, <2>1, TeamsAssumption DEF Signup
  <2>4. users' \in [DOMAIN users' -> UserRow]
    BY <2>2 DEF UserRow, Roles
  <2>5. \A v \in DOMAIN users : EmailOf[v] # EmailOf[u]
    BY <1>2 DEF Signup, Registered
  <2>6. \A v \in DOMAIN users' : users'[v].tenant \in DOMAIN tenants'
    BY <2>2, <2>3
  <2>7. \A v, w \in DOMAIN users' : EmailOf[v] = EmailOf[w] => v = w
    BY <2>2, <2>5
  <2>8. tokens' \subseteq OpeningTokens
    BY <1>2 DEF Signup, OpeningTokens, Token, Roles
  <2> QED BY <1>2, <2>2, <2>3, <2>4, <2>6, <2>7, <2>8 DEF Signup
<1>3. ASSUME NEW u \in Users, Login(u) PROVE TypeOK'
  <2>1. users[u] \in UserRow /\ u \in DOMAIN users /\ users[u].role # "member"
        /\ users[u].tenant \in Tenants
    BY <1>3 DEF Login, UserRow
  <2>2. TokenOf(u) \in OpeningTokens
    BY <2>1 DEF TokenOf, OpeningTokens, Token, UserRow
  <2> QED BY <1>3, <2>2 DEF Login
<1>4. ASSUME NEW c \in tokens, TokenExpires(c) PROVE TypeOK'
  BY <1>4 DEF TokenExpires
<1>5. ASSUME NEW c \in tokens, DeleteAccount(c) PROVE TypeOK'
  <2>1. /\ DOMAIN tenants' = DOMAIN tenants \ {c.tenant}
        /\ tenants' \in [DOMAIN tenants' -> Seats]
    BY <1>5 DEF DeleteAccount, Without
  <2>2. /\ DOMAIN users' = DOMAIN users \ Members(c.tenant)
        /\ users' \in [DOMAIN users' -> UserRow]
        /\ \A v \in DOMAIN users' : users'[v] = users[v]
    BY <1>5 DEF DeleteAccount, Without
  <2>3. /\ DOMAIN invitations' = DOMAIN invitations \ ({c.tenant} \X Emails)
        /\ invitations' \in [DOMAIN invitations' -> InvitationRow]
    BY <1>5 DEF DeleteAccount, Without
  <2>4. \A v \in DOMAIN users' : users'[v].tenant \in DOMAIN tenants'
    BY <2>1, <2>2 DEF Members
  <2>5. \A v, w \in DOMAIN users' : EmailOf[v] = EmailOf[w] => v = w
    BY <2>2
  <2>6. DOMAIN invitations' \subseteq (DOMAIN tenants') \X Emails
    BY <2>1, <2>3
  <2>7. accepting' \subseteq DOMAIN invitations'
    <3> SUFFICES ASSUME NEW i \in accepting PROVE i \notin {c.tenant} \X Emails
      BY <1>5, <2>3 DEF DeleteAccount
    <3> QED BY <1>5 DEF DeleteAccount
  <2> QED BY <1>5, <2>1, <2>2, <2>3, <2>4, <2>5, <2>6, <2>7 DEF DeleteAccount
<1> QED BY <1>1, <1>2, <1>3, <1>4, <1>5 DEF Account

LEMMA TypeInvitation == TypeOK /\ Invitation => TypeOK'
<1> SUFFICES ASSUME TypeOK, Invitation PROVE TypeOK'
  OBVIOUS
<1>1. ASSUME NEW c \in tokens, NEW e \in Emails, InviteRequest(c, e) PROVE TypeOK'
  <2>1. [by |-> c.user, tenant |-> c.tenant, email |-> e] \in Request
    BY DEF OpeningTokens, Token, Request
  <2> QED BY <1>1, <2>1 DEF InviteRequest
<1>2. ASSUME NEW c \in tokens, NEW e \in Emails, RevokeInvitation(c, e) PROVE TypeOK'
  <2>1. /\ DOMAIN invitations' = DOMAIN invitations \ {<<c.tenant, e>>}
        /\ invitations' \in [DOMAIN invitations' -> InvitationRow]
    BY <1>2 DEF RevokeInvitation, Without
  <2> QED BY <1>2, <2>1 DEF RevokeInvitation
<1>3. ASSUME NEW q \in inviting, InviteFails(q) PROVE TypeOK'
  BY <1>3 DEF InviteFails
<1>4. ASSUME NEW q \in inviting, NEW role \in Invitable, Invite(q, role) PROVE TypeOK'
  <2> DEFINE i == <<q.tenant, q.email>>
  <2>1. i \in (DOMAIN tenants) \X Emails
    BY <1>4 DEF Invite, Request
  <2>2. [role |-> role, status |-> "live"] \in InvitationRow
    BY DEF InvitationRow
  <2>3. invitations' = [k \in DOMAIN invitations \cup {i} |->
            IF k = i THEN [role |-> role, status |-> "live"] ELSE invitations[k]]
    BY <1>4 DEF Invite
  <2> HIDE DEF i
  <2>4. /\ DOMAIN invitations' = DOMAIN invitations \cup {i}
        /\ invitations' \in [DOMAIN invitations' -> InvitationRow]
    BY <2>2, <2>3
  <2> QED BY <1>4, <2>1, <2>4 DEF Invite
<1>5. ASSUME NEW i \in DOMAIN invitations, InvitationExpires(i) PROVE TypeOK'
  <2>1. [invitations[i] EXCEPT !.status = "expired"] \in InvitationRow
    BY DEF InvitationRow
  <2>2. invitations' = [invitations EXCEPT ![i] =
                          [invitations[i] EXCEPT !.status = "expired"]]
    BY <1>5 DEF InvitationExpires
  <2> QED BY <1>5, <2>1, <2>2 DEF InvitationExpires
<1>6. ASSUME NEW i \in DOMAIN invitations, AcceptBegins(i) PROVE TypeOK'
  BY <1>6 DEF AcceptBegins
<1>7. ASSUME NEW i \in accepting, AcceptFails(i) PROVE TypeOK'
  BY <1>7 DEF AcceptFails
<1>8. ASSUME NEW i \in accepting, NEW u \in Users, Accept(i, u) PROVE TypeOK'
  <2> DEFINE role == invitations[i].role
             c == [user |-> u, tenant |-> i[1], role |-> role]
  <2>1. i \in DOMAIN invitations /\ invitations[i] \in InvitationRow
        /\ i[1] \in DOMAIN tenants
    OBVIOUS
  <2>2. role \in Roles
    BY <2>1 DEF InvitationRow, Invitable, Roles
  <2>3. u \notin DOMAIN users /\ users' = WithUser(u, i[1], role)
    BY <1>8 DEF Accept, FreshUsers
  <2>4. tokens' = tokens \cup ({c} \cap OpeningTokens)
    BY <1>8 DEF Accept
  <2> HIDE DEF role, c
  <2>5. /\ DOMAIN users' = DOMAIN users \cup {u}
        /\ users'[u] = [tenant |-> i[1], role |-> role]
        /\ \A v \in DOMAIN users : users'[v] = users[v]
        /\ users' = [v \in DOMAIN users' |-> users'[v]]
    BY <2>3 DEF WithUser
  <2>6. users' \in [DOMAIN users' -> UserRow]
    BY <2>1, <2>2, <2>5 DEF UserRow
  <2>7. \A v \in DOMAIN users : EmailOf[v] # EmailOf[u]
    BY <1>8 DEF Accept, Registered
  <2>8. \A v \in DOMAIN users' : users'[v].tenant \in DOMAIN tenants
    BY <2>1, <2>5
  <2>9. \A v, w \in DOMAIN users' : EmailOf[v] = EmailOf[w] => v = w
    BY <2>5, <2>7
  <2>10. [invitations[i] EXCEPT !.status = "accepted"] \in InvitationRow
    BY <2>1 DEF InvitationRow
  <2>11. invitations' = [invitations EXCEPT ![i] =
                           [invitations[i] EXCEPT !.status = "accepted"]]
    BY <1>8 DEF Accept
  <2>12. /\ DOMAIN invitations' = DOMAIN invitations
         /\ invitations' \in [DOMAIN invitations' -> InvitationRow]
    BY <2>10, <2>11
  <2> QED BY <1>8, <2>4, <2>5, <2>6, <2>8, <2>9, <2>12 DEF Accept
<1> QED BY <1>1, <1>2, <1>3, <1>4, <1>5, <1>6, <1>7, <1>8 DEF Invitation

(* What the two UPDATEs of ChangeRole leave: every user in the tenant it was *)
(* in, the target in the new role, the caller at most demoted.               *)
LEMMA RolesAfterChange ==
  ASSUME TypeOK, NEW c \in tokens, NEW u \in Users, NEW role \in Roles,
         ChangeRole(c, u, role)
  PROVE  /\ DOMAIN users' = DOMAIN users
         /\ users' \in [DOMAIN users' -> UserRow]
         /\ \A v \in DOMAIN users : users'[v].tenant = users[v].tenant
         /\ u \in DOMAIN users /\ users'[u].role = role
         /\ users[u].tenant = c.tenant /\ users[u].role # "owner"
         /\ \A v \in DOMAIN users \ {u} :
               users'[v] = users[v] \/ (role = "owner" /\ users[v].tenant = c.tenant
                                        /\ users'[v].role = "admin")
         /\ role = "owner" /\ c.user \in Members(c.tenant) =>
               c.user # u /\ users'[c.user].role = "admin"
<1> DEFINE mid == IF role = "owner" THEN SteppedDown(c) ELSE users
<1>1. u \in DOMAIN users /\ users[u].tenant = c.tenant /\ users[u].role # "owner"
  BY DEF ChangeRole, Members
<1>2. users' = [mid EXCEPT ![u].role = role]
  BY DEF ChangeRole
<1>3. /\ DOMAIN mid = DOMAIN users
      /\ mid \in [DOMAIN users -> UserRow]
      /\ \A v \in DOMAIN users : mid[v].tenant = users[v].tenant
      /\ \A v \in DOMAIN users :
            mid[v] = users[v] \/ (role = "owner" /\ users[v].tenant = c.tenant
                                   /\ mid[v].role = "admin")
      /\ role = "owner" /\ c.user \in Members(c.tenant) => mid[c.user].role = "admin"
  <2>1. CASE role = "owner" /\ c.user \in Members(c.tenant)
    <3>1. mid = [users EXCEPT ![c.user] = [users[c.user] EXCEPT !.role = "admin"]]
      BY <2>1 DEF SteppedDown
    <3>2. c.user \in DOMAIN users /\ users[c.user].tenant = c.tenant
          /\ users[c.user] \in UserRow
      BY <2>1 DEF Members
    <3>3. /\ [users[c.user] EXCEPT !.role = "admin"] \in UserRow
          /\ [users[c.user] EXCEPT !.role = "admin"].tenant = users[c.user].tenant
          /\ [users[c.user] EXCEPT !.role = "admin"].role = "admin"
      BY <3>2 DEF UserRow, Roles
    <3> HIDE DEF mid
    <3> QED BY <2>1, <3>1, <3>2, <3>3
  <2>2. CASE ~(role = "owner" /\ c.user \in Members(c.tenant))
    <3>1. mid = users
      BY <2>2 DEF SteppedDown
    <3> HIDE DEF mid
    <3> QED BY <2>2, <3>1
  <2> QED BY <2>1, <2>2
<1> HIDE DEF mid
<1>4. /\ [mid[u] EXCEPT !.role = role] \in UserRow
      /\ [mid[u] EXCEPT !.role = role].tenant = mid[u].tenant
      /\ [mid[u] EXCEPT !.role = role].role = role
  BY <1>1, <1>3 DEF UserRow
<1>5. users' = [mid EXCEPT ![u] = [mid[u] EXCEPT !.role = role]]
  BY <1>2
<1>6. c.user # u
  BY DEF ChangeRole
<1> QED BY <1>1, <1>3, <1>4, <1>5, <1>6 DEF Members

LEMMA TypeTeam == TypeOK /\ Team => TypeOK'
<1> SUFFICES ASSUME TypeOK, Team PROVE TypeOK'
  OBVIOUS
<1>1. ASSUME NEW c \in tokens, NEW u \in Users, RemoveMember(c, u) PROVE TypeOK'
  BY <1>1 DEF RemoveMember, Without
<1>2. ASSUME NEW c \in tokens, NEW u \in Users, NEW role \in Roles,
             ChangeRole(c, u, role)
      PROVE TypeOK'
  <2>1. /\ DOMAIN users' = DOMAIN users
        /\ users' \in [DOMAIN users' -> UserRow]
        /\ \A v \in DOMAIN users : users'[v].tenant = users[v].tenant
    BY <1>2, RolesAfterChange
  <2> QED BY <1>2, <2>1 DEF ChangeRole
<1> QED BY <1>1, <1>2 DEF Team

(* Tables keep rows of their type, foreign keys and the unique address hold:  *)
(* the cascade of DeleteAccount, and the lock of an invitation being accepted. *)
THEOREM TypeCorrect == Spec => []TypeOK
<1>1. TypeOK /\ UNCHANGED vars => TypeOK'
  BY DEF vars
<1>2. TypeOK /\ [Next]_vars => TypeOK'
  BY <1>1, TypeAccount, TypeInvitation, TypeTeam DEF Next
<1> QED BY TypeInit, <1>2, PTL DEF Spec

-----------------------------------------------------------------------------

(* An owner of a tenant is still one after a step that keeps its row. *)
LEMMA OwnersKept ==
  ASSUME AlwaysAnOwner,
         DOMAIN tenants' \subseteq DOMAIN tenants,
         \A v \in DOMAIN users : users[v].tenant \in DOMAIN tenants'
             /\ users[v].role = "owner" =>
                v \in DOMAIN users' /\ users'[v] = users[v]
  PROVE  AlwaysAnOwner'
  BY DEF AlwaysAnOwner, Owners, Members

LEMMA OwnerStep == TypeOK /\ AlwaysAnOwner /\ [Next]_vars => AlwaysAnOwner'
<1> SUFFICES ASSUME TypeOK, AlwaysAnOwner, [Next]_vars PROVE AlwaysAnOwner'
  OBVIOUS
<1>1. CASE UNCHANGED <<tenants, users>>
  BY <1>1, OwnersKept
<1>2. ASSUME NEW t \in Tenants, NEW seats \in Seats, ChangePlan(t, seats)
      PROVE AlwaysAnOwner'
  BY <1>2, OwnersKept DEF ChangePlan
<1>3. ASSUME NEW t \in Tenants, NEW u \in Users, Signup(t, u)
      PROVE AlwaysAnOwner'
  <2>1. u \notin DOMAIN users /\ t \notin DOMAIN tenants
    BY <1>3 DEF Signup, FreshUsers, FreshTenants
  <2>2. DOMAIN tenants' = DOMAIN tenants \cup {t}
    BY <1>3 DEF Signup
  <2>3. /\ DOMAIN users' = DOMAIN users \cup {u}
        /\ users'[u] = [tenant |-> t, role |-> "owner"]
        /\ \A v \in DOMAIN users : users'[v] = users[v]
    BY <1>3, <2>1 DEF Signup, WithUser
  <2>4. u \in Owners(t)'
    BY <2>3 DEF Owners, Members
  <2>5. \A k \in DOMAIN tenants : Owners(k) \subseteq Owners(k)'
    BY <2>3 DEF Owners, Members
  <2> QED BY <2>2, <2>4, <2>5 DEF AlwaysAnOwner
<1>4. ASSUME NEW c \in tokens, DeleteAccount(c) PROVE AlwaysAnOwner'
  <2>1. DOMAIN tenants' = DOMAIN tenants \ {c.tenant}
    BY <1>4 DEF DeleteAccount, Without
  <2>2. users' = [v \in DOMAIN users \ Members(c.tenant) |-> users[v]]
    BY <1>4 DEF DeleteAccount, Without
  <2> QED BY <2>1, <2>2, OwnersKept DEF Members
<1>5. ASSUME NEW i \in accepting, NEW u \in Users, Accept(i, u) PROVE AlwaysAnOwner'
  <2>1. u \notin DOMAIN users
    BY <1>5 DEF Accept, FreshUsers
  <2>2. \A v \in DOMAIN users : v \in DOMAIN users' /\ users'[v] = users[v]
    BY <1>5, <2>1 DEF Accept, WithUser
  <2> QED BY <1>5, <2>2, OwnersKept DEF Accept
<1>6. ASSUME NEW c \in tokens, NEW u \in Users, RemoveMember(c, u)
      PROVE AlwaysAnOwner'
  <2>1. users' = [v \in DOMAIN users \ {u} |-> users[v]] /\ users[u].role # "owner"
        /\ tenants' = tenants
    BY <1>6 DEF RemoveMember, Without
  <2> QED BY <2>1, OwnersKept
<1>7. ASSUME NEW c \in tokens, NEW u \in Users, NEW role \in Roles,
             ChangeRole(c, u, role)
      PROVE AlwaysAnOwner'
  <2>1. /\ DOMAIN users' = DOMAIN users
        /\ u \in DOMAIN users /\ users'[u].role = role
        /\ users'[u].tenant = users[u].tenant
        /\ users[u].tenant = c.tenant /\ users[u].role # "owner"
        /\ \A v \in DOMAIN users \ {u} :
              users'[v] = users[v] \/ (role = "owner" /\ users[v].tenant = c.tenant)
    BY <1>7, RolesAfterChange
  <2>2. tenants' = tenants
    BY <1>7 DEF ChangeRole
  <2>3. CASE role # "owner"
    BY <2>1, <2>2, <2>3, OwnersKept
  <2>4. CASE role = "owner"
    \* The target is an owner of c.tenant now; no other tenant is touched.
    <3>1. u \in Owners(c.tenant)'
      BY <2>1, <2>4 DEF Owners, Members
    <3>2. \A k \in DOMAIN tenants : k # c.tenant => Owners(k) \subseteq Owners(k)'
      BY <2>1 DEF Owners, Members
    <3> QED BY <2>2, <3>1, <3>2 DEF AlwaysAnOwner
  <2> QED BY <2>3, <2>4
<1>8. CASE UNCHANGED vars
  BY <1>8, <1>1 DEF vars
<1>9. CASE Account
  BY <1>9, <1>1, <1>2, <1>3, <1>4 DEF Account, Login, TokenExpires
<1>10. CASE Invitation
  BY <1>10, <1>1, <1>5
     DEF Invitation, InviteRequest, RevokeInvitation, InviteFails, Invite,
         InvitationExpires, AcceptBegins, AcceptFails
<1>11. CASE Team
  BY <1>11, <1>6, <1>7 DEF Team
<1> QED BY <1>8, <1>9, <1>10, <1>11 DEF Next

(* A tenant always has an owner: the owner cannot leave, be removed or step   *)
(* down but by a transfer, and the target of a transfer, whoever asked for it, *)
(* is an owner when it commits.                                               *)
THEOREM TenantsAreOwned == Spec => []AlwaysAnOwner
<1>1. Init => AlwaysAnOwner
  BY DEF Init, AlwaysAnOwner
<1> QED BY <1>1, OwnerStep, TypeCorrect, PTL DEF Spec

-----------------------------------------------------------------------------

(* One owner, without counting. *)
Single == \A t \in DOMAIN tenants : \E o \in Users : Owners(t) = {o}

LEMMA OneOwnerIsSingle == TypeOK => (OneOwner <=> Single)
<1> SUFFICES ASSUME TypeOK, NEW t \in DOMAIN tenants
             PROVE  Cardinality(Owners(t)) = 1 <=> \E o \in Users : Owners(t) = {o}
  BY DEF OneOwner, Single
<1>1. Owners(t) \subseteq Users
  BY DEF Owners, Members
<1>2. IsFiniteSet(Owners(t))
  BY <1>1, FS_Subset, TeamsAssumption
<1>3. Cardinality(Owners(t)) = 1 <=> \E o : Owners(t) = {o}
  BY <1>2, FS_Singleton
<1> QED BY <1>1, <1>3

(* Steps that change the owners of no tenant that stays. *)
LEMMA SingleKept ==
  ASSUME Single, DOMAIN tenants' \subseteq DOMAIN tenants,
         \A t \in DOMAIN tenants' : Owners(t)' = Owners(t)
  PROVE  Single'
  BY DEF Single

LEMMA SingleStep ==
  TypeOK /\ Single /\ OwnerTokensAreTrue /\ [Next]_vars => Single'
<1> SUFFICES ASSUME TypeOK, Single, OwnerTokensAreTrue, [Next]_vars PROVE Single'
  OBVIOUS
<1>1. CASE UNCHANGED <<tenants, users>>
  <2>1. \A t \in DOMAIN tenants' : Owners(t)' = Owners(t)
    BY <1>1 DEF Owners, Members
  <2> QED BY <1>1, <2>1, SingleKept
<1>2. ASSUME NEW t \in Tenants, NEW seats \in Seats, ChangePlan(t, seats)
      PROVE Single'
  <2>1. DOMAIN tenants' = DOMAIN tenants /\ users' = users
    BY <1>2 DEF ChangePlan
  <2>2. \A k \in DOMAIN tenants' : Owners(k)' = Owners(k)
    BY <2>1 DEF Owners, Members
  <2> QED BY <2>1, <2>2, SingleKept
<1>3. ASSUME NEW t \in Tenants, NEW u \in Users, Signup(t, u)
      PROVE Single'
  <2>1. u \notin DOMAIN users /\ t \notin DOMAIN tenants
    BY <1>3 DEF Signup, FreshUsers, FreshTenants
  <2>2. DOMAIN tenants' = DOMAIN tenants \cup {t}
    BY <1>3 DEF Signup
  <2>3. /\ DOMAIN users' = DOMAIN users \cup {u}
        /\ users'[u] = [tenant |-> t, role |-> "owner"]
        /\ \A v \in DOMAIN users : users'[v] = users[v]
    BY <1>3, <2>1 DEF Signup, WithUser
  <2>4. \A v \in DOMAIN users : users[v].tenant # t
    BY <2>1
  <2>5. Owners(t)' = {u}
    BY <2>3, <2>4 DEF Owners, Members
  <2>6. \A k \in DOMAIN tenants : Owners(k)' = Owners(k)
    BY <2>1, <2>3 DEF Owners, Members
  <2> QED BY <2>2, <2>5, <2>6 DEF Single
<1>4. ASSUME NEW c \in tokens, DeleteAccount(c) PROVE Single'
  <2>1. DOMAIN tenants' = DOMAIN tenants \ {c.tenant}
    BY <1>4 DEF DeleteAccount, Without
  <2>2. users' = [v \in DOMAIN users \ Members(c.tenant) |-> users[v]]
    BY <1>4 DEF DeleteAccount, Without
  <2>3. \A k \in DOMAIN tenants' : Owners(k)' = Owners(k)
    BY <2>1, <2>2 DEF Owners, Members
  <2> QED BY <2>1, <2>3, SingleKept
<1>5. ASSUME NEW i \in accepting, NEW u \in Users, Accept(i, u) PROVE Single'
  <2>1. u \notin DOMAIN users /\ invitations[i] \in InvitationRow
    BY <1>5 DEF Accept, FreshUsers
  <2>2. invitations[i].role # "owner"
    BY <2>1 DEF InvitationRow, Invitable
  <2>3. /\ DOMAIN users' = DOMAIN users \cup {u}
        /\ users'[u].role # "owner"
        /\ \A v \in DOMAIN users : users'[v] = users[v]
    BY <1>5, <2>1, <2>2 DEF Accept, WithUser
  <2>4. \A k \in DOMAIN tenants : Owners(k)' = Owners(k)
    BY <2>1, <2>3 DEF Owners, Members
  <2> QED BY <1>5, <2>4, SingleKept DEF Accept
<1>6. ASSUME NEW c \in tokens, NEW u \in Users, RemoveMember(c, u) PROVE Single'
  <2>1. users' = [v \in DOMAIN users \ {u} |-> users[v]] /\ users[u].role # "owner"
        /\ tenants' = tenants
    BY <1>6 DEF RemoveMember, Without
  <2>2. \A k \in DOMAIN tenants' : Owners(k)' = Owners(k)
    BY <2>1 DEF Owners, Members
  <2> QED BY <2>1, <2>2, SingleKept
<1>7. ASSUME NEW c \in tokens, NEW u \in Users, NEW role \in Roles,
             ChangeRole(c, u, role)
      PROVE Single'
  <2>1. /\ DOMAIN users' = DOMAIN users
        /\ \A v \in DOMAIN users : users'[v].tenant = users[v].tenant
        /\ u \in DOMAIN users /\ users'[u].role = role
        /\ users[u].tenant = c.tenant /\ users[u].role # "owner"
        /\ \A v \in DOMAIN users \ {u} :
              users'[v] = users[v] \/ (role = "owner" /\ users[v].tenant = c.tenant
                                       /\ users'[v].role = "admin")
        /\ role = "owner" /\ c.user \in Members(c.tenant) =>
              c.user # u /\ users'[c.user].role = "admin"
    BY <1>7, RolesAfterChange
  <2>2. tenants' = tenants
    BY <1>7 DEF ChangeRole
  <2>3. CASE role # "owner"
    <3>1. \A k \in DOMAIN tenants : Owners(k)' = Owners(k)
      BY <2>1, <2>3 DEF Owners, Members
    <3> QED BY <2>2, <3>1, SingleKept
  <2>4. CASE role = "owner"
    \* The token is true: the caller is the one owner and steps down.
    <3>1. c.user \in Owners(c.tenant)
      BY <1>7 DEF ChangeRole, OwnerTokensAreTrue
    <3>2. c.tenant \in DOMAIN tenants /\ c.user \in Members(c.tenant)
      BY <3>1 DEF Owners, Members
    <3>3. Owners(c.tenant) = {c.user}
      BY <3>1, <3>2 DEF Single
    <3>4. Owners(c.tenant)' = {u}
      BY <2>1, <2>4, <3>2, <3>3 DEF Owners, Members
    <3>5. \A k \in DOMAIN tenants : k # c.tenant => Owners(k)' = Owners(k)
      BY <2>1 DEF Owners, Members
    <3> QED BY <2>2, <3>4, <3>5 DEF Single
  <2> QED BY <2>3, <2>4
<1>8. CASE UNCHANGED vars
  BY <1>8, <1>1 DEF vars
<1>9. CASE Account
  BY <1>9, <1>1, <1>2, <1>3, <1>4 DEF Account, Login, TokenExpires
<1>10. CASE Invitation
  BY <1>10, <1>1, <1>5
     DEF Invitation, InviteRequest, RevokeInvitation, InviteFails, Invite,
         InvitationExpires, AcceptBegins, AcceptFails
<1>11. CASE Team
  BY <1>11, <1>6, <1>7 DEF Team
<1> QED BY <1>8, <1>9, <1>10, <1>11 DEF Next

(* From a state with one owner per tenant, a second one needs a token that is  *)
(* older than a change of roles: nothing else in the code can make one.        *)
THEOREM TransfersAreClean == Spec => TransfersKeepOneOwner
<1>1. TypeOK /\ TypeOK' /\ [Next]_vars =>
        [OneOwner /\ OwnerTokensAreTrue => OneOwner']_vars
  <2>1. TypeOK' => (OneOwner' <=> Single')
    BY OneOwnerIsSingle, PTL
  <2> QED BY <2>1, OneOwnerIsSingle, SingleStep
<1> QED BY <1>1, TypeCorrect, PTL DEF Spec, TransfersKeepOneOwner

-----------------------------------------------------------------------------
(* Seats.                                                                   *)

\* The invitations that hold a seat of a tenant, and those that hold one past
\* their time.
Holding(t) ==
    {i \in DOMAIN invitations :
        i[1] = t /\ (invitations[i].status = "live" \/ i \in accepting)}
Overdue(t) == {i \in accepting : i[1] = t /\ invitations[i].status = "expired"}

(* An invitation that is being accepted has not been accepted, so that it is *)
(* live, or counted by Late.                                                 *)
SeatsInv ==
    /\ IsFiniteSet(DOMAIN invitations)
    /\ \A i \in accepting : invitations[i].status # "accepted"

LEMMA SeatsInvStep == TypeOK /\ SeatsInv /\ [Next]_vars => SeatsInv'
<1> SUFFICES ASSUME TypeOK, SeatsInv, [Next]_vars PROVE SeatsInv'
  OBVIOUS
<1>1. ASSUME UNCHANGED invitations, accepting' \subseteq accepting PROVE SeatsInv'
  BY <1>1 DEF SeatsInv
<1>2. CASE UNCHANGED vars
  BY <1>1, <1>2 DEF vars
<1>3. ASSUME NEW c \in tokens, DeleteAccount(c) PROVE SeatsInv'
  <2>1. DOMAIN invitations' \subseteq DOMAIN invitations /\ accepting' = accepting
        /\ \A i \in DOMAIN invitations' : invitations'[i] = invitations[i]
    BY <1>3 DEF DeleteAccount, Without
  <2>2. accepting \subseteq DOMAIN invitations'
    BY <1>3, <2>1, TypeAccount DEF Account
  <2>3. IsFiniteSet(DOMAIN invitations')
    BY <2>1, FS_Subset DEF SeatsInv
  <2> QED BY <2>1, <2>2, <2>3 DEF SeatsInv
<1>4. CASE Account
  BY <1>1, <1>3, <1>4 DEF Account, ChangePlan, Login, Signup, TokenExpires
<1>5. ASSUME NEW c \in tokens, NEW e \in Emails, RevokeInvitation(c, e) PROVE SeatsInv'
  <2>1. DOMAIN invitations' = DOMAIN invitations \ {<<c.tenant, e>>}
        /\ <<c.tenant, e>> \notin accepting /\ accepting' = accepting
        /\ \A i \in DOMAIN invitations' : invitations'[i] = invitations[i]
    BY <1>5 DEF RevokeInvitation, Without
  <2>2. IsFiniteSet(DOMAIN invitations')
    BY <2>1, FS_Subset DEF SeatsInv
  <2> QED BY <2>1, <2>2 DEF SeatsInv
<1>6. ASSUME NEW q \in inviting, NEW role \in Invitable, Invite(q, role) PROVE SeatsInv'
  <2> DEFINE i == <<q.tenant, q.email>>
  <2>1. DOMAIN invitations' = DOMAIN invitations \cup {i} /\ accepting' = accepting
        /\ i \notin accepting
        /\ \A k \in DOMAIN invitations \ {i} : invitations'[k] = invitations[k]
    BY <1>6 DEF Invite
  <2> HIDE DEF i
  <2>2. IsFiniteSet(DOMAIN invitations')
    BY <2>1, FS_AddElement DEF SeatsInv
  <2> QED BY <2>1, <2>2 DEF SeatsInv
<1>7. ASSUME NEW i \in DOMAIN invitations, InvitationExpires(i) PROVE SeatsInv'
  <2>1. DOMAIN invitations' = DOMAIN invitations /\ accepting' = accepting
        /\ \A k \in DOMAIN invitations :
              invitations'[k].status \in {invitations[k].status, "expired"}
    BY <1>7 DEF InvitationExpires, InvitationRow
  <2> QED BY <2>1 DEF SeatsInv
<1>8. ASSUME NEW i \in DOMAIN invitations, AcceptBegins(i) PROVE SeatsInv'
  BY <1>8 DEF AcceptBegins, SeatsInv
<1>9. ASSUME NEW i \in accepting, NEW u \in Users, Accept(i, u) PROVE SeatsInv'
  <2>1. DOMAIN invitations' = DOMAIN invitations /\ accepting' = accepting \ {i}
        /\ \A k \in DOMAIN invitations \ {i} : invitations'[k] = invitations[k]
    BY <1>9 DEF Accept
  <2> QED BY <2>1 DEF SeatsInv
<1>10. CASE Invitation
  BY <1>1, <1>5, <1>6, <1>7, <1>8, <1>9, <1>10
     DEF Invitation, InviteRequest, InviteFails, AcceptFails
<1>11. CASE Team
  BY <1>1, <1>11 DEF Team, RemoveMember, ChangeRole
<1> QED BY <1>2, <1>4, <1>10, <1>11 DEF Next

(* The sets that are counted are finite.                                    *)
SeatsAreCounted ==
    \A t : /\ IsFiniteSet(Members(t)) /\ Cardinality(Members(t)) \in Nat
           /\ IsFiniteSet(Holding(t)) /\ Cardinality(Holding(t)) \in Nat
           /\ Promised(t) = Cardinality(Members(t)) + Cardinality(Holding(t))

LEMMA SeatsAreFinite == TypeOK /\ SeatsInv => SeatsAreCounted
<1> SUFFICES ASSUME TypeOK, SeatsInv, NEW t
             PROVE  /\ IsFiniteSet(Members(t)) /\ Cardinality(Members(t)) \in Nat
                    /\ IsFiniteSet(Holding(t)) /\ Cardinality(Holding(t)) \in Nat
                    /\ Promised(t) = Cardinality(Members(t)) + Cardinality(Holding(t))
  BY DEF SeatsAreCounted
<1>1. Members(t) \in SUBSET Users /\ Holding(t) \in SUBSET (DOMAIN invitations)
  BY DEF Members, Holding
<1>2. IsFiniteSet(Members(t)) /\ IsFiniteSet(Holding(t))
  BY <1>1, FS_Subset, TeamsAssumption DEF SeatsInv
<1> QED BY <1>2, FS_CardinalityType DEF Promised, Holding

LEMMA SeatsStayFinite == TypeOK' /\ SeatsInv' => SeatsAreCounted'
  BY SeatsAreFinite, PTL

(* Where nobody joins and no invitation is added, no seat is promised.      *)
LEMMA NoNewcomers ==
  ASSUME TypeOK, TypeOK', SeatsInv, SeatsInv', NEW t,
         Members(t)' \subseteq Members(t), Holding(t)' \subseteq Holding(t)
  PROVE  ~(Promised(t)' > Promised(t))
<1>1. Cardinality(Members(t)') <= Cardinality(Members(t))
      /\ Cardinality(Holding(t)') <= Cardinality(Holding(t))
  BY SeatsAreFinite, FS_Subset DEF SeatsAreCounted
<1>2. /\ Cardinality(Members(t)') \in Nat /\ Cardinality(Holding(t)') \in Nat
      /\ Promised(t)' = Cardinality(Members(t)') + Cardinality(Holding(t)')
  BY SeatsStayFinite DEF SeatsAreCounted
<1> QED BY <1>1, <1>2, SeatsAreFinite DEF SeatsAreCounted

(* An invitation is sent when a seat is free, but for those that are overdue. *)
LEMMA InvitesFitThePlan ==
  ASSUME TypeOK, TypeOK', SeatsInv, SeatsInv', NEW t \in DOMAIN tenants,
         NEW q \in inviting, NEW role \in Invitable, Invite(q, role),
         Promised(t)' > Promised(t)
  PROVE  Promised(t)' <= tenants[t] + Late(t)
<1> DEFINE i == <<q.tenant, q.email>>
<1>1. /\ invitations' = [k \in DOMAIN invitations \cup {i} |->
             IF k = i THEN [role |-> role, status |-> "live"] ELSE invitations[k]]
      /\ accepting' = accepting /\ users' = users /\ i \notin accepting
      /\ Taken(q.tenant) < tenants[q.tenant] /\ i[1] = q.tenant
  BY DEF Invite
<1> HIDE DEF i
<1>2. Holding(t)' \subseteq Holding(t) \cup {i} /\ (q.tenant # t => Holding(t)' \subseteq Holding(t))
      /\ Members(t)' = Members(t)
  BY <1>1 DEF Holding, Members
<1>3. q.tenant = t
  BY <1>2, NoNewcomers
<1>4. /\ IsFiniteSet(Members(t)) /\ Cardinality(Members(t)) \in Nat
      /\ IsFiniteSet(Holding(t)) /\ Cardinality(Holding(t)) \in Nat
      /\ Promised(t) = Cardinality(Members(t)) + Cardinality(Holding(t))
  BY SeatsAreFinite DEF SeatsAreCounted
<1>5. /\ Cardinality(Holding(t)') \in Nat
      /\ Promised(t)' = Cardinality(Members(t)') + Cardinality(Holding(t)')
  BY SeatsStayFinite DEF SeatsAreCounted
<1>6. Cardinality(Holding(t)') <= Cardinality(Holding(t)) + 1
  <2>1. /\ IsFiniteSet(Holding(t) \cup {i})
        /\ Cardinality(Holding(t) \cup {i}) <= Cardinality(Holding(t)) + 1
    <3>1. /\ IsFiniteSet(Holding(t) \cup {i})
          /\ Cardinality(Holding(t) \cup {i}) =
                IF i \in Holding(t) THEN Cardinality(Holding(t)) ELSE Cardinality(Holding(t)) + 1
      BY <1>4, FS_AddElement
    <3> QED BY <1>4, <3>1
  <2>2. Cardinality(Holding(t)') <= Cardinality(Holding(t) \cup {i})
    BY <1>2, <2>1, FS_Subset
  <2>3. Cardinality(Holding(t) \cup {i}) \in Nat
    BY <2>1, FS_CardinalityType
  <2> QED BY <1>4, <1>5, <2>1, <2>2, <2>3
<1>7. /\ Holding(t) = Live(t) \cup Overdue(t) /\ Live(t) \cap Overdue(t) = {}
      /\ Late(t) = Cardinality(Overdue(t))
  BY DEF Holding, Live, Overdue, Late, SeatsInv, InvitationRow
<1>8. Cardinality(Holding(t)) = Cardinality(Live(t)) + Cardinality(Overdue(t))
      /\ Cardinality(Live(t)) \in Nat /\ Cardinality(Overdue(t)) \in Nat
  <2>1. IsFiniteSet(Live(t)) /\ IsFiniteSet(Overdue(t))
    BY <1>4, <1>7, FS_Subset
  <2>2. Cardinality(Live(t) \cup Overdue(t)) =
          Cardinality(Live(t)) + Cardinality(Overdue(t)) - Cardinality(Live(t) \cap Overdue(t))
    BY <2>1, FS_Union
  <2>3. Cardinality(Live(t) \cap Overdue(t)) = 0
    BY <1>7, FS_EmptySet
  <2>4. Cardinality(Live(t)) \in Nat /\ Cardinality(Overdue(t)) \in Nat
    BY <2>1, FS_CardinalityType
  <2> QED BY <1>7, <2>2, <2>3, <2>4
<1>9. tenants[t] \in Nat
  BY TeamsAssumption
<1>10. Cardinality(Members(t)) + Cardinality(Live(t)) < tenants[t]
  BY <1>1, <1>3 DEF Taken
<1> QED BY <1>2, <1>4, <1>5, <1>6, <1>7, <1>8, <1>9, <1>10

(* Accepting an invitation turns a promised seat into a taken one.          *)
LEMMA AcceptingTakesNoMore ==
  ASSUME TypeOK, TypeOK', SeatsInv, SeatsInv', NEW t,
         NEW i \in accepting, NEW u \in Users, Accept(i, u)
  PROVE  ~(Promised(t)' > Promised(t))
<1>1. /\ u \notin DOMAIN users /\ users' = WithUser(u, i[1], invitations[i].role)
      /\ DOMAIN invitations' = DOMAIN invitations /\ accepting' = accepting \ {i}
      /\ \A k \in DOMAIN invitations \ {i} : invitations'[k] = invitations[k]
      /\ invitations' = [invitations EXCEPT ![i].status = "accepted"]
  BY DEF Accept, FreshUsers
<1>2. i \in DOMAIN invitations /\ invitations'[i].status = "accepted"
  BY <1>1 DEF InvitationRow
<1>3. Holding(t)' \subseteq Holding(t) \ {i} /\ (i[1] = t => i \in Holding(t))
  BY <1>1, <1>2 DEF Holding
<1>4. Members(t)' = IF i[1] = t THEN Members(t) \cup {u} ELSE Members(t)
  BY <1>1 DEF Members, WithUser
<1>5. CASE i[1] # t
  BY <1>3, <1>4, <1>5, NoNewcomers
<1>6. CASE i[1] = t
  <2>1. /\ IsFiniteSet(Members(t)) /\ Cardinality(Members(t)) \in Nat
        /\ IsFiniteSet(Holding(t)) /\ Cardinality(Holding(t)) \in Nat
        /\ Promised(t) = Cardinality(Members(t)) + Cardinality(Holding(t))
    BY SeatsAreFinite DEF SeatsAreCounted
  <2>2. /\ Cardinality(Holding(t)') \in Nat
        /\ Promised(t)' = Cardinality(Members(t)') + Cardinality(Holding(t)')
    BY SeatsStayFinite DEF SeatsAreCounted
  <2>3. Cardinality(Members(t)') = Cardinality(Members(t)) + 1
    <3>1. u \notin Members(t)
      BY <1>1 DEF Members
    <3>2. Cardinality(Members(t) \cup {u}) =
            IF u \in Members(t) THEN Cardinality(Members(t)) ELSE Cardinality(Members(t)) + 1
      BY <2>1, FS_AddElement
    <3> QED BY <1>4, <1>6, <3>1, <3>2
  <2>4. IsFiniteSet(Holding(t) \ {i})
        /\ Cardinality(Holding(t) \ {i}) = Cardinality(Holding(t)) - 1
    BY <1>3, <1>6, <2>1, FS_RemoveElement
  <2>5. Cardinality(Holding(t)') <= Cardinality(Holding(t) \ {i})
    BY <1>3, <2>4, FS_Subset
  <2> QED BY <2>1, <2>2, <2>3, <2>4, <2>5
<1> QED BY <1>5, <1>6

LEMMA SeatsStep ==
  ASSUME TypeOK, TypeOK', SeatsInv, SeatsInv', [Next]_vars,
         NEW t \in DOMAIN tenants \cap DOMAIN tenants', Promised(t)' > Promised(t)
  PROVE  Promised(t)' <= tenants[t] + Late(t)
<1>1. Members(t)' \subseteq Members(t) => ~(Holding(t)' \subseteq Holding(t))
  BY NoNewcomers
<1>2. CASE UNCHANGED <<users, invitations, accepting>>
  BY <1>1, <1>2 DEF Members, Holding
<1>3. ASSUME NEW s \in Tenants, NEW u \in Users, Signup(s, u) PROVE FALSE
  <2>1. s # t /\ users' = WithUser(u, s, "owner") /\ u \notin DOMAIN users
        /\ UNCHANGED <<invitations, accepting>>
    BY <1>3 DEF Signup, FreshTenants, FreshUsers
  <2> QED BY <1>1, <2>1 DEF Members, Holding, WithUser
<1>4. ASSUME NEW c \in tokens, DeleteAccount(c) PROVE FALSE
  BY <1>1, <1>4 DEF DeleteAccount, Members, Holding, Without
<1>5. ASSUME NEW c \in tokens, NEW e \in Emails, RevokeInvitation(c, e) PROVE FALSE
  BY <1>1, <1>5 DEF RevokeInvitation, Members, Holding, Without
<1>6. ASSUME NEW i \in DOMAIN invitations, InvitationExpires(i) PROVE FALSE
  <2>1. DOMAIN invitations' = DOMAIN invitations /\ UNCHANGED <<users, accepting>>
        /\ \A k \in DOMAIN invitations :
              invitations'[k].status \in {invitations[k].status, "expired"}
    BY <1>6 DEF InvitationExpires, InvitationRow
  <2> QED BY <1>1, <2>1 DEF Members, Holding
<1>7. ASSUME NEW i \in DOMAIN invitations, AcceptBegins(i) PROVE FALSE
  BY <1>1, <1>7 DEF AcceptBegins, Members, Holding
<1>8. ASSUME NEW i \in accepting, AcceptFails(i) PROVE FALSE
  BY <1>1, <1>8 DEF AcceptFails, Members, Holding
<1>9. ASSUME NEW c \in tokens, NEW u \in Users, RemoveMember(c, u) PROVE FALSE
  BY <1>1, <1>9 DEF RemoveMember, Members, Holding, Without
<1>10. ASSUME NEW c \in tokens, NEW u \in Users, NEW role \in Roles, ChangeRole(c, u, role)
       PROVE FALSE
  <2>1. DOMAIN users' = DOMAIN users /\ \A v \in DOMAIN users : users'[v].tenant = users[v].tenant
    BY <1>10, RolesAfterChange
  <2>2. UNCHANGED <<invitations, accepting>>
    BY <1>10 DEF ChangeRole
  <2> QED BY <1>1, <2>1, <2>2 DEF Members, Holding
<1>11. CASE Account
  BY <1>2, <1>3, <1>4, <1>11 DEF Account, ChangePlan, Login, TokenExpires
<1>12. CASE Invitation
  BY <1>2, <1>5, <1>6, <1>7, <1>8, <1>12, InvitesFitThePlan, AcceptingTakesNoMore
     DEF Invitation, InviteRequest, InviteFails
<1>13. CASE Team
  BY <1>9, <1>10, <1>13 DEF Team
<1> QED BY <1>2, <1>11, <1>12, <1>13 DEF Next, vars

(* The seats taken and promised grow only within the plan, but for as many as *)
(* there are acceptances that were overtaken by the expiry of the invitation. *)
THEOREM SeatsFitThePlan == Spec => SeatsStayWithinPlan
<1> DEFINE Fits ==
      \A t \in DOMAIN tenants \cap DOMAIN tenants' :
          Promised(t)' > Promised(t) => Promised(t)' <= tenants[t] + Late(t)
<1>1. Init => SeatsInv
  BY FS_EmptySet DEF Init, SeatsInv
<1>2. TypeOK /\ TypeOK' /\ SeatsInv /\ SeatsInv' /\ [Next]_vars => [Fits]_vars
  BY SeatsStep
<1> QED BY <1>1, <1>2, SeatsInvStep, TypeCorrect, PTL DEF Spec, SeatsStayWithinPlan
=============================================================================
