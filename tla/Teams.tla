-------------------------------- MODULE Teams --------------------------------
(***************************************************************************)
(* Who belongs to a tenant and in which role: signup, login, invitations,  *)
(* role changes and removal (internal/http: auth, team and data handlers;  *)
(* internal/plans: the seats of a plan).                                   *)
(*                                                                         *)
(* What a request may do is decided by the role in its token, which may be *)
(* older than the table says.  Two requests take more than one step here:  *)
(* an invitation looks for an existing account before its transaction, and *)
(* an acceptance consumes the invitation, hashes a password, and inserts   *)
(* the user only then.  ChangeRole reads and writes nothing but rows it    *)
(* has locked, so its transaction is one step.                             *)
(***************************************************************************)
EXTENDS Integers, FiniteSets

CONSTANTS
    Tenants,        \* tenant ids
    Users,          \* user ids
    Emails,
    EmailOf,        \* the address of the account with an id
    Seats,          \* the values max_members has in the plans
    FreeSeats,      \* that of the free plan
    MaxRequests,    \* bound: invitations being sent at the same time
    MaxTokens       \* bound: tokens that have not expired

ASSUME TeamsAssumption ==
    /\ IsFiniteSet(Users) /\ EmailOf \in [Users -> Emails]
    /\ Seats \subseteq Nat /\ FreeSeats \in Seats
    /\ MaxRequests \in Nat /\ MaxTokens \in Nat

Roles == {"owner", "admin", "member"}
Invitable == {"admin", "member"}

VARIABLES
    tenants,        \* tenants: id -> max_members of its plan
    users,          \* users: id -> [tenant, role]
    invitations,    \* invitations: <<tenant, email>> -> [role, status]
    tokens,         \* tokens that have not expired
    inviting,       \* InviteMember: requests that found no account
    accepting       \* AcceptInvitation: invitations of transactions not committed yet

vars == <<tenants, users, invitations, tokens, inviting, accepting>>

UserRow == [tenant : Tenants, role : Roles]
\* accepted: accepted_at is set; expired: it is not, and expires_at has passed.
InvitationRow == [role : Invitable, status : {"live", "expired", "accepted"}]
Token == [user : Users, tenant : Tenants, role : Roles]
\* A member's token opens none of the routes modelled here and is left out.
OpeningTokens == {c \in Token : c.role # "member"}
Request == [by : Users, tenant : Tenants, email : Emails]

-----------------------------------------------------------------------------

Members(t) == {u \in DOMAIN users : users[u].tenant = t}
Owners(t) == {u \in Members(t) : users[u].role = "owner"}
Registered(e) == \E u \in DOMAIN users : EmailOf[u] = e

TokenOf(u) == [user |-> u, tenant |-> users[u].tenant, role |-> users[u].role]

\* Ids are never used twice: nobody holds a token of a fresh one.
FreshUsers ==
    Users \ (DOMAIN users \cup {c.user : c \in tokens} \cup {q.by : q \in inviting})
FreshTenants ==
    Tenants \ (DOMAIN tenants \cup {x.tenant : x \in tokens \cup inviting})

Live(t) == {i \in DOMAIN invitations : i[1] = t /\ invitations[i].status = "live"}

\* Mutant: pending invitations do not count.
TakenByMembers(t) == Cardinality(Members(t))

\* What CheckMember counts.
Taken(t) == Cardinality(Members(t)) + Cardinality(Live(t))

WithUser(u, t, role) ==
    [v \in DOMAIN users \cup {u} |->
        IF v = u THEN [tenant |-> t, role |-> role] ELSE users[v]]

Without(f, gone) == [x \in DOMAIN f \ gone |-> f[x]]

-----------------------------------------------------------------------------
(* Accounts. *)

\* One transaction: the tenant, on the free plan, and its owner.
Signup(t, u) ==
    /\ Cardinality(tokens) < MaxTokens
    /\ t \in FreshTenants /\ u \in FreshUsers /\ ~Registered(EmailOf[u])
    /\ tenants' = [k \in DOMAIN tenants \cup {t} |->
          IF k = t THEN FreeSeats ELSE tenants[k]]
    /\ users' = WithUser(u, t, "owner")
    /\ tokens' = tokens \cup {[user |-> u, tenant |-> t, role |-> "owner"]}
    /\ UNCHANGED <<invitations, inviting, accepting>>

Login(u) ==
    /\ Cardinality(tokens) < MaxTokens
    /\ u \in DOMAIN users /\ users[u].role # "member"
    /\ tokens' = tokens \cup {TokenOf(u)}
    /\ UNCHANGED <<tenants, users, invitations, inviting, accepting>>

TokenExpires(c) ==
    /\ c \in tokens
    /\ tokens' = tokens \ {c}
    /\ UNCHANGED <<tenants, users, invitations, inviting, accepting>>

\* Mutant: no cascade.
DeleteTenantOnly(c) ==
    /\ c \in tokens /\ c.role = "owner" /\ c.tenant \in DOMAIN tenants
    /\ tenants' = Without(tenants, {c.tenant})
    /\ UNCHANGED <<users, invitations, tokens, inviting, accepting>>

\* The row cannot go while an acceptance holds an invitation of the tenant.
DeleteAccount(c) ==
    /\ c \in tokens /\ c.role = "owner" /\ c.tenant \in DOMAIN tenants
    /\ \A e \in Emails : <<c.tenant, e>> \notin accepting
    /\ tenants' = Without(tenants, {c.tenant})
    /\ users' = Without(users, Members(c.tenant))
    /\ invitations' = Without(invitations, {c.tenant} \X Emails)
    /\ UNCHANGED <<tokens, inviting, accepting>>

\* The webhook of billing moves the tenant to another plan.
ChangePlan(t, seats) ==
    /\ t \in DOMAIN tenants /\ tenants[t] # seats
    /\ tenants' = [tenants EXCEPT ![t] = seats]
    /\ UNCHANGED <<users, invitations, tokens, inviting, accepting>>

-----------------------------------------------------------------------------
(* Invitations. *)

\* InviteMember up to its transaction: no account has the address.
InviteRequest(c, e) ==
    /\ Cardinality(inviting) < MaxRequests
    /\ c \in tokens /\ c.role # "member"
    /\ ~Registered(e)
    /\ inviting' = inviting \cup {[by |-> c.user, tenant |-> c.tenant, email |-> e]}
    /\ UNCHANGED <<tenants, users, invitations, tokens, accepting>>

\* The transaction, under the lock of the tenant.  invited_by refers to a user, so
\* that the token of a user removed since is of no use.
Invite(q, role) ==
    LET i == <<q.tenant, q.email>>
    IN  /\ q \in inviting
        /\ q.tenant \in DOMAIN tenants /\ q.by \in DOMAIN users
        /\ Taken(q.tenant) < tenants[q.tenant]
        /\ i \notin accepting
        /\ invitations' = [k \in DOMAIN invitations \cup {i} |->
                IF k = i THEN [role |-> role, status |-> "live"] ELSE invitations[k]]
        /\ inviting' = inviting \ {q}
        /\ UNCHANGED <<tenants, users, tokens, accepting>>

\* Refused, or rolled back.
InviteFails(q) ==
    /\ q \in inviting
    /\ inviting' = inviting \ {q}
    /\ UNCHANGED <<tenants, users, invitations, tokens, accepting>>

RevokeInvitation(c, e) ==
    LET i == <<c.tenant, e>>
    IN  /\ c \in tokens /\ c.role # "member"
        /\ i \in DOMAIN invitations /\ invitations[i].status # "accepted"
        /\ i \notin accepting
        /\ invitations' = Without(invitations, {i})
        /\ UNCHANGED <<tenants, users, tokens, inviting, accepting>>

InvitationExpires(i) ==
    /\ i \in DOMAIN invitations /\ invitations[i].status = "live"
    /\ invitations' = [invitations EXCEPT ![i].status = "expired"]
    /\ UNCHANGED <<tenants, users, tokens, inviting, accepting>>

\* The first statement of AcceptInvitation: the row, seen live, is locked until
\* the transaction ends.
AcceptBegins(i) ==
    /\ i \in DOMAIN invitations \ accepting /\ invitations[i].status = "live"
    /\ accepting' = accepting \cup {i}
    /\ UNCHANGED <<tenants, users, invitations, tokens, inviting>>

\* The rest, with the commit; expires_at is not looked at again.
Accept(i, u) ==
    LET role == invitations[i].role
    IN  /\ i \in accepting
        /\ Cardinality(tokens) < MaxTokens
        /\ u \in FreshUsers /\ EmailOf[u] = i[2] /\ ~Registered(i[2])
        /\ users' = WithUser(u, i[1], role)
        /\ invitations' = [invitations EXCEPT ![i].status = "accepted"]
        /\ tokens' = tokens \cup
              ({[user |-> u, tenant |-> i[1], role |-> role]} \cap OpeningTokens)
        /\ accepting' = accepting \ {i}
        /\ UNCHANGED <<tenants, inviting>>

\* The address has an account by now, or a statement fails: all is rolled back.
AcceptFails(i) ==
    /\ i \in accepting
    /\ accepting' = accepting \ {i}
    /\ UNCHANGED <<tenants, users, invitations, tokens, inviting>>

-----------------------------------------------------------------------------
(* Roles. *)

\* users after the caller steps down, if the caller still is a user.
SteppedDown(c) ==
    IF c.user \in Members(c.tenant) THEN [users EXCEPT ![c.user].role = "admin"]
                                    ELSE users

\* Mutant: the caller stays owner.
PromoteOnly(c, u, role) ==
    /\ c \in tokens /\ c.role = "owner" /\ u # c.user
    /\ u \in Members(c.tenant) /\ users[u].role # "owner"
    /\ users' = [users EXCEPT ![u].role = role]
    /\ UNCHANGED <<tenants, invitations, tokens, inviting, accepting>>

\* Mutant: the two UPDATEs commit on their own.
StepDownAnyway(c, u, role) ==
    /\ c \in tokens /\ c.role = "owner" /\ u # c.user
    /\ LET before == IF role = "owner" THEN SteppedDown(c) ELSE users
       IN  users' = IF u \in Members(c.tenant) /\ users[u].role # "owner"
                      THEN [before EXCEPT ![u].role = role] ELSE before
    /\ UNCHANGED <<tenants, invitations, tokens, inviting, accepting>>

\* Making somebody owner is a transfer.  When no row of the target is updated the
\* transaction is rolled back.
ChangeRole(c, u, role) ==
    /\ c \in tokens /\ c.role = "owner" /\ u # c.user
    /\ u \in Members(c.tenant) /\ users[u].role # "owner"
    /\ users' = [IF role = "owner" THEN SteppedDown(c) ELSE users
                    EXCEPT ![u].role = role]
    /\ UNCHANGED <<tenants, invitations, tokens, inviting, accepting>>

RemoveMember(c, u) ==
    /\ c \in tokens /\ c.role = "owner" /\ u # c.user
    /\ u \in Members(c.tenant) /\ users[u].role # "owner"
    /\ users' = Without(users, {u})
    /\ UNCHANGED <<tenants, invitations, tokens, inviting, accepting>>

-----------------------------------------------------------------------------

Init ==
    /\ tenants = [t \in {} |-> 0]
    /\ users = [u \in {} |-> [tenant |-> CHOOSE t \in Tenants : TRUE, role |-> "owner"]]
    /\ invitations = [i \in {} |-> [role |-> "member", status |-> "live"]]
    /\ tokens = {} /\ inviting = {} /\ accepting = {}

Account ==
    \/ \E t \in Tenants, seats \in Seats : ChangePlan(t, seats)
    \/ \E u \in Users : Login(u) \/ \E t \in Tenants : Signup(t, u)
    \/ \E c \in tokens : TokenExpires(c) \/ DeleteAccount(c)

Invitation ==
    \/ \E c \in tokens, e \in Emails : InviteRequest(c, e) \/ RevokeInvitation(c, e)
    \/ \E q \in inviting : InviteFails(q) \/ \E role \in Invitable : Invite(q, role)
    \/ \E i \in DOMAIN invitations : InvitationExpires(i) \/ AcceptBegins(i)
    \/ \E i \in accepting : AcceptFails(i) \/ \E u \in Users : Accept(i, u)

Team ==
    \E c \in tokens, u \in Users :
        RemoveMember(c, u) \/ \E role \in Roles : ChangeRole(c, u, role)

Next == Account \/ Invitation \/ Team

Spec == Init /\ [][Next]_vars

-----------------------------------------------------------------------------
(* Properties. *)

TypeOK ==
    /\ tenants \in [DOMAIN tenants -> Seats] /\ DOMAIN tenants \subseteq Tenants
    /\ users \in [DOMAIN users -> UserRow] /\ DOMAIN users \subseteq Users
    /\ \A u \in DOMAIN users : users[u].tenant \in DOMAIN tenants
    /\ \A u, v \in DOMAIN users : EmailOf[u] = EmailOf[v] => u = v
    /\ invitations \in [DOMAIN invitations -> InvitationRow]
    /\ DOMAIN invitations \subseteq (DOMAIN tenants) \X Emails
    /\ tokens \subseteq OpeningTokens /\ inviting \subseteq Request
    /\ accepting \subseteq DOMAIN invitations

(* "A tenant with no owner has no one who can manage billing or delete it"     *)
(* (ChangeRole): a tenant always has an owner, whoever holds old tokens.       *)
AlwaysAnOwner == \A t \in DOMAIN tenants : Owners(t) # {}

\* Tokens that say owner belong to owners.
OwnerTokensAreTrue ==
    \A c \in tokens : c.role = "owner" => c.user \in Owners(c.tenant)

OneOwner == \A t \in DOMAIN tenants : Cardinality(Owners(t)) = 1

(* A transfer makes no second owner as long as no token is older than the last *)
(* transfer.                                                                   *)
TransfersKeepOneOwner == [][OneOwner /\ OwnerTokensAreTrue => OneOwner']_vars

\* The seats taken or promised: an acceptance under way will take one, whether or
\* not the invitation has expired since.
Promised(t) ==
    Cardinality(Members(t)) + Cardinality({i \in DOMAIN invitations :
        i[1] = t /\ (invitations[i].status = "live" \/ i \in accepting)})

\* Acceptances of invitations that have expired since they began.
Late(t) ==
    Cardinality({i \in accepting : i[1] = t /\ invitations[i].status = "expired"})

(* "Otherwise a tenant could send 100 invites on a 5-seat plan and end up over *)
(* it as they accept" (CheckMember): the seats taken and promised grow only    *)
(* within the plan, but for invitations that expired while they were being     *)
(* accepted.                                                                   *)
SeatsStayWithinPlan ==
    [][\A t \in DOMAIN tenants \cap DOMAIN tenants' :
          Promised(t)' > Promised(t) => Promised(t)' <= tenants[t] + Late(t)]_vars

(* "There is never zero or two owners" (ChangeRole), "every tenant must keep   *)
(* exactly one owner" (migration 4).                                           *)
ExactlyOneOwner == OneOwner
=============================================================================
