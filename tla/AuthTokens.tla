------------------------------ MODULE AuthTokens ------------------------------
(***************************************************************************)
(* Passwords, addresses and the links that were mailed for them            *)
(* (internal/http/password_handlers.go, the end of Signup).                *)
(*                                                                         *)
(* ResetPassword is one transaction at READ COMMITTED: what it writes is   *)
(* seen at its commit, the rows it wrote are locked until then, and who    *)
(* wants such a row waits.  VerifyUser and ChangePassword commit each      *)
(* statement on its own.                                                   *)
(***************************************************************************)
EXTENDS Integers, FiniteSets

CONSTANTS
    Users,          \* user ids
    Passwords,      \* passwords
    Tokens,         \* ids of auth_tokens, a sequence
    Requests,       \* ids of requests under way
    MaxFaults       \* bound: statements that fail and processes that die

ASSUME AuthTokensAssumption == Tokens \subseteq Nat /\ MaxFaults \in Nat

VARIABLES
    users,          \* users: id -> [password, verified]
    tokens,         \* auth_tokens: id -> [user, kind, used, expired]
    signups,        \* Signup: users whose verification is still to be sent
    resets,         \* ResetPassword: request -> the transaction
    changes,        \* ChangePassword: request -> [user, password, stage]
    verifying,      \* VerifyUser: the users whose token has been spent
    uses,           \* history: token -> passwords it has set
    overtaken,      \* history: the tokens older than the password of their user
    untimely,       \* history: the tokens requested while a password was changing
    excused,        \* history: tokens and users a failed statement left behind
    faults

history == <<uses, overtaken, untimely, excused>>
vars == <<users, tokens, signups, resets, changes, verifying, history, faults>>

Kinds == {"verify", "reset"}
UserRow == [password : Passwords, verified : BOOLEAN]
TokenRow == [user : Users, kind : Kinds, used : BOOLEAN, expired : BOOLEAN]
\* voids: the tokens the transaction has voided.
Reset == [token : Tokens, user : Users, password : Passwords, voids : SUBSET Tokens,
          stage : {"claimed", "written", "voided"}]
Change == [user : Users, password : Passwords, stage : {"checked", "written"}]

Without(f, x) == [y \in DOMAIN f \ {x} |-> f[y]]
With(f, x, v) == [y \in DOMAIN f \cup {x} |-> IF y = x THEN v ELSE f[y]]

Fault == faults < MaxFaults /\ faults' = faults + 1

NewRequests == Requests \ (DOMAIN resets \cup DOMAIN changes)
IsNextToken(k) == k \notin DOMAIN uses /\ \A j \in Tokens : j < k => j \in DOMAIN uses

-----------------------------------------------------------------------------
(* Rows and their locks. *)

ResetTokens(u) ==
    {k \in DOMAIN tokens : tokens[k].user = u /\ tokens[k].kind = "reset"}
Outstanding(u) == {k \in ResetTokens(u) : ~tokens[k].used}

\* Row locks: of the claimed and the voided tokens, and of the user once written.
LockedTokens(r) == {resets[r].token} \cup resets[r].voids
TokensLockedBy(others) == UNION {LockedTokens(r) : r \in others}
LocksUser(r, u) == resets[r].user = u /\ resets[r].stage # "claimed"

UserIsFree(u) == \A r \in DOMAIN resets : ~LocksUser(r, u)

Usable(k, kind) ==
    /\ k \in DOMAIN tokens /\ tokens[k].kind = kind
    /\ ~tokens[k].used /\ ~tokens[k].expired

Spend(ks) == [k \in DOMAIN tokens |->
                 IF k \in ks THEN [tokens[k] EXCEPT !.used = TRUE] ELSE tokens[k]]

\* The UPDATE of password_hash takes effect.
SetPassword(u, p) ==
    /\ users' = IF u \in DOMAIN users THEN [users EXCEPT ![u].password = p] ELSE users
    /\ overtaken' = overtaken \cup ResetTokens(u)

\* A password of the user is changing, and the links that are void are chosen.
Changing(u) ==
    \/ \E r \in DOMAIN resets : resets[r].user = u /\ resets[r].stage = "voided"
    \/ \E c \in DOMAIN changes : changes[c].user = u /\ changes[c].stage = "written"

InsertToken(k, u, kind) ==
    /\ IsNextToken(k) /\ u \in DOMAIN users
    /\ tokens' = With(tokens, k, [user |-> u, kind |-> kind,
                                  used |-> FALSE, expired |-> FALSE])
    /\ uses' = With(uses, k, 0)
    /\ untimely' = IF Changing(u) THEN untimely \cup {k} ELSE untimely
    /\ UNCHANGED <<users, resets, changes, verifying, overtaken, excused, faults>>

-----------------------------------------------------------------------------
(* Signup and sendVerification. *)

\* Ids are fresh: of no row, and remembered by nobody.
Signup(u, p) ==
    /\ u \notin DOMAIN users \cup signups \cup verifying \cup excused
    /\ \A r \in DOMAIN changes : changes[r].user # u
    /\ users' = With(users, u, [password |-> p, verified |-> FALSE])
    /\ signups' = signups \cup {u}
    /\ UNCHANGED <<tokens, resets, changes, verifying, history, faults>>

SendVerification(u, k) ==
    /\ u \in signups
    /\ signups' = signups \ {u}
    /\ InsertToken(k, u, "verify")

SendVerificationFails(u) ==
    /\ u \in signups
    /\ IF u \in DOMAIN users THEN Fault ELSE UNCHANGED faults
    /\ signups' = signups \ {u}
    /\ UNCHANGED <<users, tokens, resets, changes, verifying, history>>

-----------------------------------------------------------------------------
(* VerifyUser. *)

SpendVerification(k) ==
    /\ Usable(k, "verify")
    /\ tokens' = Spend({k})
    /\ verifying' = verifying \cup {tokens[k].user}
    /\ UNCHANGED <<users, signups, resets, changes, history, faults>>

\* Mutant: somebody who changes the password at that time is forgotten.
SetVerifiedUnlessBusy(u) ==
    /\ u \in verifying
    /\ verifying' = verifying \ {u}
    /\ users' = IF u \in DOMAIN users /\ UserIsFree(u)
                  THEN [users EXCEPT ![u].verified = TRUE] ELSE users
    /\ UNCHANGED <<tokens, signups, resets, changes, history, faults>>

SetVerified(u) ==
    /\ u \in verifying /\ UserIsFree(u)
    /\ verifying' = verifying \ {u}
    /\ users' = IF u \in DOMAIN users THEN [users EXCEPT ![u].verified = TRUE]
                                      ELSE users
    /\ UNCHANGED <<tokens, signups, resets, changes, history, faults>>

SetVerifiedFails(u) ==
    /\ u \in verifying /\ Fault
    /\ verifying' = verifying \ {u}
    /\ excused' = excused \cup {u}
    /\ UNCHANGED <<users, tokens, signups, resets, changes, uses, overtaken, untimely>>

-----------------------------------------------------------------------------
(* RequestPasswordReset: whether the mail arrives or not, the token is there.  *)

RequestPasswordReset(u, k) == InsertToken(k, u, "reset") /\ UNCHANGED signups

-----------------------------------------------------------------------------
(* ResetPassword. *)

\* Mutant: the token is looked up, not claimed.
ClaimByReading(r, k, p) ==
    /\ r \in NewRequests /\ Usable(k, "reset")
    /\ resets' = With(resets, r, [token |-> k, user |-> tokens[k].user, password |-> p,
                                  voids |-> {}, stage |-> "claimed"])
    /\ UNCHANGED <<users, tokens, signups, changes, verifying, history, faults>>

\* Mutant: the claim is committed on its own.
ClaimAtOnce(r, k, p) ==
    /\ r \in NewRequests /\ Usable(k, "reset")
    /\ \A o \in DOMAIN resets : k \notin LockedTokens(o)
    /\ tokens' = Spend({k})
    /\ resets' = With(resets, r, [token |-> k, user |-> tokens[k].user, password |-> p,
                                  voids |-> {}, stage |-> "claimed"])
    /\ UNCHANGED <<users, signups, changes, verifying, history, faults>>

ClaimToken(r, k, p) ==
    /\ r \in NewRequests /\ Usable(k, "reset")
    /\ \A o \in DOMAIN resets : k \notin LockedTokens(o)
    /\ resets' = With(resets, r, [token |-> k, user |-> tokens[k].user, password |-> p,
                                  voids |-> {}, stage |-> "claimed"])
    /\ UNCHANGED <<users, tokens, signups, changes, verifying, history, faults>>

WritePassword(r) ==
    /\ r \in DOMAIN resets /\ resets[r].stage = "claimed"
    /\ UserIsFree(resets[r].user)
    /\ resets' = [resets EXCEPT ![r].stage = "written"]
    /\ UNCHANGED <<users, tokens, signups, changes, verifying, history, faults>>

\* Mutant: the other links stay.
VoidNone(r) ==
    /\ r \in DOMAIN resets /\ resets[r].stage = "written"
    /\ resets' = [resets EXCEPT ![r].stage = "voided"]
    /\ UNCHANGED <<users, tokens, signups, changes, verifying, history, faults>>

\* Mutant: the statement runs outside the transaction.
ContestedOutside(r) == Outstanding(resets[r].user) \cap TokensLockedBy(DOMAIN resets)

\* The tokens another transaction has locked.
Contested(r) == Outstanding(resets[r].user) \cap TokensLockedBy(DOMAIN resets \ {r})

VoidOthers(r) ==
    /\ r \in DOMAIN resets /\ resets[r].stage = "written"
    /\ Contested(r) = {}
    /\ resets' = [resets EXCEPT ![r].stage = "voided",
                                ![r].voids = Outstanding(resets[r].user) \ {resets[r].token}]
    /\ UNCHANGED <<users, tokens, signups, changes, verifying, history, faults>>

CommitReset(r) ==
    /\ r \in DOMAIN resets /\ resets[r].stage = "voided"
    /\ SetPassword(resets[r].user, resets[r].password)
    /\ tokens' = Spend(LockedTokens(r))
    /\ uses' = [uses EXCEPT ![resets[r].token] = @ + 1]
    /\ resets' = Without(resets, r)
    /\ UNCHANGED <<signups, changes, verifying, untimely, excused, faults>>

\* A statement fails, or the client or the process goes away: the transaction is
\* rolled back.
ResetFails(r) ==
    /\ r \in DOMAIN resets /\ Fault
    /\ resets' = Without(resets, r)
    /\ UNCHANGED <<users, tokens, signups, changes, verifying, history>>

\* Two resets of one user wait for each other, one for the row of the user and one
\* for a token: the database fails one of them.
Deadlocked(r, o) ==
    /\ resets[r].stage = "written" /\ resets[o].stage = "claimed"
    /\ resets[r].user = resets[o].user
    /\ resets[o].token \in Outstanding(resets[r].user)

DeadlockVictim(r) ==
    /\ r \in DOMAIN resets
    /\ \E o \in DOMAIN resets \ {r} : Deadlocked(r, o) \/ Deadlocked(o, r)
    /\ resets' = Without(resets, r)
    /\ UNCHANGED <<users, tokens, signups, changes, verifying, history, faults>>

-----------------------------------------------------------------------------
(* ChangePassword. *)

CheckPassword(c, u, current, p) ==
    /\ c \in NewRequests /\ u \in DOMAIN users /\ users[u].password = current
    /\ changes' = With(changes, c, [user |-> u, password |-> p, stage |-> "checked"])
    /\ UNCHANGED <<users, tokens, signups, resets, verifying, history, faults>>

ChangeHash(c) ==
    /\ c \in DOMAIN changes /\ changes[c].stage = "checked"
    /\ UserIsFree(changes[c].user)
    /\ SetPassword(changes[c].user, changes[c].password)
    /\ changes' = [changes EXCEPT ![c].stage = "written"]
    /\ UNCHANGED <<tokens, signups, resets, verifying, uses, untimely, excused, faults>>

VoidLinks(c) ==
    LET u == changes[c].user
    IN  /\ c \in DOMAIN changes /\ changes[c].stage = "written"
        /\ Outstanding(u) \cap TokensLockedBy(DOMAIN resets) = {}
        /\ tokens' = Spend(Outstanding(u))
        /\ changes' = Without(changes, c)
        /\ UNCHANGED <<users, signups, resets, verifying, history, faults>>

\* A statement fails or the process dies; that of VoidLinks is only logged.
ChangeFails(c) ==
    /\ c \in DOMAIN changes /\ Fault
    /\ changes' = Without(changes, c)
    /\ excused' = IF changes[c].stage = "written"
                    THEN excused \cup Outstanding(changes[c].user) ELSE excused
    /\ UNCHANGED <<users, tokens, signups, resets, verifying, uses, overtaken, untimely>>

-----------------------------------------------------------------------------
(* The rest of the system. *)

\* The user is removed or the account deleted, which waits for locked rows; the
\* cascade takes the tokens.
RemoveUser(u) ==
    /\ u \in DOMAIN users /\ \A r \in DOMAIN resets : resets[r].user # u
    /\ users' = Without(users, u)
    /\ tokens' = [k \in {k \in DOMAIN tokens : tokens[k].user # u} |-> tokens[k]]
    /\ UNCHANGED <<signups, resets, changes, verifying, history, faults>>

\* Nothing reads the expiry of a spent token.
Expire(k) ==
    /\ k \in DOMAIN tokens /\ ~tokens[k].used /\ ~tokens[k].expired
    /\ tokens' = [tokens EXCEPT ![k].expired = TRUE]
    /\ UNCHANGED <<users, signups, resets, changes, verifying, history, faults>>

-----------------------------------------------------------------------------

Init ==
    /\ users = [u \in {} |-> 0] /\ tokens = [k \in {} |-> 0]
    /\ resets = [r \in {} |-> 0] /\ changes = [c \in {} |-> 0]
    /\ signups = {} /\ verifying = {}
    /\ uses = [k \in {} |-> 0]
    /\ overtaken = {} /\ untimely = {} /\ excused = {}
    /\ faults = 0

SignupStep ==
    \E u \in Users :
        \/ \E p \in Passwords : Signup(u, p)
        \/ \E k \in Tokens : SendVerification(u, k) \/ RequestPasswordReset(u, k)
        \/ SendVerificationFails(u) \/ RemoveUser(u)

Verify ==
    \/ \E k \in DOMAIN tokens : SpendVerification(k)
    \/ \E u \in verifying : SetVerified(u) \/ SetVerifiedFails(u)

ResetStep(r) == WritePassword(r) \/ VoidOthers(r) \/ CommitReset(r) \/ DeadlockVictim(r)

ChangeStep(c) == ChangeHash(c) \/ VoidLinks(c)

Begin(r) ==
    \E p \in Passwords :
        \/ \E k \in DOMAIN tokens : ClaimToken(r, k, p)
        \/ \E u \in Users, current \in Passwords : CheckPassword(r, u, current, p)

Next ==
    \/ SignupStep \/ Verify
    \/ \E r \in Requests :
          Begin(r) \/ ResetStep(r) \/ ResetFails(r) \/ ChangeStep(r) \/ ChangeFails(r)
    \/ \E k \in Tokens : Expire(k)

Spec == Init /\ [][Next]_vars

\* Requests that have begun go on, waiting for locks where they must.
FairSpec ==
    /\ Spec
    /\ \A r \in Requests : WF_vars(ResetStep(r)) /\ WF_vars(ChangeStep(r))

-----------------------------------------------------------------------------
(* Properties. *)

(* Tokens belong to users there are, and what a transaction has locked is a    *)
(* row that is still there and still unused.                                   *)
TypeOK ==
    /\ users \in [DOMAIN users -> UserRow] /\ DOMAIN users \subseteq Users
    /\ tokens \in [DOMAIN tokens -> TokenRow] /\ DOMAIN tokens \subseteq Tokens
    /\ \A k \in DOMAIN tokens : tokens[k].user \in DOMAIN users
    /\ signups \subseteq Users /\ verifying \subseteq Users
    /\ resets \in [DOMAIN resets -> Reset] /\ DOMAIN resets \subseteq Requests
    /\ \A r \in DOMAIN resets : \A k \in LockedTokens(r) :
          k \in Outstanding(resets[r].user)
    /\ changes \in [DOMAIN changes -> Change] /\ DOMAIN changes \subseteq Requests
    /\ uses \in [DOMAIN uses -> Nat] /\ DOMAIN tokens \subseteq DOMAIN uses
    /\ DOMAIN uses \subseteq Tokens
    /\ overtaken \subseteq DOMAIN uses /\ untimely \subseteq DOMAIN uses
    /\ excused \subseteq DOMAIN uses \cup Users
    /\ faults \in Nat

(* "Tokens are random, single-use": however many requests carry one link at    *)
(* the same time, it sets one password.                                        *)
TokensAreSingleUse == \A k \in DOMAIN uses : uses[k] <= 1

(* "A token can never be spent without the password actually changing": a      *)
(* reset link is dead only if the password has changed since it was requested. *)
(* The exception is a link requested between the two statements of a change.   *)
LinksDieOnlyWithThePassword ==
    \A u \in DOMAIN users :
        \A k \in ResetTokens(u) : tokens[k].used => k \in overtaken \cup untimely

(* "Any other outstanding reset tokens for this user are now void", "changing  *)
(* your password should invalidate a link someone may have requested": a link  *)
(* older than the password is dead, but for the moment between the statements  *)
(* of ChangePassword, a statement of it that failed, and a link requested      *)
(* after a reset has chosen what it voids and before it commits.               *)
OldLinksAreDead ==
    \A u \in DOMAIN users :
        \A k \in Outstanding(u) \cap overtaken :
            \/ k \in untimely \cup excused
            \/ \E c \in DOMAIN changes :
                  changes[c].user = u /\ changes[c].stage = "written"

(* "The token is the proof": an address is verified only by its link, and a    *)
(* link that was spent verifies it, unless the second statement failed.        *)
SpentLinksVerify ==
    \A u \in DOMAIN users :
        LET spent == \E k \in DOMAIN tokens : /\ tokens[k].user = u
                                              /\ tokens[k].kind = "verify"
                                              /\ tokens[k].used
        IN  /\ users[u].verified => spent
            /\ spent => users[u].verified \/ u \in verifying \cup excused

(* Requests that wait for each other's rows come to an end.                    *)
RequestsEnd == \A r \in Requests : []<>(r \notin DOMAIN resets \cup DOMAIN changes)
=============================================================================
