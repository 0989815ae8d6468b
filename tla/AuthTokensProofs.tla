-------------------------- MODULE AuthTokensProofs --------------------------
(***************************************************************************)
(* For any number of users, links and requests: a link works once, dies    *)
(* with the password and only with it, and verifies its address.           *)
(***************************************************************************)
EXTENDS AuthTokens, TLAPS

\* Two transactions never hold the same row of auth_tokens.
LocksAreDisjoint ==
    \A r, o \in DOMAIN resets : r # o => LockedTokens(r) \cap LockedTokens(o) = {}

\* A link that set a password is spent.
UsedOnce ==
    \A k \in DOMAIN uses : /\ uses[k] <= 1
                           /\ uses[k] = 1 /\ k \in DOMAIN tokens => tokens[k].used

\* Why a link may be dead, and why one older than the password may not be yet.
DeadHaveCause ==
    \A k \in DOMAIN tokens :
        tokens[k].kind = "reset" /\ tokens[k].used => k \in overtaken \cup untimely
LinksOfChanges ==
    \A c \in DOMAIN changes : changes[c].stage = "written" =>
        ResetTokens(changes[c].user) \subseteq overtaken \cup untimely
LinksOfResets ==
    \A r \in DOMAIN resets : resets[r].stage = "voided" =>
        Outstanding(resets[r].user) \subseteq LockedTokens(r) \cup untimely

VerifySpent(u) ==
    \E k \in DOMAIN tokens : /\ tokens[k].user = u
                             /\ tokens[k].kind = "verify"
                             /\ tokens[k].used
VerifyingSpent == \A u \in verifying \cap DOMAIN users : VerifySpent(u)
Verified ==
    \A u \in DOMAIN users :
        /\ users[u].verified => VerifySpent(u)
        /\ VerifySpent(u) => users[u].verified \/ u \in verifying \cup excused

LocksInv == TypeOK /\ LocksAreDisjoint
LinksInv == UsedOnce /\ DeadHaveCause /\ LinksOfChanges /\ LinksOfResets /\ OldLinksAreDead
VerifyInv == VerifyingSpent /\ Verified
IInv == LocksInv /\ LinksInv /\ VerifyInv

-----------------------------------------------------------------------------
(* Tables. *)

LEMMA WithFacts ==
    ASSUME NEW f, NEW x, NEW v
    PROVE  /\ DOMAIN With(f, x, v) = DOMAIN f \cup {x}
           /\ With(f, x, v)[x] = v
           /\ \A y \in DOMAIN f : y # x => With(f, x, v)[y] = f[y]
  BY DEF With

LEMMA WithType ==
    ASSUME NEW S, NEW f, f \in [DOMAIN f -> S], NEW x, NEW v \in S
    PROVE  With(f, x, v) \in [DOMAIN With(f, x, v) -> S]
  BY DEF With

LEMMA WithoutFacts ==
    ASSUME NEW f, NEW x
    PROVE  /\ DOMAIN Without(f, x) = DOMAIN f \ {x}
           /\ \A y \in DOMAIN f \ {x} : Without(f, x)[y] = f[y]
  BY DEF Without

LEMMA WithoutType ==
    ASSUME NEW S, NEW f, f \in [DOMAIN f -> S], NEW x
    PROVE  Without(f, x) \in [DOMAIN Without(f, x) -> S]
  BY DEF Without

(* Spending links spends these and leaves the rest as they are. *)
LEMMA SpendFacts ==
    ASSUME NEW ks, tokens \in [DOMAIN tokens -> TokenRow], tokens' = Spend(ks)
    PROVE  /\ DOMAIN tokens' = DOMAIN tokens
           /\ tokens' \in [DOMAIN tokens' -> TokenRow]
           /\ \A k \in DOMAIN tokens :
                 /\ tokens'[k].user = tokens[k].user
                 /\ tokens'[k].kind = tokens[k].kind
                 /\ tokens'[k].used <=> (tokens[k].used \/ k \in ks)
           /\ \A u : ResetTokens(u)' = ResetTokens(u)
           /\ \A u : Outstanding(u)' = Outstanding(u) \ ks
<1>1. DOMAIN tokens' = DOMAIN tokens
  BY DEF Spend
<1>2. ASSUME NEW k \in DOMAIN tokens
      PROVE  /\ tokens'[k] \in TokenRow
             /\ tokens'[k].user = tokens[k].user
             /\ tokens'[k].kind = tokens[k].kind
             /\ tokens'[k].used <=> (tokens[k].used \/ k \in ks)
  <2>1. tokens[k] \in TokenRow
    OBVIOUS
  <2>2. CASE k \in ks
    <3>1. tokens'[k] = [tokens[k] EXCEPT !.used = TRUE]
      BY <2>2 DEF Spend
    <3>2. QED
      BY <2>1, <2>2, <3>1 DEF TokenRow
  <2>3. CASE k \notin ks
    <3>1. tokens'[k] = tokens[k]
      BY <2>3 DEF Spend
    <3>2. QED
      BY <2>1, <2>3, <3>1
  <2>4. QED
    BY <2>2, <2>3
<1>3. tokens' \in [DOMAIN tokens' -> TokenRow]
  BY <1>1, <1>2 DEF Spend
<1>4. \A u : ResetTokens(u)' = ResetTokens(u)
  BY <1>1, <1>2 DEF ResetTokens
<1>5. \A u : Outstanding(u)' = Outstanding(u) \ ks
  BY <1>1, <1>2 DEF Outstanding, ResetTokens
<1>6. QED
  BY <1>1, <1>2, <1>3, <1>4, <1>5

-----------------------------------------------------------------------------
(* Steps that neither spend a link nor take or release a lock. *)

LEMMA LocksKept ==
    ASSUME LocksInv, UNCHANGED <<resets, uses, untimely>>,
           DOMAIN tokens' = DOMAIN tokens, tokens' \in [DOMAIN tokens' -> TokenRow],
           \A k \in DOMAIN tokens : tokens'[k].user = tokens[k].user,
           \A v : Outstanding(v)' = Outstanding(v),
           users' \in [DOMAIN users' -> UserRow],
           DOMAIN users \subseteq DOMAIN users', DOMAIN users' \subseteq Users,
           changes' \in [DOMAIN changes' -> Change], DOMAIN changes' \subseteq Requests,
           signups' \subseteq Users, verifying' \subseteq Users,
           overtaken' \subseteq DOMAIN uses, excused' \subseteq DOMAIN uses \cup Users,
           faults' \in Nat
    PROVE  LocksInv'
<1>1. \A o : LockedTokens(o)' = LockedTokens(o)
  BY DEF LockedTokens
<1>2. LocksAreDisjoint'
  BY <1>1 DEF LocksInv, LocksAreDisjoint
<1>3. \A o \in DOMAIN resets' : \A k \in LockedTokens(o)' : k \in Outstanding(resets[o].user)'
  <2>1. \A o \in DOMAIN resets : \A k \in LockedTokens(o) : k \in Outstanding(resets[o].user)
    BY DEF LocksInv, TypeOK
  <2>2. \A o : Outstanding(resets[o].user)' = Outstanding(resets[o].user)
    OBVIOUS
  <2>3. QED
    BY <1>1, <2>1, <2>2
<1>4. \A k \in DOMAIN tokens' : tokens'[k].user \in DOMAIN users'
  BY DEF LocksInv, TypeOK
<1>5. /\ resets' \in [DOMAIN resets' -> Reset] /\ DOMAIN resets' \subseteq Requests
      /\ uses' \in [DOMAIN uses' -> Nat] /\ DOMAIN tokens' \subseteq DOMAIN uses'
      /\ DOMAIN uses' \subseteq Tokens /\ DOMAIN tokens' \subseteq Tokens
      /\ untimely' \subseteq DOMAIN uses'
  BY DEF LocksInv, TypeOK
<1>6. TypeOK'
  BY <1>3, <1>4, <1>5 DEF TypeOK
<1>7. QED
  BY <1>2, <1>6 DEF LocksInv

(* With the links as they are. *)
LEMMA LocksKeptWithLinks ==
    ASSUME LocksInv, UNCHANGED <<tokens, resets, uses, untimely>>,
           users' \in [DOMAIN users' -> UserRow],
           DOMAIN users \subseteq DOMAIN users', DOMAIN users' \subseteq Users,
           changes' \in [DOMAIN changes' -> Change], DOMAIN changes' \subseteq Requests,
           signups' \subseteq Users, verifying' \subseteq Users,
           overtaken' \subseteq DOMAIN uses, excused' \subseteq DOMAIN uses \cup Users,
           faults' \in Nat
    PROVE  LocksInv'
<1>1. \A v : Outstanding(v)' = Outstanding(v)
  BY DEF Outstanding, ResetTokens
<1>2. tokens' \in [DOMAIN tokens' -> TokenRow]
  BY DEF LocksInv, TypeOK
<1>3. QED
  BY <1>1, <1>2, LocksKept

(* What LocksKept asks of the tables that a step leaves as they are. *)
LEMMA TableTypes ==
    ASSUME LocksInv
    PROVE  /\ users \in [DOMAIN users -> UserRow] /\ DOMAIN users \subseteq Users
           /\ changes \in [DOMAIN changes -> Change] /\ DOMAIN changes \subseteq Requests
           /\ signups \subseteq Users /\ verifying \subseteq Users
           /\ overtaken \subseteq DOMAIN uses /\ excused \subseteq DOMAIN uses \cup Users
           /\ faults \in Nat
  BY DEF LocksInv, TypeOK

-----------------------------------------------------------------------------
(* Transactions of ResetPassword. *)

(* A step that touches nothing but the transactions. *)
LEMMA ResetsOnly ==
    ASSUME IInv, UNCHANGED <<users, tokens, signups, changes, verifying, history>>,
           faults' \in Nat,
           resets' \in [DOMAIN resets' -> Reset], DOMAIN resets' \subseteq Requests,
           \A o \in DOMAIN resets' : LockedTokens(o)' \subseteq Outstanding(resets'[o].user),
           LocksAreDisjoint',
           \A o \in DOMAIN resets' : resets'[o].stage = "voided" =>
               Outstanding(resets'[o].user) \subseteq LockedTokens(o)' \cup untimely
    PROVE  IInv'
<1>1. /\ \A u : ResetTokens(u)' = ResetTokens(u) /\ Outstanding(u)' = Outstanding(u)
      /\ \A u : VerifySpent(u)' = VerifySpent(u)
  BY DEF ResetTokens, Outstanding, VerifySpent
<1>2. TypeOK'
  BY DEF IInv, LocksInv, TypeOK, history, Outstanding, ResetTokens
<1>3. LinksInv'
  <2>1. UsedOnce' /\ DeadHaveCause'
    BY DEF IInv, LinksInv, UsedOnce, DeadHaveCause, history
  <2>2. LinksOfChanges' /\ LinksOfResets' /\ OldLinksAreDead'
    BY <1>1 DEF IInv, LinksInv, LinksOfChanges, LinksOfResets, OldLinksAreDead, history
  <2>3. QED
    BY <2>1, <2>2 DEF LinksInv
<1>4. VerifyInv'
  BY <1>1 DEF IInv, VerifyInv, VerifyingSpent, Verified, history
<1>5. QED
  BY <1>2, <1>3, <1>4 DEF IInv, LocksInv

LEMMA ClaimTokenStep ==
    ASSUME IInv, NEW r \in Requests, NEW p \in Passwords, NEW k \in DOMAIN tokens,
           ClaimToken(r, k, p)
    PROVE  IInv'
<1> DEFINE new == [token |-> k, user |-> tokens[k].user, password |-> p,
                   voids |-> {}, stage |-> "claimed"]
<1>1. /\ r \notin DOMAIN resets /\ Usable(k, "reset")
      /\ \A o \in DOMAIN resets : k \notin LockedTokens(o)
      /\ resets' = With(resets, r, new)
      /\ UNCHANGED <<users, tokens, signups, changes, verifying, history, faults>>
  BY DEF ClaimToken, NewRequests
<1>2. k \in Outstanding(tokens[k].user) /\ tokens[k] \in TokenRow
  BY <1>1 DEF Usable, Outstanding, ResetTokens, IInv, LocksInv, TypeOK
<1>3. /\ new \in Reset /\ new.token = k /\ new.voids = {} /\ new.stage = "claimed"
      /\ new.user = tokens[k].user
  BY <1>2 DEF Reset, TokenRow, IInv, LocksInv, TypeOK
<1> HIDE DEF new
<1>4. /\ DOMAIN resets' = DOMAIN resets \cup {r} /\ resets'[r] = new
      /\ \A o \in DOMAIN resets : resets'[o] = resets[o]
  BY <1>1 DEF With
<1>5. /\ resets' \in [DOMAIN resets' -> Reset]
  BY <1>1, <1>3, WithType DEF IInv, LocksInv, TypeOK
<1>6. /\ LockedTokens(r)' = {k}
      /\ \A o \in DOMAIN resets : LockedTokens(o)' = LockedTokens(o)
  BY <1>3, <1>4 DEF LockedTokens
<1>7. \A o \in DOMAIN resets' : LockedTokens(o)' \subseteq Outstanding(resets'[o].user)
  BY <1>2, <1>3, <1>4, <1>6 DEF IInv, LocksInv, TypeOK
<1>8. LocksAreDisjoint'
  BY <1>1, <1>4, <1>6 DEF IInv, LocksInv, LocksAreDisjoint
<1>9. \A o \in DOMAIN resets' : resets'[o].stage = "voided" =>
          Outstanding(resets'[o].user) \subseteq LockedTokens(o)' \cup untimely
  BY <1>3, <1>4, <1>6 DEF IInv, LinksInv, LinksOfResets
<1>10. DOMAIN resets' \subseteq Requests /\ faults' \in Nat
  BY <1>1, <1>4 DEF IInv, LocksInv, TypeOK
<1>11. QED
  BY <1>1, <1>5, <1>7, <1>8, <1>9, <1>10, ResetsOnly

LEMMA WritePasswordStep ==
    ASSUME IInv, NEW r \in Requests, WritePassword(r) PROVE IInv'
<1>1. /\ r \in DOMAIN resets /\ resets' = [resets EXCEPT ![r].stage = "written"]
      /\ UNCHANGED <<users, tokens, signups, changes, verifying, history, faults>>
  BY DEF WritePassword
<1>2. resets[r] \in Reset
  BY <1>1 DEF IInv, LocksInv, TypeOK
<1>3. /\ DOMAIN resets' = DOMAIN resets
      /\ resets'[r] = [resets[r] EXCEPT !.stage = "written"]
      /\ \A o \in DOMAIN resets : o # r => resets'[o] = resets[o]
  BY <1>1
<1>4. /\ resets'[r] \in Reset /\ resets'[r].stage = "written"
      /\ resets'[r].user = resets[r].user /\ resets'[r].token = resets[r].token
      /\ resets'[r].voids = resets[r].voids
  BY <1>2, <1>3 DEF Reset
<1>5. \A o \in DOMAIN resets : /\ LockedTokens(o)' = LockedTokens(o)
                               /\ resets'[o].user = resets[o].user
  BY <1>3, <1>4 DEF LockedTokens
<1>6. resets' \in [DOMAIN resets' -> Reset]
  BY <1>1, <1>3, <1>4 DEF IInv, LocksInv, TypeOK
<1>7. \A o \in DOMAIN resets' : LockedTokens(o)' \subseteq Outstanding(resets'[o].user)
  BY <1>3, <1>5 DEF IInv, LocksInv, TypeOK
<1>8. LocksAreDisjoint'
  BY <1>3, <1>5 DEF IInv, LocksInv, LocksAreDisjoint
<1>9. ASSUME NEW o \in DOMAIN resets', resets'[o].stage = "voided"
      PROVE  Outstanding(resets'[o].user) \subseteq LockedTokens(o)' \cup untimely
  <2>1. o # r /\ o \in DOMAIN resets
    BY <1>3, <1>4, <1>9
  <2>2. resets'[o] = resets[o] /\ LockedTokens(o)' = LockedTokens(o)
    BY <1>3, <1>5, <2>1
  <2>3. QED
    BY <1>9, <2>1, <2>2 DEF IInv, LinksInv, LinksOfResets
<1>10. DOMAIN resets' \subseteq Requests /\ faults' \in Nat
  BY <1>1, <1>3 DEF IInv, LocksInv, TypeOK
<1>11. QED
  BY <1>1, <1>6, <1>7, <1>8, <1>9, <1>10, ResetsOnly

LEMMA VoidOthersStep ==
    ASSUME IInv, NEW r \in Requests, VoidOthers(r) PROVE IInv'
<1> DEFINE others == Outstanding(resets[r].user) \ {resets[r].token}
<1>1. /\ r \in DOMAIN resets /\ Contested(r) = {}
      /\ resets' = [resets EXCEPT ![r].stage = "voided", ![r].voids = others]
      /\ UNCHANGED <<users, tokens, signups, changes, verifying, history, faults>>
  BY DEF VoidOthers
<1>2. /\ resets[r] \in Reset /\ resets[r].token \in Outstanding(resets[r].user)
      /\ Outstanding(resets[r].user) \subseteq Tokens
  BY <1>1 DEF IInv, LocksInv, TypeOK, LockedTokens, Outstanding, ResetTokens
<1>3. others \subseteq Tokens /\ {resets[r].token} \cup others = Outstanding(resets[r].user)
  BY <1>2
<1> HIDE DEF others
<1>4. /\ DOMAIN resets' = DOMAIN resets
      /\ resets'[r] = [resets[r] EXCEPT !.stage = "voided", !.voids = others]
      /\ \A o \in DOMAIN resets : o # r => resets'[o] = resets[o]
  BY <1>1
<1>5. /\ resets'[r] \in Reset /\ resets'[r].user = resets[r].user
      /\ resets'[r].token = resets[r].token /\ resets'[r].voids = others
  BY <1>2, <1>3, <1>4 DEF Reset
<1>6. /\ LockedTokens(r)' = Outstanding(resets[r].user)
      /\ \A o \in DOMAIN resets : o # r => LockedTokens(o)' = LockedTokens(o)
  BY <1>3, <1>4, <1>5 DEF LockedTokens
<1>7. resets' \in [DOMAIN resets' -> Reset]
  BY <1>1, <1>4, <1>5 DEF IInv, LocksInv, TypeOK
<1>8. \A o \in DOMAIN resets' : LockedTokens(o)' \subseteq Outstanding(resets'[o].user)
  <2>1. \A o \in DOMAIN resets : LockedTokens(o) \subseteq Outstanding(resets[o].user)
    BY DEF IInv, LocksInv, TypeOK
  <2>2. QED
    BY <1>4, <1>5, <1>6, <2>1
<1>9. LocksAreDisjoint'
  <2>1. \A o \in DOMAIN resets : o # r =>
           LockedTokens(o) \cap Outstanding(resets[r].user) = {}
    BY <1>1 DEF Contested, TokensLockedBy
  <2>2. QED
    BY <1>4, <1>6, <2>1 DEF IInv, LocksInv, LocksAreDisjoint
<1>10. \A o \in DOMAIN resets' : resets'[o].stage = "voided" =>
          Outstanding(resets'[o].user) \subseteq LockedTokens(o)' \cup untimely
  BY <1>4, <1>5, <1>6 DEF IInv, LinksInv, LinksOfResets
<1>11. DOMAIN resets' \subseteq Requests /\ faults' \in Nat
  BY <1>1, <1>4 DEF IInv, LocksInv, TypeOK
<1>12. QED
  BY <1>1, <1>7, <1>8, <1>9, <1>10, <1>11, ResetsOnly

LEMMA RollbackStep ==
    ASSUME IInv, NEW r \in Requests, ResetFails(r) \/ DeadlockVictim(r) PROVE IInv'
<1>1. /\ resets' = Without(resets, r) /\ faults' \in Nat
      /\ UNCHANGED <<users, tokens, signups, changes, verifying, history>>
  BY DEF ResetFails, DeadlockVictim, Fault, IInv, LocksInv, TypeOK
<1>2. /\ DOMAIN resets' \subseteq DOMAIN resets
      /\ \A o \in DOMAIN resets' : resets'[o] = resets[o]
  BY <1>1, WithoutFacts
<1>3. resets' \in [DOMAIN resets' -> Reset]
  BY <1>1, WithoutType DEF IInv, LocksInv, TypeOK
<1>4. \A o \in DOMAIN resets' : LockedTokens(o)' = LockedTokens(o)
  BY <1>2 DEF LockedTokens
<1>5. /\ \A o \in DOMAIN resets' : LockedTokens(o)' \subseteq Outstanding(resets'[o].user)
      /\ DOMAIN resets' \subseteq Requests
  BY <1>2, <1>4 DEF IInv, LocksInv, TypeOK
<1>6. LocksAreDisjoint'
  BY <1>2, <1>4 DEF IInv, LocksInv, LocksAreDisjoint
<1>7. \A o \in DOMAIN resets' : resets'[o].stage = "voided" =>
          Outstanding(resets'[o].user) \subseteq LockedTokens(o)' \cup untimely
  BY <1>2, <1>4 DEF IInv, LinksInv, LinksOfResets
<1>8. QED
  BY <1>1, <1>3, <1>5, <1>6, <1>7, ResetsOnly

(* What is spent at the commit is held by nobody else, and of this user. *)
LEMMA CommitResetStep ==
    ASSUME IInv, NEW r \in Requests, CommitReset(r) PROVE IInv'
<1> DEFINE u == resets[r].user
           held == LockedTokens(r)
<1>1. /\ r \in DOMAIN resets /\ resets[r].stage = "voided"
      /\ SetPassword(u, resets[r].password) /\ tokens' = Spend(held)
      /\ uses' = [uses EXCEPT ![resets[r].token] = @ + 1]
      /\ resets' = Without(resets, r)
      /\ UNCHANGED <<signups, changes, verifying, untimely, excused, faults>>
  BY DEF CommitReset
<1>2. /\ resets[r] \in Reset /\ resets[r].token \in held
      /\ held \subseteq Outstanding(u) /\ Outstanding(u) \subseteq ResetTokens(u)
      /\ Outstanding(u) \subseteq held \cup untimely
      /\ ResetTokens(u) \subseteq DOMAIN tokens
      /\ \A k \in held : tokens[k].user = u /\ tokens[k].kind = "reset" /\ ~tokens[k].used
  BY <1>1 DEF IInv, LocksInv, TypeOK, LinksInv, LinksOfResets, LockedTokens, Outstanding,
     ResetTokens
<1>3. /\ DOMAIN users' = DOMAIN users
      /\ \A v \in DOMAIN users : /\ users'[v] \in UserRow
                                 /\ users'[v].verified = users[v].verified
      /\ overtaken' = overtaken \cup ResetTokens(u)
  <2>1. /\ overtaken' = overtaken \cup ResetTokens(u)
        /\ users' = IF u \in DOMAIN users
                      THEN [users EXCEPT ![u].password = resets[r].password] ELSE users
        /\ users \in [DOMAIN users -> UserRow] /\ resets[r].password \in Passwords
    BY <1>1, <1>2 DEF SetPassword, IInv, LocksInv, TypeOK, Reset
  <2>2. \A v \in DOMAIN users :
            users'[v] = users[v]
            \/ users'[v] = [users[v] EXCEPT !.password = resets[r].password]
    BY <2>1
  <2>3. DOMAIN users' = DOMAIN users
    BY <2>1
  <2>4. QED
    BY <2>1, <2>2, <2>3 DEF UserRow
<1>4. /\ DOMAIN tokens' = DOMAIN tokens /\ tokens' \in [DOMAIN tokens' -> TokenRow]
      /\ \A k \in DOMAIN tokens :
            /\ tokens'[k].user = tokens[k].user /\ tokens'[k].kind = tokens[k].kind
            /\ tokens'[k].used <=> (tokens[k].used \/ k \in held)
      /\ \A v : ResetTokens(v)' = ResetTokens(v)
      /\ \A v : Outstanding(v)' = Outstanding(v) \ held
  BY <1>1, SpendFacts DEF IInv, LocksInv, TypeOK
<1>5. /\ DOMAIN resets' = DOMAIN resets \ {r}
      /\ \A o \in DOMAIN resets' : resets'[o] = resets[o]
      /\ resets' \in [DOMAIN resets' -> Reset]
  BY <1>1, WithoutFacts, WithoutType DEF IInv, LocksInv, TypeOK
<1>6. \A o \in DOMAIN resets' : /\ LockedTokens(o)' = LockedTokens(o)
                                /\ LockedTokens(o) \cap held = {}
  BY <1>1, <1>5 DEF LockedTokens, IInv, LocksInv, LocksAreDisjoint
<1>7. /\ DOMAIN uses' = DOMAIN uses /\ uses' \in [DOMAIN uses' -> Nat]
      /\ \A k \in DOMAIN uses : k # resets[r].token => uses'[k] = uses[k]
      /\ uses[resets[r].token] = 0 /\ uses'[resets[r].token] = 1
  <2>1. resets[r].token \in DOMAIN uses /\ uses[resets[r].token] = 0
    BY <1>2 DEF IInv, LocksInv, TypeOK, LinksInv, UsedOnce
  <2>2. QED
    BY <1>1, <2>1 DEF IInv, LocksInv, TypeOK
<1> HIDE DEF u, held
<1>8. TypeOK'
  <2>1. users' \in [DOMAIN users' -> UserRow]
    <3>1. users' = [v \in DOMAIN users' |-> users'[v]]
      BY <1>1 DEF SetPassword, IInv, LocksInv, TypeOK
    <3>2. QED
      BY <1>3, <3>1
  <2>2. \A k \in DOMAIN tokens' : tokens'[k].user \in DOMAIN users'
    BY <1>3, <1>4 DEF IInv, LocksInv, TypeOK
  <2>3. ASSUME NEW o \in DOMAIN resets', NEW k \in LockedTokens(o)'
        PROVE  k \in DOMAIN tokens' /\ tokens'[k].user = resets'[o].user
               /\ tokens'[k].kind = "reset" /\ ~tokens'[k].used
    <3>1. k \in LockedTokens(o) /\ k \notin held /\ resets'[o] = resets[o]
      BY <1>5, <1>6, <2>3
    <3>2. k \in Outstanding(resets[o].user)
      BY <1>5, <3>1 DEF IInv, LocksInv, TypeOK
    <3>3. QED
      BY <1>4, <3>1, <3>2 DEF Outstanding, ResetTokens
  <2>4. \A o \in DOMAIN resets' : \A k \in LockedTokens(o)' :
            k \in {j \in {i \in DOMAIN tokens' : /\ tokens'[i].user = resets'[o].user
                                                 /\ tokens'[i].kind = "reset"} :
                      ~tokens'[j].used}
    BY <2>3
  <2>5. overtaken' \subseteq DOMAIN uses'
    BY <1>2, <1>3, <1>7 DEF IInv, LocksInv, TypeOK
  <2>6. QED
    BY <1>1, <1>3, <1>4, <1>5, <1>7, <2>1, <2>2, <2>4, <2>5
       DEF IInv, LocksInv, TypeOK, Outstanding, ResetTokens
<1>9. LocksAreDisjoint'
  BY <1>5, <1>6 DEF IInv, LocksInv, LocksAreDisjoint
<1>10. UsedOnce'
  <2>1. ASSUME NEW k \in DOMAIN uses'
        PROVE  uses'[k] <= 1 /\ (uses'[k] = 1 /\ k \in DOMAIN tokens' => tokens'[k].used)
    <3>1. CASE k = resets[r].token
      BY <1>2, <1>4, <1>7, <3>1
    <3>2. CASE k # resets[r].token
      BY <1>4, <1>7, <2>1, <3>2 DEF IInv, LinksInv, UsedOnce
    <3>3. QED
      BY <3>1, <3>2
  <2>2. QED
    BY <2>1 DEF UsedOnce
<1>11. DeadHaveCause'
  BY <1>1, <1>2, <1>3, <1>4 DEF IInv, LinksInv, DeadHaveCause
<1>12. LinksOfChanges'
  <2>1. \A c \in DOMAIN changes : changes[c].stage = "written" =>
            ResetTokens(changes[c].user)' \subseteq overtaken' \cup untimely'
    BY <1>1, <1>3, <1>4 DEF IInv, LinksInv, LinksOfChanges
  <2>2. QED
    BY <1>1, <2>1 DEF LinksOfChanges, ResetTokens
<1>13. LinksOfResets'
  <2>1. ASSUME NEW o \in DOMAIN resets', resets'[o].stage = "voided"
        PROVE  Outstanding(resets[o].user)' \subseteq LockedTokens(o)' \cup untimely'
    BY <1>1, <1>4, <1>5, <1>6, <2>1 DEF IInv, LinksInv, LinksOfResets
  <2>2. QED
    BY <1>5, <2>1 DEF LinksOfResets, Outstanding, ResetTokens
<1>14. OldLinksAreDead'
  <2>1. ASSUME NEW v \in DOMAIN users', NEW k \in Outstanding(v)', k \in overtaken'
        PROVE  \/ k \in untimely \cup excused
               \/ \E c \in DOMAIN changes : changes[c].user = v /\ changes[c].stage = "written"
    <3>1. k \in Outstanding(v) /\ k \notin held
      BY <1>4, <2>1
    <3>2. CASE k \in overtaken
      BY <1>3, <2>1, <3>1, <3>2 DEF IInv, LinksInv, OldLinksAreDead
    <3>3. CASE k \in ResetTokens(u)
      <4>1. k \in Outstanding(u)
        BY <3>1, <3>3 DEF Outstanding, ResetTokens
      <4>2. QED
        BY <1>2, <3>1, <4>1
    <3>4. QED
      BY <1>3, <2>1, <3>2, <3>3
  <2>2. QED
    BY <1>1, <2>1 DEF OldLinksAreDead
<1>15. VerifyInv'
  <2>1. \A v : VerifySpent(v)' <=> VerifySpent(v)
    BY <1>2, <1>4 DEF VerifySpent
  <2>2. QED
    BY <1>1, <1>3, <2>1 DEF IInv, VerifyInv, VerifyingSpent, Verified
<1>16. QED
  BY <1>8, <1>9, <1>10, <1>11, <1>12, <1>13, <1>14, <1>15 DEF IInv, LocksInv, LinksInv

-----------------------------------------------------------------------------
(* VerifyUser, and the second statement of ChangePassword. *)

(* Links that no transaction holds may be spent if they have a cause. *)
LEMMA SpendFree ==
    ASSUME IInv, NEW ks, tokens' = Spend(ks), UNCHANGED <<users, resets, history, faults>>,
           \A o \in DOMAIN resets : LockedTokens(o) \cap ks = {},
           \A k \in ks : k \in DOMAIN tokens /\ (tokens[k].kind = "reset" =>
                                                    k \in overtaken \cup untimely),
           changes' \in [DOMAIN changes' -> Change], DOMAIN changes' \subseteq DOMAIN changes,
           \A c \in DOMAIN changes' : changes'[c] = changes[c],
           signups' \subseteq Users, verifying' \subseteq Users
    PROVE  /\ LocksInv' /\ UsedOnce' /\ DeadHaveCause' /\ LinksOfChanges' /\ LinksOfResets'
           /\ DOMAIN tokens' = DOMAIN tokens
           /\ \A k \in DOMAIN tokens :
                 /\ tokens'[k].user = tokens[k].user /\ tokens'[k].kind = tokens[k].kind
                 /\ tokens'[k].used <=> (tokens[k].used \/ k \in ks)
           /\ \A v : Outstanding(v)' = Outstanding(v) \ ks
<1>1. /\ DOMAIN tokens' = DOMAIN tokens /\ tokens' \in [DOMAIN tokens' -> TokenRow]
      /\ \A k \in DOMAIN tokens :
            /\ tokens'[k].user = tokens[k].user /\ tokens'[k].kind = tokens[k].kind
            /\ tokens'[k].used <=> (tokens[k].used \/ k \in ks)
      /\ \A v : ResetTokens(v)' = ResetTokens(v)
      /\ \A v : Outstanding(v)' = Outstanding(v) \ ks
  BY SpendFacts DEF IInv, LocksInv, TypeOK
<1>2. UNCHANGED <<uses, overtaken, untimely, excused>>
  BY DEF history
<1>3. \A o \in DOMAIN resets : LockedTokens(o)' = LockedTokens(o)
  BY DEF LockedTokens
<1>4. TypeOK'
  <2>1. ASSUME NEW o \in DOMAIN resets', NEW k \in LockedTokens(o)'
        PROVE  k \in DOMAIN tokens' /\ tokens'[k].user = resets'[o].user
               /\ tokens'[k].kind = "reset" /\ ~tokens'[k].used
    <3>1. k \in LockedTokens(o) /\ k \notin ks
      BY <1>3, <2>1
    <3>2. k \in Outstanding(resets[o].user)
      BY <2>1, <3>1 DEF IInv, LocksInv, TypeOK
    <3>3. QED
      BY <1>1, <3>1, <3>2 DEF Outstanding, ResetTokens
  <2>2. \A o \in DOMAIN resets' : \A k \in LockedTokens(o)' :
            k \in {j \in {i \in DOMAIN tokens' : /\ tokens'[i].user = resets'[o].user
                                                 /\ tokens'[i].kind = "reset"} :
                      ~tokens'[j].used}
    BY <2>1
  <2>3. \A k \in DOMAIN tokens' : tokens'[k].user \in DOMAIN users'
    BY <1>1 DEF IInv, LocksInv, TypeOK
  <2>4. DOMAIN changes' \subseteq Requests
    BY DEF IInv, LocksInv, TypeOK
  <2>5. QED
    BY <1>1, <1>2, <2>2, <2>3, <2>4 DEF IInv, LocksInv, TypeOK, Outstanding, ResetTokens
<1>5. LocksAreDisjoint'
  BY <1>3 DEF IInv, LocksInv, LocksAreDisjoint
<1>6. UsedOnce' /\ DeadHaveCause'
  BY <1>1, <1>2 DEF IInv, LinksInv, UsedOnce, DeadHaveCause
<1>7. LinksOfChanges'
  <2>1. \A c \in DOMAIN changes' : changes[c].stage = "written" =>
            ResetTokens(changes[c].user)' \subseteq overtaken' \cup untimely'
    BY <1>1, <1>2 DEF IInv, LinksInv, LinksOfChanges
  <2>2. QED
    BY <2>1 DEF LinksOfChanges, ResetTokens
<1>8. LinksOfResets'
  <2>1. \A o \in DOMAIN resets : resets[o].stage = "voided" =>
            Outstanding(resets[o].user)' \subseteq LockedTokens(o)' \cup untimely'
    BY <1>1, <1>2, <1>3 DEF IInv, LinksInv, LinksOfResets
  <2>2. QED
    BY <2>1 DEF LinksOfResets, Outstanding, ResetTokens
<1>9. QED
  BY <1>1, <1>4, <1>5, <1>6, <1>7, <1>8 DEF LocksInv

LEMMA SpendVerificationStep ==
    ASSUME IInv, NEW k, SpendVerification(k) PROVE IInv'
<1>1. /\ k \in DOMAIN tokens /\ tokens[k].kind = "verify" /\ tokens' = Spend({k})
      /\ verifying' = verifying \cup {tokens[k].user}
      /\ UNCHANGED <<users, signups, resets, changes, history, faults>>
  BY DEF SpendVerification, Usable
<1>2. tokens[k].user \in Users /\ verifying' \subseteq Users
  BY <1>1 DEF IInv, LocksInv, TypeOK
<1>3. \A o \in DOMAIN resets : LockedTokens(o) \cap {k} = {}
  BY <1>1 DEF IInv, LocksInv, TypeOK, Outstanding, ResetTokens
<1>4. /\ LocksInv' /\ UsedOnce' /\ DeadHaveCause' /\ LinksOfChanges' /\ LinksOfResets'
      /\ DOMAIN tokens' = DOMAIN tokens
      /\ \A j \in DOMAIN tokens :
            /\ tokens'[j].user = tokens[j].user /\ tokens'[j].kind = tokens[j].kind
            /\ tokens'[j].used <=> (tokens[j].used \/ j \in {k})
      /\ \A v : Outstanding(v)' = Outstanding(v) \ {k}
  <2>1. /\ changes' \in [DOMAIN changes' -> Change] /\ signups' \subseteq Users
        /\ DOMAIN changes' \subseteq DOMAIN changes
        /\ \A c \in DOMAIN changes' : changes'[c] = changes[c]
    BY <1>1 DEF IInv, LocksInv, TypeOK
  <2>2. \A j \in {k} : j \in DOMAIN tokens /\ (tokens[j].kind = "reset" =>
                                                  j \in overtaken \cup untimely)
    BY <1>1
  <2>3. QED
    BY <1>1, <1>2, <1>3, <2>1, <2>2, SpendFree
<1>5. OldLinksAreDead'
  BY <1>1, <1>4 DEF IInv, LinksInv, OldLinksAreDead, history
<1>6. VerifyInv'
  <2>1. \A v : VerifySpent(v)' <=> (VerifySpent(v) \/ v = tokens[k].user)
    <3>1. ASSUME NEW v, v = tokens[k].user PROVE VerifySpent(v)'
      BY <1>1, <1>4, <3>1 DEF VerifySpent
    <3>2. ASSUME NEW v, VerifySpent(v) PROVE VerifySpent(v)'
      BY <1>4, <3>2 DEF VerifySpent
    <3>3. ASSUME NEW v, VerifySpent(v)' PROVE VerifySpent(v) \/ v = tokens[k].user
      BY <1>4, <3>3 DEF VerifySpent
    <3>4. QED
      BY <3>1, <3>2, <3>3
  <2>2. QED
    BY <1>1, <2>1 DEF IInv, VerifyInv, VerifyingSpent, Verified, history
<1>7. QED
  BY <1>4, <1>5, <1>6 DEF IInv, LinksInv

LEMMA VoidLinksStep ==
    ASSUME IInv, NEW c, VoidLinks(c) PROVE IInv'
<1> DEFINE u == changes[c].user
           void == Outstanding(u)
<1>1. /\ c \in DOMAIN changes /\ changes[c].stage = "written"
      /\ void \cap TokensLockedBy(DOMAIN resets) = {}
      /\ tokens' = Spend(void) /\ changes' = Without(changes, c)
      /\ UNCHANGED <<users, signups, resets, verifying, history, faults>>
  BY DEF VoidLinks
<1>2. \A k \in void : /\ k \in DOMAIN tokens /\ k \in overtaken \cup untimely
                      /\ tokens[k].kind = "reset"
  BY <1>1 DEF IInv, LinksInv, LinksOfChanges, Outstanding, ResetTokens
<1>3. /\ DOMAIN changes' = DOMAIN changes \ {c}
      /\ \A d \in DOMAIN changes' : changes'[d] = changes[d]
      /\ changes' \in [DOMAIN changes' -> Change]
  BY <1>1, WithoutFacts, WithoutType DEF IInv, LocksInv, TypeOK
<1>4. \A o \in DOMAIN resets : LockedTokens(o) \cap void = {}
  BY <1>1 DEF TokensLockedBy
<1> HIDE DEF void
<1>5. /\ LocksInv' /\ UsedOnce' /\ DeadHaveCause' /\ LinksOfChanges' /\ LinksOfResets'
      /\ DOMAIN tokens' = DOMAIN tokens
      /\ \A k \in DOMAIN tokens :
            /\ tokens'[k].user = tokens[k].user /\ tokens'[k].kind = tokens[k].kind
            /\ tokens'[k].used <=> (tokens[k].used \/ k \in void)
      /\ \A v : Outstanding(v)' = Outstanding(v) \ void
  <2>1. signups' \subseteq Users /\ verifying' \subseteq Users
    BY <1>1 DEF IInv, LocksInv, TypeOK
  <2>2. DOMAIN changes' \subseteq DOMAIN changes
    BY <1>3
  <2>3. \A k \in void : k \in DOMAIN tokens /\ (tokens[k].kind = "reset" =>
                                                   k \in overtaken \cup untimely)
    BY <1>2
  <2>4. QED
    BY <1>1, <1>3, <1>4, <2>1, <2>2, <2>3, SpendFree
<1>6. OldLinksAreDead'
  <2>1. ASSUME NEW v \in DOMAIN users, NEW k \in Outstanding(v)', k \in overtaken
        PROVE  \/ k \in untimely \cup excused
               \/ \E d \in DOMAIN changes' : changes'[d].user = v /\ changes'[d].stage = "written"
    <3>1. k \in Outstanding(v) /\ v # u
      BY <1>5, <2>1 DEF void
    <3>2. CASE k \in untimely \cup excused
      BY <3>2
    <3>3. CASE k \notin untimely \cup excused
      <4>1. PICK d \in DOMAIN changes : changes[d].user = v /\ changes[d].stage = "written"
        BY <2>1, <3>1, <3>3 DEF IInv, LinksInv, OldLinksAreDead
      <4>2. QED
        BY <1>3, <3>1, <4>1
    <3>4. QED
      BY <3>2, <3>3
  <2>2. QED
    BY <1>1, <2>1 DEF OldLinksAreDead, history
<1>7. VerifyInv'
  <2>1. \A v : VerifySpent(v)' <=> VerifySpent(v)
    BY <1>2, <1>5 DEF VerifySpent
  <2>2. QED
    BY <1>1, <2>1 DEF IInv, VerifyInv, VerifyingSpent, Verified, history
<1>8. QED
  BY <1>5, <1>6, <1>7 DEF IInv, LinksInv

-----------------------------------------------------------------------------
(* The other steps of ChangePassword. *)

LEMMA CheckPasswordStep ==
    ASSUME IInv, NEW c \in Requests, NEW u \in Users, NEW old \in Passwords,
           NEW p \in Passwords, CheckPassword(c, u, old, p)
    PROVE  IInv'
<1> DEFINE new == [user |-> u, password |-> p, stage |-> "checked"]
<1>1. /\ c \notin DOMAIN changes /\ changes' = With(changes, c, new)
      /\ UNCHANGED <<users, tokens, signups, resets, verifying, uses, overtaken, untimely,
                     excused, faults>>
  BY DEF CheckPassword, NewRequests, history
<1>2. new \in Change /\ new.stage = "checked"
  BY DEF Change
<1> HIDE DEF new
<1>3. /\ DOMAIN changes' = DOMAIN changes \cup {c} /\ changes'[c] = new
      /\ \A d \in DOMAIN changes : changes'[d] = changes[d]
      /\ changes' \in [DOMAIN changes' -> Change]
  BY <1>1, <1>2 DEF With, IInv, LocksInv, TypeOK
<1>4. LocksInv'
  <2>1. LocksInv /\ untimely' = untimely /\ DOMAIN changes' \subseteq Requests
    BY <1>1, <1>3, TableTypes DEF IInv
  <2>2. QED
    BY <1>1, <1>3, <2>1, TableTypes, LocksKeptWithLinks
<1>5. LinksOfChanges' /\ OldLinksAreDead'
  BY <1>1, <1>2, <1>3 DEF IInv, LinksInv, LinksOfChanges, OldLinksAreDead, Outstanding,
     ResetTokens
<1>6. UsedOnce' /\ DeadHaveCause' /\ LinksOfResets'
  BY <1>1 DEF IInv, LinksInv, UsedOnce, DeadHaveCause, LinksOfResets, LockedTokens,
     Outstanding, ResetTokens
<1>7. VerifyInv'
  BY <1>1 DEF IInv, VerifyInv, VerifyingSpent, Verified, VerifySpent
<1>8. QED
  BY <1>4, <1>5, <1>6, <1>7 DEF IInv, LinksInv

(* The links of the user are older than the password from here on. *)
LEMMA ChangeHashStep ==
    ASSUME IInv, NEW c, ChangeHash(c) PROVE IInv'
<1> DEFINE u == changes[c].user
           p == changes[c].password
<1>1. /\ c \in DOMAIN changes /\ SetPassword(u, p)
      /\ changes' = [changes EXCEPT ![c].stage = "written"]
      /\ UNCHANGED <<tokens, signups, resets, verifying, uses, untimely, excused, faults>>
  BY DEF ChangeHash
<1>2. changes[c] \in Change /\ p \in Passwords
  BY <1>1 DEF IInv, LocksInv, TypeOK, Change
<1>3. /\ DOMAIN users' = DOMAIN users /\ users' \in [DOMAIN users' -> UserRow]
      /\ \A v \in DOMAIN users : users'[v].verified = users[v].verified
      /\ overtaken' = overtaken \cup ResetTokens(u)
  <2>1. users' = (IF u \in DOMAIN users THEN [users EXCEPT ![u].password = p] ELSE users)
        /\ overtaken' = overtaken \cup ResetTokens(u)
    BY <1>1 DEF SetPassword
  <2> HIDE DEF u, p
  <2>2. ASSUME NEW v \in DOMAIN users
        PROVE  users'[v] = users[v] \/ users'[v] = [users[v] EXCEPT !.password = p]
    BY <2>1
  <2>3. \A v \in DOMAIN users : users[v] \in UserRow
    BY DEF IInv, LocksInv, TypeOK
  <2>4. \A v \in DOMAIN users : users'[v] \in UserRow /\ users'[v].verified = users[v].verified
    BY <1>2, <2>2, <2>3 DEF UserRow
  <2>5. DOMAIN users' = DOMAIN users /\ users' = [v \in DOMAIN users' |-> users'[v]]
    BY <2>1 DEF IInv, LocksInv, TypeOK
  <2>6. QED
    BY <2>1, <2>4, <2>5
<1>4. /\ DOMAIN changes' = DOMAIN changes
      /\ changes'[c] = [changes[c] EXCEPT !.stage = "written"]
      /\ \A d \in DOMAIN changes : d # c => changes'[d] = changes[d]
  BY <1>1
<1>5. changes'[c] \in Change /\ changes'[c].user = u /\ changes'[c].stage = "written"
  BY <1>2, <1>4 DEF Change
<1>6. changes' \in [DOMAIN changes' -> Change]
  BY <1>1, <1>4, <1>5 DEF IInv, LocksInv, TypeOK
<1>7. ResetTokens(u) \subseteq DOMAIN uses
  BY DEF ResetTokens, IInv, LocksInv, TypeOK
<1> HIDE DEF u, p
<1>8. LocksInv'
  <2>1. LocksInv
    BY DEF IInv
  <2>2. DOMAIN changes' \subseteq Requests /\ DOMAIN users' \subseteq Users
        /\ overtaken' \subseteq DOMAIN uses
    BY <1>3, <1>4, <1>7, <2>1, TableTypes
  <2>3. QED
    BY <1>1, <1>3, <1>6, <2>1, <2>2, TableTypes, LocksKeptWithLinks
<1>9. LinksOfChanges'
  <2>1. ASSUME NEW d \in DOMAIN changes', changes'[d].stage = "written"
        PROVE  ResetTokens(changes'[d].user) \subseteq overtaken' \cup untimely
    <3>1. CASE d = c
      BY <1>3, <1>5, <3>1
    <3>2. CASE d # c
      BY <1>3, <1>4, <2>1, <3>2 DEF IInv, LinksInv, LinksOfChanges
    <3>3. QED
      BY <3>1, <3>2
  <2>2. QED
    BY <1>1, <2>1 DEF LinksOfChanges, ResetTokens
<1>10. OldLinksAreDead'
  <2>1. ASSUME NEW v \in DOMAIN users, NEW k \in Outstanding(v), k \in overtaken'
        PROVE  \/ k \in untimely \cup excused
               \/ \E d \in DOMAIN changes' : changes'[d].user = v /\ changes'[d].stage = "written"
    <3>1. CASE k \in ResetTokens(u)
      <4>1. v = u
        BY <2>1, <3>1 DEF Outstanding, ResetTokens
      <4>2. QED
        BY <1>1, <1>4, <1>5, <4>1
    <3>2. CASE k \notin ResetTokens(u) /\ k \notin untimely \cup excused
      <4>1. PICK d \in DOMAIN changes : changes[d].user = v /\ changes[d].stage = "written"
        BY <1>3, <2>1, <3>2 DEF IInv, LinksInv, OldLinksAreDead
      <4>2. changes'[d].user = v /\ changes'[d].stage = "written"
        BY <1>4, <1>5, <4>1 DEF u
      <4>3. QED
        BY <1>4, <4>1, <4>2
    <3>3. CASE k \in untimely \cup excused
      BY <3>3
    <3>4. QED
      BY <3>1, <3>2, <3>3
  <2>2. QED
    BY <1>1, <1>3, <2>1 DEF OldLinksAreDead, Outstanding, ResetTokens
<1>11. UsedOnce' /\ DeadHaveCause' /\ LinksOfResets'
  BY <1>1, <1>3 DEF IInv, LinksInv, UsedOnce, DeadHaveCause, LinksOfResets, LockedTokens,
     Outstanding, ResetTokens
<1>12. VerifyInv'
  <2>1. \A v : VerifySpent(v)' <=> VerifySpent(v)
    BY <1>1 DEF VerifySpent
  <2>2. QED
    BY <1>1, <1>3, <2>1 DEF IInv, VerifyInv, VerifyingSpent, Verified
<1>13. QED
  BY <1>8, <1>9, <1>10, <1>11, <1>12 DEF IInv, LinksInv

LEMMA ChangeFailsStep ==
    ASSUME IInv, NEW c, ChangeFails(c) PROVE IInv'
<1> DEFINE u == changes[c].user
<1>1. /\ c \in DOMAIN changes /\ changes' = Without(changes, c)
      /\ excused' = IF changes[c].stage = "written" THEN excused \cup Outstanding(u) ELSE excused
      /\ UNCHANGED <<users, tokens, signups, resets, verifying, uses, overtaken, untimely>>
      /\ faults' \in Nat
  BY DEF ChangeFails, Fault, IInv, LocksInv, TypeOK
<1>2. /\ DOMAIN changes' = DOMAIN changes \ {c}
      /\ \A d \in DOMAIN changes' : changes'[d] = changes[d]
      /\ changes' \in [DOMAIN changes' -> Change]
  BY <1>1, WithoutFacts, WithoutType DEF IInv, LocksInv, TypeOK
<1>3. /\ excused \subseteq excused' /\ excused' \subseteq DOMAIN uses \cup Users
      /\ changes[c].stage = "written" => Outstanding(u) \subseteq excused'
  BY <1>1 DEF Outstanding, ResetTokens, IInv, LocksInv, TypeOK
<1> HIDE DEF u
<1>4. LocksInv'
  <2>1. LocksInv
    BY DEF IInv
  <2>2. DOMAIN changes' \subseteq Requests
    BY <1>2, <2>1, TableTypes
  <2>3. QED
    BY <1>1, <1>2, <1>3, <2>1, <2>2, TableTypes, LocksKeptWithLinks
<1>5. OldLinksAreDead'
  <2>1. ASSUME NEW v \in DOMAIN users, NEW k \in Outstanding(v), k \in overtaken
        PROVE  \/ k \in untimely \cup excused'
               \/ \E d \in DOMAIN changes' : changes'[d].user = v /\ changes'[d].stage = "written"
    <3>1. CASE k \in untimely \cup excused
      BY <1>3, <3>1
    <3>2. CASE k \notin untimely \cup excused
      <4>1. PICK d \in DOMAIN changes : changes[d].user = v /\ changes[d].stage = "written"
        BY <2>1, <3>2 DEF IInv, LinksInv, OldLinksAreDead
      <4>2. CASE d = c
        BY <1>3, <2>1, <4>1, <4>2 DEF u
      <4>3. CASE d # c
        BY <1>2, <4>1, <4>3
      <4>4. QED
        BY <4>2, <4>3
    <3>3. QED
      BY <3>1, <3>2
  <2>2. QED
    BY <1>1, <2>1 DEF OldLinksAreDead, Outstanding, ResetTokens
<1>6. UsedOnce' /\ DeadHaveCause' /\ LinksOfResets' /\ LinksOfChanges'
  BY <1>1, <1>2 DEF IInv, LinksInv, UsedOnce, DeadHaveCause, LinksOfResets, LinksOfChanges,
     LockedTokens, Outstanding, ResetTokens
<1>7. VerifyInv'
  BY <1>1, <1>3 DEF IInv, VerifyInv, VerifyingSpent, Verified, VerifySpent
<1>8. QED
  BY <1>4, <1>5, <1>6, <1>7 DEF IInv, LinksInv

-----------------------------------------------------------------------------
(* Links that are requested. *)

(* Who asks for a link while the password changes asks too early. *)
LEMMA InsertTokenStep ==
    ASSUME IInv, NEW u \in Users, NEW k \in Tokens, NEW kind \in Kinds,
           InsertToken(k, u, kind), signups' \subseteq Users
    PROVE  IInv'
<1> DEFINE new == [user |-> u, kind |-> kind, used |-> FALSE, expired |-> FALSE]
<1>1. /\ k \notin DOMAIN uses /\ u \in DOMAIN users
      /\ tokens' = With(tokens, k, new) /\ uses' = With(uses, k, 0)
      /\ untimely' = IF Changing(u) THEN untimely \cup {k} ELSE untimely
      /\ UNCHANGED <<users, resets, changes, verifying, overtaken, excused, faults>>
  BY DEF InsertToken, IsNextToken
<1>2. /\ new \in TokenRow /\ new.user = u /\ new.kind = kind /\ ~new.used
      /\ k \notin DOMAIN tokens /\ k \notin overtaken
  BY <1>1 DEF TokenRow, IInv, LocksInv, TypeOK
<1> HIDE DEF new
<1>3. /\ DOMAIN tokens' = DOMAIN tokens \cup {k} /\ tokens'[k] = new
      /\ \A j \in DOMAIN tokens : tokens'[j] = tokens[j]
      /\ tokens' \in [DOMAIN tokens' -> TokenRow]
  BY <1>1, <1>2 DEF With, IInv, LocksInv, TypeOK
<1>4. /\ DOMAIN uses' = DOMAIN uses \cup {k} /\ uses'[k] = 0
      /\ \A j \in DOMAIN uses : uses'[j] = uses[j]
      /\ uses' \in [DOMAIN uses' -> Nat]
  BY <1>1 DEF With, IInv, LocksInv, TypeOK
<1>5. /\ \A v : Outstanding(v) \subseteq Outstanding(v)'
      /\ \A v : Outstanding(v)' \subseteq Outstanding(v) \cup {k}
      /\ \A v : v # u => Outstanding(v)' = Outstanding(v)
      /\ \A v : ResetTokens(v)' \subseteq ResetTokens(v) \cup {k}
      /\ \A v : v # u => ResetTokens(v)' = ResetTokens(v)
  BY <1>2, <1>3 DEF Outstanding, ResetTokens
<1>6. untimely \subseteq untimely' /\ (Changing(u) => k \in untimely')
      /\ untimely' \subseteq untimely \cup {k}
  BY <1>1
<1>7. TypeOK'
  <2>1. ASSUME NEW o \in DOMAIN resets', NEW j \in LockedTokens(o)'
        PROVE  j \in DOMAIN tokens' /\ tokens'[j].user = resets'[o].user
               /\ tokens'[j].kind = "reset" /\ ~tokens'[j].used
    <3>1. j \in Outstanding(resets[o].user)
      BY <1>1, <2>1 DEF IInv, LocksInv, TypeOK, LockedTokens
    <3>2. QED
      BY <1>1, <1>3, <2>1, <3>1 DEF Outstanding, ResetTokens
  <2>2. \A o \in DOMAIN resets' : \A j \in LockedTokens(o)' :
            j \in {i \in {h \in DOMAIN tokens' : /\ tokens'[h].user = resets'[o].user
                                                 /\ tokens'[h].kind = "reset"} :
                      ~tokens'[i].used}
    BY <2>1
  <2>3. /\ \A j \in DOMAIN tokens' : tokens'[j].user \in DOMAIN users'
        /\ DOMAIN tokens' \subseteq Tokens /\ DOMAIN tokens' \subseteq DOMAIN uses'
        /\ DOMAIN uses' \subseteq Tokens
    BY <1>1, <1>2, <1>3, <1>4 DEF IInv, LocksInv, TypeOK
  <2>4. /\ untimely' \subseteq DOMAIN uses' /\ overtaken' \subseteq DOMAIN uses'
        /\ excused' \subseteq DOMAIN uses' \cup Users
    BY <1>1, <1>4, <1>6 DEF IInv, LocksInv, TypeOK
  <2>5. QED
    BY <1>1, <1>3, <1>4, <2>2, <2>3, <2>4 DEF IInv, LocksInv, TypeOK, Outstanding, ResetTokens
<1>8. LocksAreDisjoint'
  BY <1>1 DEF IInv, LocksInv, LocksAreDisjoint, LockedTokens
<1>9. UsedOnce' /\ DeadHaveCause'
  BY <1>1, <1>2, <1>3, <1>4, <1>6 DEF IInv, LinksInv, UsedOnce, DeadHaveCause
<1>10. LinksOfChanges'
  <2>1. ASSUME NEW c \in DOMAIN changes, changes[c].stage = "written"
        PROVE  ResetTokens(changes[c].user)' \subseteq overtaken \cup untimely'
    <3>1. ResetTokens(changes[c].user) \subseteq overtaken \cup untimely'
      BY <1>6, <2>1 DEF IInv, LinksInv, LinksOfChanges
    <3>2. CASE changes[c].user = u
      BY <1>1, <1>5, <1>6, <2>1, <3>1, <3>2 DEF Changing
    <3>3. CASE changes[c].user # u
      BY <1>1, <1>5, <3>1, <3>3
    <3>4. QED
      BY <3>2, <3>3
  <2>2. QED
    BY <1>1, <2>1 DEF LinksOfChanges, ResetTokens
<1>11. LinksOfResets'
  <2>1. ASSUME NEW o \in DOMAIN resets, resets[o].stage = "voided"
        PROVE  Outstanding(resets[o].user)' \subseteq LockedTokens(o) \cup untimely'
    <3>1. Outstanding(resets[o].user) \subseteq LockedTokens(o) \cup untimely'
      BY <1>6, <2>1 DEF IInv, LinksInv, LinksOfResets
    <3>2. CASE resets[o].user = u
      BY <1>1, <1>5, <1>6, <2>1, <3>1, <3>2 DEF Changing
    <3>3. CASE resets[o].user # u
      BY <1>1, <1>5, <3>1, <3>3
    <3>4. QED
      BY <3>2, <3>3
  <2>2. QED
    BY <1>1, <2>1 DEF LinksOfResets, Outstanding, ResetTokens, LockedTokens
<1>12. OldLinksAreDead'
  <2>1. ASSUME NEW v \in DOMAIN users, NEW j \in Outstanding(v)', j \in overtaken
        PROVE  \/ j \in untimely' \cup excused
               \/ \E c \in DOMAIN changes : changes[c].user = v /\ changes[c].stage = "written"
    <3>1. j \in Outstanding(v)
      BY <1>2, <1>5, <2>1
    <3>2. QED
      BY <1>6, <2>1, <3>1 DEF IInv, LinksInv, OldLinksAreDead
  <2>2. QED
    BY <1>1, <2>1 DEF OldLinksAreDead
<1>13. VerifyInv'
  <2>1. \A v : VerifySpent(v)' <=> VerifySpent(v)
    BY <1>2, <1>3 DEF VerifySpent
  <2>2. QED
    BY <1>1, <2>1 DEF IInv, VerifyInv, VerifyingSpent, Verified
<1>14. QED
  BY <1>7, <1>8, <1>9, <1>10, <1>11, <1>12, <1>13 DEF IInv, LocksInv, LinksInv

-----------------------------------------------------------------------------
(* Users and their addresses. *)

(* An id is new: no row, no link and no request is about it. *)
LEMMA SignupRowStep ==
    ASSUME IInv, NEW u \in Users, NEW p \in Passwords, Signup(u, p) PROVE IInv'
<1> DEFINE new == [password |-> p, verified |-> FALSE]
<1>1. /\ u \notin DOMAIN users /\ u \notin verifying
      /\ users' = With(users, u, new) /\ signups' = signups \cup {u}
      /\ UNCHANGED <<tokens, resets, changes, verifying, uses, overtaken, untimely,
                     excused, faults>>
  BY DEF Signup, history
<1>2. new \in UserRow /\ ~new.verified
  BY DEF UserRow
<1> HIDE DEF new
<1>3. /\ DOMAIN users' = DOMAIN users \cup {u} /\ users'[u] = new
      /\ \A v \in DOMAIN users : users'[v] = users[v]
      /\ users' \in [DOMAIN users' -> UserRow]
  BY <1>1, <1>2 DEF With, IInv, LocksInv, TypeOK
<1>4. \A k \in DOMAIN tokens : tokens[k].user # u
  BY <1>1 DEF IInv, LocksInv, TypeOK
<1>5. LocksInv'
  <2>1. LocksInv
    BY DEF IInv
  <2>2. DOMAIN users' \subseteq Users /\ signups' \subseteq Users
    BY <1>1, <1>3, <2>1, TableTypes
  <2>3. QED
    BY <1>1, <1>3, <2>1, <2>2, TableTypes, LocksKeptWithLinks
<1>6. OldLinksAreDead'
  BY <1>1, <1>3, <1>4 DEF IInv, LinksInv, OldLinksAreDead, Outstanding, ResetTokens
<1>7. UsedOnce' /\ DeadHaveCause' /\ LinksOfResets' /\ LinksOfChanges'
  BY <1>1 DEF IInv, LinksInv, UsedOnce, DeadHaveCause, LinksOfResets, LinksOfChanges,
     LockedTokens, Outstanding, ResetTokens
<1>8. VerifyInv'
  <2>1. ~VerifySpent(u)
    BY <1>4 DEF VerifySpent
  <2>2. \A v : VerifySpent(v)' <=> VerifySpent(v)
    BY <1>1 DEF VerifySpent
  <2>3. QED
    BY <1>1, <1>2, <1>3, <2>1, <2>2 DEF IInv, VerifyInv, VerifyingSpent, Verified
<1>9. QED
  BY <1>5, <1>6, <1>7, <1>8 DEF IInv, LinksInv

LEMMA SendVerificationFailsStep ==
    ASSUME IInv, NEW u, SendVerificationFails(u) PROVE IInv'
<1>1. /\ signups' \subseteq signups /\ faults' \in Nat
      /\ UNCHANGED <<users, tokens, resets, changes, verifying, uses, overtaken, untimely,
                     excused>>
  BY DEF SendVerificationFails, Fault, history, IInv, LocksInv, TypeOK
<1>2. LocksInv'
  <2>1. LocksInv
    BY DEF IInv
  <2>2. signups' \subseteq Users
    BY <1>1, <2>1, TableTypes
  <2>3. QED
    BY <1>1, <2>1, <2>2, TableTypes, LocksKeptWithLinks
<1>3. LinksInv'
  BY <1>1 DEF IInv, LinksInv, UsedOnce, DeadHaveCause, LinksOfResets, LinksOfChanges,
     OldLinksAreDead, LockedTokens, Outstanding, ResetTokens
<1>4. VerifyInv'
  BY <1>1 DEF IInv, VerifyInv, VerifyingSpent, Verified, VerifySpent
<1>5. QED
  BY <1>2, <1>3, <1>4 DEF IInv

LEMMA SetVerifiedStep ==
    ASSUME IInv, NEW u, SetVerified(u) \/ SetVerifiedFails(u) PROVE IInv'
<1>1. /\ u \in verifying /\ verifying' = verifying \ {u} /\ u \in Users
      /\ UNCHANGED <<tokens, signups, resets, changes, uses, overtaken, untimely>>
      /\ faults' \in Nat
  BY DEF SetVerified, SetVerifiedFails, Fault, history, IInv, LocksInv, TypeOK
<1>2. \/ /\ excused' = excused
         /\ users' = IF u \in DOMAIN users THEN [users EXCEPT ![u].verified = TRUE] ELSE users
      \/ excused' = excused \cup {u} /\ users' = users
  BY DEF SetVerified, SetVerifiedFails, history
<1>3. /\ DOMAIN users' = DOMAIN users /\ users' \in [DOMAIN users' -> UserRow]
      /\ \A v \in DOMAIN users : v # u => users'[v] = users[v]
      /\ u \in DOMAIN users => \/ users'[u].verified
                               \/ users'[u] = users[u] /\ u \in excused'
  <2>1. CASE users' = users /\ (u \in DOMAIN users => u \in excused')
    BY <1>2, <2>1 DEF IInv, LocksInv, TypeOK
  <2>2. CASE u \in DOMAIN users /\ users' = [users EXCEPT ![u].verified = TRUE]
    <3>1. users'[u] = [users[u] EXCEPT !.verified = TRUE] /\ users[u] \in UserRow
      BY <2>2 DEF IInv, LocksInv, TypeOK
    <3>2. users'[u] \in UserRow /\ users'[u].verified
      BY <3>1 DEF UserRow
    <3>3. QED
      BY <2>2, <3>2 DEF IInv, LocksInv, TypeOK
  <2>3. QED
    BY <1>2, <2>1, <2>2
<1>4. excused \subseteq excused' /\ excused' \subseteq excused \cup {u}
  BY <1>2
<1>5. LocksInv'
  <2>1. LocksInv
    BY DEF IInv
  <2>2. /\ DOMAIN users' \subseteq Users /\ verifying' \subseteq Users
        /\ excused' \subseteq DOMAIN uses \cup Users
    BY <1>1, <1>3, <1>4, <2>1, TableTypes
  <2>3. QED
    BY <1>1, <1>3, <2>1, <2>2, TableTypes, LocksKeptWithLinks
<1>6. LinksInv'
  BY <1>1, <1>3, <1>4 DEF IInv, LinksInv, UsedOnce, DeadHaveCause, LinksOfResets,
     LinksOfChanges, OldLinksAreDead, LockedTokens, Outstanding, ResetTokens
<1>7. VerifyInv'
  <2>1. \A v : VerifySpent(v)' <=> VerifySpent(v)
    BY <1>1 DEF VerifySpent
  <2>2. u \in DOMAIN users => VerifySpent(u)
    BY <1>1 DEF IInv, VerifyInv, VerifyingSpent
  <2>3. VerifyingSpent'
    BY <1>1, <1>3, <2>1 DEF IInv, VerifyInv, VerifyingSpent
  <2>4. ASSUME NEW v \in DOMAIN users
        PROVE  /\ users'[v].verified => VerifySpent(v)
               /\ VerifySpent(v) => users'[v].verified \/ v \in verifying' \cup excused'
    <3>1. CASE v = u
      BY <1>3, <2>2, <2>4, <3>1 DEF IInv, VerifyInv, Verified
    <3>2. CASE v # u
      BY <1>1, <1>3, <1>4, <2>4, <3>2 DEF IInv, VerifyInv, Verified
    <3>3. QED
      BY <3>1, <3>2
  <2>5. QED
    BY <1>3, <2>1, <2>3, <2>4 DEF VerifyInv, Verified
<1>8. QED
  BY <1>5, <1>6, <1>7 DEF IInv

LEMMA RemoveUserStep ==
    ASSUME IInv, NEW u, RemoveUser(u) PROVE IInv'
<1> DEFINE left == {k \in DOMAIN tokens : tokens[k].user # u}
<1>1. /\ \A r \in DOMAIN resets : resets[r].user # u
      /\ users' = Without(users, u) /\ tokens' = [k \in left |-> tokens[k]]
      /\ UNCHANGED <<signups, resets, changes, verifying, uses, overtaken, untimely,
                     excused, faults>>
  BY DEF RemoveUser, history
<1>2. /\ DOMAIN tokens' = left /\ left \subseteq DOMAIN tokens
      /\ \A k \in left : tokens'[k] = tokens[k] /\ tokens[k].user # u
      /\ \A k \in DOMAIN tokens : tokens[k].user # u => k \in left
      /\ tokens' \in [DOMAIN tokens' -> TokenRow]
  BY <1>1 DEF IInv, LocksInv, TypeOK
<1> HIDE DEF left
<1>3. /\ DOMAIN users' = DOMAIN users \ {u}
      /\ \A v \in DOMAIN users' : users'[v] = users[v]
      /\ users' \in [DOMAIN users' -> UserRow]
  BY <1>1, WithoutFacts, WithoutType DEF IInv, LocksInv, TypeOK
<1>4. /\ \A v : v # u => /\ ResetTokens(v)' = ResetTokens(v)
                         /\ Outstanding(v)' = Outstanding(v)
      /\ \A v : ResetTokens(v)' \subseteq ResetTokens(v)
      /\ ResetTokens(u)' = {}
  BY <1>2 DEF ResetTokens, Outstanding
<1>5. LocksInv'
  <2>1. ASSUME NEW o \in DOMAIN resets', NEW j \in LockedTokens(o)'
        PROVE  j \in DOMAIN tokens' /\ tokens'[j].user = resets'[o].user
               /\ tokens'[j].kind = "reset" /\ ~tokens'[j].used
    <3>1. j \in Outstanding(resets[o].user) /\ resets[o].user # u
      BY <1>1, <2>1 DEF IInv, LocksInv, TypeOK, LockedTokens
    <3>2. QED
      BY <1>1, <1>2, <2>1, <3>1 DEF Outstanding, ResetTokens
  <2>2. \A o \in DOMAIN resets' : \A j \in LockedTokens(o)' :
            j \in {i \in {h \in DOMAIN tokens' : /\ tokens'[h].user = resets'[o].user
                                                 /\ tokens'[h].kind = "reset"} :
                      ~tokens'[i].used}
    BY <2>1
  <2>3. /\ \A j \in DOMAIN tokens' : tokens'[j].user \in DOMAIN users'
        /\ DOMAIN tokens' \subseteq Tokens /\ DOMAIN tokens' \subseteq DOMAIN uses'
    BY <1>1, <1>2, <1>3 DEF IInv, LocksInv, TypeOK
  <2>4. TypeOK'
    BY <1>1, <1>2, <1>3, <2>2, <2>3 DEF IInv, LocksInv, TypeOK, Outstanding, ResetTokens
  <2>5. QED
    BY <1>1, <2>4 DEF IInv, LocksInv, LocksAreDisjoint, LockedTokens
<1>6. UsedOnce' /\ DeadHaveCause'
  BY <1>1, <1>2 DEF IInv, LinksInv, UsedOnce, DeadHaveCause
<1>7. LinksOfChanges'
  <2>1. \A c \in DOMAIN changes : changes[c].stage = "written" =>
            ResetTokens(changes[c].user)' \subseteq overtaken \cup untimely
    BY <1>1, <1>4 DEF IInv, LinksInv, LinksOfChanges
  <2>2. QED
    BY <1>1, <2>1 DEF LinksOfChanges, ResetTokens
<1>8. LinksOfResets'
  <2>1. \A o \in DOMAIN resets : resets[o].stage = "voided" =>
            Outstanding(resets[o].user)' \subseteq LockedTokens(o) \cup untimely
    BY <1>1, <1>4 DEF IInv, LinksInv, LinksOfResets
  <2>2. QED
    BY <1>1, <2>1 DEF LinksOfResets, Outstanding, ResetTokens, LockedTokens
<1>9. OldLinksAreDead'
  <2>1. \A v \in DOMAIN users' : v # u /\ v \in DOMAIN users
    BY <1>3
  <2>2. QED
    BY <1>1, <1>4, <2>1 DEF IInv, LinksInv, OldLinksAreDead
<1>10. VerifyInv'
  <2>1. \A v : v # u => (VerifySpent(v)' <=> VerifySpent(v))
    BY <1>2 DEF VerifySpent
  <2>2. QED
    BY <1>1, <1>3, <2>1 DEF IInv, VerifyInv, VerifyingSpent, Verified
<1>11. QED
  BY <1>5, <1>6, <1>7, <1>8, <1>9, <1>10 DEF IInv, LinksInv

LEMMA ExpireStep ==
    ASSUME IInv, NEW k, Expire(k) PROVE IInv'
<1>1. /\ k \in DOMAIN tokens /\ tokens' = [tokens EXCEPT ![k].expired = TRUE]
      /\ UNCHANGED <<users, signups, resets, changes, verifying, uses, overtaken, untimely,
                     excused, faults>>
  BY DEF Expire, history
<1>2. /\ DOMAIN tokens' = DOMAIN tokens
      /\ \A j \in DOMAIN tokens : /\ tokens'[j] \in TokenRow
                                  /\ tokens'[j].user = tokens[j].user
                                  /\ tokens'[j].kind = tokens[j].kind
                                  /\ tokens'[j].used = tokens[j].used
  <2>1. \A j \in DOMAIN tokens : \/ tokens'[j] = tokens[j]
                                 \/ tokens'[j] = [tokens[j] EXCEPT !.expired = TRUE]
    BY <1>1
  <2>2. \A j \in DOMAIN tokens : tokens[j] \in TokenRow
    BY DEF IInv, LocksInv, TypeOK
  <2>3. \A j \in DOMAIN tokens : /\ tokens'[j] \in TokenRow
                                 /\ tokens'[j].user = tokens[j].user
                                 /\ tokens'[j].kind = tokens[j].kind
                                 /\ tokens'[j].used = tokens[j].used
    BY <2>1, <2>2 DEF TokenRow
  <2>4. QED
    BY <1>1, <2>3
<1>3. tokens' \in [DOMAIN tokens' -> TokenRow]
  <2>1. tokens' = [j \in DOMAIN tokens' |-> tokens'[j]]
    BY <1>1
  <2>2. QED
    BY <1>2, <2>1
<1>4. /\ \A v : ResetTokens(v)' = ResetTokens(v) /\ Outstanding(v)' = Outstanding(v)
      /\ \A v : VerifySpent(v)' <=> VerifySpent(v)
  BY <1>2 DEF ResetTokens, Outstanding, VerifySpent
<1>5. LocksInv'
  <2>1. LocksInv
    BY DEF IInv
  <2>2. QED
    BY <1>1, <1>2, <1>3, <1>4, <2>1, TableTypes, LocksKept
<1>6. UsedOnce' /\ DeadHaveCause'
  BY <1>1, <1>2 DEF IInv, LinksInv, UsedOnce, DeadHaveCause
<1>7. LinksOfResets' /\ LinksOfChanges' /\ OldLinksAreDead'
  BY <1>1, <1>4 DEF IInv, LinksInv, LinksOfResets, LinksOfChanges, OldLinksAreDead,
     LockedTokens
<1>8. VerifyInv'
  BY <1>1, <1>4 DEF IInv, VerifyInv, VerifyingSpent, Verified
<1>9. QED
  BY <1>5, <1>6, <1>7, <1>8 DEF IInv, LinksInv

-----------------------------------------------------------------------------

LEMMA Invariant == Spec => []IInv
<1>1. Init => IInv
  <2>1. SUFFICES ASSUME Init PROVE IInv
    OBVIOUS
  <2>2. /\ DOMAIN users = {} /\ DOMAIN tokens = {} /\ DOMAIN resets = {}
        /\ DOMAIN changes = {} /\ DOMAIN uses = {}
        /\ signups = {} /\ verifying = {} /\ overtaken = {} /\ untimely = {}
        /\ excused = {} /\ faults = 0
    BY <2>1 DEF Init
  <2>3. /\ users \in [DOMAIN users -> UserRow] /\ tokens \in [DOMAIN tokens -> TokenRow]
        /\ resets \in [DOMAIN resets -> Reset] /\ changes \in [DOMAIN changes -> Change]
        /\ uses \in [DOMAIN uses -> Nat]
    BY <2>1, <2>2 DEF Init
  <2>4. LocksInv
    BY <2>2, <2>3 DEF LocksInv, TypeOK, LocksAreDisjoint
  <2>5. LinksInv /\ VerifyInv
    BY <2>2 DEF LinksInv, UsedOnce, DeadHaveCause, LinksOfChanges, LinksOfResets,
       OldLinksAreDead, VerifyInv, VerifyingSpent, Verified
  <2>6. QED
    BY <2>4, <2>5 DEF IInv
<1>2. IInv /\ [Next]_vars => IInv'
  <2>1. SUFFICES ASSUME IInv, [Next]_vars PROVE IInv'
    OBVIOUS
  <2>2. CASE SignupStep
    <3>1. ASSUME NEW u \in Users, NEW k \in Tokens,
                 SendVerification(u, k) \/ RequestPasswordReset(u, k)
          PROVE  IInv'
      <4>1. signups' \subseteq Users /\ "verify" \in Kinds /\ "reset" \in Kinds
        BY <2>1, <3>1 DEF SendVerification, RequestPasswordReset, IInv, LocksInv, TypeOK, Kinds
      <4>2. InsertToken(k, u, "verify") \/ InsertToken(k, u, "reset")
        BY <3>1 DEF SendVerification, RequestPasswordReset
      <4>3. QED
        BY <2>1, <4>1, <4>2, InsertTokenStep
    <3>2. QED
      BY <2>1, <2>2, <3>1, SignupRowStep, SendVerificationFailsStep, RemoveUserStep
         DEF SignupStep
  <2>3. CASE Verify
    BY <2>1, <2>3, SpendVerificationStep, SetVerifiedStep DEF Verify
  <2>4. ASSUME NEW r \in Requests, Begin(r) PROVE IInv'
    BY <2>1, <2>4, ClaimTokenStep, CheckPasswordStep DEF Begin
  <2>5. ASSUME NEW r \in Requests, ResetStep(r) \/ ResetFails(r) PROVE IInv'
    BY <2>1, <2>5, WritePasswordStep, VoidOthersStep, CommitResetStep, RollbackStep
       DEF ResetStep
  <2>6. ASSUME NEW r \in Requests, ChangeStep(r) \/ ChangeFails(r) PROVE IInv'
    BY <2>1, <2>6, ChangeHashStep, VoidLinksStep, ChangeFailsStep DEF ChangeStep
  <2>7. ASSUME NEW k \in Tokens, Expire(k) PROVE IInv'
    BY <2>1, <2>7, ExpireStep
  <2>8. CASE UNCHANGED vars
    <3>1. UNCHANGED <<users, tokens, signups, resets, changes, verifying, uses, overtaken,
                      untimely, excused, faults>>
      BY <2>8 DEF vars, history
    <3>2. LocksInv'
      <4>1. LocksInv
        BY <2>1 DEF IInv
      <4>2. QED
        BY <3>1, <4>1, TableTypes, LocksKeptWithLinks
    <3>3. LinksInv'
      BY <2>1, <3>1 DEF IInv, LinksInv, UsedOnce, DeadHaveCause, LinksOfResets,
         LinksOfChanges, OldLinksAreDead, LockedTokens, Outstanding, ResetTokens
    <3>4. VerifyInv'
      BY <2>1, <3>1 DEF IInv, VerifyInv, VerifyingSpent, Verified, VerifySpent
    <3>5. QED
      BY <3>2, <3>3, <3>4 DEF IInv
  <2>9. QED
    BY <2>1, <2>2, <2>3, <2>4, <2>5, <2>6, <2>7, <2>8 DEF Next
<1>3. QED
  BY <1>1, <1>2, PTL DEF Spec

(* Links belong to users there are, and what a transaction of ResetPassword    *)
(* holds is there, of its user and unspent until it commits.                   *)
THEOREM TypeCorrect == Spec => []TypeOK
<1>1. IInv => TypeOK
  BY DEF IInv, LocksInv
<1>2. QED
  BY Invariant, <1>1, PTL

(* However many requests carry a link at the same time, it sets one password.  *)
THEOREM LinksWorkOnce == Spec => []TokensAreSingleUse
<1>1. IInv => TokensAreSingleUse
  BY DEF IInv, LinksInv, UsedOnce, TokensAreSingleUse
<1>2. QED
  BY Invariant, <1>1, PTL

(* No interleaving, rollback or failed statement kills a reset link without    *)
(* the password changing.                                                      *)
THEOREM LinksDieWithThePassword == Spec => []LinksDieOnlyWithThePassword
<1>1. IInv => LinksDieOnlyWithThePassword
  BY DEF IInv, LinksInv, DeadHaveCause, LinksDieOnlyWithThePassword, ResetTokens
<1>2. QED
  BY Invariant, <1>1, PTL

(* A link older than the password is dead but for the named windows.           *)
THEOREM OldLinksDie == Spec => []OldLinksAreDead
<1>1. IInv => OldLinksAreDead
  BY DEF IInv, LinksInv
<1>2. QED
  BY Invariant, <1>1, PTL

(* An address is verified by its link, and by nothing else; a link that is     *)
(* spent is not wasted unless the second statement failed.                     *)
THEOREM VerificationsStick == Spec => []SpentLinksVerify
<1>1. IInv => SpentLinksVerify
  BY DEF IInv, VerifyInv, Verified, VerifySpent, SpentLinksVerify
<1>2. QED
  BY Invariant, <1>1, PTL
=============================================================================
