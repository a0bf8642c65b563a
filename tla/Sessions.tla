------------------------------ MODULE Sessions ------------------------------
(***************************************************************************)
(* Accounts and login sessions of the SaaS core.                           *)
(*                                                                         *)
(* An account row lives in MySQL and carries AuthVersion; a session lives  *)
(* in Redis and carries the AuthVersion it was issued under.  A token      *)
(* authenticates while the two agree, so every security change bumps the   *)
(* version instead of hunting for tokens.  The store's Write transactions  *)
(* are serialized by one platform lock, hence each of them is one action   *)
(* here.  Login is not: it reads a snapshot (LoginRead), finalizes in a    *)
(* second transaction (LoginFinalize) and only then writes Redis           *)
(* (LoginPut), and everything else may happen in between.                  *)
(*                                                                         *)
(* A token resolves to an actor only through an active membership as well; *)
(* that part of resolve is not modelled here and only ever restricts these *)
(* actions.                                                                *)
(***************************************************************************)
EXTENDS Naturals, FiniteSets

CONSTANTS User, Token, Client, Password, Email,
          NoEmail,        \* the empty email column
          NoSession,      \* Redis has no value under the key
          NoAttempt,      \* a client that is not logging in
          SingleLogin,    \* accounts with the single-login policy
          PlatformAdmin,  \* accounts with platform_admin
          TTL,            \* lifetime of a session in clock units (12 hours)
          MaxVersion,     \* bound: AuthVersion is never bumped beyond it
          MaxTime         \* bound: the clock stops here

VARIABLES
    users,      \* table users: one row per account
    sessions,   \* Redis: the session stored under each token
    issued,     \* every token randomToken has returned so far
    attempts,   \* the login each client is in the middle of
    now,        \* the clock
    obtained,   \* history: the password that was typed to obtain a token
    overtaken   \* history: clients and tokens whose account was revoked since
                \* their password was verified

vars == <<users, sessions, issued, attempts, now, obtained, overtaken>>
history == <<obtained, overtaken>>

Account == [status: 0..1, version: Nat, password: Password,
            legacy: BOOLEAN, email: Email \cup {NoEmail}]
Session == [user: User, version: Nat, expires: Nat]
Attempt == [user: User, account: Account, expires: Nat, final: BOOLEAN]

ASSUME SessionsAssumption ==
    /\ SingleLogin \subseteq User
    /\ PlatformAdmin \subseteq User
    /\ IsFiniteSet(User)
    /\ Password # {}
    /\ TTL \in Nat \ {0}
    /\ MaxVersion \in Nat
    /\ MaxTime \in Nat
    /\ NoEmail \notin Email
    /\ NoSession \notin Session
    /\ NoAttempt \notin Attempt
    /\ Client \cap Token = {}

TypeOK ==
    /\ users \in [User -> Account]
    /\ sessions \in [Token -> Session \cup {NoSession}]
    /\ issued \in SUBSET Token
    /\ attempts \in [Client -> Attempt \cup {NoAttempt}]
    /\ now \in Nat
    /\ obtained \in [Token -> Password]
    /\ overtaken \in SUBSET (Client \cup Token)

(* Accounts exist when the model starts: an import or a seed created them  *)
(* at version 1, perhaps disabled.  Imported ones have a legacy hash and   *)
(* may share an email: the unique index on it was dropped for them.        *)
Init ==
    /\ users \in [User -> [status: 0..1, version: {1}, password: Password,
                           legacy: BOOLEAN, email: Email \cup {NoEmail}]]
    /\ sessions = [t \in Token |-> NoSession]
    /\ issued = {}
    /\ attempts = [c \in Client |-> NoAttempt]
    /\ now = 0
    /\ obtained = [t \in Token |-> CHOOSE p \in Password : TRUE]
    /\ overtaken = {}

-----------------------------------------------------------------------------
(* Reading a session.                                                      *)

Authenticates(t) ==
    /\ sessions[t] # NoSession
    /\ now < sessions[t].expires
    /\ users[sessions[t].user].status = 1
    /\ users[sessions[t].user].version = sessions[t].version

ActsAs(t, u) == Authenticates(t) /\ sessions[t].user = u
ActsAsPlatform(t) == Authenticates(t) /\ sessions[t].user \in PlatformAdmin

(* The history of a revocation: whoever had verified a password of u       *)
(* before it, in flight or holding a token, is overtaken by it.            *)
Overtake(u) ==
    overtaken' = overtaken
        \cup {c \in Client : attempts[c] # NoAttempt /\ attempts[c].user = u}
        \cup {t \in Token : sessions[t] # NoSession /\ sessions[t].user = u}

-----------------------------------------------------------------------------
(* Login.                                                                  *)

(* Login, up to the end of its read transaction: a password that matches   *)
(* an enabled account.  A refused login changes nothing.                   *)
LoginRead(c) ==
    /\ attempts[c] = NoAttempt
    /\ \E u \in User :
        /\ users[u].status = 1
        /\ attempts' = [attempts EXCEPT ![c] =
                [user |-> u, account |-> users[u],
                 expires |-> now + TTL, final |-> FALSE]]
    /\ overtaken' = overtaken \ {c}
    /\ UNCHANGED <<users, sessions, issued, now, obtained>>

(* The slips below, marked so, are what the code could plausibly have done *)
(* wrong.  No action uses them; each shows which property would notice.    *)

(* Slip: a snapshot is compared by its password alone, or not at all.      *)
SameCredentialsByPassword(a, b) ==
    a.status = 1 /\ a.password = b.password /\ a.legacy = b.legacy
SameCredentialsByStatus(a, b) == a.status = 1

(* The columns finalizeLogin compares between snapshot and current row.    *)
SameCredentials(a, b) ==
    /\ a.status = 1
    /\ a.version = b.version
    /\ a.password = b.password /\ a.legacy = b.legacy   \* password_hash

(* Slip: only the hash is upgraded.                                        *)
FinalizedKeepingVersion(u) == [users[u] EXCEPT !.legacy = FALSE]

(* The single-login policy revokes every older session by the version.     *)
Finalized(u) ==
    [users[u] EXCEPT !.legacy = FALSE,
                     !.version = IF u \in SingleLogin THEN @ + 1 ELSE @]

(* finalizeLogin: re-check the snapshot under the write lock, upgrade a    *)
(* legacy hash, apply the single-login policy.                             *)
LoginFinalize(c) ==
    /\ attempts[c] # NoAttempt /\ ~attempts[c].final
    /\ LET u == attempts[c].user IN
        /\ SameCredentials(users[u], attempts[c].account)
        /\ u \in SingleLogin => users[u].version < MaxVersion
        /\ users' = [users EXCEPT ![u] = Finalized(u)]
        /\ attempts' = [attempts EXCEPT ![c].account.version = Finalized(u).version,
                                         ![c].final = TRUE]
        /\ IF u \in SingleLogin
              THEN overtaken' = (overtaken
                    \cup {d \in Client \ {c} : attempts[d] # NoAttempt /\ attempts[d].user = u}
                    \cup {t \in Token : sessions[t] # NoSession /\ sessions[t].user = u})
              ELSE UNCHANGED overtaken
    /\ UNCHANGED <<sessions, issued, now, obtained>>

(* The snapshot is stale: 401, nothing written.                            *)
LoginRefuse(c) ==
    /\ attempts[c] # NoAttempt /\ ~attempts[c].final
    /\ ~SameCredentials(users[attempts[c].user], attempts[c].account)
    /\ attempts' = [attempts EXCEPT ![c] = NoAttempt]
    /\ UNCHANGED <<users, sessions, issued, now, obtained, overtaken>>

(* randomToken and Sessions.Put.                                           *)
LoginPut(c) ==
    /\ attempts[c] # NoAttempt /\ attempts[c].final
    /\ \E t \in Token \ issued :
        /\ sessions' = [sessions EXCEPT ![t] =
                [user |-> attempts[c].user, version |-> attempts[c].account.version,
                 expires |-> attempts[c].expires]]
        /\ issued' = issued \cup {t}
        /\ obtained' = [obtained EXCEPT ![t] = attempts[c].account.password]
        /\ overtaken' = IF c \in overtaken THEN overtaken \cup {t} ELSE overtaken
    /\ attempts' = [attempts EXCEPT ![c] = NoAttempt]
    /\ UNCHANGED <<users, now>>

(* Redis or MySQL fails, the caller goes away or the process dies before   *)
(* the session is stored.  What finalizeLogin committed stays committed.   *)
LoginAbort(c) ==
    /\ attempts[c] # NoAttempt
    /\ attempts' = [attempts EXCEPT ![c] = NoAttempt]
    /\ UNCHANGED <<users, sessions, issued, now, obtained, overtaken>>

-----------------------------------------------------------------------------
(* Operations of a caller that holds token t.                              *)

Logout(t) ==
    /\ sessions[t] # NoSession
    /\ sessions' = [sessions EXCEPT ![t] = NoSession]
    /\ UNCHANGED <<users, issued, attempts, now, obtained, overtaken>>

(* Slip: a reset stores the hash and bumps no version.                     *)
ChangePasswordKeepingVersion(t, u, old, new) ==
    /\ Authenticates(t)
    /\ IF sessions[t].user = u THEN old = users[u].password
                               ELSE ActsAsPlatform(t)
    /\ users' = [users EXCEPT ![u].password = new, ![u].legacy = FALSE]
    /\ Overtake(u)
    /\ UNCHANGED <<sessions, issued, attempts, now, obtained>>

(* ChangePassword: one's own with the old password, anybody's as platform  *)
(* administrator.  The new hash is never a legacy one.                     *)
ChangePassword(t, u, old, new) ==
    /\ Authenticates(t)
    /\ IF sessions[t].user = u THEN old = users[u].password
                               ELSE ActsAsPlatform(t)
    /\ users[u].version < MaxVersion
    /\ users' = [users EXCEPT ![u].password = new, ![u].legacy = FALSE,
                              ![u].version = @ + 1]
    /\ Overtake(u)
    /\ UNCHANGED <<sessions, issued, attempts, now, obtained>>

(* Slip: with the unique index gone nothing checks an address.             *)
EmailUnchecked(u, e) == TRUE

(* ensureAvailableEmail: a shared address an account already has may stay. *)
EmailAvailable(u, e) ==
    \/ e \in {NoEmail, users[u].email}
    \/ \A v \in User \ {u} : users[v].email # e

(* saveUser, when it changes the email (the other columns are not          *)
(* modelled).  The account's owner must type the password and is logged    *)
(* out everywhere; a platform administrator does neither.                  *)
SaveEmail(t, u, e, password) ==
    /\ ActsAs(t, u) \/ ActsAsPlatform(t)
    /\ e # users[u].email
    /\ EmailAvailable(u, e)
    /\ IF ActsAsPlatform(t)
         THEN /\ users' = [users EXCEPT ![u].email = e]
              /\ UNCHANGED overtaken
         ELSE /\ password = users[u].password
              /\ users[u].version < MaxVersion
              /\ users' = [users EXCEPT ![u].email = e, ![u].version = @ + 1]
              /\ Overtake(u)
    /\ UNCHANGED <<sessions, issued, attempts, now, obtained>>

(* Slip: disabling and enabling an account bump no version.                *)
SetUserStatusKeepingVersion(t, u, status) ==
    /\ ActsAsPlatform(t)
    /\ u \in PlatformAdmin /\ status = 0 =>
         Cardinality({a \in PlatformAdmin : users[a].status = 1}) > 1
    /\ users[u].status # status
    /\ users' = [users EXCEPT ![u].status = status]
    /\ Overtake(u)
    /\ UNCHANGED <<sessions, issued, attempts, now, obtained>>

(* SetStatus on users.  The last enabled platform administrator stays.     *)
(* (protectAdmin restricts this further: module TenantAdmins.)             *)
SetUserStatus(t, u, status) ==
    /\ ActsAsPlatform(t)
    /\ u \in PlatformAdmin /\ status = 0 =>
         Cardinality({a \in PlatformAdmin : users[a].status = 1}) > 1
    /\ users[u].status # status
    /\ users[u].version < MaxVersion
    /\ users' = [users EXCEPT ![u].status = status, ![u].version = @ + 1]
    /\ Overtake(u)
    /\ UNCHANGED <<sessions, issued, attempts, now, obtained>>

-----------------------------------------------------------------------------
(* The environment.                                                        *)

(* Redis drops a value: its TTL passed, or it restarted without it.        *)
Evict(t) ==
    /\ sessions[t] # NoSession
    /\ sessions' = [sessions EXCEPT ![t] = NoSession]
    /\ UNCHANGED <<users, issued, attempts, now, obtained, overtaken>>

Tick ==
    /\ now < MaxTime
    /\ now' = now + 1
    /\ UNCHANGED <<users, sessions, issued, attempts, obtained, overtaken>>

Next ==
    \/ \E c \in Client : LoginRead(c) \/ LoginFinalize(c) \/ LoginRefuse(c)
                         \/ LoginPut(c) \/ LoginAbort(c)
    \/ \E t \in Token : Logout(t) \/ Evict(t)
    \/ \E t \in Token, u \in User, old, new \in Password : ChangePassword(t, u, old, new)
    \/ \E t \in Token, u \in User, e \in Email \cup {NoEmail}, p \in Password :
          SaveEmail(t, u, e, p)
    \/ \E t \in Token, u \in User, status \in 0..1 : SetUserStatus(t, u, status)
    \/ Tick

Spec == Init /\ [][Next]_vars

-----------------------------------------------------------------------------
(* Safety.                                                                 *)

(* However logins, resets and failures of Redis interleave, at most one    *)
(* token of a single-login account authenticates at any time               *)
(* (finalizeLogin: the version is bumped under the lock, before the new    *)
(* session exists).                                                        *)
OneLiveSession ==
    \A s, t \in Token :
        /\ Authenticates(s) /\ Authenticates(t)
        /\ sessions[s].user = sessions[t].user
        /\ sessions[s].user \in SingleLogin
        => s = t

(* A live token was obtained with the password that is in force now: a     *)
(* reset that commits between a login's check and its session is not lost  *)
(* (finalizeLogin's comparison, ChangePassword's bump).                    *)
LiveTokenKnowsPassword ==
    \A t \in Token :
        Authenticates(t) => obtained[t] = users[sessions[t].user].password

(* No token authenticates whose account was revoked after its password was *)
(* verified: by a reset, a disable (even followed by an enable), an email  *)
(* change of the owner or a later single login, whether the login was in   *)
(* its read, finalized but not stored, or stored.                          *)
NoSessionOutlivesRevocation ==
    \A t \in Token : Authenticates(t) => t \notin overtaken

(* A token that was handed out and does not authenticate never does again: *)
(* enabling an account, resetting a password back or a late Put revives    *)
(* nothing.                                                                *)
DeadStaysDead ==
    [][\A t \in issued : ~Authenticates(t) => ~Authenticates(t)']_vars

(* A password in force changes only together with the version: the hash    *)
(* upgrade of a login never writes a stale password over a reset.          *)
PasswordChangeRevokes ==
    [][\A u \in User : users'[u].password # users[u].password
          => users'[u].version > users[u].version]_vars

(* No write makes an email identify two accounts that did not share it:    *)
(* Login by email refuses what is ambiguous, so one more shared address    *)
(* would lock both accounts out of it (ensureAvailableEmail).              *)
NoNewSharedEmail ==
    [][\A u, v \in User :
          /\ u # v
          /\ users'[u].email = users'[v].email
          /\ users'[u].email # NoEmail
          => users[u].email = users[v].email]_vars

-----------------------------------------------------------------------------
(* Why the safety properties hold.  No session and no login is ahead of    *)
(* its account's version; those level with it are the only ones that may   *)
(* ever authenticate, they know the password in force, nothing overtook    *)
(* them, and a single-login account has at most one of them, counting a    *)
(* finalized login whose session is still to be stored.                    *)

SessionAt(t, u) == sessions[t] # NoSession /\ sessions[t].user = u
LoginAt(c, u) == attempts[c] # NoAttempt /\ attempts[c].user = u

Level(t, u) == SessionAt(t, u) /\ sessions[t].version = users[u].version
LevelLogin(c, u) == LoginAt(c, u) /\ attempts[c].account.version = users[u].version

NeverAhead ==
    /\ \A t \in Token, u \in User :
          SessionAt(t, u) => sessions[t].version <= users[u].version
    /\ \A c \in Client, u \in User :
          LoginAt(c, u) => attempts[c].account.version <= users[u].version

OnlyIssued ==
    \A t \in Token : sessions[t] # NoSession \/ t \in overtaken => t \in issued

OneHolder ==
    \A u \in SingleLogin :
        /\ \A s, t \in Token : Level(s, u) /\ Level(t, u) => s = t
        /\ \A t \in Token, c \in Client :
              Level(t, u) => ~(LevelLogin(c, u) /\ attempts[c].final)
        /\ \A c, d \in Client :
              /\ LevelLogin(c, u) /\ attempts[c].final
              /\ LevelLogin(d, u) /\ attempts[d].final
              => c = d

LevelKnowsPassword ==
    \A u \in User :
        /\ \A t \in Token : Level(t, u) => obtained[t] = users[u].password
        /\ \A c \in Client :
              LevelLogin(c, u) => attempts[c].account.password = users[u].password

LevelNotOvertaken ==
    \A u \in User :
        /\ \A t \in Token : Level(t, u) => t \notin overtaken
        /\ \A c \in Client : LevelLogin(c, u) => c \notin overtaken

IInv ==
    /\ TypeOK
    /\ NeverAhead
    /\ OnlyIssued
    /\ OneHolder
    /\ LevelKnowsPassword
    /\ LevelNotOvertaken

-----------------------------------------------------------------------------
(* Sessions implements LiveSessions: the live tokens of an account are     *)
(* those that authenticate as it, the spent tokens those ever issued.      *)

LiveTokens(u) == {t \in Token : ActsAs(t, u)}

Registry == INSTANCE LiveSessions WITH
    live <- [u \in User |-> LiveTokens(u)],
    spent <- issued

(* Every behaviour of the two-transaction login, with its revocations and  *)
(* failures, is a behaviour of the registry of live tokens.                *)
ImplementsRegistry == Registry!Spec

=============================================================================
