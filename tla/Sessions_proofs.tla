--------------------------- MODULE Sessions_proofs ---------------------------
(* Theorems about Sessions, for every set of accounts, tokens and clients. *)
EXTENDS Sessions, TLAPS

(***************************************************************************)
(* Every state is well typed.                                              *)
(***************************************************************************)
LEMMA InitTypeOK == Init => TypeOK
  BY SessionsAssumption DEF Init, TypeOK, Account

LEMMA NextTypeOK == TypeOK /\ [Next]_vars => TypeOK'
<1> SUFFICES ASSUME TypeOK, [Next]_vars PROVE TypeOK'
  OBVIOUS
<1> USE SessionsAssumption DEF TypeOK, Account, Session, Attempt
<1>1. ASSUME NEW c \in Client, LoginRead(c) PROVE TypeOK'
  BY <1>1 DEF LoginRead
<1>2. ASSUME NEW c \in Client, LoginFinalize(c) PROVE TypeOK'
  <2>1. Finalized(attempts[c].user) \in Account
    BY <1>2 DEF LoginFinalize, Finalized
  <2>2. users' \in [User -> Account]
    BY <1>2, <2>1 DEF LoginFinalize
  <2>3. attempts' \in [Client -> Attempt \cup {NoAttempt}]
    BY <1>2, <2>1 DEF LoginFinalize
  <2>4. overtaken' \in SUBSET (Client \cup Token)
    BY <1>2 DEF LoginFinalize
  <2> QED
    BY <1>2, <2>2, <2>3, <2>4 DEF LoginFinalize
<1>3. ASSUME NEW c \in Client, LoginRefuse(c) PROVE TypeOK'
  BY <1>3 DEF LoginRefuse
<1>4. ASSUME NEW c \in Client, LoginPut(c) PROVE TypeOK'
  BY <1>4 DEF LoginPut
<1>5. ASSUME NEW c \in Client, LoginAbort(c) PROVE TypeOK'
  BY <1>5 DEF LoginAbort
<1>6. ASSUME NEW t \in Token, Logout(t) \/ Evict(t) PROVE TypeOK'
  BY <1>6 DEF Logout, Evict
<1>7. ASSUME NEW t \in Token, NEW u \in User, NEW old \in Password, NEW new \in Password,
             ChangePassword(t, u, old, new)
      PROVE  TypeOK'
  BY <1>7 DEF ChangePassword, Overtake
<1>8. ASSUME NEW t \in Token, NEW u \in User, NEW e \in Email \cup {NoEmail},
             NEW p \in Password, SaveEmail(t, u, e, p)
      PROVE  TypeOK'
  BY <1>8 DEF SaveEmail, Overtake
<1>9. ASSUME NEW t \in Token, NEW u \in User, NEW status \in 0..1, SetUserStatus(t, u, status)
      PROVE  TypeOK'
  BY <1>9 DEF SetUserStatus, Overtake
<1>10. CASE Tick
  BY <1>10 DEF Tick
<1>11. CASE UNCHANGED vars
  BY <1>11 DEF vars
<1> QED
  BY <1>1, <1>2, <1>3, <1>4, <1>5, <1>6, <1>7, <1>8, <1>9, <1>10, <1>11 DEF Next

(* Sessions is well typed: no row, session or login in flight ever holds   *)
(* a value of the wrong kind, for any number of accounts and tokens.       *)
THEOREM TypeCorrect == Spec => []TypeOK
  BY InitTypeOK, NextTypeOK, PTL DEF Spec

-----------------------------------------------------------------------------
(***************************************************************************)
(* The inductive invariant.  One lemma per kind of step; each shows the    *)
(* five conjuncts the step can disturb.                                    *)
(***************************************************************************)
LEMMA InitIInv == Init => IInv
<1> SUFFICES ASSUME Init PROVE IInv
  OBVIOUS
<1>1. TypeOK
  BY InitTypeOK
<1>2. /\ \A t \in Token, u \in User : ~SessionAt(t, u)
      /\ \A c \in Client, u \in User : ~LoginAt(c, u)
  BY DEF Init, SessionAt, LoginAt
<1> QED
  BY <1>1, <1>2, SessionsAssumption
     DEF IInv, NeverAhead, OnlyIssued, OneHolder, LevelKnowsPassword,
         LevelNotOvertaken, Level, LevelLogin, Init

(* A revocation of u: the version grows, no session and no login moves.    *)
LEMMA RevokeIInv ==
  ASSUME NEW u \in User, IInv, TypeOK',
         users'[u].version = users[u].version + 1,
         \A v \in User \ {u} : users'[v] = users[v],
         UNCHANGED <<sessions, issued, attempts, obtained>>,
         Overtake(u)
  PROVE  IInv'
<1> USE DEF SessionAt, LoginAt
<1> TypeOK
  BY DEF IInv
<1>0. \A t \in Token : ~Level(t, u)'
  BY DEF IInv, NeverAhead, Level, TypeOK, Session, Account
<1>1. \A c \in Client : ~LevelLogin(c, u)'
  BY DEF IInv, NeverAhead, LevelLogin, TypeOK, Attempt, Account
<1>2. \A v \in User \ {u} :
        /\ \A t \in Token : Level(t, v)' <=> Level(t, v)
        /\ \A c \in Client : LevelLogin(c, v)' <=> LevelLogin(c, v)
  BY DEF Level, LevelLogin
<1>3. NeverAhead'
  BY DEF IInv, NeverAhead, TypeOK, Session, Attempt, Account
<1>4. OnlyIssued'
  BY SessionsAssumption DEF IInv, OnlyIssued, Overtake
<1>5. OneHolder'
  BY <1>0, <1>1, <1>2, SessionsAssumption DEF IInv, OneHolder
<1>6. LevelKnowsPassword'
  BY <1>0, <1>1, <1>2 DEF IInv, LevelKnowsPassword
<1>7. LevelNotOvertaken'
  <2>1. ASSUME NEW v \in User \ {u}, NEW t \in Token, Level(t, v) PROVE t \notin overtaken'
    BY <2>1, SessionsAssumption DEF IInv, LevelNotOvertaken, Level, Overtake
  <2>2. ASSUME NEW v \in User \ {u}, NEW c \in Client, LevelLogin(c, v) PROVE c \notin overtaken'
    BY <2>2, SessionsAssumption DEF IInv, LevelNotOvertaken, LevelLogin, Overtake
  <2> QED
    BY <1>0, <1>1, <1>2, <2>1, <2>2 DEF LevelNotOvertaken
<1> QED
  BY <1>3, <1>4, <1>5, <1>6, <1>7 DEF IInv

(* Sessions and logins only disappear; no version and no password moves.   *)
LEMMA ForgetIInv ==
  ASSUME IInv, TypeOK',
         \A u \in User : /\ users'[u].version = users[u].version
                         /\ users'[u].password = users[u].password,
         \A t \in Token : sessions'[t] \in {sessions[t], NoSession},
         \A c \in Client : attempts'[c] \in {attempts[c], NoAttempt},
         UNCHANGED <<issued, obtained, overtaken>>
  PROVE  IInv'
<1> USE DEF SessionAt, LoginAt
<1> TypeOK
  BY DEF IInv
<1>1. /\ \A t \in Token, u \in User : SessionAt(t, u)' => SessionAt(t, u) /\ sessions'[t] = sessions[t]
      /\ \A c \in Client, u \in User : LoginAt(c, u)' => LoginAt(c, u) /\ attempts'[c] = attempts[c]
  OBVIOUS
<1>2. /\ \A t \in Token, u \in User : Level(t, u)' => Level(t, u)
      /\ \A c \in Client, u \in User :
            LevelLogin(c, u)' => LevelLogin(c, u) /\ attempts'[c] = attempts[c]
  BY <1>1 DEF Level, LevelLogin
<1>3. NeverAhead'
  BY <1>1 DEF IInv, NeverAhead
<1>4. OnlyIssued'
  BY DEF IInv, OnlyIssued
<1>5. OneHolder'
  BY <1>2, SessionsAssumption DEF IInv, OneHolder
<1>6. LevelKnowsPassword'
  BY <1>2 DEF IInv, LevelKnowsPassword
<1>7. LevelNotOvertaken'
  BY <1>2 DEF IInv, LevelNotOvertaken
<1> QED
  BY <1>3, <1>4, <1>5, <1>6, <1>7 DEF IInv

(* A login that has verified its password joins at the current version.    *)
LEMMA ReadIInv ==
  ASSUME NEW c \in Client, IInv, TypeOK', LoginRead(c)
  PROVE  IInv'
<1> USE DEF SessionAt, LoginAt
<1> TypeOK
  BY DEF IInv
<1>1. PICK w \in User : attempts' = [attempts EXCEPT ![c] =
            [user |-> w, account |-> users[w], expires |-> now + TTL, final |-> FALSE]]
  BY DEF LoginRead
<1>2. /\ LoginAt(c, w)'
      /\ attempts'[c].account = users[w] /\ ~attempts'[c].final
      /\ \A u \in User : LoginAt(c, u)' => u = w
      /\ \A d \in Client \ {c} : attempts'[d] = attempts[d]
  <2>1. attempts'[c] \in Attempt
    BY <1>1, SessionsAssumption DEF TypeOK, Attempt
  <2> QED
    BY <1>1, <2>1, SessionsAssumption DEF TypeOK
<1>3. UNCHANGED <<users, sessions, issued, now, obtained>> /\ overtaken' = overtaken \ {c}
  BY DEF LoginRead
<1>4. NeverAhead'
  BY <1>2, <1>3 DEF IInv, NeverAhead, TypeOK, Account
<1>5. OnlyIssued'
  BY <1>3 DEF IInv, OnlyIssued
<1>6. OneHolder'
  BY <1>2, <1>3 DEF IInv, OneHolder, Level, LevelLogin
<1>7. LevelKnowsPassword'
  BY <1>2, <1>3 DEF IInv, LevelKnowsPassword, Level, LevelLogin
<1>8. LevelNotOvertaken'
  BY <1>2, <1>3, SessionsAssumption DEF IInv, LevelNotOvertaken, Level, LevelLogin
<1> QED
  BY <1>4, <1>5, <1>6, <1>7, <1>8 DEF IInv

(* finalizeLogin: under the single-login policy the account's version      *)
(* passes everybody's but this login's; without it only the hash changes.  *)
LEMMA FinalizeIInv ==
  ASSUME NEW c \in Client, IInv, TypeOK', LoginFinalize(c)
  PROVE  IInv'
<1> USE DEF SessionAt, LoginAt
<1> TypeOK
  BY DEF IInv
<1>0. PICK w \in User : w = attempts[c].user
  BY DEF LoginFinalize, TypeOK, Attempt
<1>1. attempts[c] \in Attempt /\ users[w] \in Account
  BY DEF LoginFinalize, TypeOK
<1>2. LevelLogin(c, w) /\ attempts[c].account.password = users[w].password
  BY <1>0 DEF LoginFinalize, SameCredentials, LevelLogin
<1>3. /\ users'[w].password = users[w].password
      /\ users'[w].version = IF w \in SingleLogin THEN users[w].version + 1 ELSE users[w].version
      /\ \A v \in User \ {w} : users'[v] = users[v]
  BY <1>0, <1>1 DEF LoginFinalize, Finalized, TypeOK, Account
<1>4. /\ attempts'[c] # NoAttempt /\ attempts'[c].user = w /\ attempts'[c].final
      /\ attempts'[c].account.password = users'[w].password
      /\ attempts'[c].account.version = users'[w].version
      /\ \A d \in Client \ {c} : attempts'[d] = attempts[d]
  <2>1. attempts' = [attempts EXCEPT ![c].account.version = Finalized(w).version,
                                     ![c].final = TRUE]
    BY <1>0 DEF LoginFinalize
  <2>2. users'[w] = Finalized(w) /\ users'[w] \in Account
    BY <1>0, <1>1 DEF LoginFinalize, TypeOK
  <2>3. attempts'[c] = [attempts[c] EXCEPT !.account.version = users'[w].version,
                                           !.final = TRUE]
    BY <2>1, <2>2 DEF TypeOK
  <2>4. attempts'[c].user = w /\ attempts'[c].final
    BY <1>0, <1>1, <2>3 DEF Attempt
  <2>5. /\ attempts'[c].account.version = users'[w].version
        /\ attempts'[c].account.password = attempts[c].account.password
    BY <1>1, <2>3 DEF Attempt, Account
  <2>6. attempts'[c] \in Attempt
    BY <1>1, <2>2, <2>3 DEF Attempt, Account
  <2>7. attempts'[c] # NoAttempt
    BY <2>6, SessionsAssumption
  <2> QED
    BY <1>2, <1>3, <2>1, <2>4, <2>5, <2>7 DEF TypeOK
<1>5. UNCHANGED <<sessions, issued, now, obtained>>
  BY DEF LoginFinalize
<1>6. ASSUME w \in SingleLogin
      PROVE  /\ \A t \in Token : ~Level(t, w)'
             /\ \A d \in Client \ {c} : ~LevelLogin(d, w)'
  <2>1. users[w].version \in Nat /\ users'[w].version = users[w].version + 1
    BY <1>1, <1>3, <1>6 DEF Account
  <2>2. ASSUME NEW t \in Token, Level(t, w)' PROVE FALSE
    <3>1. /\ sessions[t] # NoSession /\ sessions[t].user = w
          /\ sessions[t].version = users'[w].version
      BY <1>5, <2>2 DEF Level
    <3>2. sessions[t].version <= users[w].version
      BY <3>1 DEF IInv, NeverAhead
    <3> QED
      BY <2>1, <3>1, <3>2
  <2>3. ASSUME NEW d \in Client \ {c}, LevelLogin(d, w)' PROVE FALSE
    <3>1. /\ attempts[d] # NoAttempt /\ attempts[d].user = w
          /\ attempts[d].account.version = users'[w].version
      BY <1>4, <2>3 DEF LevelLogin
    <3>2. attempts[d].account.version <= users[w].version
      BY <3>1 DEF IInv, NeverAhead
    <3> QED
      BY <2>1, <3>1, <3>2
  <2> QED
    BY <2>2, <2>3
<1>7. \A t \in Token, v \in User : Level(t, v)' => Level(t, v)
  BY <1>1, <1>3, <1>5, <1>6 DEF Level
<1>8. \A d \in Client \ {c}, v \in User :
          LevelLogin(d, v)' => LevelLogin(d, v) /\ attempts'[d] = attempts[d]
  BY <1>1, <1>3, <1>4, <1>6 DEF LevelLogin
<1>9. \A v \in User : LevelLogin(c, v)' => v = w
  BY <1>4 DEF LevelLogin
<1>10. NeverAhead'
  <2>1. \A v \in User : users'[v].version \in Nat /\ users[v].version \in Nat
                         /\ users[v].version <= users'[v].version
    BY <1>1, <1>3 DEF TypeOK, Account
  <2>2. ASSUME NEW t \in Token, NEW v \in User, SessionAt(t, v)'
        PROVE  sessions'[t].version <= users'[v].version
    BY <1>5, <2>1, <2>2 DEF IInv, NeverAhead, TypeOK, Session
  <2>3. ASSUME NEW d \in Client, NEW v \in User, LoginAt(d, v)'
        PROVE  attempts'[d].account.version <= users'[v].version
    BY <1>4, <2>1, <2>3 DEF IInv, NeverAhead, TypeOK, Attempt, Account
  <2> QED
    BY <2>2, <2>3 DEF NeverAhead
<1>11. OnlyIssued'
  BY <1>5, SessionsAssumption DEF IInv, OnlyIssued, LoginFinalize
<1>12. OneHolder'
  BY <1>6, <1>7, <1>8, <1>9, SessionsAssumption DEF IInv, OneHolder
<1>13. LevelKnowsPassword'
  BY <1>3, <1>4, <1>5, <1>7, <1>8, <1>9 DEF IInv, LevelKnowsPassword
<1>14. LevelNotOvertaken'
  <2>1. CASE w \in SingleLogin
    <3>1. overtaken' = (overtaken
            \cup {d \in Client \ {c} : LoginAt(d, w)} \cup {t \in Token : SessionAt(t, w)})
      BY <1>0, <2>1 DEF LoginFinalize
    <3>2. c \notin overtaken'
      BY <1>1, <1>2, <3>1, SessionsAssumption DEF IInv, LevelNotOvertaken
    <3>3. ASSUME NEW v \in User, NEW t \in Token, Level(t, v)' PROVE t \notin overtaken'
      BY <1>6, <1>7, <2>1, <3>1, <3>3, SessionsAssumption DEF IInv, LevelNotOvertaken, Level
    <3>4. ASSUME NEW v \in User, NEW d \in Client \ {c}, LevelLogin(d, v)' PROVE d \notin overtaken'
      BY <1>6, <1>8, <2>1, <3>1, <3>4, SessionsAssumption DEF IInv, LevelNotOvertaken, LevelLogin
    <3> QED
      BY <3>2, <3>3, <3>4 DEF LevelNotOvertaken
  <2>2. CASE w \notin SingleLogin
    <3>1. overtaken' = overtaken
      BY <1>0, <2>2 DEF LoginFinalize
    <3> QED
      BY <1>1, <1>2, <1>7, <1>8, <1>9, <3>1 DEF IInv, LevelNotOvertaken
  <2> QED
    BY <2>1, <2>2
<1> QED
  BY <1>10, <1>11, <1>12, <1>13, <1>14 DEF IInv

(* Sessions.Put: the finalized login hands its place to its token.         *)
LEMMA PutIInv ==
  ASSUME NEW c \in Client, IInv, TypeOK', LoginPut(c)
  PROVE  IInv'
<1> USE DEF SessionAt, LoginAt
<1> TypeOK
  BY DEF IInv
<1>0. PICK w \in User : w = attempts[c].user
  BY DEF LoginPut, TypeOK, Attempt
<1>1. PICK t \in Token \ issued :
        /\ sessions' = [sessions EXCEPT ![t] =
                [user |-> w, version |-> attempts[c].account.version,
                 expires |-> attempts[c].expires]]
        /\ issued' = issued \cup {t}
        /\ obtained' = [obtained EXCEPT ![t] = attempts[c].account.password]
        /\ overtaken' = IF c \in overtaken THEN overtaken \cup {t} ELSE overtaken
  BY <1>0 DEF LoginPut
<1>2. attempts[c] \in Attempt /\ attempts[c].final /\ LoginAt(c, w)
  BY <1>0 DEF LoginPut, TypeOK, Attempt
<1>3. /\ sessions'[t] # NoSession /\ sessions'[t].user = w
      /\ sessions'[t].version = attempts[c].account.version
      /\ obtained'[t] = attempts[c].account.password
      /\ \A s \in Token \ {t} : sessions'[s] = sessions[s] /\ obtained'[s] = obtained[s]
  <2>1. sessions'[t] \in Session
    BY <1>1, <1>2 DEF TypeOK, Session, Attempt, Account
  <2> QED
    BY <1>1, <2>1, SessionsAssumption DEF TypeOK
<1>4. /\ UNCHANGED <<users, now>> /\ attempts'[c] = NoAttempt
      /\ \A d \in Client \ {c} : attempts'[d] = attempts[d]
  BY DEF LoginPut, TypeOK
<1>5. sessions[t] = NoSession /\ t \notin overtaken
  BY <1>1 DEF IInv, OnlyIssued
<1>6. /\ \A s \in Token \ {t}, v \in User : Level(s, v)' <=> Level(s, v)
      /\ \A v \in User : Level(t, v)' <=> (v = w /\ LevelLogin(c, w))
      /\ \A d \in Client \ {c}, v \in User : LevelLogin(d, v)' <=> LevelLogin(d, v)
      /\ \A v \in User : ~LevelLogin(c, v)'
  BY <1>2, <1>3, <1>4 DEF Level, LevelLogin
<1>7. NeverAhead'
  BY <1>2, <1>3, <1>4 DEF IInv, NeverAhead
<1>8. OnlyIssued'
  BY <1>1, <1>3 DEF IInv, OnlyIssued
<1>9. OneHolder'
  BY <1>2, <1>4, <1>6, SessionsAssumption DEF IInv, OneHolder
<1>10. LevelKnowsPassword'
  BY <1>2, <1>3, <1>4, <1>6 DEF IInv, LevelKnowsPassword
<1>11. LevelNotOvertaken'
  BY <1>1, <1>2, <1>5, <1>6, SessionsAssumption DEF IInv, LevelNotOvertaken
<1> QED
  BY <1>7, <1>8, <1>9, <1>10, <1>11 DEF IInv

LEMMA NextIInv == IInv /\ [Next]_vars => IInv'
<1> SUFFICES ASSUME IInv, [Next]_vars PROVE IInv'
  OBVIOUS
<1>0. TypeOK /\ TypeOK'
  BY NextTypeOK DEF IInv
<1>1. ASSUME NEW c \in Client, LoginRead(c) PROVE IInv'
  BY <1>0, <1>1, ReadIInv
<1>2. ASSUME NEW c \in Client, LoginFinalize(c) PROVE IInv'
  BY <1>0, <1>2, FinalizeIInv
<1>3. ASSUME NEW c \in Client, LoginPut(c) PROVE IInv'
  BY <1>0, <1>3, PutIInv
<1>4. ASSUME NEW c \in Client, LoginRefuse(c) \/ LoginAbort(c) PROVE IInv'
  BY <1>0, <1>4, ForgetIInv DEF LoginRefuse, LoginAbort, TypeOK
<1>5. ASSUME NEW t \in Token, Logout(t) \/ Evict(t) PROVE IInv'
  BY <1>0, <1>5, ForgetIInv DEF Logout, Evict, TypeOK
<1>6. ASSUME NEW t \in Token, NEW u \in User, NEW old \in Password, NEW new \in Password,
             ChangePassword(t, u, old, new)
      PROVE  IInv'
  <2>1. /\ users'[u].version = users[u].version + 1
        /\ \A v \in User \ {u} : users'[v] = users[v]
    BY <1>0, <1>6 DEF ChangePassword, TypeOK, Account
  <2> QED
    BY <1>0, <1>6, <2>1, RevokeIInv DEF ChangePassword
<1>7. ASSUME NEW t \in Token, NEW u \in User, NEW e \in Email \cup {NoEmail},
             NEW p \in Password, SaveEmail(t, u, e, p)
      PROVE  IInv'
  <2>1. CASE ActsAsPlatform(t)
    <3>1. users' = [users EXCEPT ![u].email = e] /\ UNCHANGED overtaken
      BY <1>7, <2>1 DEF SaveEmail
    <3>2. \A v \in User : /\ users'[v].version = users[v].version
                          /\ users'[v].password = users[v].password
      BY <1>0, <3>1 DEF TypeOK, Account
    <3> QED
      BY <1>0, <1>7, <3>1, <3>2, ForgetIInv DEF SaveEmail
  <2>2. CASE ~ActsAsPlatform(t)
    <3>1. /\ users'[u].version = users[u].version + 1
          /\ \A v \in User \ {u} : users'[v] = users[v]
      BY <1>0, <1>7, <2>2 DEF SaveEmail, TypeOK, Account
    <3> QED
      BY <1>0, <1>7, <2>2, <3>1, RevokeIInv DEF SaveEmail
  <2> QED
    BY <2>1, <2>2
<1>8. ASSUME NEW t \in Token, NEW u \in User, NEW status \in 0..1, SetUserStatus(t, u, status)
      PROVE  IInv'
  <2>1. /\ users'[u].version = users[u].version + 1
        /\ \A v \in User \ {u} : users'[v] = users[v]
    BY <1>0, <1>8 DEF SetUserStatus, TypeOK, Account
  <2> QED
    BY <1>0, <1>8, <2>1, RevokeIInv DEF SetUserStatus
<1>9. CASE Tick
  BY <1>0, <1>9, ForgetIInv DEF Tick
<1>10. CASE UNCHANGED vars
  BY <1>0, <1>10, ForgetIInv DEF vars
<1> QED
  BY <1>1, <1>2, <1>3, <1>4, <1>5, <1>6, <1>7, <1>8, <1>9, <1>10 DEF Next

(* Every reachable state satisfies the inductive invariant.                *)
THEOREM Inductive == Spec => []IInv
  BY InitIInv, NextIInv, PTL DEF Spec

-----------------------------------------------------------------------------
(***************************************************************************)
(* What follows from it.                                                   *)
(***************************************************************************)

(* A token that authenticates is level with its account.                   *)
LEMMA AuthenticatesLevel ==
  ASSUME TypeOK, NEW t \in Token, Authenticates(t)
  PROVE  sessions[t].user \in User /\ Level(t, sessions[t].user)
  BY DEF Authenticates, Level, SessionAt, TypeOK, Session

(* At most one token of a single-login account authenticates, whatever     *)
(* logins, resets, failures and clock ticks interleave (finalizeLogin).    *)
THEOREM SingleLoginHolds == Spec => []OneLiveSession
<1>1. IInv => OneLiveSession
  BY AuthenticatesLevel DEF IInv, OneHolder, OneLiveSession, SessionsAssumption
<1> QED
  BY <1>1, Inductive, PTL

(* Every live token was obtained with the password in force: a reset is    *)
(* never undone by a login that had read the old one.                      *)
THEOREM LiveTokensKnowThePassword == Spec => []LiveTokenKnowsPassword
<1>1. IInv => LiveTokenKnowsPassword
  BY AuthenticatesLevel DEF IInv, LevelKnowsPassword, LiveTokenKnowsPassword
<1> QED
  BY <1>1, Inductive, PTL

(* A revocation reaches the logins in flight and the stored sessions.      *)
THEOREM RevocationHolds == Spec => []NoSessionOutlivesRevocation
<1>1. IInv => NoSessionOutlivesRevocation
  BY AuthenticatesLevel DEF IInv, LevelNotOvertaken, NoSessionOutlivesRevocation
<1> QED
  BY <1>1, Inductive, PTL

-----------------------------------------------------------------------------
(***************************************************************************)
(* Steps.                                                                  *)
(***************************************************************************)

(* What every step respects: versions and the clock only grow, the status  *)
(* and the password of an account move only with its version, and a token  *)
(* handed out keeps its session or loses it.                               *)
Monotone ==
    /\ \A u \in User :
          /\ users[u].version <= users'[u].version
          /\ users'[u].version = users[u].version
               => /\ users'[u].status = users[u].status
                  /\ users'[u].password = users[u].password
    /\ now <= now'
    /\ \A t \in issued : sessions'[t] \in {sessions[t], NoSession}

LEMMA NextMonotone == TypeOK /\ [Next]_vars => Monotone
<1> SUFFICES ASSUME TypeOK, [Next]_vars PROVE Monotone
  OBVIOUS
<1> USE DEF TypeOK, Account, Monotone
<1>1. ASSUME NEW c \in Client, LoginRead(c) PROVE Monotone
  BY <1>1 DEF LoginRead
<1>2. ASSUME NEW c \in Client, LoginFinalize(c) PROVE Monotone
  <2>1. PICK w \in User : w = attempts[c].user
    BY <1>2 DEF LoginFinalize, Attempt
  <2>2. /\ users'[w].status = users[w].status
        /\ users'[w].password = users[w].password
        /\ users'[w].version \in {users[w].version, users[w].version + 1}
        /\ \A v \in User \ {w} : users'[v] = users[v]
    BY <1>2, <2>1 DEF LoginFinalize, Finalized
  <2> QED
    BY <1>2, <2>2 DEF LoginFinalize
<1>3. ASSUME NEW c \in Client, LoginRefuse(c) \/ LoginAbort(c) PROVE Monotone
  BY <1>3 DEF LoginRefuse, LoginAbort
<1>4. ASSUME NEW c \in Client, LoginPut(c) PROVE Monotone
  BY <1>4 DEF LoginPut
<1>5. ASSUME NEW t \in Token, Logout(t) \/ Evict(t) PROVE Monotone
  BY <1>5 DEF Logout, Evict
<1>6. ASSUME NEW t \in Token, NEW u \in User, NEW old \in Password, NEW new \in Password,
             ChangePassword(t, u, old, new)
      PROVE  Monotone
  BY <1>6 DEF ChangePassword
<1>7. ASSUME NEW t \in Token, NEW u \in User, NEW e \in Email \cup {NoEmail},
             NEW p \in Password, SaveEmail(t, u, e, p)
      PROVE  Monotone
  <2>1. /\ users'[u].status = users[u].status
        /\ users'[u].password = users[u].password
        /\ users'[u].version \in {users[u].version, users[u].version + 1}
        /\ \A v \in User \ {u} : users'[v] = users[v]
    BY <1>7 DEF SaveEmail
  <2> QED
    BY <1>7, <2>1 DEF SaveEmail
<1>8. ASSUME NEW t \in Token, NEW u \in User, NEW status \in 0..1, SetUserStatus(t, u, status)
      PROVE  Monotone
  BY <1>8 DEF SetUserStatus
<1>9. CASE Tick
  BY <1>9 DEF Tick
<1>10. CASE UNCHANGED vars
  BY <1>10 DEF vars
<1> QED
  BY <1>1, <1>2, <1>3, <1>4, <1>5, <1>6, <1>7, <1>8, <1>9, <1>10 DEF Next

(* A token handed out that authenticates after a step did so before it,    *)
(* with the same session.                                                  *)
LEMMA NoRevival ==
  ASSUME IInv, TypeOK', Monotone, NEW t \in issued, Authenticates(t)'
  PROVE  Authenticates(t) /\ sessions'[t] = sessions[t]
<1>1. t \in Token /\ sessions'[t] = sessions[t] /\ sessions[t] # NoSession
  BY DEF IInv, TypeOK, Monotone, Authenticates
<1>2. PICK u \in User : u = sessions[t].user
  BY <1>1 DEF IInv, TypeOK, Session
<1>3. /\ sessions[t].version <= users[u].version
      /\ users'[u].version = sessions[t].version
  BY <1>1, <1>2 DEF IInv, NeverAhead, SessionAt, Authenticates
<1>4. users'[u].version = users[u].version
  <2>1. users[u].version \in Nat /\ users'[u].version \in Nat
    BY DEF IInv, TypeOK, Account
  <2>2. users[u].version <= users'[u].version
    BY DEF Monotone
  <2> QED
    BY <1>3, <2>1, <2>2
<1> QED
  BY <1>1, <1>2, <1>3, <1>4 DEF IInv, TypeOK, Monotone, Authenticates, Session

(* A token that was handed out and does not authenticate never does again. *)
THEOREM DeadTokensStayDead == Spec => DeadStaysDead
<1>1. IInv /\ [Next]_vars => [\A t \in issued : ~Authenticates(t) => ~Authenticates(t)']_vars
  BY NextTypeOK, NextMonotone, NoRevival DEF IInv
<1> QED
  BY <1>1, Inductive, PTL DEF Spec, DeadStaysDead

(* No step puts an old password back: the password in force changes only   *)
(* together with the version.                                              *)
THEOREM PasswordChangesRevoke == Spec => PasswordChangeRevokes
<1>1. TypeOK /\ TypeOK' /\ Monotone
      => \A u \in User : users'[u].password # users[u].password
                            => users'[u].version > users[u].version
  <2>1. ASSUME TypeOK, TypeOK', Monotone, NEW u \in User
        PROVE  /\ users[u].version \in Nat /\ users'[u].version \in Nat
               /\ users[u].version <= users'[u].version
               /\ users'[u].version = users[u].version
                    => users'[u].password = users[u].password
    BY <2>1 DEF TypeOK, Account, Monotone
  <2> QED
    BY <2>1
<1>2. TypeOK /\ [Next]_vars
      => [\A u \in User : users'[u].password # users[u].password
                              => users'[u].version > users[u].version]_vars
  BY <1>1, NextTypeOK, NextMonotone
<1> QED
  BY <1>2, TypeCorrect, PTL DEF Spec, PasswordChangeRevokes

(* An email changes to one that nobody else has, or is cleared; all other  *)
(* steps leave every email alone.                                          *)
LEMMA EmailsChangeToFreeOnes ==
  ASSUME TypeOK, Next, NEW u \in User, users'[u].email \notin {users[u].email, NoEmail}
  PROVE  \A v \in User \ {u} : users[v].email # users'[u].email /\ users'[v].email = users[v].email
<1>1. \E t \in Token, w \in User, e \in Email \cup {NoEmail}, p \in Password : SaveEmail(t, w, e, p)
  <2>1. ASSUME NEW c \in Client, LoginFinalize(c) PROVE FALSE
    BY <2>1 DEF LoginFinalize, Finalized, TypeOK, Account
  <2>2. ASSUME NEW t \in Token, NEW w \in User, NEW old \in Password, NEW new \in Password,
               ChangePassword(t, w, old, new)
        PROVE  FALSE
    BY <2>2 DEF ChangePassword, TypeOK, Account
  <2>3. ASSUME NEW t \in Token, NEW w \in User, NEW status \in 0..1, SetUserStatus(t, w, status)
        PROVE  FALSE
    BY <2>3 DEF SetUserStatus, TypeOK, Account
  <2>4. ASSUME UNCHANGED users PROVE FALSE
    BY <2>4
  <2>5. ASSUME NEW c \in Client, LoginRead(c) \/ LoginRefuse(c) \/ LoginPut(c) \/ LoginAbort(c)
        PROVE  UNCHANGED users
    BY <2>5 DEF LoginRead, LoginRefuse, LoginPut, LoginAbort
  <2>6. ASSUME Tick \/ \E t \in Token : Logout(t) \/ Evict(t) PROVE UNCHANGED users
    BY <2>6 DEF Logout, Evict, Tick
  <2> QED
    BY <2>1, <2>2, <2>3, <2>4, <2>5, <2>6 DEF Next
<1>2. PICK t \in Token, w \in User, e \in Email \cup {NoEmail}, p \in Password : SaveEmail(t, w, e, p)
  BY <1>1
<1>3. users'[w].email = e /\ \A v \in User \ {w} : users'[v] = users[v]
  BY <1>2 DEF SaveEmail, TypeOK, Account
<1>4. w = u
  BY <1>3
<1>5. EmailAvailable(w, e)
  BY <1>2 DEF SaveEmail
<1> QED
  BY <1>3, <1>4, <1>5 DEF EmailAvailable

(* No write makes an email identify two accounts that did not share it:    *)
(* an address is checked and stored in one transaction, and a shared one   *)
(* is kept only where it was (ensureAvailableEmail).                       *)
THEOREM NoEmailBecomesShared == Spec => NoNewSharedEmail
<1>1. TypeOK /\ [Next]_vars
      => [\A u, v \in User : /\ u # v
                             /\ users'[u].email = users'[v].email
                             /\ users'[u].email # NoEmail
                             => users[u].email = users[v].email]_vars
  <2> SUFFICES ASSUME TypeOK, Next, NEW u \in User, NEW v \in User, u # v,
                      users'[u].email = users'[v].email, users'[u].email # NoEmail
               PROVE  users[u].email = users[v].email
    OBVIOUS
  <2>1. users'[u].email = users[u].email
    BY EmailsChangeToFreeOnes
  <2>2. users'[v].email = users[v].email
    BY EmailsChangeToFreeOnes
  <2> QED
    BY <2>1, <2>2
<1> QED
  BY <1>1, TypeCorrect, PTL DEF Spec, NoNewSharedEmail

-----------------------------------------------------------------------------
(***************************************************************************)
(* Sessions implements LiveSessions.                                       *)
(***************************************************************************)
LEMMA InitRefines == Init => Registry!Init
  BY DEF Init, Registry!Init, LiveTokens, ActsAs, Authenticates

LEMMA NextRefines == IInv /\ [Next]_vars => [Registry!Next]_Registry!vars
<1> SUFFICES ASSUME IInv, [Next]_vars PROVE [Registry!Next]_Registry!vars
  OBVIOUS
<1>0. TypeOK /\ TypeOK' /\ Monotone
  BY NextTypeOK, NextMonotone DEF IInv
<1>1. \A u \in User : \A t \in LiveTokens(u)' : t \in issued => t \in LiveTokens(u)
  BY <1>0, NoRevival DEF LiveTokens, ActsAs
<1>2. \A u \in User : LiveTokens(u) \subseteq issued
  BY DEF LiveTokens, ActsAs, Authenticates, IInv, OnlyIssued
<1>3. ASSUME issued' = issued, IInv' PROVE Registry!Withdraw
  <2>1. \A u \in User : LiveTokens(u)' \subseteq issued
    BY <1>3 DEF LiveTokens, ActsAs, Authenticates, IInv, OnlyIssued
  <2> QED
    BY <1>1, <1>3, <2>1 DEF Registry!Withdraw, LiveTokens
<1>4. ASSUME NEW c \in Client, LoginPut(c) PROVE Registry!Next
  <2>0. PICK w \in User : w = attempts[c].user
    BY <1>0, <1>4 DEF LoginPut, TypeOK, Attempt
  <2>1. PICK t \in Token \ issued :
          /\ sessions' = [sessions EXCEPT ![t] =
                [user |-> w, version |-> attempts[c].account.version,
                 expires |-> attempts[c].expires]]
          /\ issued' = issued \cup {t}
    BY <1>4, <2>0 DEF LoginPut
  <2>2. /\ sessions'[t].user = w
        /\ sessions'[t].version = attempts[c].account.version
        /\ \A s \in Token \ {t} : sessions'[s] = sessions[s]
        /\ users' = users /\ now' = now
    BY <1>0, <1>4, <2>1 DEF LoginPut, TypeOK
  <2>3. \A s \in Token \ {t}, u \in User : ActsAs(s, u)' <=> ActsAs(s, u)
    BY <2>2 DEF ActsAs, Authenticates
  <2>4. \A u \in User : ~ActsAs(t, u)
    BY <2>1 DEF ActsAs, Authenticates, IInv, OnlyIssued
  <2>5. \A u \in User \ {w} : LiveTokens(u)' = LiveTokens(u)
    BY <2>2, <2>3, <2>4 DEF LiveTokens, ActsAs
  <2>6. CASE Authenticates(t)'
    <3>1. LiveTokens(w)' = LiveTokens(w) \cup {t}
      BY <2>2, <2>3, <2>6 DEF LiveTokens, ActsAs
    <3>2. LevelLogin(c, w) /\ attempts[c].final
      BY <1>4, <2>0, <2>2, <2>6 DEF LoginPut, LevelLogin, LoginAt, Authenticates
    <3>3. w \in SingleLogin => LiveTokens(w) = {}
      BY <1>0, <3>2, AuthenticatesLevel DEF LiveTokens, ActsAs, IInv, OneHolder
    <3> QED
      BY <2>1, <2>5, <3>1, <3>3 DEF Registry!Next, Registry!Grant
  <2>7. CASE ~Authenticates(t)'
    <3>1. \A u \in User : LiveTokens(u)' = LiveTokens(u)
      BY <2>3, <2>4, <2>7 DEF LiveTokens, ActsAs
    <3> QED
      BY <2>1, <3>1 DEF Registry!Next, Registry!BornDead
  <2> QED
    BY <2>6, <2>7
<1>5. CASE issued' = issued
  BY <1>3, <1>5, NextIInv DEF Registry!Next
<1>6. CASE issued' # issued
  <2>1. \E c \in Client : LoginPut(c)
    BY <1>6 DEF Next, vars, LoginRead, LoginFinalize, LoginRefuse, LoginAbort, Logout, Evict,
                ChangePassword, SaveEmail, SetUserStatus, Tick
  <2> QED
    BY <1>4, <2>1
<1> QED
  BY <1>5, <1>6

(* The two-transaction login, its revocations and its failures implement   *)
(* the registry of live tokens, for every number of accounts, tokens and   *)
(* clients.                                                                *)
THEOREM Refinement == Spec => ImplementsRegistry
  BY InitRefines, NextRefines, Inductive, PTL DEF Spec, ImplementsRegistry, Registry!Spec
=============================================================================
