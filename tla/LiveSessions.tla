---------------------------- MODULE LiveSessions ----------------------------
(***************************************************************************)
(* What the identity component promises its callers, with no clock, no     *)
(* versions, no Redis and no transactions: a set of live session tokens    *)
(* per account.  A token is handed out at most once; a token that stops    *)
(* being live never becomes live again; an account with the single-login   *)
(* policy never has two live tokens.  Sessions.tla refines this module.    *)
(***************************************************************************)
CONSTANTS User,         \* the accounts
          Token,        \* the bearer tokens that may ever be generated
          SingleLogin   \* the accounts with the single-login policy

VARIABLES live,   \* for each account, its live tokens
          spent   \* every token handed out so far

vars == <<live, spent>>

TypeOK ==
    /\ live \in [User -> SUBSET Token]
    /\ spent \in SUBSET Token

Init ==
    /\ live = [u \in User |-> {}]
    /\ spent = {}

(* A login succeeds: a token never seen before becomes live.  Under the    *)
(* single-login policy every older token is dead by then.                  *)
Grant(u, t) ==
    /\ t \notin spent
    /\ u \in SingleLogin => live[u] = {}
    /\ live' = [live EXCEPT ![u] = @ \cup {t}]
    /\ spent' = spent \cup {t}

(* A login that was overtaken by a revocation: its token is born dead.     *)
BornDead(t) ==
    /\ t \notin spent
    /\ spent' = spent \cup {t}
    /\ UNCHANGED live

(* Logout, expiry, revocation or loss of the store: tokens only disappear. *)
Withdraw ==
    /\ live' \in [User -> SUBSET Token]
    /\ \A u \in User : live'[u] \subseteq live[u]
    /\ UNCHANGED spent

Next ==
    \/ \E u \in User, t \in Token : Grant(u, t)
    \/ \E t \in Token : BornDead(t)
    \/ Withdraw

Spec == Init /\ [][Next]_vars

=============================================================================
