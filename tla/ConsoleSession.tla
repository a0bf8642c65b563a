-------------------------- MODULE ConsoleSession --------------------------
(***************************************************************************)
(* The session of one browser page of the management console: the user and *)
(* permission stores, the router with its guards, the lock screen and the  *)
(* calls in flight.  Everything a call's answer does, it does to the page  *)
(* as the page is when the answer comes, so each flow is a chain of calls: *)
(*                                                                         *)
(*   form, unlock   login, profile, auth     (store user.ts, login)        *)
(*   switch         app, auth                (header apps, switchApp)      *)
(*   load           auth, profile            (permissionGuard)             *)
(*   page           other                    (any request of a view)       *)
(*                                                                         *)
(* A flow has one call in flight at a time, which is what its loading      *)
(* button or dialog grants within one page.  One browser page: local       *)
(* storage is not written by another.                                      *)
(***************************************************************************)
EXTENDS Naturals, Sequences

CONSTANTS
    User,        \* accounts
    MaxSignIns,  \* bound on accepted sign-ins
    None         \* no token, no account

ASSUME ConsoleAssumption == MaxSignIns \in Nat /\ None \notin User \cup Nat

Token == 1 .. MaxSignIns
Flow  == {"form", "unlock", "switch", "load", "page"}

VARIABLES
    owner,  \* the account of each token issued so far
    live,   \* tokens the server accepts
    left,   \* tokens their user signed out of
    disk,   \* what local storage holds of the session: token, user
    tab,    \* the page's memory: stores, router and location
    calls   \* the call each flow waits for

consoleVars == <<owner, live, left, disk, tab, calls>>

Idle == [kind |-> "none", token |-> None, user |-> None, answer |-> "none"]

Call(kind, token, user) ==
    [kind |-> kind, token |-> token, user |-> user, answer |-> "none"]

ConsoleTypeOK ==
    /\ owner \in Seq(User) /\ Len(owner) <= MaxSignIns
    /\ live \subseteq Token /\ left \subseteq Token
    /\ disk \in [token : Token \cup {None}, user : User \cup {None}]
    /\ tab \in [token : Token \cup {None}, user : User \cup {None},
                timedOut : BOOLEAN, fetched : BOOLEAN,
                perms : User \cup {None}, dynamic : BOOLEAN, built : BOOLEAN,
                routes : SUBSET User, locked : BOOLEAN, mixed : BOOLEAN,
                page : {"blank", "login", "work"},
                nav : {"none", "work", "loading", "login", "entering"}, stray : BOOLEAN]
    /\ calls \in [Flow -> [kind : {"none", "login", "profile", "auth", "app", "other"},
                           token : Token \cup {None}, user : User \cup {None},
                           answer : {"none", "ok", "denied"}]]

-----------------------------------------------------------------------------
(* The page *)

\* A page just loaded: the stores are fresh, the cached session is read back.
\* perms stands for the roles, permissions and menus, routes for what the
\* router was given, built and fetched for the two "last time" stamps.
Loaded(d, locked, nav) ==
    [token |-> d.token, user |-> d.user,
     timedOut |-> TRUE, fetched |-> FALSE,
     perms |-> None, dynamic |-> FALSE, built |-> FALSE,
     routes |-> {}, locked |-> locked, mixed |-> FALSE,
     page |-> "blank", nav |-> nav, stray |-> FALSE]

(* Slip: a sign-out does not write through to the disk. *)
PersistedLate(t) ==
    [token |-> IF t.token = None THEN disk.token ELSE t.token, user |-> t.user]

Persisted(t) == [token |-> t.token, user |-> t.user]

\* The sign-in form that covers a page whose session timed out.
Overlay(t) == t.page = "work" /\ t.timedOut

\* A navigation replaces the one under way; one that was already entering the
\* login page still runs its afterEach when it finds out.
Going(t, where) == [t EXCEPT !.nav = where, !.stray = @ \/ t.nav = "entering"]

\* The permission store and the router without what an account was granted.
Stripped(t) ==
    [t EXCEPT !.perms = None, !.dynamic = FALSE, !.built = FALSE, !.routes = {}]

\* The local part of a sign-out: it is complete before anything is awaited.
SignedOut(t) ==
    Going([Stripped(t) EXCEPT !.token = None, !.user = None,
                              !.timedOut = TRUE, !.fetched = FALSE], "login")

\* What a navigation to the login page leaves: memory is cleared, not the disk.
Cleared(t) ==
    [Stripped(t) EXCEPT !.token = None, !.user = None, !.timedOut = FALSE]

(* Slip: the covering form goes away without loading the page again. *)
NeverReloads(old, new) == FALSE

\* The covering form goes away: a page whose menu was never built, which is
\* every page that was signed out, is loaded again and its calls are lost.
Reloads(old, new) == Overlay(old) /\ ~Overlay(new) /\ ~new.built

Show(new, kept) ==
    IF Reloads(tab, new)
    THEN /\ tab' = Loaded(disk', new.locked, IF new.page = "login" THEN "login" ELSE "work")
         /\ calls' = [f \in Flow |-> Idle]
    ELSE tab' = new /\ calls' = kept

ConsoleInit ==
    /\ owner = <<>> /\ live = {} /\ left = {}
    /\ disk = [token |-> None, user |-> None]
    /\ tab = Loaded(disk, FALSE, "work")
    /\ calls = [f \in Flow |-> Idle]

-----------------------------------------------------------------------------
(* What the user does *)

AtWork == tab.page = "work" /\ ~tab.timedOut

Free == AtWork /\ tab.nav = "none" /\ ~tab.locked /\ calls["switch"] = Idle

Send(flow, call) == [calls EXCEPT ![flow] = call]

\* Another view.  A dialog in the way (locked, switching) takes no clicks.
Browse ==
    /\ Free
    /\ tab' = Going(tab, "work")
    /\ UNCHANGED <<owner, live, left, disk, calls>>

\* The address is opened anew: a view's or the login page's.
Refresh ==
    /\ \E where \in {"work", "login"} : tab' = Loaded(disk, tab.locked, where)
    /\ calls' = [f \in Flow |-> Idle]
    /\ UNCHANGED <<owner, live, left, disk>>

\* The form stays busy until the navigation its sign-in ends with is over.
SignIn(u) ==
    /\ \/ tab.page = "login" /\ tab.nav = "none"
       \/ Overlay(tab) /\ tab.nav \in {"none", "entering"}
    /\ calls["form"] = Idle
    /\ calls' = Send("form", Call("login", None, u))
    /\ UNCHANGED <<owner, live, left, disk, tab>>

Lock ==
    /\ Free
    /\ tab' = [tab EXCEPT !.locked = TRUE]
    /\ disk' = Persisted(tab)
    /\ UNCHANGED <<owner, live, left, calls>>

\* The lock's own password needs no call.
UnlockLocally ==
    /\ AtWork /\ tab.locked /\ calls["unlock"] = Idle
    /\ tab' = [tab EXCEPT !.locked = FALSE]
    /\ disk' = Persisted(tab)
    /\ UNCHANGED <<owner, live, left, calls>>

\* Any other password is tried as the account's.
UnlockBySignIn ==
    /\ AtWork /\ tab.locked /\ calls["unlock"] = Idle
    /\ tab.user # None
    /\ calls' = Send("unlock", Call("login", None, tab.user))
    /\ UNCHANGED <<owner, live, left, disk, tab>>

\* The local half of a sign-out; the server may or may not hear of it (EndSession).
SignOut ==
    /\ Free \/ (AtWork /\ tab.locked /\ calls["unlock"] = Idle)
    /\ left' = left \cup ({tab.token} \ {None})
    /\ disk' = Persisted(SignedOut(tab))
    /\ Show([SignedOut(tab) EXCEPT !.locked = FALSE], calls)
    /\ UNCHANGED <<owner, live>>

SwitchApp ==
    /\ Free
    /\ calls' = Send("switch", Call("app", tab.token, None))
    /\ UNCHANGED <<owner, live, left, disk, tab>>

OtherRequest ==
    /\ tab.page = "work" /\ calls["page"] = Idle
    /\ calls' = Send("page", Call("other", tab.token, None))
    /\ UNCHANGED <<owner, live, left, disk, tab>>

-----------------------------------------------------------------------------
(* The router's guards *)

\* A view: no token means the login page, no routes means asking for them.
EnterView ==
    /\ tab.nav = "work"
    /\ \/ /\ tab.token = None
          /\ tab' = Going(tab, "login") /\ UNCHANGED calls
       \/ /\ tab.token # None /\ tab.dynamic
          /\ tab' = [tab EXCEPT !.page = "work", !.nav = "none"] /\ UNCHANGED calls
       \/ /\ tab.token # None /\ ~tab.dynamic /\ calls["load"] = Idle
          /\ tab' = Going(tab, "loading")
          /\ calls' = Send("load", Call("auth", tab.token, None))
    /\ UNCHANGED <<owner, live, left, disk>>

\* The login page: a session in use is sent home instead.
EnterLogin ==
    /\ tab.nav = "login"
    /\ tab' = Going(tab, IF tab.token # None /\ ~tab.timedOut THEN "work" ELSE "entering")
    /\ UNCHANGED <<owner, live, left, disk, calls>>

ArriveAtLogin ==
    /\ tab.nav = "entering"
    /\ UNCHANGED <<owner, live, left, disk>>
    /\ Show([Cleared(tab) EXCEPT !.page = "login", !.nav = "none"], calls)

\* The code of the login page could not be fetched: the page stays.
LoginNotLoaded ==
    /\ tab.nav = "entering"
    /\ tab' = [tab EXCEPT !.nav = "none"]
    /\ UNCHANGED <<owner, live, left, disk, calls>>

\* A replaced navigation to the login page clears as an arrival does.
StrayArrival ==
    /\ tab.stray
    /\ UNCHANGED <<owner, live, left, disk>>
    /\ Show([Cleared(tab) EXCEPT !.stray = FALSE], calls)

-----------------------------------------------------------------------------
(* The server, as the console sees it *)

Answered(flow, how) == [calls EXCEPT ![flow].answer = how]

Pending(flow) == calls[flow] # Idle /\ calls[flow].answer = "none"

AcceptSignIn(flow) ==
    LET token == Len(owner) + 1 IN
    /\ Pending(flow) /\ calls[flow].kind = "login" /\ token <= MaxSignIns
    /\ owner' = Append(owner, calls[flow].user)
    /\ live' = live \cup {token}
    /\ calls' = [Answered(flow, "ok") EXCEPT ![flow].token = token]
    /\ UNCHANGED <<left, disk, tab>>

Serve(flow) ==
    /\ Pending(flow) /\ calls[flow].kind # "login"
    /\ calls' = IF calls[flow].token \notin live THEN Answered(flow, "denied")
                ELSE IF calls[flow].kind = "other" THEN Send(flow, Idle)
                ELSE Answered(flow, "ok")
    /\ UNCHANGED <<owner, live, left, disk, tab>>

\* Signed out, signed in elsewhere, expired, disabled.
EndSession(t) ==
    /\ t \in live
    /\ live' = live \ {t}
    /\ UNCHANGED <<owner, left, disk, tab, calls>>

-----------------------------------------------------------------------------
(* What an answer does *)

Arrived(flow, kind) == calls[flow].kind = kind /\ calls[flow].answer = "ok"

\* What the guard that waited decides once its calls are over.
Decided(t) ==
    IF t.nav # "loading" THEN t
    ELSE IF t.token = None THEN Going(t, "login")
    ELSE IF t.dynamic THEN [t EXCEPT !.page = "work", !.nav = "none"]
    ELSE [t EXCEPT !.nav = "none"]

\* Another account takes over a page whose session was not ended.
Supplants(token) == tab.token # None /\ owner[tab.token] # owner[token]

SignInAccepted(flow) ==
    LET token == calls[flow].token
        new   == [tab EXCEPT !.token = token, !.mixed = @ \/ Supplants(token)] IN
    /\ Arrived(flow, "login")
    /\ disk' = Persisted(new)
    /\ Show(new, Send(flow, Call("profile", token, None)))
    /\ UNCHANGED <<owner, live, left>>

\* A sign-in goes on to its permissions; the guard is through.
ProfileArrived(flow) ==
    LET seen == [tab EXCEPT !.user = owner[calls[flow].token], !.fetched = TRUE] IN
    /\ Arrived(flow, "profile")
    /\ disk' = Persisted(seen)
    /\ IF flow = "load"
       THEN Show(Decided(seen), Send(flow, Idle))
       ELSE Show([seen EXCEPT !.timedOut = FALSE], Send(flow, Call("auth", tab.token, None)))
    /\ UNCHANGED <<owner, live, left>>

\* An answer to a session that is over ends the time-out of the page.
Revives(call) == tab.timedOut /\ call.token # tab.token

\* Applied to whatever session the page has by now: the routes only when none
\* were added, and a session that timed out counts as running again.
PermissionsArrived(flow) ==
    LET granted == owner[calls[flow].token]
        new == [tab EXCEPT !.perms = granted, !.built = TRUE,
                           !.routes = IF tab.dynamic THEN @ ELSE @ \cup {granted},
                           !.dynamic = TRUE, !.timedOut = FALSE,
                           !.mixed = @ \/ Revives(calls[flow]),
                           !.locked = @ /\ flow # "unlock"] IN
    /\ Arrived(flow, "auth")
    /\ disk' = Persisted(new)
    /\ CASE flow \in {"form", "switch"} -> Show(Going(new, "work"), Send(flow, Idle))
         [] flow = "load" /\ ~tab.fetched ->
                Show(new, Send(flow, Call("profile", tab.token, None)))
         [] flow = "load" /\ tab.fetched -> Show(Decided(new), Send(flow, Idle))
         [] OTHER -> Show(new, Send(flow, Idle))
    /\ UNCHANGED <<owner, live, left>>

\* The page forgets the permissions it had and asks for the chosen app's.
AppChosen(flow) ==
    LET new == [Stripped(tab) EXCEPT !.mixed = @ \/ Revives(calls[flow])] IN
    /\ Arrived(flow, "app")
    /\ disk' = Persisted(new)
    /\ Show(new, Send(flow, Call("auth", tab.token, None)))
    /\ UNCHANGED <<owner, live, left>>

(* Slip: any rejected call ends the session the page has. *)
ExpiresAny(call) == call.token # None /\ tab.token # None

\* Only the session a call was made in can time out because of it.
Expires(call) == call.token # None /\ call.token = tab.token

Denied(flow) ==
    /\ calls[flow].answer = "denied"
    /\ IF Expires(calls[flow])
       THEN /\ disk' = Persisted(SignedOut(tab))
            /\ Show(SignedOut(tab), Send(flow, Idle))
       ELSE /\ UNCHANGED disk
            /\ Show(IF flow = "load" THEN Decided(tab) ELSE tab, Send(flow, Idle))
    /\ UNCHANGED <<owner, live, left>>

\* Refused for another reason, unreachable, or ten seconds without an answer.
Failed(flow) ==
    /\ calls[flow] # Idle
    /\ UNCHANGED <<owner, live, left, disk>>
    /\ Show(IF flow = "load" THEN Decided(tab) ELSE tab, Send(flow, Idle))

-----------------------------------------------------------------------------
ConsoleNext ==
    \/ Browse \/ Refresh
    \/ \E u \in User : SignIn(u)
    \/ Lock \/ UnlockLocally \/ UnlockBySignIn \/ SignOut \/ SwitchApp \/ OtherRequest
    \/ EnterView \/ EnterLogin \/ ArriveAtLogin \/ LoginNotLoaded \/ StrayArrival
    \/ \E f \in Flow : AcceptSignIn(f) \/ Serve(f)
    \/ \E t \in Token : EndSession(t)
    \/ \E f \in Flow : \/ SignInAccepted(f) \/ ProfileArrived(f) \/ PermissionsArrived(f)
                       \/ AppChosen(f) \/ Denied(f) \/ Failed(f)

ConsoleSpec == ConsoleInit /\ [][ConsoleNext]_consoleVars

-----------------------------------------------------------------------------
(* Safety *)

\* A session the server still accepts is dropped only by its user, or by a
\* login page that was being entered before the session began.  Answers to an
\* earlier session never end it (unauthorized.ts, foundation-acceptance.md).
StaysSignedIn ==
    [][tab.token # None /\ tab'.token = None
         => \/ tab.token \notin live
            \/ tab.token \in left'
            \/ tab.nav = "entering" \/ tab.stray]_consoleVars

\* A session its user left never comes back, neither from a late answer nor
\* from what local storage kept when the page is loaded again (user.ts logout).
SignedOutStaysOut == left \cap {tab.token, disk.token} = {}

\* No sign-in or choice of app is under way.
Settled ==
    /\ tab.page = "work" /\ tab.nav = "none" /\ tab.token # None /\ tab.dynamic
    /\ \A f \in Flow \ {"page"} : calls[f] = Idle

\* A settled page shows the menus, permissions and routes of the account that
\* is signed in, whichever account used the page before and whatever was in
\* flight when it was signed out (saas-foundation-plan.md, stage C).  What
\* that takes is that a signed-out page is loaded again before the next
\* sign-in is through.  The two ways around it are what mixed records: a late
\* answer that ends the time-out, and a sign-in over a session not ended.
NoResidue ==
    Settled /\ ~tab.mixed
        => tab.perms = owner[tab.token] /\ tab.routes = {owner[tab.token]}
=============================================================================
