------------------------ MODULE ConsoleSession_proofs ------------------------
(***************************************************************************)
(* Three things of a page's session.  A session its user left does not     *)
(* come back: the invariant adds that a token which a sign-in was answered *)
(* with, and no answer has delivered yet, is nobody else's, so neither the *)
(* page nor the disk can have left it.  A session the server accepts is    *)
(* not dropped behind its user, and a settled page shows its own account's *)
(* permissions: a second invariant follows the page from one of its        *)
(* locations to the next, with the calls that may be in flight there and   *)
(* whom they were asked for.                                               *)
(***************************************************************************)
EXTENDS ConsoleSession, TLAPS

Tab == [token : Token \cup {None}, user : User \cup {None},
        timedOut : BOOLEAN, fetched : BOOLEAN,
        perms : User \cup {None}, dynamic : BOOLEAN, built : BOOLEAN,
        routes : SUBSET User, locked : BOOLEAN, mixed : BOOLEAN,
        page : {"blank", "login", "work"},
        nav : {"none", "work", "loading", "login", "entering"}, stray : BOOLEAN]

Calling == [kind : {"none", "login", "profile", "auth", "app", "other"},
            token : Token \cup {None}, user : User \cup {None},
            answer : {"none", "ok", "denied"}]

Disk == [token : Token \cup {None}, user : User \cup {None}]

\* A sign-in whose token has not reached the page.
Waiting(call) == call.kind = "login" /\ call.answer = "ok"

\* What the tokens of the page, t, of the disk, d, and of the calls, c, have
\* to do with those that were issued, k, and those that were left, l.
Held(k, l, t, d, c) ==
    /\ t \in k \cup {None} /\ d \in k \cup {None}
    /\ t \notin l /\ d \notin l
    /\ \A f \in Flow : c[f].answer = "ok" => c[f].token \in k
    /\ \A f \in Flow : c[f].kind = "login" => c[f].user \in User
    /\ \A f \in Flow : Waiting(c[f]) => c[f].token \notin l /\ c[f].token # t /\ c[f].token # d
    /\ \A f, g \in Flow : f # g /\ Waiting(c[f]) /\ Waiting(c[g]) => c[f].token # c[g].token

Issued == 1 .. Len(owner)

IInv ==
    /\ ConsoleTypeOK
    /\ live \subseteq Issued /\ left \subseteq Issued
    /\ Held(Issued, left, tab.token, disk.token, calls)

-----------------------------------------------------------------------------
(* The operators on the page keep its type and say what becomes of its     *)
(* token.                                                                  *)

LEMMA IdleIsCalling == Idle \in Calling /\ Idle.answer = "none" /\ Idle.kind # "login"
  BY DEF Idle, Calling

LEMMA CallIsCalling ==
  ASSUME NEW kind \in {"login", "profile", "auth", "app", "other"},
         NEW token \in Token \cup {None}, NEW user \in User \cup {None}
  PROVE  /\ Call(kind, token, user) \in Calling
         /\ Call(kind, token, user).answer = "none"
         /\ Call(kind, token, user).kind = kind
         /\ Call(kind, token, user).user = user
  BY DEF Call, Calling

LEMMA LoadedTab ==
  ASSUME NEW d \in Disk, NEW locked \in BOOLEAN, NEW nav \in {"work", "login"}
  PROVE  Loaded(d, locked, nav) \in Tab /\ Loaded(d, locked, nav).token = d.token
  BY DEF Loaded, Tab, Disk

LEMMA GoingTab ==
  ASSUME NEW t \in Tab, NEW where \in {"none", "work", "loading", "login", "entering"}
  PROVE  /\ Going(t, where) \in Tab
         /\ Going(t, where).token = t.token /\ Going(t, where).user = t.user
  BY DEF Going, Tab

LEMMA StrippedTab ==
  ASSUME NEW t \in Tab
  PROVE  Stripped(t) \in Tab /\ Stripped(t).token = t.token /\ Stripped(t).user = t.user
  BY DEF Stripped, Tab

LEMMA SignedOutTab ==
  ASSUME NEW t \in Tab
  PROVE  SignedOut(t) \in Tab /\ SignedOut(t).token = None
  <1> DEFINE out == [Stripped(t) EXCEPT !.token = None, !.user = None,
                                        !.timedOut = TRUE, !.fetched = FALSE]
  <1>1. out \in Tab /\ out.token = None
    BY StrippedTab DEF Tab
  <1> QED BY <1>1, GoingTab DEF SignedOut

LEMMA ClearedTab ==
  ASSUME NEW t \in Tab
  PROVE  Cleared(t) \in Tab /\ Cleared(t).token = None
  BY StrippedTab DEF Cleared, Tab

LEMMA DecidedTab ==
  ASSUME NEW t \in Tab
  PROVE  Decided(t) \in Tab /\ Decided(t).token = t.token
  <1>1. [t EXCEPT !.page = "work", !.nav = "none"] \in Tab
    BY DEF Tab
  <1>2. [t EXCEPT !.nav = "none"] \in Tab
    BY DEF Tab
  <1> QED BY <1>1, <1>2, GoingTab DEF Decided, Tab

LEMMA PersistedDisk ==
  ASSUME NEW t \in Tab
  PROVE  Persisted(t) \in Disk /\ Persisted(t).token = t.token
  BY DEF Persisted, Disk, Tab

-----------------------------------------------------------------------------
(* How Held follows from what it was.                                      *)

LEMMA HeldElsewhere ==
  ASSUME NEW k, NEW l, NEW t, NEW d, NEW c, Held(k, l, t, d, c), None \notin l,
         \A f \in Flow : Waiting(c[f]) => c[f].token # None,
         NEW s \in {t, d, None}, NEW e \in {t, d, None}
  PROVE  Held(k, l, s, e, c)
  BY DEF Held

LEMMA HeldWithCall ==
  ASSUME NEW k, NEW l, NEW t, NEW d, NEW c \in [Flow -> Calling], Held(k, l, t, d, c),
         NEW f \in Flow, NEW call \in Calling,
         call.answer # "ok", call.kind = "login" => call.user \in User
  PROVE  /\ [c EXCEPT ![f] = call] \in [Flow -> Calling]
         /\ Held(k, l, t, d, [c EXCEPT ![f] = call])
  BY DEF Held, Waiting

LEMMA HeldByNobody ==
  ASSUME NEW k, NEW l, NEW t \in k \cup {None}, t \notin l
  PROVE  /\ [f \in Flow |-> Idle] \in [Flow -> Calling]
         /\ Held(k, l, t, t, [f \in Flow |-> Idle])
  BY IdleIsCalling DEF Held, Waiting

-----------------------------------------------------------------------------
(* The steps.                                                              *)

LEMMA Facts ==
  ASSUME IInv
  PROVE  /\ tab \in Tab /\ disk \in Disk /\ calls \in [Flow -> Calling]
         /\ Issued \subseteq Token /\ None \notin Issued /\ None \notin left
         /\ \A f \in Flow : Waiting(calls[f]) => calls[f].token # None
         /\ \A n \in Issued : owner[n] \in User
         /\ owner \in Seq(User) /\ Len(owner) \in Nat
  <1>1. owner \in Seq(User) /\ Len(owner) \in Nat /\ Len(owner) <= MaxSignIns
    BY DEF IInv, ConsoleTypeOK
  <1>2. Issued \subseteq Token /\ None \notin Issued
    BY <1>1, ConsoleAssumption DEF Issued, Token
  <1>3. tab \in Tab /\ disk \in Disk /\ calls \in [Flow -> Calling]
    BY DEF IInv, ConsoleTypeOK, Tab, Disk, Calling
  <1>4. None \notin left /\ \A f \in Flow : Waiting(calls[f]) => calls[f].token # None
    BY <1>2 DEF IInv, Held, Waiting
  <1>5. \A n \in Issued : owner[n] \in User
    BY <1>1 DEF Issued
  <1> QED BY <1>1, <1>2, <1>3, <1>4, <1>5

\* An action that leaves the tokens issued and accepted alone, and changes the
\* page by Show.
LEMMA ShowKeeps ==
  ASSUME IInv, UNCHANGED <<owner, live>>,
         left' \subseteq Issued, disk' \in Disk,
         NEW new \in Tab, NEW kept \in [Flow -> Calling],
         Held(Issued, left', new.token, disk'.token, kept),
         Show(new, kept)
  PROVE  IInv'
  <1>1. Issued' = Issued
    BY DEF Issued
  <1>2. tab' \in Tab /\ calls' \in [Flow -> Calling] /\ Held(Issued, left', tab'.token, disk'.token, calls')
    <2>1. CASE Reloads(tab, new)
      <3> DEFINE nav == IF new.page = "login" THEN "login" ELSE "work"
      <3>1. tab' = Loaded(disk', new.locked, nav) /\ calls' = [f \in Flow |-> Idle]
        BY <2>1 DEF Show
      <3>2. tab' \in Tab /\ tab'.token = disk'.token
        BY <3>1, LoadedTab DEF Tab
      <3>3. disk'.token \in Issued \cup {None} /\ disk'.token \notin left'
        BY DEF Held
      <3> QED BY <3>1, <3>2, <3>3, HeldByNobody
    <2>2. CASE ~Reloads(tab, new)
      BY <2>2 DEF Show
    <2> QED BY <2>1, <2>2
  <1>3. ConsoleTypeOK'
    <2>1. left' \subseteq Token
      BY Facts
    <2> QED BY <1>2, <2>1 DEF IInv, ConsoleTypeOK, Tab, Disk, Calling
  <1> QED BY <1>1, <1>2, <1>3 DEF IInv

\* The same, without Show, and with left as it was.
LEMMA QuietKeeps ==
  ASSUME IInv, UNCHANGED <<owner, left>>, live' \subseteq live,
         disk' \in Disk, tab' \in Tab, calls' \in [Flow -> Calling],
         Held(Issued, left, tab'.token, disk'.token, calls')
  PROVE  IInv'
  BY DEF IInv, ConsoleTypeOK, Tab, Disk, Calling, Issued

LEMMA UserKeeps ==
  ASSUME IInv,
         \/ Browse \/ Refresh \/ (\E u \in User : SignIn(u))
         \/ Lock \/ UnlockLocally \/ UnlockBySignIn \/ SignOut \/ SwitchApp \/ OtherRequest
  PROVE  IInv'
  <1> USE Facts
  <1>0. Held(Issued, left, tab.token, disk.token, calls)
    BY DEF IInv
  <1>1. CASE Browse
    BY <1>0, <1>1, GoingTab, QuietKeeps DEF Browse
  <1>2. CASE Refresh
    <2>1. PICK where \in {"work", "login"} : tab' = Loaded(disk, tab.locked, where)
      BY <1>2 DEF Refresh
    <2>2. tab' \in Tab /\ tab'.token = disk.token
      BY <2>1, LoadedTab DEF Tab
    <2>3. disk.token \in Issued \cup {None} /\ disk.token \notin left
      BY <1>0 DEF Held
    <2> QED BY <1>2, <2>2, <2>3, HeldByNobody, QuietKeeps DEF Refresh
  <1>3. CASE \E u \in User : SignIn(u)
    <2>1. PICK u \in User : SignIn(u)
      BY <1>3
    <2> DEFINE call == Call("login", None, u)
    <2>2. call \in Calling /\ call.answer # "ok" /\ call.user \in User
      BY CallIsCalling
    <2> HIDE DEF call
    <2>3. Held(Issued, left, tab.token, disk.token, [calls EXCEPT !["form"] = call])
          /\ [calls EXCEPT !["form"] = call] \in [Flow -> Calling]
      BY <1>0, <2>2, HeldWithCall DEF Flow
    <2> QED BY <2>1, <2>3, QuietKeeps DEF SignIn, Send, call
  <1>4. CASE Lock
    <2>1. disk' \in Disk /\ disk'.token = tab.token
      BY <1>4, PersistedDisk DEF Lock
    <2>2. tab' \in Tab /\ tab'.token = tab.token
      BY <1>4 DEF Lock, Tab
    <2>3. Held(Issued, left, tab'.token, disk'.token, calls)
      BY <1>0, <2>1, <2>2, HeldElsewhere
    <2> QED BY <1>4, <2>1, <2>2, <2>3, QuietKeeps DEF Lock
  <1>5. CASE UnlockLocally
    <2>1. disk' \in Disk /\ disk'.token = tab.token
      BY <1>5, PersistedDisk DEF UnlockLocally
    <2>2. tab' \in Tab /\ tab'.token = tab.token
      BY <1>5 DEF UnlockLocally, Tab
    <2>3. Held(Issued, left, tab'.token, disk'.token, calls)
      BY <1>0, <2>1, <2>2, HeldElsewhere
    <2> QED BY <1>5, <2>1, <2>2, <2>3, QuietKeeps DEF UnlockLocally
  <1>6. CASE UnlockBySignIn
    <2>1. PICK u \in User : u = tab.user
      BY <1>6 DEF UnlockBySignIn, Tab
    <2> DEFINE call == Call("login", None, u)
    <2>2. call \in Calling /\ call.answer # "ok" /\ call.user \in User
      BY CallIsCalling
    <2> HIDE DEF call
    <2>3. Held(Issued, left, tab.token, disk.token, [calls EXCEPT !["unlock"] = call])
          /\ [calls EXCEPT !["unlock"] = call] \in [Flow -> Calling]
      BY <1>0, <2>2, HeldWithCall DEF Flow
    <2> QED BY <1>6, <2>1, <2>3, QuietKeeps DEF UnlockBySignIn, Send, call
  <1>7. CASE SignOut
    <2> DEFINE new == [SignedOut(tab) EXCEPT !.locked = FALSE]
    <2>1. new \in Tab /\ new.token = None
      BY SignedOutTab DEF Tab
    <2>2. disk' \in Disk /\ disk'.token = None
      BY <1>7, SignedOutTab, PersistedDisk DEF SignOut
    <2>3. left' = left \cup ({tab.token} \ {None})
      BY <1>7 DEF SignOut
    <2>4. left' \subseteq Issued /\ None \notin left'
      BY <1>0, <2>3 DEF IInv, Held
    <2>5. Held(Issued, left', None, None, calls)
      BY <1>0, <2>3, <2>4 DEF Held
    <2>6. Show(new, calls) /\ UNCHANGED <<owner, live>>
      BY <1>7 DEF SignOut
    <2> HIDE DEF new
    <2> QED BY <2>1, <2>2, <2>4, <2>5, <2>6, ShowKeeps
  <1>8. CASE SwitchApp
    <2> DEFINE call == Call("app", tab.token, None)
    <2>1. call \in Calling /\ call.answer # "ok" /\ call.kind # "login"
      BY CallIsCalling DEF Tab
    <2> HIDE DEF call
    <2>2. Held(Issued, left, tab.token, disk.token, [calls EXCEPT !["switch"] = call])
          /\ [calls EXCEPT !["switch"] = call] \in [Flow -> Calling]
      BY <1>0, <2>1, HeldWithCall DEF Flow
    <2> QED BY <1>8, <2>2, QuietKeeps DEF SwitchApp, Send, call
  <1>9. CASE OtherRequest
    <2> DEFINE call == Call("other", tab.token, None)
    <2>1. call \in Calling /\ call.answer # "ok" /\ call.kind # "login"
      BY CallIsCalling DEF Tab
    <2> HIDE DEF call
    <2>2. Held(Issued, left, tab.token, disk.token, [calls EXCEPT !["page"] = call])
          /\ [calls EXCEPT !["page"] = call] \in [Flow -> Calling]
      BY <1>0, <2>1, HeldWithCall DEF Flow
    <2> QED BY <1>9, <2>2, QuietKeeps DEF OtherRequest, Send, call
  <1> QED BY <1>1, <1>2, <1>3, <1>4, <1>5, <1>6, <1>7, <1>8, <1>9

LEMMA GuardKeeps ==
  ASSUME IInv, EnterView \/ EnterLogin \/ ArriveAtLogin \/ LoginNotLoaded \/ StrayArrival
  PROVE  IInv'
  <1> USE Facts
  <1>0. Held(Issued, left, tab.token, disk.token, calls)
    BY DEF IInv
  <1>1. CASE EnterView
    <2>1. tab' \in Tab /\ tab'.token = tab.token
      <3>1. [tab EXCEPT !.page = "work", !.nav = "none"] \in Tab
        BY DEF Tab
      <3>2. \/ tab' = Going(tab, "login") \/ tab' = Going(tab, "loading")
            \/ tab' = [tab EXCEPT !.page = "work", !.nav = "none"]
        BY <1>1 DEF EnterView
      <3>3. [tab EXCEPT !.page = "work", !.nav = "none"].token = tab.token
        BY DEF Tab
      <3> QED BY <3>1, <3>2, <3>3, GoingTab
    <2>2. CASE UNCHANGED calls
      BY <1>0, <1>1, <2>1, <2>2, QuietKeeps DEF EnterView
    <2>3. CASE calls' = Send("load", Call("auth", tab.token, None))
      <3> DEFINE call == Call("auth", tab.token, None)
      <3>1. call \in Calling /\ call.answer # "ok" /\ call.kind # "login"
        BY CallIsCalling DEF Tab
      <3> HIDE DEF call
      <3>2. Held(Issued, left, tab.token, disk.token, [calls EXCEPT !["load"] = call])
            /\ [calls EXCEPT !["load"] = call] \in [Flow -> Calling]
        BY <1>0, <3>1, HeldWithCall DEF Flow
      <3> QED BY <1>1, <2>1, <2>3, <3>2, QuietKeeps DEF EnterView, Send, call
    <2> QED BY <1>1, <2>2, <2>3 DEF EnterView
  <1>2. CASE EnterLogin
    BY <1>0, <1>2, GoingTab, QuietKeeps DEF EnterLogin
  <1>3. CASE ArriveAtLogin
    <2> DEFINE new == [Cleared(tab) EXCEPT !.page = "login", !.nav = "none"]
    <2>1. new \in Tab /\ new.token = None
      BY ClearedTab DEF Tab
    <2>2. Held(Issued, left, None, disk.token, calls)
      BY <1>0, HeldElsewhere
    <2>3. Show(new, calls) /\ UNCHANGED <<owner, live, left, disk>>
      BY <1>3 DEF ArriveAtLogin
    <2> HIDE DEF new
    <2> QED BY <2>1, <2>2, <2>3, ShowKeeps DEF IInv
  <1>4. CASE LoginNotLoaded
    <2>1. tab' \in Tab /\ tab'.token = tab.token
      BY <1>4 DEF LoginNotLoaded, Tab
    <2> QED BY <1>0, <1>4, <2>1, QuietKeeps DEF LoginNotLoaded
  <1>5. CASE StrayArrival
    <2> DEFINE new == [Cleared(tab) EXCEPT !.stray = FALSE]
    <2>1. new \in Tab /\ new.token = None
      BY ClearedTab DEF Tab
    <2>2. Held(Issued, left, None, disk.token, calls)
      BY <1>0, HeldElsewhere
    <2>3. Show(new, calls) /\ UNCHANGED <<owner, live, left, disk>>
      BY <1>5 DEF StrayArrival
    <2> HIDE DEF new
    <2> QED BY <2>1, <2>2, <2>3, ShowKeeps DEF IInv
  <1> QED BY <1>1, <1>2, <1>3, <1>4, <1>5

LEMMA ServerKeeps ==
  ASSUME IInv,
         \/ \E f \in Flow : AcceptSignIn(f) \/ Serve(f)
         \/ \E t \in Token : EndSession(t)
  PROVE  IInv'
  <1> USE Facts
  <1>0. Held(Issued, left, tab.token, disk.token, calls)
    BY DEF IInv
  <1>1. ASSUME NEW f \in Flow, AcceptSignIn(f) PROVE IInv'
    <2> DEFINE token == Len(owner) + 1
               call  == [calls[f] EXCEPT !.answer = "ok", !.token = token]
    <2>1. /\ token \in Token /\ token \notin Issued
          /\ calls[f].kind = "login"
          /\ owner' = Append(owner, calls[f].user) /\ live' = live \cup {token}
          /\ UNCHANGED <<left, disk, tab>>
      BY <1>1 DEF AcceptSignIn, Token, Issued
    <2>2. calls' = [calls EXCEPT ![f] = call]
      BY <1>1 DEF AcceptSignIn, Answered, Calling
    <2>3. calls[f].user \in User
      BY <1>0, <2>1 DEF Held
    <2>4. owner' \in Seq(User) /\ Len(owner') = token /\ Issued' = Issued \cup {token}
      BY <2>1, <2>3 DEF Issued
    <2>5. call \in Calling /\ call.token = token /\ call.kind = "login" /\ call.user = calls[f].user
      BY <2>1 DEF Calling
    <2>6. calls' \in [Flow -> Calling] /\ calls'[f] = call /\ \A g \in Flow \ {f} : calls'[g] = calls[g]
      BY <2>2, <2>5
    <2> HIDE DEF call
    <2>7. token \notin left /\ token # tab.token /\ token # disk.token
      BY <1>0, <2>1, ConsoleAssumption DEF IInv, Held, Token
    <2>8. \A g \in Flow \ {f} : Waiting(calls'[g]) => calls'[g].token \in Issued
      BY <1>0, <2>6 DEF Held, Waiting
    <2>9. Held(Issued', left', tab'.token, disk'.token, calls')
      BY <1>0, <2>1, <2>3, <2>4, <2>5, <2>6, <2>7, <2>8 DEF Held, Waiting
    <2>10. ConsoleTypeOK'
      <3>1. Len(owner') <= MaxSignIns /\ live' \subseteq Token /\ left' \subseteq Token
        <4>1. live \subseteq Token /\ left \subseteq Token
          BY DEF IInv
        <4>2. token <= MaxSignIns
          BY <2>1, ConsoleAssumption DEF Token
        <4> HIDE DEF token
        <4> QED BY <2>1, <2>4, <4>1, <4>2
      <3>2. tab' \in Tab /\ disk' \in Disk
        BY <2>1
      <3> QED BY <2>4, <2>6, <3>1, <3>2 DEF ConsoleTypeOK, Tab, Disk, Calling
    <2> QED BY <2>1, <2>4, <2>9, <2>10 DEF IInv
  <1>2. ASSUME NEW f \in Flow, Serve(f) PROVE IInv'
    <2>1. /\ calls[f].kind # "login"
          /\ UNCHANGED <<owner, live, left, disk, tab>>
      BY <1>2 DEF Serve
    <2>2. \/ calls' = [calls EXCEPT ![f] = [@ EXCEPT !.answer = "denied"]]
          \/ calls' = [calls EXCEPT ![f] = Idle]
          \/ calls[f].token \in live /\ calls' = [calls EXCEPT ![f] = [@ EXCEPT !.answer = "ok"]]
      <3>1. CASE calls[f].token \notin live
        BY <1>2, <3>1 DEF Serve, Answered
      <3>2. CASE calls[f].token \in live /\ calls[f].kind = "other"
        BY <1>2, <3>2 DEF Serve, Send
      <3>3. CASE calls[f].token \in live /\ calls[f].kind # "other"
        BY <1>2, <3>3 DEF Serve, Answered
      <3> QED BY <3>1, <3>2, <3>3
    <2>3. \A how \in {"denied", "ok"} :
             [calls[f] EXCEPT !.answer = how] \in Calling /\ [calls[f] EXCEPT !.answer = how].kind # "login"
               /\ [calls[f] EXCEPT !.answer = how].token = calls[f].token
               /\ [calls[f] EXCEPT !.answer = how].answer = how
      BY <2>1 DEF Calling
    <2>4. calls' \in [Flow -> Calling] /\ Held(Issued, left, tab.token, disk.token, calls')
      <3>1. CASE calls' = [calls EXCEPT ![f] = [@ EXCEPT !.answer = "denied"]]
        BY <1>0, <2>3, <3>1, HeldWithCall
      <3>2. CASE calls' = [calls EXCEPT ![f] = Idle]
        BY <1>0, <3>2, HeldWithCall, IdleIsCalling
      <3>3. CASE calls[f].token \in live /\ calls' = [calls EXCEPT ![f] = [@ EXCEPT !.answer = "ok"]]
        <4>1. calls[f].token \in Issued
          BY <3>3 DEF IInv
        <4>2. /\ calls' \in [Flow -> Calling] /\ calls'[f].kind # "login"
              /\ calls'[f].token \in Issued
              /\ \A g \in Flow \ {f} : calls'[g] = calls[g]
          BY <2>3, <3>3, <4>1
        <4> QED BY <1>0, <4>2 DEF Held, Waiting
      <3> QED BY <2>2, <3>1, <3>2, <3>3
    <2> QED BY <2>1, <2>4, QuietKeeps
  <1>3. ASSUME NEW t \in Token, EndSession(t) PROVE IInv'
    BY <1>0, <1>3, QuietKeeps DEF EndSession
  <1> QED BY <1>1, <1>2, <1>3

LEMMA AnswerKeeps ==
  ASSUME IInv, NEW f \in Flow,
         \/ SignInAccepted(f) \/ ProfileArrived(f) \/ PermissionsArrived(f)
         \/ AppChosen(f) \/ Denied(f) \/ Failed(f)
  PROVE  IInv'
  <1> USE Facts
  <1>0. Held(Issued, left, tab.token, disk.token, calls) /\ left \subseteq Issued
    BY DEF IInv
  \* What every case needs of the calls: the flow waits for nothing, or for
  \* another call made with the token of the page.
  <1>a. ASSUME NEW t \in {tab.token, None}, NEW e \in {tab.token, disk.token, None}
        PROVE  /\ Send(f, Idle) \in [Flow -> Calling]
               /\ Held(Issued, left, t, e, Send(f, Idle))
    <2>1. Held(Issued, left, t, e, calls)
      BY <1>0, HeldElsewhere
    <2>2. Idle \in Calling /\ Idle.answer # "ok" /\ Idle.kind # "login"
      BY IdleIsCalling
    <2>3. [calls EXCEPT ![f] = Idle] \in [Flow -> Calling]
          /\ Held(Issued, left, t, e, [calls EXCEPT ![f] = Idle])
      BY <2>1, <2>2, HeldWithCall
    <2> QED BY <2>3 DEF Send
  <1>b. ASSUME NEW kind \in {"profile", "auth"}
        PROVE  /\ Send(f, Call(kind, tab.token, None)) \in [Flow -> Calling]
               /\ Held(Issued, left, tab.token, tab.token, Send(f, Call(kind, tab.token, None)))
    <2> DEFINE call == Call(kind, tab.token, None)
    <2>1. call \in Calling /\ call.answer # "ok" /\ call.kind # "login"
      BY CallIsCalling DEF Tab
    <2> HIDE DEF call
    <2>2. Held(Issued, left, tab.token, tab.token, calls)
      BY <1>0, HeldElsewhere
    <2>3. [calls EXCEPT ![f] = call] \in [Flow -> Calling]
          /\ Held(Issued, left, tab.token, tab.token, [calls EXCEPT ![f] = call])
      BY <2>1, <2>2, HeldWithCall
    <2> QED BY <2>3 DEF Send, call
  <1>1. CASE SignInAccepted(f)
    <2> DEFINE token == calls[f].token
               new   == [tab EXCEPT !.token = token, !.mixed = @ \/ Supplants(token)]
               call  == Call("profile", token, None)
               kept  == [calls EXCEPT ![f] = call]
    <2>1. Waiting(calls[f]) /\ token \in Issued
      BY <1>0, <1>1 DEF SignInAccepted, Arrived, Waiting, Held
    <2>2. new \in Tab /\ new.token = token
      <3>1. (tab.mixed \/ Supplants(token)) \in BOOLEAN
        OBVIOUS
      <3> QED BY <2>1, <3>1 DEF Tab
    <2>3. call \in Calling /\ call.answer # "ok" /\ call.kind # "login"
      BY <2>1, CallIsCalling
    <2>4. kept \in [Flow -> Calling] /\ kept[f] = call /\ \A g \in Flow \ {f} : kept[g] = calls[g]
      BY <2>3
    <2>5. disk' = Persisted(new) /\ Show(new, kept) /\ UNCHANGED <<owner, live, left>>
      BY <1>1 DEF SignInAccepted, Send
    <2> HIDE DEF new, call, kept
    <2>6. disk' \in Disk /\ disk'.token = token
      BY <2>2, <2>5, PersistedDisk
    <2>7. Held(Issued, left, token, token, kept)
      BY <1>0, <2>1, <2>3, <2>4 DEF Held, Waiting
    <2> QED BY <1>0, <2>2, <2>4, <2>5, <2>6, <2>7, ShowKeeps
  <1>2. CASE ProfileArrived(f)
    <2> DEFINE seen == [tab EXCEPT !.user = owner[calls[f].token], !.fetched = TRUE]
               done == [seen EXCEPT !.timedOut = FALSE]
    <2>1. owner[calls[f].token] \in User
      BY <1>0, <1>2 DEF ProfileArrived, Arrived, Held
    <2>2. seen \in Tab /\ seen.token = tab.token /\ done \in Tab /\ done.token = tab.token
      BY <2>1 DEF Tab
    <2>3. disk' = Persisted(seen) /\ UNCHANGED <<owner, live, left>>
      BY <1>2 DEF ProfileArrived
    <2>4. \/ Show(Decided(seen), Send(f, Idle))
          \/ Show(done, Send(f, Call("auth", tab.token, None)))
      BY <1>2 DEF ProfileArrived
    <2> HIDE DEF seen, done
    <2>5. disk' \in Disk /\ disk'.token = tab.token
      BY <2>2, <2>3, PersistedDisk
    <2>6. CASE Show(Decided(seen), Send(f, Idle))
      BY <1>0, <1>a, <2>2, <2>3, <2>5, <2>6, DecidedTab, ShowKeeps
    <2>7. CASE Show(done, Send(f, Call("auth", tab.token, None)))
      BY <1>0, <1>b, <2>2, <2>3, <2>5, <2>7, ShowKeeps
    <2> QED BY <2>4, <2>6, <2>7
  <1>3. CASE PermissionsArrived(f)
    <2> DEFINE granted == owner[calls[f].token]
               new == [tab EXCEPT !.perms = granted, !.built = TRUE,
                                  !.routes = IF tab.dynamic THEN @ ELSE @ \cup {granted},
                                  !.dynamic = TRUE, !.timedOut = FALSE,
                                  !.mixed = @ \/ Revives(calls[f]),
                                  !.locked = @ /\ f # "unlock"]
    <2>1. granted \in User
      BY <1>0, <1>3 DEF PermissionsArrived, Arrived, Held
    <2>2. new \in Tab /\ new.token = tab.token
      <3> DEFINE rs == IF tab.dynamic THEN tab.routes ELSE tab.routes \cup {granted}
                 mx == tab.mixed \/ Revives(calls[f])
                 lk == tab.locked /\ f # "unlock"
                 with == [tab EXCEPT !.perms = granted, !.built = TRUE, !.routes = rs,
                                     !.dynamic = TRUE, !.timedOut = FALSE,
                                     !.mixed = mx, !.locked = lk]
      <3>1. rs \in SUBSET User
        BY <2>1 DEF Tab
      <3>2. mx \in BOOLEAN /\ lk \in BOOLEAN
        OBVIOUS
      <3>3. new = with
        OBVIOUS
      <3> HIDE DEF granted, new, rs, mx, lk
      <3>4. with \in Tab /\ with.token = tab.token
        BY <2>1, <3>1, <3>2 DEF Tab
      <3> QED BY <3>3, <3>4
    <2>3. disk' = Persisted(new) /\ UNCHANGED <<owner, live, left>>
      BY <1>3 DEF PermissionsArrived
    <2>4. \/ Show(Going(new, "work"), Send(f, Idle))
          \/ Show(new, Send(f, Call("profile", tab.token, None)))
          \/ Show(Decided(new), Send(f, Idle))
          \/ Show(new, Send(f, Idle))
      <3> HIDE DEF new
      <3>1. CASE f \in {"form", "switch"}
        BY <1>3, <3>1 DEF PermissionsArrived, new
      <3>2. CASE f = "load" /\ ~tab.fetched
        BY <1>3, <3>2 DEF PermissionsArrived, new
      <3>3. CASE f = "load" /\ tab.fetched
        BY <1>3, <3>3 DEF PermissionsArrived, new
      <3>4. CASE f \in {"unlock", "page"}
        BY <1>3, <3>4 DEF PermissionsArrived, new
      <3> QED BY <3>1, <3>2, <3>3, <3>4 DEF Flow
    <2> HIDE DEF new
    <2>5. disk' \in Disk /\ disk'.token = tab.token
      BY <2>2, <2>3, PersistedDisk
    <2>6. CASE Show(Going(new, "work"), Send(f, Idle))
      BY <1>0, <1>a, <2>2, <2>3, <2>5, <2>6, GoingTab, ShowKeeps
    <2>7. CASE Show(new, Send(f, Call("profile", tab.token, None)))
      BY <1>0, <1>b, <2>2, <2>3, <2>5, <2>7, ShowKeeps
    <2>8. CASE Show(Decided(new), Send(f, Idle))
      BY <1>0, <1>a, <2>2, <2>3, <2>5, <2>8, DecidedTab, ShowKeeps
    <2>9. CASE Show(new, Send(f, Idle))
      BY <1>0, <1>a, <2>2, <2>3, <2>5, <2>9, ShowKeeps
    <2> QED BY <2>4, <2>6, <2>7, <2>8, <2>9
  <1>4. CASE AppChosen(f)
    <2> DEFINE new == [Stripped(tab) EXCEPT !.mixed = @ \/ Revives(calls[f])]
    <2>1. new \in Tab /\ new.token = tab.token
      <3>1. \E m \in BOOLEAN : m = (Stripped(tab).mixed \/ Revives(calls[f]))
        OBVIOUS
      <3>2. PICK m \in BOOLEAN : new = [Stripped(tab) EXCEPT !.mixed = m]
        BY <3>1
      <3> HIDE DEF new
      <3> QED BY <3>2, StrippedTab DEF Tab
    <2>2. /\ disk' = Persisted(new) /\ UNCHANGED <<owner, live, left>>
          /\ Show(new, Send(f, Call("auth", tab.token, None)))
      BY <1>4 DEF AppChosen
    <2> HIDE DEF new
    <2>3. disk' \in Disk /\ disk'.token = tab.token
      BY <2>1, <2>2, PersistedDisk
    <2> QED BY <1>0, <1>b, <2>1, <2>2, <2>3, ShowKeeps
  <1>5. CASE Denied(f)
    <2>1. UNCHANGED <<owner, live, left>>
      BY <1>5 DEF Denied
    <2>2. CASE Expires(calls[f])
      <3>1. disk' \in Disk /\ disk'.token = None
        BY <1>5, <2>2, SignedOutTab, PersistedDisk DEF Denied
      <3>2. Show(SignedOut(tab), Send(f, Idle))
        BY <1>5, <2>2 DEF Denied
      <3> QED BY <1>0, <1>a, <2>1, <3>1, <3>2, SignedOutTab, ShowKeeps
    <2>3. CASE ~Expires(calls[f])
      <3>1. disk' = disk
        BY <1>5, <2>3 DEF Denied
      <3>2. Show(Decided(tab), Send(f, Idle)) \/ Show(tab, Send(f, Idle))
        BY <1>5, <2>3 DEF Denied
      <3> QED BY <1>0, <1>a, <2>1, <3>1, <3>2, DecidedTab, ShowKeeps
    <2> QED BY <2>2, <2>3
  <1>6. CASE Failed(f)
    <2>1. UNCHANGED <<owner, live, left, disk>>
      BY <1>6 DEF Failed
    <2>2. Show(Decided(tab), Send(f, Idle)) \/ Show(tab, Send(f, Idle))
      BY <1>6 DEF Failed
    <2> QED BY <1>0, <1>a, <2>1, <2>2, DecidedTab, ShowKeeps
  <1> QED BY <1>1, <1>2, <1>3, <1>4, <1>5, <1>6

LEMMA InitEstablishes == ConsoleInit => IInv
  <1> SUFFICES ASSUME ConsoleInit PROVE IInv
    OBVIOUS
  <1>1. disk \in Disk /\ disk.token = None
    BY DEF ConsoleInit, Disk
  <1>2. tab \in Tab /\ tab.token = None
    BY <1>1, LoadedTab DEF ConsoleInit
  <1>3. owner \in Seq(User) /\ Len(owner) = 0 /\ live = {} /\ left = {}
    BY DEF ConsoleInit
  <1>4. calls \in [Flow -> Calling] /\ Held(Issued, left, tab.token, disk.token, calls)
    BY <1>1, <1>2, <1>3, HeldByNobody DEF ConsoleInit
  <1>5. ConsoleTypeOK
    BY <1>1, <1>2, <1>3, <1>4, ConsoleAssumption DEF ConsoleTypeOK, Tab, Disk, Calling
  <1> QED BY <1>3, <1>4, <1>5 DEF IInv

LEMMA NextKeeps == IInv /\ [ConsoleNext]_consoleVars => IInv'
  <1> SUFFICES ASSUME IInv, [ConsoleNext]_consoleVars PROVE IInv'
    OBVIOUS
  <1>1. CASE UNCHANGED consoleVars
    BY <1>1 DEF consoleVars, IInv, ConsoleTypeOK, Issued
  <1>2. CASE ConsoleNext
    BY <1>2, UserKeeps, GuardKeeps, ServerKeeps, AnswerKeeps DEF ConsoleNext
  <1> QED BY <1>1, <1>2

\* Every reachable state has its type, for any accounts and any number of
\* sign-ins.
THEOREM ConsoleTypeCorrect == ConsoleSpec => []ConsoleTypeOK
  <1>1. IInv => ConsoleTypeOK
    BY DEF IInv
  <1> QED BY <1>1, InitEstablishes, NextKeeps, PTL DEF ConsoleSpec

\* A session its user left is never again the page's, in whatever order
\* answers arrive and however often the page is loaded again (user.ts logout).
THEOREM LeftSessionsStayLeft == ConsoleSpec => []SignedOutStaysOut
  <1>1. IInv => SignedOutStaysOut
    BY DEF IInv, Held, SignedOutStaysOut
  <1> QED BY <1>1, InitEstablishes, NextKeeps, PTL DEF ConsoleSpec

-----------------------------------------------------------------------------
(* What a page shows is its own account's.  The invariant follows the page *)
(* from its load to the login page, into use and, signed out, under the    *)
(* sign-in form that covers it: which calls may be in flight, for whom,    *)
(* and where the router may be going.                                      *)

Answers(call) == call.kind \in {"auth", "app", "profile"}

FlowKinds(c) ==
    /\ c["form"].kind \in {"none", "login", "profile", "auth"}
    /\ c["unlock"].kind \in {"none", "login", "profile", "auth"}
    /\ c["switch"].kind \in {"none", "app", "auth"}
    /\ c["load"].kind \in {"none", "auth", "profile"}
    /\ c["page"].kind \in {"none", "other"}
    /\ \A f \in Flow : c[f].kind = "none" => c[f] = Idle

\* Routes, menus and permissions come and go together.
Built(t) ==
    /\ t.built = t.dynamic
    /\ t.dynamic => ~t.timedOut
    /\ ~t.dynamic => t.routes = {} /\ t.perms = None

ShowsOwn(o, t) ==
    t.dynamic => t.token # None /\ t.perms = o[t.token] /\ t.routes = {o[t.token]}

\* Just loaded: the guard asks for the routes, nobody else for anything.
BlankPage(t, c) ==
    /\ \A f \in Flow \ {"load"} : c[f] = Idle
    /\ c["load"] # Idle => c["load"].token = t.token
    /\ c["load"] # Idle <=> t.nav = "loading"
    /\ t.dynamic <=> c["load"].kind = "profile"
    /\ ~t.stray

LoginPage(t, c) ==
    /\ \A f \in Flow \ {"form"} : c[f] = Idle
    /\ c["form"].kind \in {"profile", "auth"} => c["form"].token = t.token
    /\ c["form"] # Idle => t.nav = "none"
    /\ t.nav # "loading"
    /\ t.dynamic <=> t.nav = "work"
    /\ t.nav \in {"login", "entering"} => t.token = None
    /\ ~t.stray

\* In use: whatever is in flight was asked for the account signed in.
InUse(o, t, c) ==
    /\ t.token # None
    /\ t.nav \in {"none", "work", "loading"}
    /\ ~t.stray
    /\ c["form"] = Idle
    /\ \A f \in Flow : Answers(c[f]) => o[c[f].token] = o[t.token]

\* Signed out and covered: what is in flight was asked for earlier sessions.
CoveredPage(t, c) ==
    /\ t.nav \in {"none", "login", "entering"}
    /\ \A f \in Flow : c[f].kind \in {"auth", "app"} => c[f].token # t.token

Unmixed(o, t, c) ==
    /\ ShowsOwn(o, t)
    /\ \A f \in Flow : Answers(c[f]) => c[f].token # None
    /\ t.page = "blank" => BlankPage(t, c)
    /\ t.page = "login" => LoginPage(t, c)
    /\ t.page = "work" /\ ~t.timedOut => InUse(o, t, c)
    /\ t.page = "work" /\ t.timedOut => CoveredPage(t, c)

Owned(o, t, c) == FlowKinds(c) /\ Built(t) /\ (~t.mixed => Unmixed(o, t, c))

\* The page's token is on the disk; calls only hold tokens that were issued,
\* were denied only with one the server does not accept, and share none with
\* a sign-in that was just accepted.
OnDisk(t, d) == t.token # None => d.token = t.token

CallsKnown(k, lv, c) ==
    /\ \A f \in Flow : c[f].token \in k \cup {None}
    /\ \A f \in Flow : c[f].answer = "denied" => c[f].token \notin lv
    /\ \A f, g \in Flow : f # g /\ Waiting(c[f]) => c[g].token # c[f].token

OwnInv ==
    /\ OnDisk(tab, disk)
    /\ CallsKnown(Issued, live, calls)
    /\ Owned(owner, tab, calls)

\* Why the page may lose a token in a step.
MayLose ==
    \/ tab.token \notin live \/ tab.token \in left'
    \/ tab.nav = "entering" \/ tab.stray

Loses == tab.token # None /\ tab'.token = None

-----------------------------------------------------------------------------
(* The operators on the page, field by field.                              *)

LEMMA GoingFields ==
  ASSUME NEW t \in Tab, NEW where \in {"none", "work", "loading", "login", "entering"}
  PROVE  LET s == Going(t, where) IN
         /\ s \in Tab /\ s.token = t.token /\ s.timedOut = t.timedOut /\ s.perms = t.perms
         /\ s.dynamic = t.dynamic /\ s.built = t.built /\ s.routes = t.routes
         /\ s.mixed = t.mixed /\ s.page = t.page /\ s.nav = where
         /\ s.stray = (t.stray \/ t.nav = "entering")
  BY DEF Going, Tab

LEMMA StrippedFields ==
  ASSUME NEW t \in Tab
  PROVE  LET s == Stripped(t) IN
         /\ s \in Tab /\ s.token = t.token /\ s.timedOut = t.timedOut /\ s.perms = None
         /\ ~s.dynamic /\ ~s.built /\ s.routes = {}
         /\ s.mixed = t.mixed /\ s.page = t.page /\ s.nav = t.nav /\ s.stray = t.stray
  <1> DEFINE s == Stripped(t)
  <1>1. s \in Tab /\ s.token = t.token
    BY StrippedTab
  <1>2. s.perms = None /\ ~s.dynamic /\ ~s.built /\ s.routes = {}
    BY DEF Stripped, Tab
  <1>3. /\ s.timedOut = t.timedOut /\ s.mixed = t.mixed /\ s.page = t.page
        /\ s.nav = t.nav /\ s.stray = t.stray
    BY DEF Stripped, Tab
  <1> QED BY <1>1, <1>2, <1>3

LEMMA SignedOutFields ==
  ASSUME NEW t \in Tab
  PROVE  LET s == SignedOut(t) IN
         /\ s \in Tab /\ s.token = None /\ s.timedOut /\ s.perms = None
         /\ ~s.dynamic /\ ~s.built /\ s.routes = {}
         /\ s.mixed = t.mixed /\ s.page = t.page /\ s.nav = "login"
         /\ s.stray = (t.stray \/ t.nav = "entering")
  <1> DEFINE bare == Stripped(t)
             out  == [bare EXCEPT !.token = None, !.user = None,
                                  !.timedOut = TRUE, !.fetched = FALSE]
  <1>0. SignedOut(t) = Going(out, "login")
    BY DEF SignedOut
  <1>b. /\ bare \in Tab /\ bare.perms = None /\ ~bare.dynamic /\ ~bare.built /\ bare.routes = {}
        /\ bare.mixed = t.mixed /\ bare.page = t.page /\ bare.nav = t.nav /\ bare.stray = t.stray
    BY StrippedFields
  <1> HIDE DEF bare
  <1>1. out \in Tab /\ out.token = None /\ out.timedOut
    BY <1>b DEF Tab
  <1>2. /\ out.perms = bare.perms /\ out.dynamic = bare.dynamic /\ out.built = bare.built
        /\ out.routes = bare.routes /\ out.mixed = bare.mixed /\ out.page = bare.page
        /\ out.nav = bare.nav /\ out.stray = bare.stray
    BY <1>b DEF Tab
  <1> HIDE DEF out
  <1>3. LET s == Going(out, "login") IN
         /\ s \in Tab /\ s.token = out.token /\ s.timedOut = out.timedOut /\ s.perms = out.perms
         /\ s.dynamic = out.dynamic /\ s.built = out.built /\ s.routes = out.routes
         /\ s.mixed = out.mixed /\ s.page = out.page /\ s.nav = "login"
         /\ s.stray = (out.stray \/ out.nav = "entering")
    BY <1>1, GoingFields
  <1> QED BY <1>0, <1>b, <1>1, <1>2, <1>3

LEMMA ClearedFields ==
  ASSUME NEW t \in Tab
  PROVE  LET s == Cleared(t) IN
         /\ s \in Tab /\ s.token = None /\ ~s.timedOut /\ s.perms = None
         /\ ~s.dynamic /\ ~s.built /\ s.routes = {}
         /\ s.mixed = t.mixed /\ s.page = t.page /\ s.nav = t.nav /\ s.stray = t.stray
  <1> DEFINE bare == Stripped(t)
             s    == [bare EXCEPT !.token = None, !.user = None, !.timedOut = FALSE]
  <1>0. Cleared(t) = s
    BY DEF Cleared
  <1>b. /\ bare \in Tab /\ bare.perms = None /\ ~bare.dynamic /\ ~bare.built /\ bare.routes = {}
        /\ bare.mixed = t.mixed /\ bare.page = t.page /\ bare.nav = t.nav /\ bare.stray = t.stray
    BY StrippedFields
  <1> HIDE DEF bare
  <1>1. s \in Tab /\ s.token = None /\ ~s.timedOut
    BY <1>b DEF Tab
  <1>2. /\ s.perms = bare.perms /\ s.dynamic = bare.dynamic /\ s.built = bare.built
        /\ s.routes = bare.routes /\ s.mixed = bare.mixed /\ s.page = bare.page
        /\ s.nav = bare.nav /\ s.stray = bare.stray
    BY <1>b DEF Tab
  <1> QED BY <1>0, <1>b, <1>1, <1>2

-----------------------------------------------------------------------------
(* How Owned follows from what it was.                                     *)

LEMMA LoadedOwned ==
  ASSUME NEW o, NEW d \in Disk, NEW locked \in BOOLEAN, NEW nav \in {"work", "login"}
  PROVE  Owned(o, Loaded(d, locked, nav), [f \in Flow |-> Idle])
  <1> DEFINE t == Loaded(d, locked, nav)
             c == [f \in Flow |-> Idle]
  <1>1. /\ t.page = "blank" /\ t.nav = nav /\ t.dynamic = FALSE /\ t.built = FALSE
        /\ ~t.stray
        /\ t.routes = {} /\ t.perms = None
    BY DEF Loaded
  <1>2. /\ \A f \in Flow : c[f] = Idle /\ c[f].kind = "none"
        /\ {"form", "unlock", "switch", "load", "page"} \subseteq Flow
    BY DEF Idle, Flow
  <1> HIDE DEF t, c
  <1>3. FlowKinds(c)
    BY <1>2 DEF FlowKinds
  <1>5. Built(t) /\ ShowsOwn(o, t)
    BY <1>1 DEF Built, ShowsOwn
  <1>6. BlankPage(t, c)
    BY <1>1, <1>2 DEF BlankPage
  <1>4. \A f \in Flow : ~Answers(c[f])
    BY <1>2 DEF Answers
  <1> QED BY <1>1, <1>3, <1>4, <1>5, <1>6 DEF Owned, Unmixed, t, c

\* The lock, the user and the time of the profile have no part in it.
LEMMA SameOwned ==
  ASSUME NEW o, NEW c, NEW t, NEW s, Owned(o, t, c),
         s.token = t.token, s.timedOut = t.timedOut, s.perms = t.perms,
         s.dynamic = t.dynamic, s.built = t.built, s.routes = t.routes,
         s.mixed = t.mixed, s.page = t.page, s.nav = t.nav, s.stray = t.stray
  PROVE  Owned(o, s, c)
  BY DEF Owned, Built, Unmixed, ShowsOwn, BlankPage, LoginPage, InUse, CoveredPage

LEMMA ShowOwns ==
  ASSUME IInv, OwnInv, UNCHANGED <<owner, live>>, disk' \in Disk,
         NEW new \in Tab, NEW kept \in [Flow -> Calling], Show(new, kept),
         OnDisk(new, disk'), CallsKnown(Issued, live, kept),
         Reloads(tab, new) \/ Owned(owner, new, kept),
         tab.token # None /\ new.token = None => MayLose
  PROVE  OwnInv' /\ (Loses => MayLose)
  <1>1. Issued' = Issued
    BY DEF Issued
  <1>2. CASE Reloads(tab, new)
    <2> DEFINE nav == IF new.page = "login" THEN "login" ELSE "work"
    <2>1. tab' = Loaded(disk', new.locked, nav) /\ calls' = [f \in Flow |-> Idle]
      BY <1>2 DEF Show
    <2>2. tab'.token = disk'.token
      BY <2>1 DEF Loaded
    <2>3. new.locked \in BOOLEAN /\ nav \in {"work", "login"}
      BY DEF Tab
    <2> HIDE DEF nav
    <2>4. Owned(owner, tab', calls')
      BY <2>1, <2>3, LoadedOwned
    <2>5. CallsKnown(Issued, live, calls')
      BY <2>1 DEF CallsKnown, Idle, Waiting
    <2>6. Loses => MayLose
      BY <2>2 DEF OnDisk, Loses
    <2> QED BY <1>1, <2>2, <2>4, <2>5, <2>6 DEF OwnInv, OnDisk
  <1>3. CASE ~Reloads(tab, new)
    <2>1. tab' = new /\ calls' = kept
      BY <1>3 DEF Show
    <2> QED BY <1>1, <1>3, <2>1 DEF OwnInv, Loses
  <1> QED BY <1>2, <1>3

LEMMA KnownWithCall ==
  ASSUME NEW k, NEW lv, NEW c \in [Flow -> Calling], CallsKnown(k, lv, c),
         NEW f \in Flow, NEW call \in Calling, call.answer = "none",
         call.token \in k \cup {None},
         \A g \in Flow \ {f} : Waiting(c[g]) => call.token # c[g].token
  PROVE  CallsKnown(k, lv, [c EXCEPT ![f] = call])
  <1> DEFINE d == [c EXCEPT ![f] = call]
  <1>1. d[f] = call /\ ~Waiting(call) /\ \A g \in Flow \ {f} : d[g] = c[g]
    BY DEF Waiting
  <1> HIDE DEF d
  <1>2. \A g \in Flow : d[g].token \in k \cup {None}
    BY <1>1 DEF CallsKnown
  <1>3. \A g \in Flow : d[g].answer = "denied" => d[g].token \notin lv
    BY <1>1 DEF CallsKnown
  <1>4. ASSUME NEW g \in Flow, NEW h \in Flow, g # h, Waiting(d[g]) PROVE d[h].token # d[g].token
    BY <1>1, <1>4 DEF CallsKnown
  <1> QED BY <1>2, <1>3, <1>4 DEF CallsKnown, d

\* A call with the page's token, or none, is known.
LEMMA KnownWithOwnCall ==
  ASSUME IInv, OwnInv, NEW f \in Flow, NEW call \in Calling, call.answer = "none",
         call.token \in {tab.token, None}
  PROVE  /\ [calls EXCEPT ![f] = call] \in [Flow -> Calling]
         /\ CallsKnown(Issued, live, [calls EXCEPT ![f] = call])
  <1>1. /\ calls \in [Flow -> Calling]
        /\ \A g \in Flow : Waiting(calls[g]) => calls[g].token # None /\ calls[g].token # tab.token
        /\ tab.token \in Issued \cup {None}
    BY Facts DEF IInv, Held
  <1> QED BY <1>1, KnownWithCall DEF OwnInv

\* A flow gives up, or is through.
LEMMA OwnedWithoutCall ==
  ASSUME NEW o, NEW t \in Tab, NEW c \in [Flow -> Calling], NEW f \in Flow \ {"load"}, Owned(o, t, c)
  PROVE  Owned(o, t, [c EXCEPT ![f] = Idle])
  <1> DEFINE d == [c EXCEPT ![f] = Idle]
  <1>1. d[f] = Idle /\ Idle.kind = "none" /\ \A g \in Flow \ {f} : d[g] = c[g]
    BY DEF Idle
  <1>2. {"form", "unlock", "switch", "load", "page"} = Flow
    BY DEF Flow
  <1> HIDE DEF d
  <1>3. FlowKinds(d)
    BY <1>1, <1>2 DEF Owned, FlowKinds
  <1>4. \A g \in Flow : Answers(d[g]) => Answers(c[g]) /\ d[g] = c[g]
    BY <1>1 DEF Answers
  <1>5. BlankPage(t, c) => BlankPage(t, d)
    BY <1>1, <1>2 DEF BlankPage
  <1>6. LoginPage(t, c) => LoginPage(t, d)
    BY <1>1, <1>2 DEF LoginPage
  <1>7. InUse(o, t, c) => InUse(o, t, d)
    BY <1>1, <1>2, <1>4 DEF InUse
  <1>8. CoveredPage(t, c) => CoveredPage(t, d)
    BY <1>1 DEF CoveredPage
  <1> QED BY <1>3, <1>4, <1>5, <1>6, <1>7, <1>8 DEF Owned, Unmixed, d

LEMMA DecidedFields ==
  ASSUME NEW t \in Tab
  PROVE  LET s == Decided(t) IN
         /\ s \in Tab /\ s.token = t.token /\ s.timedOut = t.timedOut /\ s.perms = t.perms
         /\ s.dynamic = t.dynamic /\ s.built = t.built /\ s.routes = t.routes
         /\ s.mixed = t.mixed
         /\ t.nav # "loading" => s = t
         /\ t.nav = "loading" =>
              /\ s.stray = t.stray
              /\ t.token = None => s.nav = "login" /\ s.page = t.page
              /\ t.token # None /\ t.dynamic => s.nav = "none" /\ s.page = "work"
              /\ t.token # None /\ ~t.dynamic => s.nav = "none" /\ s.page = t.page
  <1>1. CASE t.nav # "loading"
    BY <1>1 DEF Decided
  <1>2. CASE t.nav = "loading" /\ t.token = None
    <2>1. Decided(t) = Going(t, "login")
      BY <1>2 DEF Decided
    <2>2. LET s == Going(t, "login") IN
          /\ s \in Tab /\ s.token = t.token /\ s.timedOut = t.timedOut /\ s.perms = t.perms
          /\ s.dynamic = t.dynamic /\ s.built = t.built /\ s.routes = t.routes
          /\ s.mixed = t.mixed /\ s.page = t.page /\ s.nav = "login"
          /\ s.stray = (t.stray \/ t.nav = "entering")
      BY GoingFields
    <2>3. (t.stray \/ t.nav = "entering") = t.stray
      BY <1>2 DEF Tab
    <2> QED BY <1>2, <2>1, <2>2, <2>3
  <1>3. CASE t.nav = "loading" /\ t.token # None
    BY <1>3 DEF Decided, Tab
  <1> QED BY <1>1, <1>2, <1>3

LEMMA OwnedOnceDecided ==
  ASSUME NEW o, NEW t \in Tab, NEW c \in [Flow -> Calling], Owned(o, t, c)
  PROVE  Owned(o, Decided(t), [c EXCEPT !["load"] = Idle])
  <1> DEFINE s == Decided(t)
             d == [c EXCEPT !["load"] = Idle]
  <1>1. d["load"] = Idle /\ Idle.kind = "none" /\ \A g \in Flow \ {"load"} : d[g] = c[g]
    BY DEF Idle, Flow
  <1>2. {"form", "unlock", "switch", "load", "page"} = Flow
    BY DEF Flow
  <1>3. /\ s.token = t.token /\ s.timedOut = t.timedOut /\ s.perms = t.perms
        /\ s.dynamic = t.dynamic /\ s.built = t.built /\ s.routes = t.routes
        /\ s.mixed = t.mixed
        /\ t.nav # "loading" => s = t
        /\ t.nav = "loading" =>
             /\ s.stray = t.stray
             /\ t.token = None => s.nav = "login" /\ s.page = t.page
             /\ t.token # None /\ t.dynamic => s.nav = "none" /\ s.page = "work"
             /\ t.token # None /\ ~t.dynamic => s.nav = "none" /\ s.page = t.page
    BY DecidedFields
  <1> HIDE DEF s, d
  <1>4. FlowKinds(d) /\ Built(s)
    BY <1>1, <1>2, <1>3 DEF Owned, FlowKinds, Built
  <1>5. \A g \in Flow : Answers(d[g]) => Answers(c[g]) /\ d[g] = c[g]
    BY <1>1 DEF Answers
  <1>6. ASSUME ~t.mixed PROVE Unmixed(o, s, d)
    <2>1. /\ ShowsOwn(o, s)
          /\ \A g \in Flow : Answers(d[g]) => d[g].token # None
      BY <1>3, <1>5, <1>6 DEF Owned, Unmixed, ShowsOwn
    <2>2. CASE t.page = "blank"
      <3>1. BlankPage(t, c)
        BY <1>6, <2>2 DEF Owned, Unmixed
      <3>2. \A g \in Flow : d[g] = Idle /\ ~Answers(d[g])
        BY <1>1, <3>1 DEF BlankPage, Answers
      <3>3. CASE t.nav # "loading"
        <4>1. BlankPage(s, d)
          BY <1>1, <1>2, <1>3, <3>1, <3>2, <3>3 DEF BlankPage
        <4> QED BY <1>3, <2>1, <2>2, <3>3, <4>1 DEF Unmixed
      <3>4. CASE t.nav = "loading" /\ t.token # None /\ t.dynamic
        <4>1. s.page = "work" /\ ~s.timedOut
          BY <1>3, <3>4 DEF Owned, Built
        <4>2. InUse(o, s, d)
          BY <1>2, <1>3, <3>1, <3>2, <3>4 DEF InUse, BlankPage
        <4> QED BY <2>1, <4>1, <4>2 DEF Unmixed
      <3>5. CASE t.nav = "loading" /\ ~(t.token # None /\ t.dynamic)
        <4>1. ~t.dynamic
          BY <1>6, <3>5 DEF Owned, Unmixed, ShowsOwn
        <4>2. s.page = "blank" /\ s.nav \in {"none", "login"} /\ ~s.dynamic /\ ~s.stray
          BY <1>3, <2>2, <3>1, <3>5, <4>1 DEF BlankPage
        <4>3. BlankPage(s, d)
          BY <1>1, <1>2, <3>2, <4>2 DEF BlankPage
        <4> QED BY <2>1, <4>2, <4>3 DEF Unmixed
      <3> QED BY <3>3, <3>4, <3>5
    <2>3. CASE t.page = "login"
      <3>1. LoginPage(t, c) /\ s = t
        BY <1>3, <1>6, <2>3 DEF Owned, Unmixed, LoginPage
      <3>2. LoginPage(t, d)
        BY <1>1, <1>2, <3>1 DEF LoginPage
      <3> QED BY <2>1, <2>3, <3>1, <3>2 DEF Unmixed
    <2>4. CASE t.page = "work" /\ ~t.timedOut
      <3>1. InUse(o, t, c)
        BY <1>6, <2>4 DEF Owned, Unmixed
      <3>2. s.page = "work" /\ s.nav \in {"none", "work", "loading"} /\ ~s.stray
        BY <1>3, <2>4, <3>1 DEF InUse
      <3>3. InUse(o, s, d)
        BY <1>1, <1>2, <1>3, <1>5, <3>1, <3>2 DEF InUse
      <3> QED BY <1>3, <2>1, <2>4, <3>2, <3>3 DEF Unmixed
    <2>5. CASE t.page = "work" /\ t.timedOut
      <3>1. CoveredPage(t, c) /\ s = t
        BY <1>3, <1>6, <2>5 DEF Owned, Unmixed, CoveredPage
      <3>2. CoveredPage(t, d)
        BY <1>1, <3>1 DEF CoveredPage
      <3> QED BY <2>1, <2>5, <3>1, <3>2 DEF Unmixed
    <2> QED BY <2>2, <2>3, <2>4, <2>5 DEF Tab
  <1> QED BY <1>3, <1>4, <1>6 DEF Owned, s, d

\* A call more of a page at work: the account's own, or one that is not made
\* in a session.
LEMMA OwnedWithCall ==
  ASSUME NEW o, NEW t \in Tab, NEW c \in [Flow -> Calling], Owned(o, t, c), t.page = "work",
         NEW f \in Flow, NEW call \in Calling, FlowKinds([c EXCEPT ![f] = call]),
         Answers(call) => ~t.timedOut /\ call.token = t.token,
         f = "form" => t.timedOut
  PROVE  Owned(o, t, [c EXCEPT ![f] = call])
  <1> DEFINE d == [c EXCEPT ![f] = call]
  <1>1. d[f] = call /\ \A g \in Flow \ {f} : d[g] = c[g]
    OBVIOUS
  <1> HIDE DEF d
  <1>2. InUse(o, t, c) /\ ~t.timedOut => InUse(o, t, d)
    BY <1>1 DEF InUse, Flow
  <1>3. CoveredPage(t, c) /\ t.timedOut => CoveredPage(t, d)
    BY <1>1 DEF CoveredPage, Answers
  <1>4. ASSUME Unmixed(o, t, c) PROVE Unmixed(o, t, d)
    <2>1. \A g \in Flow : Answers(d[g]) => d[g].token # None
      BY <1>1, <1>4 DEF Unmixed, InUse
    <2> QED BY <1>2, <1>3, <1>4, <2>1 DEF Unmixed
  <1> QED BY <1>4 DEF Owned, d

\* A page in use moves on.
LEMMA MovedInUse ==
  ASSUME NEW o, NEW c, NEW t, NEW s, Owned(o, t, c), t.page = "work", ~t.timedOut,
         s.token = t.token, s.timedOut = t.timedOut, s.perms = t.perms,
         s.dynamic = t.dynamic, s.built = t.built, s.routes = t.routes,
         s.mixed = t.mixed, s.page = "work", s.nav \in {"none", "work", "loading"},
         t.nav \in {"none", "work", "loading"} => s.stray = t.stray
  PROVE  Owned(o, s, c)
  <1>1. Built(s)
    BY DEF Owned, Built
  <1>2. ASSUME Unmixed(o, t, c) PROVE Unmixed(o, s, c)
    <2>1. InUse(o, t, c)
      BY <1>2 DEF Unmixed
    <2>2. InUse(o, s, c)
      BY <2>1 DEF InUse
    <2>3. ShowsOwn(o, s)
      BY <1>2 DEF Unmixed, ShowsOwn
    <2> QED BY <1>2, <2>2, <2>3 DEF Unmixed
  <1> QED BY <1>1, <1>2 DEF Owned

LEMMA KnownWhenIdle ==
  ASSUME NEW k, NEW lv
  PROVE  CallsKnown(k, lv, [f \in Flow |-> Idle])
  BY DEF CallsKnown, Idle, Waiting

\* An action that takes no token from the page and does without Show.
LEMMA QuietOwns ==
  ASSUME OwnInv, UNCHANGED owner, live' \subseteq live,
         OnDisk(tab', disk'), CallsKnown(Issued, live, calls'), Owned(owner, tab', calls'),
         tab'.token = tab.token
  PROVE  OwnInv' /\ (Loses => MayLose)
  <1>1. Issued' = Issued
    BY DEF Issued
  <1>2. CallsKnown(Issued, live', calls')
    BY DEF CallsKnown
  <1> QED BY <1>1, <1>2 DEF OwnInv, Loses

-----------------------------------------------------------------------------
(* The steps.                                                              *)

LEMMA UserOwns ==
  ASSUME IInv, OwnInv,
         \/ Browse \/ Refresh \/ (\E u \in User : SignIn(u))
         \/ Lock \/ UnlockLocally \/ UnlockBySignIn \/ SignOut \/ SwitchApp \/ OtherRequest
  PROVE  OwnInv' /\ (Loses => MayLose)
  <1>0. /\ tab \in Tab /\ disk \in Disk /\ calls \in [Flow -> Calling]
        /\ OnDisk(tab, disk) /\ CallsKnown(Issued, live, calls) /\ Owned(owner, tab, calls)
        /\ FlowKinds(calls)
    BY Facts DEF OwnInv, Owned
  <1>1. CASE Browse
    <2>1. /\ tab.page = "work" /\ ~tab.timedOut /\ tab.nav = "none"
          /\ tab' = Going(tab, "work") /\ UNCHANGED <<owner, live, disk, calls>>
      BY <1>1 DEF Browse, Free, AtWork
    <2>2. LET s == Going(tab, "work") IN
          /\ s.token = tab.token /\ s.timedOut = tab.timedOut /\ s.perms = tab.perms
          /\ s.dynamic = tab.dynamic /\ s.built = tab.built /\ s.routes = tab.routes
          /\ s.mixed = tab.mixed /\ s.page = "work" /\ s.nav = "work"
          /\ s.stray = (tab.stray \/ tab.nav = "entering")
      BY <1>0, <2>1, GoingFields
    <2>3. (tab.stray \/ tab.nav = "entering") = tab.stray
      BY <1>0, <2>1 DEF Tab
    <2>4. Owned(owner, Going(tab, "work"), calls)
      BY <1>0, <2>1, <2>2, <2>3, MovedInUse
    <2> QED BY <1>0, <2>1, <2>2, <2>4, QuietOwns DEF OnDisk
  <1>2. CASE Refresh
    <2>1. PICK where \in {"work", "login"} : tab' = Loaded(disk, tab.locked, where)
      BY <1>2 DEF Refresh
    <2>2. calls' = [f \in Flow |-> Idle] /\ UNCHANGED <<owner, live, disk>>
      BY <1>2 DEF Refresh
    <2>3. tab.locked \in BOOLEAN
      BY <1>0 DEF Tab
    <2>4. Owned(owner, tab', calls')
      BY <1>0, <2>1, <2>2, <2>3, LoadedOwned
    <2>5. tab'.token = disk.token
      BY <2>1 DEF Loaded
    <2>6. CallsKnown(Issued, live, calls')
      BY <2>2, KnownWhenIdle
    <2>7. OwnInv'
      BY <2>2, <2>4, <2>5, <2>6 DEF OwnInv, OnDisk, Issued
    <2>8. ~Loses
      BY <1>0, <2>5 DEF OnDisk, Loses
    <2> QED BY <2>7, <2>8
  <1>3. CASE \E u \in User : SignIn(u)
    <2>1. PICK u \in User : SignIn(u)
      BY <1>3
    <2> DEFINE call == Call("login", None, u)
               kept == [calls EXCEPT !["form"] = call]
    <2>2. call \in Calling /\ call.answer = "none" /\ call.kind = "login" /\ call.token = None
      BY CallIsCalling DEF Call
    <2>3. kept["form"] = call /\ \A g \in Flow \ {"form"} : kept[g] = calls[g]
      BY <1>0 DEF Flow
    <2>4. calls' = kept /\ UNCHANGED <<owner, live, disk, tab>>
      BY <2>1 DEF SignIn, Send
    <2> HIDE DEF call
    <2>5. CallsKnown(Issued, live, kept)
      BY <2>2, KnownWithOwnCall DEF Flow
    <2> HIDE DEF kept
    <2>6. FlowKinds(kept)
      BY <1>0, <2>2, <2>3 DEF FlowKinds, Flow
    <2>7. Owned(owner, tab, kept)
      <3>1. CASE Overlay(tab)
        <4>1. tab.page = "work" /\ tab.timedOut /\ ~Answers(call)
          BY <2>2, <3>1 DEF Overlay, Answers
        <4> QED BY <1>0, <2>2, <2>6, <4>1, OwnedWithCall DEF kept, Flow
      <3>2. CASE tab.page = "login" /\ tab.nav = "none"
        <4>1. ASSUME Unmixed(owner, tab, calls) PROVE Unmixed(owner, tab, kept)
          <5>1. LoginPage(tab, calls)
            BY <3>2, <4>1 DEF Unmixed
          <5>2. LoginPage(tab, kept)
            BY <2>2, <2>3, <3>2, <5>1 DEF LoginPage
          <5>3. \A g \in Flow : Answers(kept[g]) => kept[g].token # None
            BY <2>2, <2>3, <4>1 DEF Unmixed, Answers
          <5> QED BY <3>2, <4>1, <5>2, <5>3 DEF Unmixed
        <4> QED BY <1>0, <2>6, <4>1 DEF Owned
      <3> QED BY <2>1, <3>1, <3>2 DEF SignIn
    <2> QED BY <1>0, <2>4, <2>5, <2>7, QuietOwns
  <1>4. CASE Lock \/ UnlockLocally
    <2>1. /\ tab' = [tab EXCEPT !.locked = TRUE] \/ tab' = [tab EXCEPT !.locked = FALSE]
          /\ disk' = Persisted(tab) /\ UNCHANGED <<owner, live, calls>>
      BY <1>4 DEF Lock, UnlockLocally
    <2>2. /\ tab'.token = tab.token /\ tab'.timedOut = tab.timedOut /\ tab'.perms = tab.perms
          /\ tab'.dynamic = tab.dynamic /\ tab'.built = tab.built /\ tab'.routes = tab.routes
          /\ tab'.mixed = tab.mixed /\ tab'.page = tab.page /\ tab'.nav = tab.nav
          /\ tab'.stray = tab.stray
      BY <1>0, <2>1 DEF Tab
    <2>3. Owned(owner, tab', calls')
      BY <1>0, <2>1, <2>2, SameOwned
    <2>4. OnDisk(tab', disk')
      BY <2>1, <2>2 DEF OnDisk, Persisted
    <2> QED BY <1>0, <2>1, <2>2, <2>3, <2>4, QuietOwns
  <1>5. CASE UnlockBySignIn
    <2>1. PICK u \in User : u = tab.user
      BY <1>0, <1>5 DEF UnlockBySignIn, Tab
    <2> DEFINE call == Call("login", None, u)
    <2>2. call \in Calling /\ call.answer = "none" /\ call.kind = "login" /\ call.token = None
      BY CallIsCalling DEF Call
    <2>3. /\ calls' = [calls EXCEPT !["unlock"] = call] /\ tab.page = "work"
          /\ UNCHANGED <<owner, live, disk, tab>>
      BY <1>5, <2>1 DEF UnlockBySignIn, Send, AtWork
    <2> HIDE DEF call
    <2>4. CallsKnown(Issued, live, calls')
      BY <2>2, <2>3, KnownWithOwnCall DEF Flow
    <2>5. FlowKinds(calls')
      BY <1>0, <2>2, <2>3 DEF FlowKinds, Flow
    <2>6. ~Answers(call)
      BY <2>2 DEF Answers
    <2>7. Owned(owner, tab, calls')
      BY <1>0, <2>2, <2>3, <2>5, <2>6, OwnedWithCall DEF Flow
    <2> QED BY <1>0, <2>3, <2>4, <2>7, QuietOwns
  <1>6. CASE SwitchApp
    <2> DEFINE call == Call("app", tab.token, None)
    <2>2. call \in Calling /\ call.answer = "none" /\ call.kind = "app" /\ call.token = tab.token
      BY <1>0, CallIsCalling DEF Call, Tab
    <2>3. /\ calls' = [calls EXCEPT !["switch"] = call] /\ tab.page = "work" /\ ~tab.timedOut
          /\ UNCHANGED <<owner, live, disk, tab>>
      BY <1>6 DEF SwitchApp, Send, Free, AtWork
    <2> HIDE DEF call
    <2>4. CallsKnown(Issued, live, calls')
      BY <2>2, <2>3, KnownWithOwnCall DEF Flow
    <2>5. FlowKinds(calls')
      BY <1>0, <2>2, <2>3 DEF FlowKinds, Flow
    <2>7. Owned(owner, tab, calls')
      BY <1>0, <2>2, <2>3, <2>5, OwnedWithCall DEF Flow
    <2> QED BY <1>0, <2>3, <2>4, <2>7, QuietOwns
  <1>7. CASE OtherRequest
    <2> DEFINE call == Call("other", tab.token, None)
    <2>2. call \in Calling /\ call.answer = "none" /\ call.kind = "other" /\ call.token = tab.token
      BY <1>0, CallIsCalling DEF Call, Tab
    <2>3. /\ calls' = [calls EXCEPT !["page"] = call] /\ tab.page = "work"
          /\ UNCHANGED <<owner, live, disk, tab>>
      BY <1>7 DEF OtherRequest, Send
    <2> HIDE DEF call
    <2>4. CallsKnown(Issued, live, calls')
      BY <2>2, <2>3, KnownWithOwnCall DEF Flow
    <2>5. FlowKinds(calls')
      BY <1>0, <2>2, <2>3 DEF FlowKinds, Flow
    <2>6. ~Answers(call)
      BY <2>2 DEF Answers
    <2>7. Owned(owner, tab, calls')
      BY <1>0, <2>2, <2>3, <2>5, <2>6, OwnedWithCall DEF Flow
    <2> QED BY <1>0, <2>3, <2>4, <2>7, QuietOwns
  <1>8. CASE SignOut
    <2> DEFINE out == SignedOut(tab)
               new == [out EXCEPT !.locked = FALSE]
    <2>1. /\ tab.page = "work" /\ ~tab.timedOut
          /\ left' = left \cup ({tab.token} \ {None})
          /\ disk' = Persisted(out) /\ Show(new, calls) /\ UNCHANGED <<owner, live>>
      BY <1>8 DEF SignOut, Free, AtWork
    <2>2. /\ out \in Tab /\ out.token = None /\ out.timedOut /\ out.perms = None
          /\ ~out.dynamic /\ ~out.built /\ out.routes = {}
          /\ out.mixed = tab.mixed /\ out.page = tab.page /\ out.nav = "login"
      BY <1>0, SignedOutFields
    <2> HIDE DEF out
    <2>3. /\ new \in Tab /\ new.token = out.token /\ new.timedOut = out.timedOut /\ new.perms = out.perms
          /\ new.dynamic = out.dynamic /\ new.built = out.built /\ new.routes = out.routes
          /\ new.mixed = out.mixed /\ new.page = out.page /\ new.nav = out.nav
      BY <2>2 DEF Tab
    <2> HIDE DEF new
    <2>4. disk' \in Disk
      BY <2>1, <2>2, PersistedDisk
    <2>5. Owned(owner, new, calls)
      <3>1. Built(new)
        BY <2>2, <2>3 DEF Built, Tab
      <3>2. ASSUME Unmixed(owner, tab, calls) PROVE Unmixed(owner, new, calls)
        <4>1. CoveredPage(new, calls)
          BY <2>2, <2>3, <3>2 DEF Unmixed, CoveredPage, Answers
        <4>2. ShowsOwn(owner, new)
          BY <2>2, <2>3 DEF ShowsOwn
        <4> QED BY <2>1, <2>2, <2>3, <3>2, <4>1, <4>2 DEF Unmixed
      <3> QED BY <1>0, <2>2, <2>3, <3>1, <3>2 DEF Owned
    <2>6. tab.token # None => MayLose
      BY <2>1 DEF MayLose
    <2>7. OnDisk(new, disk')
      BY <2>2, <2>3 DEF OnDisk
    <2> QED BY <1>0, <2>1, <2>3, <2>4, <2>5, <2>6, <2>7, ShowOwns
  <1> QED BY <1>1, <1>2, <1>3, <1>4, <1>5, <1>6, <1>7, <1>8

\* The page as an arrival at the login page leaves it.
LEMMA ArrivedOwned ==
  ASSUME NEW o, NEW t \in Tab, NEW c \in [Flow -> Calling], Owned(o, t, c), t.page # "work",
         t.nav = "entering", NEW s,
         s.token = None, s.dynamic = FALSE, s.built = FALSE, s.routes = {}, s.perms = None,
         s.mixed = t.mixed, s.page = "login", s.nav = "none", s.stray = t.stray
  PROVE  Owned(o, s, c)
  <1>1. Built(s)
    BY DEF Built
  <1>2. ASSUME Unmixed(o, t, c) PROVE Unmixed(o, s, c)
    <2>1. {"form", "unlock", "switch", "load", "page"} = Flow
      BY DEF Flow
    <2>2. ~s.stray /\ \A f \in Flow : c[f] = Idle
      <3>1. CASE t.page = "blank"
        BY <1>2, <2>1, <3>1 DEF Unmixed, BlankPage
      <3>2. CASE t.page = "login"
        BY <1>2, <2>1, <3>2 DEF Unmixed, LoginPage
      <3> QED BY <3>1, <3>2 DEF Tab
    <2>3. LoginPage(s, c)
      BY <2>1, <2>2 DEF LoginPage, Idle
    <2> QED BY <1>2, <2>3 DEF Unmixed, ShowsOwn
  <1> QED BY <1>1, <1>2 DEF Owned

LEMMA EnterViewOwns ==
  ASSUME IInv, OwnInv, EnterView
  PROVE  OwnInv' /\ (Loses => MayLose)
  <1>0. /\ tab \in Tab /\ disk \in Disk /\ calls \in [Flow -> Calling]
        /\ OnDisk(tab, disk) /\ CallsKnown(Issued, live, calls) /\ Owned(owner, tab, calls)
        /\ FlowKinds(calls) /\ tab.nav = "work" /\ UNCHANGED <<owner, live, left, disk>>
    BY Facts DEF OwnInv, Owned, EnterView
  <1>1. CASE tab.token = None /\ tab' = Going(tab, "login") /\ UNCHANGED calls
    <2>1. LET s == Going(tab, "login") IN
          /\ s.token = tab.token /\ s.timedOut = tab.timedOut /\ s.perms = tab.perms
          /\ s.dynamic = tab.dynamic /\ s.built = tab.built /\ s.routes = tab.routes
          /\ s.mixed = tab.mixed /\ s.page = tab.page /\ s.nav = "login"
          /\ s.stray = (tab.stray \/ tab.nav = "entering")
      BY <1>0, GoingFields
    <2>2. (tab.stray \/ tab.nav = "entering") = tab.stray
      BY <1>0 DEF Tab
    <2> DEFINE s == Going(tab, "login")
    <2> HIDE DEF s
    <2>3. Built(s)
      BY <1>0, <2>1 DEF Owned, Built, s
    <2>4. ASSUME Unmixed(owner, tab, calls) PROVE Unmixed(owner, s, calls)
      <3>1. ~tab.dynamic /\ ShowsOwn(owner, s)
        BY <1>1, <2>1, <2>4 DEF Unmixed, ShowsOwn, s
      <3>2. tab.page = "blank"
        BY <1>0, <1>1, <2>4, <3>1 DEF Unmixed, LoginPage, InUse, CoveredPage, Tab
      <3>3. BlankPage(s, calls)
        BY <1>0, <2>1, <2>2, <2>4, <3>2 DEF Unmixed, BlankPage, s
      <3> QED BY <2>1, <2>4, <3>1, <3>2, <3>3 DEF Unmixed, s
    <2>5. Owned(owner, tab', calls')
      BY <1>0, <1>1, <2>1, <2>3, <2>4 DEF Owned, s
    <2>6. tab'.token = tab.token /\ OnDisk(tab', disk')
      BY <1>0, <1>1, <2>1 DEF OnDisk
    <2> QED BY <1>0, <1>1, <2>5, <2>6, QuietOwns
  <1>2. CASE /\ tab.token # None /\ tab.dynamic
             /\ tab' = [tab EXCEPT !.page = "work", !.nav = "none"] /\ UNCHANGED calls
    <2>1. /\ tab'.token = tab.token /\ tab'.timedOut = tab.timedOut /\ tab'.perms = tab.perms
          /\ tab'.dynamic = tab.dynamic /\ tab'.built = tab.built /\ tab'.routes = tab.routes
          /\ tab'.mixed = tab.mixed /\ tab'.page = "work" /\ tab'.nav = "none"
          /\ tab'.stray = tab.stray
      BY <1>0, <1>2 DEF Tab
    <2>2. ~tab.timedOut /\ Built(tab')
      BY <1>0, <1>2, <2>1 DEF Owned, Built
    <2>3. ASSUME Unmixed(owner, tab, calls) PROVE Unmixed(owner, tab', calls)
      <3>1. InUse(owner, tab', calls)
        <4>1. CASE tab.page = "work"
          BY <1>2, <2>1, <2>2, <2>3, <4>1 DEF Unmixed, InUse
        <4>2. CASE tab.page = "login"
          <5>1. LoginPage(tab, calls)
            BY <2>3, <4>2 DEF Unmixed
          <5>2. \A f \in Flow : calls[f] = Idle
            BY <1>0, <5>1 DEF LoginPage, Flow
          <5> QED BY <1>2, <2>1, <5>1, <5>2 DEF LoginPage, InUse, Idle, Answers, Flow
        <4>3. CASE tab.page = "blank"
          BY <1>0, <1>2, <2>3, <4>3 DEF Unmixed, BlankPage, Idle
        <4> QED BY <1>0, <4>1, <4>2, <4>3 DEF Tab
      <3>2. ShowsOwn(owner, tab')
        BY <2>1, <2>3 DEF Unmixed, ShowsOwn
      <3> QED BY <2>1, <2>2, <2>3, <3>1, <3>2 DEF Unmixed
    <2>4. Owned(owner, tab', calls')
      BY <1>0, <1>2, <2>1, <2>2, <2>3 DEF Owned
    <2> QED BY <1>0, <1>2, <2>1, <2>4, QuietOwns DEF OnDisk
  <1>3. CASE /\ tab.token # None /\ ~tab.dynamic /\ tab' = Going(tab, "loading")
             /\ calls' = Send("load", Call("auth", tab.token, None))
    <2> DEFINE call == Call("auth", tab.token, None)
               s    == Going(tab, "loading")
               kept == [calls EXCEPT !["load"] = call]
    <2>1. call \in Calling /\ call.answer = "none" /\ call.kind = "auth" /\ call.token = tab.token
      BY <1>0, CallIsCalling DEF Call, Tab
    <2>2. /\ s.token = tab.token /\ s.timedOut = tab.timedOut /\ s.perms = tab.perms
          /\ s.dynamic = tab.dynamic /\ s.built = tab.built /\ s.routes = tab.routes
          /\ s.mixed = tab.mixed /\ s.page = tab.page /\ s.nav = "loading"
          /\ s.stray = (tab.stray \/ tab.nav = "entering")
      BY <1>0, GoingFields
    <2>3. s.stray = tab.stray
      BY <1>0, <2>2 DEF Tab
    <2>4. kept["load"] = call /\ \A g \in Flow \ {"load"} : kept[g] = calls[g]
      BY <1>0 DEF Flow
    <2>5. calls' = kept /\ tab' = s
      BY <1>3 DEF Send
    <2> HIDE DEF call, s
    <2>6. CallsKnown(Issued, live, kept)
      BY <2>1, KnownWithOwnCall DEF Flow
    <2> HIDE DEF kept
    <2>7. FlowKinds(kept) /\ Built(s)
      <3>1. FlowKinds(kept)
        BY <1>0, <2>1, <2>4 DEF FlowKinds, Flow
      <3>2. Built(s)
        BY <1>0, <2>2 DEF Owned, Built
      <3> QED BY <3>1, <3>2
    <2>8. ASSUME Unmixed(owner, tab, calls) PROVE Unmixed(owner, s, kept)
      <3>1. \A g \in Flow : Answers(kept[g]) => kept[g].token # None
        BY <1>3, <2>1, <2>4, <2>8 DEF Unmixed
      <3>2. ShowsOwn(owner, s)
        BY <1>3, <2>2 DEF ShowsOwn
      <3>3. CASE tab.page = "blank"
        <4>1. BlankPage(tab, calls)
          BY <2>8, <3>3 DEF Unmixed
        <4>2. call # Idle
          BY <2>1 DEF Idle
        <4>3. BlankPage(s, kept)
          BY <1>3, <2>1, <2>2, <2>3, <2>4, <4>1, <4>2 DEF BlankPage
        <4> QED BY <2>2, <3>1, <3>2, <3>3, <4>3 DEF Unmixed
      <3>4. CASE tab.page = "work" /\ ~tab.timedOut
        <4>1. InUse(owner, tab, calls)
          BY <2>8, <3>4 DEF Unmixed
        <4>2. InUse(owner, s, kept)
          BY <2>1, <2>2, <2>3, <2>4, <4>1 DEF InUse, Flow
        <4> QED BY <2>2, <3>1, <3>2, <3>4, <4>2 DEF Unmixed
      <3>5. tab.page # "login" /\ ~(tab.page = "work" /\ tab.timedOut)
        BY <1>0, <1>3, <2>8 DEF Unmixed, LoginPage, CoveredPage
      <3> QED BY <1>0, <3>3, <3>4, <3>5 DEF Tab
    <2>9. Owned(owner, tab', calls')
      BY <1>0, <2>2, <2>5, <2>7, <2>8 DEF Owned
    <2> QED BY <1>0, <2>2, <2>5, <2>6, <2>9, QuietOwns DEF OnDisk
  <1> QED BY <1>1, <1>2, <1>3 DEF EnterView

\* The router turns at the login page, or gives up on it.
LEMMA MovedAtLogin ==
  ASSUME NEW o, NEW t \in Tab, NEW c, NEW s, Owned(o, t, c), t.nav \in {"login", "entering"},
         s.token = t.token, s.timedOut = t.timedOut, s.perms = t.perms,
         s.dynamic = t.dynamic, s.built = t.built, s.routes = t.routes,
         s.mixed = t.mixed, s.page = t.page, s.stray = t.stray,
         \/ s.nav \in {"none", "entering"}
         \/ s.nav = "work" /\ t.token # None /\ ~t.timedOut
  PROVE  Owned(o, s, c)
  <1>1. Built(s)
    BY DEF Owned, Built
  <1>2. ASSUME Unmixed(o, t, c) PROVE Unmixed(o, s, c)
    <2>1. ShowsOwn(o, s)
      BY <1>2 DEF Unmixed, ShowsOwn
    <2>2. BlankPage(t, c) => BlankPage(s, c)
      BY DEF BlankPage
    <2>3. LoginPage(t, c) => LoginPage(s, c)
      BY DEF LoginPage
    <2>4. ~InUse(o, t, c)
      BY DEF InUse
    <2>5. t.timedOut /\ CoveredPage(t, c) => CoveredPage(s, c)
      BY DEF CoveredPage
    <2> QED BY <1>2, <2>1, <2>2, <2>3, <2>4, <2>5 DEF Unmixed
  <1> QED BY <1>1, <1>2 DEF Owned

LEMMA GuardOwns ==
  ASSUME IInv, OwnInv, EnterView \/ EnterLogin \/ ArriveAtLogin \/ LoginNotLoaded \/ StrayArrival
  PROVE  OwnInv' /\ (Loses => MayLose)
  <1>0. /\ tab \in Tab /\ disk \in Disk /\ calls \in [Flow -> Calling]
        /\ OnDisk(tab, disk) /\ CallsKnown(Issued, live, calls) /\ Owned(owner, tab, calls)
    BY Facts DEF OwnInv
  <1>1. CASE EnterView
    BY <1>1, EnterViewOwns
  <1>2. CASE EnterLogin
    <2> DEFINE where == IF tab.token # None /\ ~tab.timedOut THEN "work" ELSE "entering"
               s == Going(tab, where)
    <2>1. tab' = s /\ tab.nav = "login" /\ UNCHANGED <<owner, live, disk, calls>>
      BY <1>2 DEF EnterLogin
    <2>2. where \in {"work", "entering"} /\ (where = "work" => tab.token # None /\ ~tab.timedOut)
      OBVIOUS
    <2> HIDE DEF where
    <2>3. /\ s.token = tab.token /\ s.timedOut = tab.timedOut /\ s.perms = tab.perms
          /\ s.dynamic = tab.dynamic /\ s.built = tab.built /\ s.routes = tab.routes
          /\ s.mixed = tab.mixed /\ s.page = tab.page /\ s.nav = where
          /\ s.stray = (tab.stray \/ tab.nav = "entering")
      BY <1>0, <2>2, GoingFields
    <2>4. s.stray = tab.stray
      BY <1>0, <2>1, <2>3 DEF Tab
    <2> HIDE DEF s
    <2>5. Owned(owner, s, calls)
      BY <1>0, <2>1, <2>2, <2>3, <2>4, MovedAtLogin
    <2> QED BY <1>0, <2>1, <2>3, <2>5, QuietOwns DEF OnDisk
  <1>3. CASE ArriveAtLogin
    <2> DEFINE bare == Cleared(tab)
               new  == [bare EXCEPT !.page = "login", !.nav = "none"]
    <2>1. tab.nav = "entering" /\ Show(new, calls) /\ UNCHANGED <<owner, live, left, disk>>
      BY <1>3 DEF ArriveAtLogin
    <2>2. /\ bare \in Tab /\ bare.token = None /\ ~bare.timedOut /\ bare.perms = None
          /\ ~bare.dynamic /\ ~bare.built /\ bare.routes = {}
          /\ bare.mixed = tab.mixed /\ bare.stray = tab.stray
      BY <1>0, ClearedFields
    <2> HIDE DEF bare
    <2>3. /\ new \in Tab /\ new.page = "login" /\ new.nav = "none"
          /\ new.token = bare.token /\ new.timedOut = bare.timedOut /\ new.perms = bare.perms
          /\ new.dynamic = bare.dynamic /\ new.built = bare.built /\ new.routes = bare.routes
          /\ new.mixed = bare.mixed /\ new.stray = bare.stray
      BY <2>2 DEF Tab
    <2> HIDE DEF new
    <2>4. new.dynamic = FALSE /\ new.built = FALSE
      BY <2>2, <2>3 DEF Tab
    <2>5. Reloads(tab, new) \/ Owned(owner, new, calls)
      <3>1. CASE tab.page # "work"
        BY <1>0, <2>1, <2>2, <2>3, <2>4, <3>1, ArrivedOwned
      <3>2. CASE tab.page = "work" /\ tab.mixed
        BY <1>0, <2>2, <2>3, <2>4, <3>2 DEF Owned, Built
      <3>3. CASE tab.page = "work" /\ ~tab.mixed
        <4>1. tab.timedOut
          BY <1>0, <2>1, <3>3 DEF Owned, Unmixed, InUse
        <4> QED BY <2>3, <2>4, <3>3, <4>1 DEF Reloads, Overlay
      <3> QED BY <3>1, <3>2, <3>3
    <2>6. MayLose /\ OnDisk(new, disk')
      BY <2>1, <2>2, <2>3 DEF MayLose, OnDisk
    <2> QED BY <1>0, <2>1, <2>3, <2>5, <2>6, ShowOwns
  <1>4. CASE LoginNotLoaded
    <2>1. /\ tab.nav = "entering" /\ tab' = [tab EXCEPT !.nav = "none"]
          /\ UNCHANGED <<owner, live, disk, calls>>
      BY <1>4 DEF LoginNotLoaded
    <2>2. /\ tab'.token = tab.token /\ tab'.timedOut = tab.timedOut /\ tab'.perms = tab.perms
          /\ tab'.dynamic = tab.dynamic /\ tab'.built = tab.built /\ tab'.routes = tab.routes
          /\ tab'.mixed = tab.mixed /\ tab'.page = tab.page /\ tab'.nav = "none"
          /\ tab'.stray = tab.stray
      BY <1>0, <2>1 DEF Tab
    <2>3. Owned(owner, tab', calls)
      BY <1>0, <2>1, <2>2, MovedAtLogin
    <2> QED BY <1>0, <2>1, <2>2, <2>3, QuietOwns DEF OnDisk
  <1>5. CASE StrayArrival
    <2> DEFINE bare == Cleared(tab)
               new  == [bare EXCEPT !.stray = FALSE]
    <2>1. tab.stray /\ Show(new, calls) /\ UNCHANGED <<owner, live, left, disk>>
      BY <1>5 DEF StrayArrival
    <2>2. /\ bare \in Tab /\ bare.token = None /\ ~bare.timedOut /\ bare.perms = None
          /\ ~bare.dynamic /\ ~bare.built /\ bare.routes = {}
          /\ bare.mixed = tab.mixed
      BY <1>0, ClearedFields
    <2> HIDE DEF bare
    <2>3. /\ new \in Tab
          /\ new.token = bare.token /\ new.timedOut = bare.timedOut /\ new.perms = bare.perms
          /\ new.dynamic = bare.dynamic /\ new.built = bare.built /\ new.routes = bare.routes
          /\ new.mixed = bare.mixed
      BY <2>2 DEF Tab
    <2> HIDE DEF new
    <2>4. Reloads(tab, new) \/ Owned(owner, new, calls)
      <3>1. CASE tab.mixed
        BY <1>0, <2>2, <2>3, <3>1 DEF Owned, Built, Tab
      <3>2. CASE ~tab.mixed
        <4>1. tab.page = "work" /\ tab.timedOut
          BY <1>0, <2>1, <3>2 DEF Owned, Unmixed, BlankPage, LoginPage, InUse, Tab
        <4> QED BY <2>2, <2>3, <4>1 DEF Reloads, Overlay
      <3> QED BY <3>1, <3>2
    <2>5. MayLose /\ OnDisk(new, disk')
      BY <2>1, <2>2, <2>3 DEF MayLose, OnDisk
    <2> QED BY <1>0, <2>1, <2>3, <2>4, <2>5, ShowOwns
  <1> QED BY <1>1, <1>2, <1>3, <1>4, <1>5

LEMMA ServerOwns ==
  ASSUME IInv, OwnInv,
         \/ \E f \in Flow : AcceptSignIn(f) \/ Serve(f)
         \/ \E t \in Token : EndSession(t)
  PROVE  OwnInv' /\ (Loses => MayLose)
  <1>0. /\ tab \in Tab /\ disk \in Disk /\ calls \in [Flow -> Calling]
        /\ OnDisk(tab, disk) /\ CallsKnown(Issued, live, calls) /\ Owned(owner, tab, calls)
        /\ FlowKinds(calls)
    BY Facts DEF OwnInv, Owned
  <1>1. ASSUME NEW f \in Flow, AcceptSignIn(f) PROVE OwnInv' /\ (Loses => MayLose)
    <2> DEFINE token == Len(owner) + 1
               call  == [calls[f] EXCEPT !.answer = "ok", !.token = token]
    <2>1. /\ token \in Token /\ token \notin Issued /\ calls[f].kind = "login"
          /\ owner' = Append(owner, calls[f].user) /\ live' = live \cup {token}
          /\ UNCHANGED <<left, disk, tab>>
      BY <1>1, Facts DEF AcceptSignIn, Token, Issued
    <2>2. calls' = [calls EXCEPT ![f] = call]
      BY <1>0, <1>1 DEF AcceptSignIn, Answered, Calling
    <2>3. calls[f].user \in User
      BY <2>1 DEF IInv, Held
    <2>4. Issued' = Issued \cup {token} /\ \A n \in Issued : owner'[n] = owner[n]
      BY <2>1, <2>3, Facts DEF Issued
    <2>5. call \in Calling /\ call.token = token /\ call.kind = "login" /\ call.answer = "ok"
      BY <1>0, <2>1 DEF Calling
    <2>6. calls'[f] = call /\ \A g \in Flow \ {f} : calls'[g] = calls[g]
      BY <1>0, <2>2
    <2> HIDE DEF call
    <2>7. token # None
      BY <2>1, ConsoleAssumption DEF Token
    <2> HIDE DEF token
    <2>8. CallsKnown(Issued', live', calls')
      <3>1. \A g \in Flow : calls'[g].token \in Issued' \cup {None}
        BY <1>0, <2>4, <2>5, <2>6 DEF CallsKnown
      <3>2. \A g \in Flow : calls'[g].answer = "denied" => calls'[g].token \notin live'
        BY <1>0, <2>1, <2>5, <2>6, <2>7 DEF CallsKnown
      <3>3. ASSUME NEW g \in Flow, NEW h \in Flow, g # h, Waiting(calls'[g])
            PROVE  calls'[h].token # calls'[g].token
        <4>1. CASE g = f
          BY <1>0, <2>1, <2>5, <2>6, <2>7, <3>3, <4>1 DEF CallsKnown
        <4>2. CASE g # f /\ h = f
          <5>1. calls[g].token \in Issued
            BY <2>6, <3>3, <4>2 DEF IInv, Held, Waiting
          <5> QED BY <2>1, <2>5, <2>6, <4>2, <5>1
        <4>3. CASE g # f /\ h # f
          BY <1>0, <2>6, <3>3, <4>3 DEF CallsKnown
        <4> QED BY <4>1, <4>2, <4>3
      <3> QED BY <3>1, <3>2, <3>3 DEF CallsKnown
    <2>9. Owned(owner', tab, calls')
      <3>1. FlowKinds(calls')
        BY <1>0, <2>1, <2>5, <2>6 DEF FlowKinds, Flow
      <3>2. ASSUME Unmixed(owner, tab, calls) PROVE Unmixed(owner', tab, calls')
        <4>1. \A g \in Flow : Answers(calls'[g]) => Answers(calls[g]) /\ calls'[g] = calls[g]
          BY <2>5, <2>6 DEF Answers
        <4>2. \A g \in Flow : Answers(calls[g]) => calls[g].token \in Issued
          BY <1>0, <3>2 DEF CallsKnown, Unmixed
        <4>3. tab.token \in Issued \cup {None}
          BY DEF IInv, Held
        <4>4. ShowsOwn(owner', tab)
          BY <2>4, <3>2, <4>3 DEF Unmixed, ShowsOwn
        <4>5. BlankPage(tab, calls) => BlankPage(tab, calls')
          BY <2>1, <2>5, <2>6, <1>0 DEF BlankPage, FlowKinds, Idle
        <4>6. LoginPage(tab, calls) => LoginPage(tab, calls')
          BY <2>1, <2>5, <2>6 DEF LoginPage, Idle
        <4>7. InUse(owner, tab, calls) => InUse(owner', tab, calls')
          <5>1. calls["form"] = Idle => calls'["form"] = Idle
            BY <2>1, <2>6 DEF Idle, Flow
          <5>2. \A g \in Flow : Answers(calls'[g]) =>
                   Answers(calls[g]) /\ owner'[calls'[g].token] = owner[calls[g].token]
            BY <2>4, <4>1, <4>2
          <5>3. tab.token # None => owner'[tab.token] = owner[tab.token]
            BY <2>4, <4>3
          <5> QED BY <5>1, <5>2, <5>3 DEF InUse
        <4>8. CoveredPage(tab, calls) => CoveredPage(tab, calls')
          BY <2>5, <2>6 DEF CoveredPage
        <4> QED BY <3>2, <4>1, <4>4, <4>5, <4>6, <4>7, <4>8 DEF Unmixed
      <3> QED BY <1>0, <3>1, <3>2 DEF Owned
    <2> QED BY <1>0, <2>1, <2>8, <2>9 DEF OwnInv, Loses
  <1>2. ASSUME NEW f \in Flow, Serve(f) PROVE OwnInv' /\ (Loses => MayLose)
    <2>1. /\ calls[f] # Idle /\ calls[f].kind # "login" /\ calls[f].kind # "none"
          /\ UNCHANGED <<owner, live, left, disk, tab>>
      BY <1>0, <1>2 DEF Serve, Pending, FlowKinds
    <2>2. CASE calls[f].token \in live /\ calls[f].kind = "other"
      <3>1. calls' = [calls EXCEPT ![f] = Idle]
        BY <1>2, <2>2 DEF Serve, Send
      <3>2. f # "load"
        BY <1>0, <2>2 DEF FlowKinds
      <3>3. Owned(owner, tab, calls')
        BY <1>0, <3>1, <3>2, OwnedWithoutCall
      <3>4. CallsKnown(Issued, live, calls')
        BY <3>1, KnownWithOwnCall, IdleIsCalling DEF Idle
      <3> QED BY <1>0, <2>1, <3>3, <3>4, QuietOwns
    <2>3. CASE ~(calls[f].token \in live /\ calls[f].kind = "other")
      <3>1. PICK how \in {"ok", "denied"} :
               /\ calls' = [calls EXCEPT ![f] = [@ EXCEPT !.answer = how]]
               /\ how = "denied" => calls[f].token \notin live
        <4>1. CASE calls[f].token \notin live
          BY <1>2, <4>1 DEF Serve, Answered
        <4>2. CASE calls[f].token \in live
          BY <1>2, <2>3, <4>2 DEF Serve, Answered
        <4> QED BY <4>1, <4>2
      <3> DEFINE call == [calls[f] EXCEPT !.answer = how]
      <3>2. call.kind = calls[f].kind /\ call.token = calls[f].token /\ call.answer = how
        BY <1>0 DEF Calling
      <3>3. calls'[f] = call /\ \A g \in Flow \ {f} : calls'[g] = calls[g]
        BY <1>0, <3>1
      <3> HIDE DEF call
      <3>4. \A g \in Flow : calls'[g].kind = calls[g].kind /\ calls'[g].token = calls[g].token
        BY <3>2, <3>3
      <3>5. \A g \in Flow : (calls'[g] = Idle) <=> (calls[g] = Idle)
        BY <2>1, <3>2, <3>3 DEF Idle
      <3>6. CallsKnown(Issued, live, calls')
        <4>1. \A g \in Flow : calls'[g].answer = "denied" => calls'[g].token \notin live
          BY <1>0, <3>1, <3>2, <3>3 DEF CallsKnown
        <4>2. \A g \in Flow : Waiting(calls'[g]) => Waiting(calls[g])
          BY <2>1, <3>2, <3>3 DEF Waiting
        <4> QED BY <1>0, <3>4, <4>1, <4>2 DEF CallsKnown
      <3>7. Owned(owner, tab, calls')
        <4>1. FlowKinds(calls')
          BY <1>0, <3>4, <3>5 DEF FlowKinds, Flow
        <4>2. BlankPage(tab, calls) => BlankPage(tab, calls')
          BY <3>4, <3>5 DEF BlankPage, Flow
        <4>3. LoginPage(tab, calls) => LoginPage(tab, calls')
          BY <3>4, <3>5 DEF LoginPage, Flow
        <4>4. InUse(owner, tab, calls) => InUse(owner, tab, calls')
          BY <3>4, <3>5 DEF InUse, Flow, Answers
        <4>5. CoveredPage(tab, calls) => CoveredPage(tab, calls')
          BY <3>4 DEF CoveredPage
        <4>6. Unmixed(owner, tab, calls) => Unmixed(owner, tab, calls')
          BY <3>4, <4>2, <4>3, <4>4, <4>5 DEF Unmixed, Answers
        <4> QED BY <1>0, <4>1, <4>6 DEF Owned
      <3> QED BY <1>0, <2>1, <3>6, <3>7, QuietOwns
    <2> QED BY <2>2, <2>3
  <1>3. ASSUME NEW t \in Token, EndSession(t) PROVE OwnInv' /\ (Loses => MayLose)
    BY <1>0, <1>3, QuietOwns DEF EndSession
  <1> QED BY <1>1, <1>2, <1>3

LEMMA SignInOwns ==
  ASSUME IInv, OwnInv, NEW f \in Flow, SignInAccepted(f)
  PROVE  OwnInv' /\ (Loses => MayLose)
  <1> DEFINE token == calls[f].token
             mx    == tab.mixed \/ Supplants(token)
             new   == [tab EXCEPT !.token = token, !.mixed = mx]
             call  == Call("profile", token, None)
             kept  == [calls EXCEPT ![f] = call]
  <1>0. /\ tab \in Tab /\ calls \in [Flow -> Calling]
        /\ CallsKnown(Issued, live, calls) /\ Owned(owner, tab, calls)
        /\ FlowKinds(calls) /\ Waiting(calls[f]) /\ token \in Issued /\ token # None
    <2>1. tab \in Tab /\ calls \in [Flow -> Calling] /\ Waiting(calls[f])
      BY Facts DEF SignInAccepted, Arrived, Waiting
    <2>2. CallsKnown(Issued, live, calls) /\ Owned(owner, tab, calls) /\ FlowKinds(calls)
      BY DEF OwnInv, Owned
    <2>3. token \in Issued /\ token # None
      BY <2>1, Facts DEF IInv, Held, Waiting
    <2> QED BY <2>1, <2>2, <2>3
  <1>1. disk' = Persisted(new) /\ Show(new, kept) /\ UNCHANGED <<owner, live, left>>
    BY DEF SignInAccepted, Send
  <1>2. token \in Token /\ mx \in BOOLEAN
    BY <1>0, Facts
  <1>3. call \in Calling /\ call.answer = "none" /\ call.kind = "profile" /\ call.token = token
    BY <1>2, CallIsCalling DEF Call
  <1>4. kept[f] = call /\ \A g \in Flow \ {f} : kept[g] = calls[g]
    BY <1>0
  <1> HIDE DEF mx, call
  <1>5. /\ new \in Tab /\ new.token = token /\ new.mixed = mx
        /\ new.timedOut = tab.timedOut /\ new.perms = tab.perms
        /\ new.dynamic = tab.dynamic /\ new.built = tab.built /\ new.routes = tab.routes
        /\ new.page = tab.page /\ new.nav = tab.nav /\ new.stray = tab.stray
    BY <1>0, <1>2 DEF Tab
  <1>6. disk' \in Disk /\ disk'.token = token
    BY <1>1, <1>5, PersistedDisk
  <1>7. \A g \in Flow \ {f} : calls[g].token # token
    BY <1>0 DEF CallsKnown
  <1>8. CallsKnown(Issued, live, kept)
    BY <1>0, <1>3, <1>7, KnownWithCall
  <1>9. f \in {"form", "unlock"} /\ calls[f] # Idle
    BY <1>0 DEF FlowKinds, Flow, Waiting, Idle
  <1> HIDE DEF token, new, kept
  <1>10. FlowKinds(kept)
    BY <1>0, <1>3, <1>4, <1>9 DEF FlowKinds, Flow
  <1>11. Built(new)
    BY <1>0, <1>5 DEF Owned, Built
  <1>12. ASSUME ~new.mixed PROVE Unmixed(owner, new, kept)
    <2>1. /\ Unmixed(owner, tab, calls)
          /\ tab.token # None => owner[tab.token] = owner[token]
      BY <1>0, <1>5, <1>12 DEF Owned, mx, Supplants
    <2>2. ShowsOwn(owner, new)
      BY <1>0, <1>5, <2>1 DEF Unmixed, ShowsOwn
    <2>3. \A g \in Flow : Answers(kept[g]) => kept[g].token # None
      BY <1>0, <1>3, <1>4, <2>1 DEF Unmixed
    <2>4. tab.page # "blank"
      BY <1>9, <2>1 DEF Unmixed, BlankPage
    <2>5. CASE tab.page = "login"
      <3>1. LoginPage(tab, calls)
        BY <2>1, <2>5 DEF Unmixed
      <3>2. f = "form" /\ tab.nav = "none"
        BY <1>9, <3>1 DEF LoginPage, Flow
      <3>3. LoginPage(new, kept)
        BY <1>3, <1>4, <1>5, <3>1, <3>2 DEF LoginPage
      <3> QED BY <1>5, <2>2, <2>3, <2>5, <3>3 DEF Unmixed
    <2>6. CASE tab.page = "work" /\ ~tab.timedOut
      <3>1. InUse(owner, tab, calls)
        BY <2>1, <2>6 DEF Unmixed
      <3>2. f # "form"
        BY <1>9, <3>1 DEF InUse
      <3>3. \A g \in Flow : Answers(kept[g]) => owner[kept[g].token] = owner[token]
        BY <1>3, <1>4, <2>1, <3>1 DEF InUse
      <3>4. InUse(owner, new, kept)
        BY <1>0, <1>4, <1>5, <3>1, <3>2, <3>3 DEF InUse, Flow
      <3> QED BY <1>5, <2>2, <2>3, <2>6, <3>4 DEF Unmixed
    <2>7. CASE tab.page = "work" /\ tab.timedOut
      <3>1. CoveredPage(tab, calls)
        BY <2>1, <2>7 DEF Unmixed
      <3>2. CoveredPage(new, kept)
        BY <1>3, <1>4, <1>5, <1>7, <3>1 DEF CoveredPage
      <3> QED BY <1>5, <2>2, <2>3, <2>7, <3>2 DEF Unmixed
    <2> QED BY <1>0, <2>4, <2>5, <2>6, <2>7 DEF Tab
  <1>13. Owned(owner, new, kept)
    BY <1>10, <1>11, <1>12 DEF Owned
  <1>14. kept \in [Flow -> Calling]
    BY <1>0, <1>3 DEF kept
  <1> QED BY <1>0, <1>1, <1>5, <1>6, <1>8, <1>13, <1>14, ShowOwns DEF OnDisk

LEMMA ProfileOwns ==
  ASSUME IInv, OwnInv, NEW f \in Flow, ProfileArrived(f)
  PROVE  OwnInv' /\ (Loses => MayLose)
  <1> DEFINE seen == [tab EXCEPT !.user = owner[calls[f].token], !.fetched = TRUE]
  <1>0. /\ tab \in Tab /\ calls \in [Flow -> Calling]
        /\ Owned(owner, tab, calls) /\ FlowKinds(calls)
        /\ calls[f].kind = "profile" /\ owner[calls[f].token] \in User
    <2>1. tab \in Tab /\ calls \in [Flow -> Calling] /\ Owned(owner, tab, calls) /\ FlowKinds(calls)
      BY Facts DEF OwnInv, Owned
    <2>2. calls[f].kind = "profile" /\ calls[f].token \in Issued
      BY DEF ProfileArrived, Arrived, IInv, Held
    <2> QED BY <2>1, <2>2, Facts
  <1>1. /\ seen \in Tab /\ seen.token = tab.token /\ seen.mixed = tab.mixed
        /\ seen.timedOut = tab.timedOut /\ seen.perms = tab.perms
        /\ seen.dynamic = tab.dynamic /\ seen.built = tab.built /\ seen.routes = tab.routes
        /\ seen.page = tab.page /\ seen.nav = tab.nav /\ seen.stray = tab.stray
    BY <1>0 DEF Tab
  <1>2. disk' = Persisted(seen) /\ UNCHANGED <<owner, live, left>>
    BY DEF ProfileArrived
  <1>3. CASE f = "load"
    <2>1. Show(Decided(seen), [calls EXCEPT !["load"] = Idle])
      BY <1>3 DEF ProfileArrived, Send
    <2> HIDE DEF seen
    <2>2. Owned(owner, seen, calls)
      BY <1>0, <1>1, SameOwned
    <2>3. Owned(owner, Decided(seen), [calls EXCEPT !["load"] = Idle])
      BY <1>0, <1>1, <2>2, OwnedOnceDecided
    <2>4. /\ [calls EXCEPT !["load"] = Idle] \in [Flow -> Calling]
          /\ CallsKnown(Issued, live, [calls EXCEPT !["load"] = Idle])
      BY KnownWithOwnCall, IdleIsCalling DEF Idle, Flow
    <2>5. Decided(seen) \in Tab /\ Decided(seen).token = tab.token
      BY <1>1, DecidedTab
    <2>6. disk' \in Disk /\ disk'.token = tab.token
      BY <1>1, <1>2, PersistedDisk
    <2> QED BY <1>2, <2>1, <2>3, <2>4, <2>5, <2>6, ShowOwns DEF OnDisk
  <1>4. CASE f # "load"
    <2> DEFINE call == Call("auth", tab.token, None)
               new  == [seen EXCEPT !.timedOut = FALSE]
               kept == [calls EXCEPT ![f] = call]
    <2>1. Show(new, kept)
      BY <1>4 DEF ProfileArrived, Send
    <2>2. call \in Calling /\ call.answer = "none" /\ call.kind = "auth" /\ call.token = tab.token
      BY <1>0, CallIsCalling DEF Call, Tab
    <2>3. kept[f] = call /\ \A g \in Flow \ {f} : kept[g] = calls[g]
      BY <1>0
    <2> HIDE DEF call, seen
    <2>4. /\ new \in Tab /\ new.token = seen.token /\ new.mixed = seen.mixed
          /\ ~new.timedOut /\ new.perms = seen.perms
          /\ new.dynamic = seen.dynamic /\ new.built = seen.built /\ new.routes = seen.routes
          /\ new.page = seen.page /\ new.nav = seen.nav /\ new.stray = seen.stray
      BY <1>1 DEF Tab
    <2>5. kept \in [Flow -> Calling] /\ CallsKnown(Issued, live, kept)
      BY <2>2, KnownWithOwnCall
    <2>6. disk' \in Disk /\ disk'.token = tab.token
      BY <1>1, <1>2, PersistedDisk
    <2>7. f \in {"form", "unlock"} /\ calls[f] # Idle
      BY <1>0, <1>4 DEF FlowKinds, Flow, Idle
    <2> HIDE DEF new, kept
    <2>8. FlowKinds(kept) /\ Built(new)
      <3>1. FlowKinds(kept)
        BY <1>0, <2>2, <2>3, <2>7 DEF FlowKinds, Flow
      <3>2. Built(new)
        BY <1>0, <1>1, <2>4 DEF Owned, Built
      <3> QED BY <3>1, <3>2
    <2>9. CASE Overlay(tab)
      <3>1. ~Overlay(new) /\ ~new.built
        BY <1>0, <1>1, <2>4, <2>9 DEF Overlay, Owned, Built
      <3>2. Reloads(tab, new)
        BY <2>9, <3>1 DEF Reloads
      <3> QED BY <1>1, <1>2, <2>1, <2>4, <2>5, <2>6, <3>2, ShowOwns DEF OnDisk
    <2>10. CASE ~Overlay(tab)
      <3>1. ASSUME ~new.mixed PROVE Unmixed(owner, new, kept)
        <4>1. Unmixed(owner, tab, calls)
          BY <1>0, <1>1, <2>4, <3>1 DEF Owned
        <4>2. ShowsOwn(owner, new)
          BY <1>1, <2>4, <4>1 DEF Unmixed, ShowsOwn
        <4>3. tab.page # "blank"
          BY <2>7, <4>1 DEF Unmixed, BlankPage
        <4>4. CASE tab.page = "login"
          <5>1. LoginPage(tab, calls)
            BY <4>1, <4>4 DEF Unmixed
          <5>2. f = "form" /\ tab.nav = "none" /\ calls[f].token = tab.token
            BY <1>0, <2>7, <5>1 DEF LoginPage, Flow
          <5>3. tab.token # None
            BY <1>0, <4>1, <5>2 DEF Unmixed, Answers
          <5>4. LoginPage(new, kept)
            BY <1>1, <2>2, <2>3, <2>4, <5>1, <5>2 DEF LoginPage
          <5>5. \A g \in Flow : Answers(kept[g]) => kept[g].token # None
            BY <2>2, <2>3, <4>1, <5>3 DEF Unmixed
          <5> QED BY <1>1, <2>4, <4>2, <4>4, <5>4, <5>5 DEF Unmixed
        <4>5. CASE tab.page = "work" /\ ~tab.timedOut
          <5>1. InUse(owner, tab, calls)
            BY <4>1, <4>5 DEF Unmixed
          <5>2. f # "form"
            BY <2>7, <5>1 DEF InUse
          <5>3. InUse(owner, new, kept)
            BY <1>1, <2>2, <2>3, <2>4, <5>1, <5>2 DEF InUse, Flow
          <5>4. \A g \in Flow : Answers(kept[g]) => kept[g].token # None
            BY <2>2, <2>3, <4>1, <5>1 DEF Unmixed, InUse
          <5> QED BY <1>1, <2>4, <4>2, <4>5, <5>3, <5>4 DEF Unmixed
        <4> QED BY <1>0, <2>10, <4>3, <4>4, <4>5 DEF Overlay, Tab
      <3>2. Owned(owner, new, kept)
        BY <2>8, <3>1 DEF Owned
      <3> QED BY <1>1, <1>2, <2>1, <2>4, <2>5, <2>6, <3>2, ShowOwns DEF OnDisk
    <2> QED BY <2>9, <2>10
  <1> QED BY <1>3, <1>4

LEMMA PermissionsOwn ==
  ASSUME IInv, OwnInv, NEW f \in Flow, PermissionsArrived(f)
  PROVE  OwnInv' /\ (Loses => MayLose)
  <1> DEFINE granted == owner[calls[f].token]
             rs  == IF tab.dynamic THEN tab.routes ELSE tab.routes \cup {granted}
             mx  == tab.mixed \/ Revives(calls[f])
             lk  == tab.locked /\ f # "unlock"
             new == [tab EXCEPT !.perms = granted, !.built = TRUE, !.routes = rs,
                                !.dynamic = TRUE, !.timedOut = FALSE,
                                !.mixed = mx, !.locked = lk]
             gone == [calls EXCEPT ![f] = Idle]
  <1>0. /\ tab \in Tab /\ calls \in [Flow -> Calling]
        /\ Owned(owner, tab, calls) /\ FlowKinds(calls)
        /\ calls[f].kind = "auth" /\ granted \in User
    <2>1. tab \in Tab /\ calls \in [Flow -> Calling] /\ Owned(owner, tab, calls) /\ FlowKinds(calls)
      BY Facts DEF OwnInv, Owned
    <2>2. calls[f].kind = "auth" /\ calls[f].token \in Issued
      BY DEF PermissionsArrived, Arrived, IInv, Held
    <2> QED BY <2>1, <2>2, Facts
  <1>1. disk' = Persisted(new) /\ UNCHANGED <<owner, live, left>>
    BY DEF PermissionsArrived
  <1>2. f \in {"form", "unlock", "switch", "load"}
    BY <1>0 DEF FlowKinds, Flow
  <1>3. \/ f \in {"form", "switch"} /\ Show(Going(new, "work"), gone)
        \/ f = "load" /\ Show(new, Send(f, Call("profile", tab.token, None)))
        \/ f = "load" /\ Show(Decided(new), gone)
        \/ f = "unlock" /\ Show(new, gone)
    <2> HIDE DEF new
    <2>1. CASE f \in {"form", "switch"}
      BY <2>1 DEF PermissionsArrived, new, Send
    <2>2. CASE f = "load" /\ ~tab.fetched
      BY <2>2 DEF PermissionsArrived, new, Send
    <2>3. CASE f = "load" /\ tab.fetched
      BY <2>3 DEF PermissionsArrived, new, Send
    <2>4. CASE f = "unlock"
      BY <2>4 DEF PermissionsArrived, new, Send
    <2> QED BY <1>2, <2>1, <2>2, <2>3, <2>4
  <1>4. rs \in SUBSET User /\ mx \in BOOLEAN /\ lk \in BOOLEAN
    BY <1>0 DEF Tab
  <1>5. ~tab.dynamic => rs = tab.routes \cup {granted}
    OBVIOUS
  <1>6. tab.dynamic => rs = tab.routes
    OBVIOUS
  <1>7. gone[f] = Idle /\ \A g \in Flow \ {f} : gone[g] = calls[g]
    BY <1>0
  <1>8. gone \in [Flow -> Calling] /\ CallsKnown(Issued, live, gone)
    BY KnownWithOwnCall, IdleIsCalling DEF Idle
  <1>9. Revives(calls[f]) <=> tab.timedOut /\ calls[f].token # tab.token
    BY DEF Revives
  <1>10. mx <=> tab.mixed \/ Revives(calls[f])
    OBVIOUS
  <1>g. granted = owner[calls[f].token]
    OBVIOUS
  <1> HIDE DEF granted, rs, mx, lk, gone
  <1>11. /\ new \in Tab /\ new.token = tab.token /\ new.page = tab.page
         /\ new.nav = tab.nav /\ new.stray = tab.stray
    BY <1>0, <1>4 DEF Tab
  <1>12. /\ new.perms = granted /\ new.built = TRUE /\ new.routes = rs
         /\ new.dynamic = TRUE /\ new.timedOut = FALSE /\ new.mixed = mx
    BY <1>0, <1>4 DEF Tab
  <1>13. disk' \in Disk /\ disk'.token = tab.token
    BY <1>1, <1>11, PersistedDisk
  <1> HIDE DEF new
  <1>14. Built(new) /\ calls[f] # Idle /\ Answers(calls[f])
    <2>1. Built(new)
      BY <1>12 DEF Built
    <2>2. calls[f] # Idle /\ Answers(calls[f])
      BY <1>0 DEF Idle, Answers
    <2> QED BY <2>1, <2>2
  <1>15. FlowKinds(gone)
    BY <1>0, <1>7 DEF FlowKinds, Flow, Idle
  \* Whoever the permissions were asked for is signed in by now.
  <1>16. ASSUME ~new.mixed
         PROVE  /\ Unmixed(owner, tab, calls) /\ ShowsOwn(owner, new) /\ tab.token # None
                /\ tab.page = "work" => ~tab.timedOut /\ InUse(owner, tab, calls)
                /\ \A g \in Flow : Answers(gone[g]) => gone[g].token # None
    <2>1. Unmixed(owner, tab, calls) /\ ~Revives(calls[f])
      BY <1>0, <1>10, <1>12, <1>16 DEF Owned
    <2>2. tab.page = "work" => ~tab.timedOut /\ InUse(owner, tab, calls)
      BY <1>0, <1>9, <2>1 DEF Unmixed, CoveredPage
    <2>3. calls[f].token # None /\ owner[calls[f].token] = owner[tab.token] /\ tab.token # None
      <3>1. calls[f].token # None
        BY <1>14, <2>1 DEF Unmixed
      <3>2. CASE tab.page = "work"
        BY <1>14, <2>2, <3>1, <3>2 DEF InUse
      <3>3. CASE tab.page = "login"
        BY <1>0, <1>14, <2>1, <3>1, <3>3 DEF Unmixed, LoginPage
      <3>4. CASE tab.page = "blank"
        BY <1>14, <2>1, <3>1, <3>4 DEF Unmixed, BlankPage
      <3> QED BY <1>0, <3>2, <3>3, <3>4 DEF Tab
    <2>4. ShowsOwn(owner, new)
      <3>1. granted = owner[tab.token]
        BY <1>g, <2>3
      <3>2. CASE tab.dynamic
        BY <1>6, <1>11, <1>12, <2>1, <2>3, <3>1, <3>2 DEF Unmixed, ShowsOwn
      <3>3. CASE ~tab.dynamic
        BY <1>0, <1>5, <1>11, <1>12, <2>3, <3>1, <3>3 DEF Owned, Built, ShowsOwn
      <3> QED BY <3>2, <3>3
    <2>5. \A g \in Flow : Answers(gone[g]) => gone[g].token # None
      BY <1>7, <2>1 DEF Unmixed, Answers, Idle
    <2> QED BY <2>1, <2>2, <2>3, <2>4, <2>5
  \* A page in use stays one.
  <1>17. ASSUME ~new.mixed, tab.page = "work", NEW c, c["form"] = calls["form"],
                \A g \in Flow \ {f} : c[g] = calls[g],
                Answers(c[f]) => owner[c[f].token] = owner[tab.token]
         PROVE  InUse(owner, new, c)
    BY <1>11, <1>16, <1>17 DEF InUse
  <1>18. CASE f \in {"form", "switch"} /\ Show(Going(new, "work"), gone)
    <2> DEFINE s == Going(new, "work")
    <2>1. /\ s \in Tab /\ s.token = new.token /\ s.timedOut = new.timedOut /\ s.perms = new.perms
          /\ s.dynamic = new.dynamic /\ s.built = new.built /\ s.routes = new.routes
          /\ s.mixed = new.mixed /\ s.page = new.page /\ s.nav = "work"
          /\ s.stray = (new.stray \/ new.nav = "entering")
      BY <1>11, GoingFields
    <2>0. Show(s, gone)
      BY <1>18
    <2> HIDE DEF s
    <2>2. Built(s)
      BY <1>14, <2>1 DEF Built
    <2>3. ASSUME ~s.mixed PROVE Unmixed(owner, s, gone)
      <3>1. ~new.mixed /\ ShowsOwn(owner, s)
        BY <1>16, <2>1, <2>3 DEF ShowsOwn
      <3>2. tab.page # "blank"
        BY <1>14, <1>16, <1>18, <3>1 DEF Unmixed, BlankPage
      <3>3. CASE tab.page = "login"
        <4>1. LoginPage(tab, calls)
          BY <1>16, <3>1, <3>3 DEF Unmixed
        <4>2. f = "form" /\ tab.nav = "none"
          BY <1>14, <1>18, <4>1 DEF LoginPage, Flow
        <4>3. LoginPage(s, gone)
          <5>1. \A g \in Flow : gone[g] = Idle
            BY <1>7, <4>1, <4>2 DEF LoginPage
          <5>2. ~s.stray /\ s.dynamic /\ s.nav = "work"
            BY <1>11, <1>12, <2>1, <4>1, <4>2 DEF LoginPage
          <5>3. Idle.kind = "none" /\ "form" \in Flow
            BY DEF Idle, Flow
          <5> QED BY <5>1, <5>2, <5>3 DEF LoginPage
        <4> QED BY <1>11, <1>16, <2>1, <3>1, <3>3, <4>3 DEF Unmixed
      <3>4. CASE tab.page = "work"
        <4>1. InUse(owner, tab, calls)
          BY <1>16, <3>1, <3>4
        <4>2. f # "form" /\ ~Answers(gone[f])
          BY <1>7, <1>14, <4>1 DEF InUse, Answers, Idle
        <4>3. InUse(owner, new, gone)
          BY <1>7, <1>17, <3>1, <3>4, <4>2 DEF Flow
        <4>4. InUse(owner, s, gone)
          BY <2>1, <4>3 DEF InUse
        <4> QED BY <1>11, <1>12, <1>16, <2>1, <3>1, <3>4, <4>4 DEF Unmixed
      <3> QED BY <1>0, <3>2, <3>3, <3>4 DEF Tab
    <2>4. Owned(owner, s, gone)
      BY <1>15, <2>2, <2>3 DEF Owned
    <2> QED BY <1>1, <1>8, <1>11, <1>13, <2>0, <2>1, <2>4, ShowOwns DEF OnDisk
  <1>19. CASE f = "unlock" /\ Show(new, gone)
    <2>1. ASSUME ~new.mixed PROVE Unmixed(owner, new, gone)
      <3>1. tab.page = "work"
        BY <1>0, <1>14, <1>16, <1>19, <2>1 DEF Unmixed, BlankPage, LoginPage, Tab
      <3>2. ~Answers(gone[f])
        BY <1>7 DEF Answers, Idle
      <3>3. InUse(owner, new, gone)
        BY <1>7, <1>17, <1>19, <2>1, <3>1, <3>2 DEF Flow
      <3> QED BY <1>11, <1>12, <1>16, <2>1, <3>1, <3>3 DEF Unmixed
    <2>2. Owned(owner, new, gone)
      BY <1>14, <1>15, <2>1 DEF Owned
    <2> QED BY <1>1, <1>8, <1>11, <1>13, <1>19, <2>2, ShowOwns DEF OnDisk
  <1>20. CASE f = "load"
    <2> DEFINE call == Call("profile", tab.token, None)
               kept == [calls EXCEPT ![f] = call]
    <2>1. call \in Calling /\ call.answer = "none" /\ call.kind = "profile" /\ call.token = tab.token
      BY <1>0, CallIsCalling DEF Call, Tab
    <2>2. kept[f] = call /\ \A g \in Flow \ {f} : kept[g] = calls[g]
      BY <1>0
    <2>3. Show(new, kept) \/ Show(Decided(new), gone)
      BY <1>3, <1>20 DEF Send
    <2> HIDE DEF call
    <2>4. kept \in [Flow -> Calling] /\ CallsKnown(Issued, live, kept)
      BY <2>1, KnownWithOwnCall
    <2>5. gone = [kept EXCEPT ![f] = Idle]
      BY <1>0 DEF gone
    <2> HIDE DEF kept
    <2>6. FlowKinds(kept)
      BY <1>0, <1>20, <2>1, <2>2 DEF FlowKinds, Flow
    <2>7. ASSUME ~new.mixed PROVE Unmixed(owner, new, kept)
      <3>1. \A g \in Flow : Answers(kept[g]) => kept[g].token # None
        BY <1>16, <2>1, <2>2, <2>7 DEF Unmixed
      <3>2. tab.page # "login"
        BY <1>14, <1>16, <1>20, <2>7 DEF Unmixed, LoginPage, Flow
      <3>3. CASE tab.page = "blank"
        <4>1. BlankPage(tab, calls)
          BY <1>16, <2>7, <3>3 DEF Unmixed
        <4>2. BlankPage(new, kept)
          BY <1>11, <1>12, <1>14, <1>20, <2>1, <2>2, <4>1 DEF BlankPage, Idle
        <4> QED BY <1>11, <1>16, <2>7, <3>1, <3>3, <4>2 DEF Unmixed
      <3>4. CASE tab.page = "work"
        <4>1. InUse(owner, new, kept)
          BY <1>17, <1>20, <2>1, <2>2, <2>7, <3>4 DEF Flow
        <4> QED BY <1>11, <1>12, <1>16, <2>7, <3>1, <3>4, <4>1 DEF Unmixed
      <3> QED BY <1>0, <3>2, <3>3, <3>4 DEF Tab
    <2>8. Owned(owner, new, kept)
      BY <1>14, <2>6, <2>7 DEF Owned
    <2>9. CASE Show(new, kept)
      BY <1>1, <1>11, <1>13, <2>4, <2>8, <2>9, ShowOwns DEF OnDisk
    <2>10. CASE Show(Decided(new), gone)
      <3>1. Owned(owner, Decided(new), gone)
        BY <1>11, <1>20, <2>4, <2>5, <2>8, OwnedOnceDecided
      <3>2. Decided(new) \in Tab /\ Decided(new).token = tab.token
        BY <1>11, DecidedTab
      <3> QED BY <1>1, <1>8, <1>13, <2>10, <3>1, <3>2, ShowOwns DEF OnDisk
    <2> QED BY <2>3, <2>9, <2>10
  <1> QED BY <1>3, <1>18, <1>19, <1>20

LEMMA AppOwns ==
  ASSUME IInv, OwnInv, NEW f \in Flow, AppChosen(f)
  PROVE  OwnInv' /\ (Loses => MayLose)
  <1> DEFINE bare == Stripped(tab)
             mx   == bare.mixed \/ Revives(calls[f])
             new  == [bare EXCEPT !.mixed = mx]
             call == Call("auth", tab.token, None)
             kept == [calls EXCEPT ![f] = call]
  <1>0. /\ tab \in Tab /\ calls \in [Flow -> Calling]
        /\ Owned(owner, tab, calls) /\ FlowKinds(calls) /\ calls[f].kind = "app"
    BY Facts DEF OwnInv, Owned, AppChosen, Arrived
  <1>1. disk' = Persisted(new) /\ Show(new, kept) /\ UNCHANGED <<owner, live, left>>
    BY DEF AppChosen, Send
  <1>2. call \in Calling /\ call.answer = "none" /\ call.kind = "auth" /\ call.token = tab.token
    BY <1>0, CallIsCalling DEF Call, Tab
  <1>3. kept[f] = call /\ \A g \in Flow \ {f} : kept[g] = calls[g]
    BY <1>0
  <1>4. /\ bare \in Tab /\ bare.token = tab.token /\ bare.timedOut = tab.timedOut
        /\ bare.perms = None /\ ~bare.dynamic /\ ~bare.built /\ bare.routes = {}
        /\ bare.mixed = tab.mixed /\ bare.page = tab.page /\ bare.nav = tab.nav
        /\ bare.stray = tab.stray
    BY <1>0, StrippedFields
  <1>5. mx \in BOOLEAN /\ (mx <=> tab.mixed \/ (tab.timedOut /\ calls[f].token # tab.token))
    BY <1>4 DEF Revives
  <1> HIDE DEF bare, mx, call
  <1>6. /\ new \in Tab /\ new.token = bare.token /\ new.timedOut = bare.timedOut
        /\ new.perms = bare.perms /\ new.dynamic = bare.dynamic /\ new.built = bare.built
        /\ new.routes = bare.routes /\ new.mixed = mx /\ new.page = bare.page
        /\ new.nav = bare.nav /\ new.stray = bare.stray
    BY <1>4, <1>5 DEF Tab
  <1>7. disk' \in Disk /\ disk'.token = tab.token
    BY <1>1, <1>4, <1>6, PersistedDisk
  <1>8. kept \in [Flow -> Calling] /\ CallsKnown(Issued, live, kept)
    BY <1>2, KnownWithOwnCall
  <1>9. f = "switch" /\ calls[f] # Idle
    BY <1>0 DEF FlowKinds, Flow, Idle
  <1> HIDE DEF new, kept
  <1>10. FlowKinds(kept)
    BY <1>0, <1>2, <1>3, <1>9 DEF FlowKinds, Flow
  <1>11. Built(new)
    BY <1>4, <1>6 DEF Built, Tab
  <1>12. ASSUME ~new.mixed PROVE Unmixed(owner, new, kept)
    <2>1. Unmixed(owner, tab, calls) /\ (tab.timedOut => calls[f].token = tab.token)
      BY <1>0, <1>5, <1>6, <1>12 DEF Owned
    <2>2. tab.page = "work" /\ ~tab.timedOut /\ InUse(owner, tab, calls)
      <3>1. tab.page = "work"
        BY <1>0, <1>9, <2>1 DEF Unmixed, BlankPage, LoginPage, Tab
      <3>2. ~tab.timedOut
        BY <1>0, <2>1, <3>1 DEF Unmixed, CoveredPage
      <3> QED BY <2>1, <3>1, <3>2 DEF Unmixed
    <2>3. InUse(owner, new, kept)
      BY <1>2, <1>3, <1>4, <1>6, <1>9, <2>2 DEF InUse, Flow
    <2>4. \A g \in Flow : Answers(kept[g]) => kept[g].token # None
      BY <1>2, <1>3, <2>1, <2>2 DEF Unmixed, InUse
    <2>5. ShowsOwn(owner, new)
      BY <1>4, <1>6 DEF ShowsOwn
    <2> QED BY <1>4, <1>6, <2>2, <2>3, <2>4, <2>5 DEF Unmixed
  <1>13. Owned(owner, new, kept)
    BY <1>10, <1>11, <1>12 DEF Owned
  <1> QED BY <1>1, <1>4, <1>6, <1>7, <1>8, <1>13, ShowOwns DEF OnDisk

\* What a flow that is through, or gave up, leaves.
LEMMA GivenUpOwns ==
  ASSUME IInv, OwnInv, NEW f \in Flow, UNCHANGED <<owner, live, left, disk>>,
         Show(IF f = "load" THEN Decided(tab) ELSE tab, Send(f, Idle))
  PROVE  OwnInv' /\ (Loses => MayLose)
  <1> DEFINE s == IF f = "load" THEN Decided(tab) ELSE tab
             gone == [calls EXCEPT ![f] = Idle]
  <1>0. /\ tab \in Tab /\ disk \in Disk /\ calls \in [Flow -> Calling]
        /\ OnDisk(tab, disk) /\ Owned(owner, tab, calls)
    BY Facts DEF OwnInv
  <1>1. gone \in [Flow -> Calling] /\ CallsKnown(Issued, live, gone)
    BY KnownWithOwnCall, IdleIsCalling DEF Idle
  <1>2. Show(s, gone)
    BY DEF Send
  <1>3. s \in Tab /\ s.token = tab.token /\ Owned(owner, s, gone)
    <2>1. CASE f = "load"
      BY <1>0, <2>1, DecidedTab, OwnedOnceDecided
    <2>2. CASE f # "load"
      BY <1>0, <2>2, OwnedWithoutCall
    <2> QED BY <2>1, <2>2
  <1> HIDE DEF s, gone
  <1> QED BY <1>0, <1>1, <1>2, <1>3, ShowOwns DEF OnDisk

LEMMA DeniedOwns ==
  ASSUME IInv, OwnInv, NEW f \in Flow, Denied(f)
  PROVE  OwnInv' /\ (Loses => MayLose)
  <1>1. CASE ~Expires(calls[f])
    BY <1>1, GivenUpOwns DEF Denied
  <1>2. CASE Expires(calls[f])
    <2> DEFINE out  == SignedOut(tab)
               gone == [calls EXCEPT ![f] = Idle]
    <2>0. /\ tab \in Tab /\ calls \in [Flow -> Calling] /\ CallsKnown(Issued, live, calls)
          /\ Owned(owner, tab, calls) /\ FlowKinds(calls)
      BY Facts DEF OwnInv, Owned
    <2>1. /\ calls[f].answer = "denied" /\ calls[f].token = tab.token
          /\ disk' = Persisted(out) /\ Show(out, gone) /\ UNCHANGED <<owner, live, left>>
      BY <1>2 DEF Denied, Expires, Send
    <2>2. gone \in [Flow -> Calling] /\ CallsKnown(Issued, live, gone)
      BY KnownWithOwnCall, IdleIsCalling DEF Idle
    <2>3. gone[f] = Idle /\ \A g \in Flow \ {f} : gone[g] = calls[g]
      BY <2>0
    <2>4. /\ out \in Tab /\ out.token = None /\ out.timedOut /\ out.perms = None
          /\ ~out.dynamic /\ ~out.built /\ out.routes = {}
          /\ out.mixed = tab.mixed /\ out.page = tab.page /\ out.nav = "login"
          /\ out.stray = (tab.stray \/ tab.nav = "entering")
      BY <2>0, SignedOutFields
    <2>5. disk' \in Disk
      BY <2>1, <2>4, PersistedDisk
    <2> HIDE DEF out, gone
    <2>6. MayLose
      BY <2>0, <2>1 DEF CallsKnown, MayLose
    <2>7. FlowKinds(gone)
      BY <2>0, <2>3 DEF FlowKinds, Flow, Idle
    <2>8. out.dynamic = FALSE /\ out.built = FALSE
      BY <2>4 DEF Tab
    <2>9. calls[f] # Idle
      BY <2>1 DEF Idle
    <2>10. ASSUME Unmixed(owner, tab, calls) PROVE Unmixed(owner, out, gone)
      <3>1. \A g \in Flow : Answers(gone[g]) => gone[g].token # None
        BY <2>3, <2>10 DEF Unmixed, Answers, Idle
      <3>2. ShowsOwn(owner, out)
        BY <2>8 DEF ShowsOwn
      <3>3. CASE tab.page = "blank"
        <4>1. BlankPage(tab, calls)
          BY <2>10, <3>3 DEF Unmixed
        <4>2. f = "load" /\ tab.nav = "loading"
          BY <2>9, <4>1 DEF BlankPage
        <4>3. BlankPage(out, gone)
          <5>1. \A g \in Flow : gone[g] = Idle
            BY <2>3, <4>1, <4>2 DEF BlankPage
          <5>2. ~out.stray /\ ~out.dynamic /\ out.nav = "login"
            BY <2>4, <4>1, <4>2 DEF BlankPage
          <5>3. Idle.kind = "none" /\ "load" \in Flow
            BY DEF Idle, Flow
          <5> QED BY <5>1, <5>2, <5>3 DEF BlankPage
        <4> QED BY <2>4, <3>1, <3>2, <3>3, <4>3 DEF Unmixed
      <3>4. CASE tab.page = "login"
        <4>1. LoginPage(tab, calls)
          BY <2>10, <3>4 DEF Unmixed
        <4>2. f = "form" /\ tab.nav = "none"
          BY <2>9, <4>1 DEF LoginPage
        <4>3. LoginPage(out, gone)
          <5>1. \A g \in Flow : gone[g] = Idle
            BY <2>3, <4>1, <4>2 DEF LoginPage
          <5>2. ~out.stray /\ ~out.dynamic /\ out.nav = "login" /\ out.token = None
            BY <2>4, <4>1, <4>2 DEF LoginPage
          <5>3. Idle.kind = "none" /\ "form" \in Flow
            BY DEF Idle, Flow
          <5> QED BY <5>1, <5>2, <5>3 DEF LoginPage
        <4> QED BY <2>4, <3>1, <3>2, <3>4, <4>3 DEF Unmixed
      <3>5. CASE tab.page = "work"
        <4>1. CoveredPage(out, gone)
          BY <2>4, <3>1 DEF CoveredPage, Answers
        <4> QED BY <2>4, <3>1, <3>2, <3>5, <4>1 DEF Unmixed
      <3> QED BY <2>0, <3>3, <3>4, <3>5 DEF Tab
    <2>11. Owned(owner, out, gone)
      BY <2>0, <2>4, <2>7, <2>8, <2>10 DEF Owned, Built
    <2> QED BY <2>1, <2>2, <2>4, <2>5, <2>6, <2>11, ShowOwns DEF OnDisk
  <1> QED BY <1>1, <1>2

LEMMA AnswerOwns ==
  ASSUME IInv, OwnInv, NEW f \in Flow,
         \/ SignInAccepted(f) \/ ProfileArrived(f) \/ PermissionsArrived(f)
         \/ AppChosen(f) \/ Denied(f) \/ Failed(f)
  PROVE  OwnInv' /\ (Loses => MayLose)
  <1>1. CASE Failed(f)
    BY <1>1, GivenUpOwns DEF Failed
  <1> QED BY <1>1, SignInOwns, ProfileOwns, PermissionsOwn, AppOwns, DeniedOwns

-----------------------------------------------------------------------------
LEMMA InitOwns == ConsoleInit => OwnInv
  <1> SUFFICES ASSUME ConsoleInit PROVE OwnInv
    OBVIOUS
  <1>1. disk \in Disk /\ disk.token = None
    BY DEF ConsoleInit, Disk
  <1>2. tab = Loaded(disk, FALSE, "work") /\ calls = [f \in Flow |-> Idle]
    BY DEF ConsoleInit
  <1>3. Owned(owner, tab, calls)
    BY <1>1, <1>2, LoadedOwned
  <1>4. CallsKnown(Issued, live, calls)
    BY <1>2, KnownWhenIdle
  <1>5. OnDisk(tab, disk)
    BY <1>2 DEF OnDisk, Loaded
  <1> QED BY <1>3, <1>4, <1>5 DEF OwnInv

LEMMA NextOwns ==
  ASSUME IInv, OwnInv, [ConsoleNext]_consoleVars
  PROVE  OwnInv' /\ (Loses => MayLose)
  <1>1. CASE UNCHANGED consoleVars
    <2>1. UNCHANGED <<owner, live, left, disk, tab, calls>>
      BY <1>1 DEF consoleVars
    <2> QED BY <2>1, QuietOwns DEF OwnInv
  <1>2. CASE ConsoleNext
    BY <1>2, UserOwns, GuardOwns, ServerOwns, AnswerOwns DEF ConsoleNext
  <1> QED BY <1>1, <1>2

\* A session the server still accepts is dropped only by its user, or by a
\* login page that was being entered before the session began; in particular
\* no answer to an earlier session ends it (unauthorized.ts).
THEOREM SessionsStay == ConsoleSpec => StaysSignedIn
  <1>1. IInv /\ [ConsoleNext]_consoleVars => IInv'
    BY NextKeeps
  <1>2. IInv /\ OwnInv /\ [ConsoleNext]_consoleVars => OwnInv'
    BY NextOwns
  <1>3. IInv /\ OwnInv /\ [ConsoleNext]_consoleVars
          => [tab.token # None /\ tab'.token = None
                => \/ tab.token \notin live
                   \/ tab.token \in left'
                   \/ tab.nav = "entering" \/ tab.stray]_consoleVars
    BY NextOwns DEF Loses, MayLose
  <1> QED BY <1>1, <1>2, <1>3, InitEstablishes, InitOwns, PTL DEF ConsoleSpec, StaysSignedIn

\* A settled page shows the menus, permissions and routes of the account that
\* is signed in, whoever used the page before: a page that was signed out is
\* loaded again before the next sign-in is through (user.ts, login).
THEOREM NothingIsLeftOver == ConsoleSpec => []NoResidue
  <1>1. OwnInv => NoResidue
    BY DEF OwnInv, Owned, Unmixed, ShowsOwn, NoResidue, Settled
  <1>2. IInv /\ [ConsoleNext]_consoleVars => IInv'
    BY NextKeeps
  <1>3. IInv /\ OwnInv /\ [ConsoleNext]_consoleVars => OwnInv'
    BY NextOwns
  <1> QED BY <1>1, <1>2, <1>3, InitEstablishes, InitOwns, PTL DEF ConsoleSpec
=============================================================================
