-------------------------- MODULE AgentTurns_proofs --------------------------
(***************************************************************************)
(* A lease token identifies one request.  From that follows everything     *)
(* else: only the request that took the lease can store under it, what it  *)
(* loaded is still what is stored, and nobody else gives its lease back.   *)
(***************************************************************************)
EXTENDS AgentTurns, SequenceTheorems, WellFoundedInduction, TLAPS

HasToken(r) == requests[r].pc \in {"begun", "running", "replied", "ending"}
InTurn(r) == requests[r].pc \in {"begun", "running", "replied"}

(* Tokens are handed out in order, one to a request.                       *)
TokensAreUnique ==
    /\ lease.token <= begun
    /\ \A r \in Request : HasToken(r) => requests[r].token <= begun
    /\ \A r, q \in Request :
         r # q /\ HasToken(r) /\ HasToken(q) => requests[r].token # requests[q].token

(* A request was given its token after every turn it loaded was recorded.  *)
NumbersGrow ==
    /\ \A i \in 1..Len(session.history) : session.history[i].number <= begun
    /\ \A r \in Request : InTurn(r) =>
         \A i \in 1..Len(requests[r].history) :
             requests[r].history[i].number < requests[r].token

IInv ==
    /\ TypeOK /\ TokensAreUnique /\ NumbersGrow
    /\ HistoryOfOneVersion /\ LeaseholderIsCurrent /\ HistoryFits

-----------------------------------------------------------------------------
(* boundedHistory.                                                         *)

LEMMA LeastNatural ==
    ASSUME NEW T, T \subseteq Nat, T # {}
    PROVE  \E x \in T : \A y \in T : x <= y
<1>1. PICK x \in T : \A y \in T : <<y, x>> \notin OpToRel(<, Nat)
    BY WFMin, NatLessThanWellFounded, Zenon
<1>2. \A y \in T : ~(y < x)
    BY <1>1, Zenon DEF OpToRel
<1> QED
    BY <1>2

(* What is kept of a history that can be stored is a run of its last turns *)
(* which fits.                                                             *)
LEMMA KeepsRecentTurns ==
    ASSUME NEW h, Len(h) \in Nat, Storable(h)
    PROVE  \E k \in 1..Len(h) : BoundedHistory(h) = Recent(h, k) /\ Fits(Recent(h, k))
<1> DEFINE Good == {k \in 1..Len(h) : Fits(Recent(h, k))}
           First(k) == Fits(Recent(h, k)) /\ \A j \in 1..(k - 1) : ~Fits(Recent(h, j))
<1>1. Good \subseteq Nat /\ Good # {}
    BY DEF Storable
<1>2. PICK k \in Good : \A j \in Good : k <= j
    BY <1>1, LeastNatural
<1>3. k \in 1..Len(h) /\ First(k)
    BY <1>2
<1>4. DEFINE c == CHOOSE c \in 1..Len(h) : First(c)
<1>5. c \in 1..Len(h) /\ First(c)
    BY <1>3
<1>6. BoundedHistory(h) = Recent(h, c)
    BY DEF BoundedHistory
<1> QED
    BY <1>5, <1>6

(* Recent turns are turns of the history, the last one included.           *)
LEMMA RecentTurns ==
    ASSUME NEW S, NEW h \in Seq(S), NEW k \in 1..Len(h)
    PROVE  /\ Recent(h, k) \in Seq(S)
           /\ Len(Recent(h, k)) = Len(h) - k + 1
           /\ Recent(h, k)[Len(Recent(h, k))] = h[Len(h)]
           /\ \A i \in 1..Len(Recent(h, k)) : \E j \in 1..Len(h) : Recent(h, k)[i] = h[j]
<1>1. k \in Int /\ Len(h) \in Int /\ 1 <= k /\ k <= Len(h) /\ \A i \in k..Len(h) : h[i] \in S
    OBVIOUS
<1>2. /\ Recent(h, k) \in Seq(S)
      /\ Len(Recent(h, k)) = Len(h) - k + 1
      /\ \A i \in 1..(Len(h) - k + 1) : Recent(h, k)[i] = h[k + i - 1]
    BY <1>1, SubSeqProperties DEF Recent
<1>3. Recent(h, k)[Len(h) - k + 1] = h[k + (Len(h) - k + 1) - 1]
    BY <1>1, <1>2
<1>4. k + (Len(h) - k + 1) - 1 = Len(h)
    BY <1>1
<1>5. ASSUME NEW i \in 1..(Len(h) - k + 1) PROVE k + i - 1 \in 1..Len(h)
    BY <1>1
<1> QED
    BY <1>2, <1>3, <1>4, <1>5

-----------------------------------------------------------------------------
(* The invariant.                                                          *)

LEMMA Records ==
    ASSUME TypeOK, NEW r \in Request
    PROVE  /\ HasToken(r) => requests[r] \in Working
           /\ requests[r].pc \in {"opened", "updating"} => requests[r] \in Reading
BY DEF TypeOK, HasToken, Idle, Reading, Working

LEMMA InitEstablishes == Init => IInv
BY TurnsAssumption
DEF Init, IInv, TypeOK, Version, NoLease, Idle, TokensAreUnique, NumbersGrow, HasToken, InTurn,
    HistoryOfOneVersion, LeaseholderIsCurrent, HistoryFits

(* A request that has no turn under way any more, or is not in one yet,    *)
(* disturbs nothing as long as the row stays.                              *)
LEMMA RequestLeaves ==
    ASSUME IInv, NEW r \in Request, NEW q \in {Idle} \cup Reading,
           requests' = [requests EXCEPT ![r] = q],
           UNCHANGED <<session, lease, begun>>, grants' \in Version
    PROVE  IInv'
BY DEF IInv, TypeOK, Idle, Reading, TokensAreUnique, NumbersGrow, HasToken, InTurn,
       HistoryOfOneVersion, LeaseholderIsCurrent, HoldsLease, Leased, HistoryFits

(* A request that goes on in its turn keeps what it loaded and its token.  *)
LEMMA RequestGoesOn ==
    ASSUME IInv, NEW r \in Request, InTurn(r),
           NEW pc \in {"running", "replied", "ending"},
           NEW tools \in SUBSET Tool, NEW results \in SUBSET Tool,
           requests' = [requests EXCEPT ![r] =
                [requests[r] EXCEPT !.pc = pc, !.tools = tools, !.results = results]],
           UNCHANGED <<session, lease, begun, grants>>
    PROVE  IInv'
<1>1. requests[r] \in Working
    BY Records DEF IInv, HasToken, InTurn
<1>2. TypeOK'
    BY <1>1 DEF IInv, TypeOK, Working
<1>3. /\ requests'[r].token = requests[r].token /\ requests'[r].history = requests[r].history
      /\ requests'[r].version = requests[r].version /\ requests'[r].pc = pc
    BY <1>1 DEF IInv, TypeOK, Working
<1>4. \A q \in Request : q # r => requests'[q] = requests[q]
    BY DEF IInv, TypeOK
<1> QED
    BY <1>2, <1>3, <1>4
    DEF IInv, TokensAreUnique, NumbersGrow, HasToken, InTurn, HistoryOfOneVersion,
        LeaseholderIsCurrent, HoldsLease, Leased, HistoryFits

LEMMA BeginTurnKeeps == ASSUME IInv, NEW r \in Request, BeginTurn(r) PROVE IInv'
<1> USE DEF BeginTurn, At, Become
<1>1. requests[r] \in Reading
    BY Records DEF IInv
<1>2. /\ session' \in [version : Version, history : Seq(Turn)]
      /\ session'.version = requests[r].version
      /\ session' = session \/ session'.history = <<>>
    BY <1>1 DEF IInv, TypeOK, Reading
<1>3. begun \in Nat /\ begun' = begun + 1
    BY DEF IInv, TypeOK
<1>4. DEFINE mine == [pc |-> "begun", version |-> requests[r].version, token |-> begun',
                      history |-> session'.history, tools |-> {}, results |-> {}]
<1>5. mine \in Working /\ requests'[r] = mine
    BY <1>1, <1>2, <1>3 DEF IInv, TypeOK, Reading, Working
<1>6. \A q \in Request : q # r => requests'[q] = requests[q]
    BY DEF IInv, TypeOK
<1>7. TypeOK'
    BY <1>2, <1>3, <1>5, TurnsAssumption DEF IInv, TypeOK
<1>8. TokensAreUnique'
    <2>1. lease'.token = begun'
        OBVIOUS
    <2>2. \A q \in Request : q # r /\ HasToken(q)' => requests'[q].token \in Nat /\ requests'[q].token <= begun
        BY <1>6, Records DEF IInv, HasToken, TokensAreUnique, Working
    <2> QED
        BY <1>3, <1>5, <2>1, <2>2 DEF TokensAreUnique, HasToken, IInv, TypeOK
<1>9. NumbersGrow'
    <2>1. \A i \in 1..Len(session'.history) : /\ session'.history[i].number \in Nat
                                              /\ session'.history[i].number <= begun
        <3>1. session'.history \in Seq(Turn)
            BY <1>2
        <3>2. \A i \in 1..Len(session'.history) : session'.history[i] \in Turn
            BY <3>1
        <3>3. \A i \in 1..Len(session'.history) : session'.history[i].number <= begun
            BY <1>2 DEF IInv, NumbersGrow
        <3> QED
            BY <3>2, <3>3 DEF Turn
    <2> QED
        BY <1>3, <1>5, <1>6, <2>1 DEF IInv, NumbersGrow, InTurn
<1>10. HistoryOfOneVersion' /\ HistoryFits'
    BY <1>2 DEF IInv, HistoryOfOneVersion, HistoryFits
<1>11. LeaseholderIsCurrent'
    <2>1. ASSUME NEW q \in Request, InTurn(q)', HoldsLease(q)' PROVE q = r
        <3>1. HasToken(q)' /\ HasToken(r)' /\ requests'[q].token = requests'[r].token
            BY <2>1, <1>5 DEF HasToken, InTurn, HoldsLease
        <3> QED
            BY <3>1, <1>8 DEF TokensAreUnique
    <2> QED
        BY <2>1, <1>2, <1>5 DEF LeaseholderIsCurrent, InTurn
<1> QED
    BY <1>7, <1>8, <1>9, <1>10, <1>11 DEF IInv

(* What the leaseholder stores: the turns it loaded and its own, cut to    *)
(* the most recent ones.                                                   *)
LEMMA StoredTurns ==
    ASSUME IInv, NEW r \in Request, NEW s \in Size, CompleteTurn(r, s)
    PROVE  /\ session'.version = session.version
           /\ session'.history \in Seq(Turn)
           /\ Fits(session'.history)
           /\ \E k \in 1..Len(Transcript(r, s)) : session'.history = Recent(Transcript(r, s), k)
           /\ \E t \in Turn :
                /\ t.version = session.version /\ t.number = requests[r].token
                /\ Transcript(r, s) = Append(session.history, t)
           /\ requests[r].history = session.history
<1>1. requests[r] \in Working
    BY Records DEF IInv, CompleteTurn, At, HasToken
<1>2. requests[r].history = session.history /\ requests[r].version = session.version
    BY DEF IInv, LeaseholderIsCurrent, CompleteTurn, At
<1> DEFINE t == [number |-> requests[r].token, version |-> requests[r].version,
                 results |-> requests[r].results, size |-> s]
           h == Transcript(r, s)
<1>3. t \in Turn
    BY <1>1 DEF Turn, Working
<1>4. h = Append(session.history, t) /\ session.history \in Seq(Turn)
    BY <1>2 DEF Transcript, IInv, TypeOK
<1>5. h \in Seq(Turn) /\ Len(h) \in Nat
    BY <1>3, <1>4
<1>6. session'.history = BoundedHistory(h) /\ session'.version = session.version
    BY DEF CompleteTurn, IInv, TypeOK
<1>7. PICK k \in 1..Len(h) : BoundedHistory(h) = Recent(h, k) /\ Fits(Recent(h, k))
    <2>1. Storable(h)
        BY DEF CompleteTurn
    <2> HIDE DEF h
    <2> QED
        BY <1>5, <2>1, KeepsRecentTurns
<1>8. Recent(h, k) \in Seq(Turn)
    <2> HIDE DEF h
    <2> QED
        BY <1>5, RecentTurns
<1> QED
    BY <1>2, <1>3, <1>4, <1>6, <1>7, <1>8

LEMMA CompleteTurnKeeps ==
    ASSUME IInv, NEW r \in Request, NEW s \in Size, CompleteTurn(r, s) PROVE IInv'
<1>1. requests[r] \in Working
    BY Records DEF IInv, CompleteTurn, At, HasToken
<1>2. /\ lease' = NoLease /\ begun' = begun /\ grants' = grants
      /\ requests' = [requests EXCEPT ![r] = [requests[r] EXCEPT !.pc = "ending"]]
    BY DEF CompleteTurn, Become
<1>3. PICK k \in 1..Len(Transcript(r, s)) : session'.history = Recent(Transcript(r, s), k)
    BY StoredTurns
<1>4. PICK t \in Turn : /\ t.version = session.version /\ t.number = requests[r].token
                        /\ Transcript(r, s) = Append(session.history, t)
    BY StoredTurns
<1> DEFINE h == Transcript(r, s)
<1>5. session.history \in Seq(Turn) /\ h \in Seq(Turn)
    BY <1>4 DEF IInv, TypeOK
<1>6. \A i \in 1..Len(h) : h[i] = t \/ \E j \in 1..Len(session.history) : h[i] = session.history[j]
    BY <1>4, <1>5
<1>7. \A i \in 1..Len(session'.history) : \E j \in 1..Len(h) : session'.history[i] = h[j]
    BY <1>3, <1>5, RecentTurns
<1>8. TypeOK'
    <2>1. session' \in [version : Version, history : Seq(Turn)]
        BY StoredTurns DEF CompleteTurn, IInv, TypeOK
    <2>2. requests' \in [Request -> {Idle} \cup Reading \cup Working]
        BY <1>1, <1>2 DEF IInv, TypeOK, Working
    <2> QED
        BY <1>2, <2>1, <2>2, TurnsAssumption DEF IInv, TypeOK, NoLease
<1>9. /\ requests'[r].token = requests[r].token /\ requests'[r].pc = "ending"
      /\ \A q \in Request : q # r => requests'[q] = requests[q]
    BY <1>1, <1>2 DEF IInv, TypeOK, Working
<1>10. TokensAreUnique'
    BY <1>1, <1>2, <1>9 DEF IInv, TypeOK, TokensAreUnique, HasToken, NoLease, CompleteTurn, At
<1>11. NumbersGrow'
    <2>1. t.number <= begun
        BY <1>4 DEF IInv, TokensAreUnique, HasToken, CompleteTurn, At
    <2>2. \A i \in 1..Len(h) : h[i].number <= begun
        BY <1>6, <2>1 DEF IInv, NumbersGrow
    <2>3. \A i \in 1..Len(session'.history) : session'.history[i].number <= begun
        BY <1>7, <2>2
    <2> QED
        BY <1>2, <1>9, <2>3 DEF IInv, NumbersGrow, InTurn
<1>12. HistoryOfOneVersion'
    <2>1. \A i \in 1..Len(h) : h[i].version = session.version
        BY <1>4, <1>6 DEF IInv, HistoryOfOneVersion
    <2>2. session'.version = session.version
        BY StoredTurns
    <2> QED
        BY <1>7, <2>1, <2>2 DEF HistoryOfOneVersion
<1>13. LeaseholderIsCurrent'
    BY <1>2 DEF LeaseholderIsCurrent, HoldsLease, Leased, NoLease
<1>14. HistoryFits'
    BY StoredTurns DEF HistoryFits
<1> QED
    BY <1>8, <1>10, <1>11, <1>12, <1>13, <1>14 DEF IInv

LEMMA AbortTurnKeeps == ASSUME IInv, NEW r \in Request, AbortTurn(r) PROVE IInv'
<1> USE DEF AbortTurn, At, Become
<1>1. TypeOK'
    BY TurnsAssumption DEF IInv, TypeOK, Idle, NoLease
<1>2. TokensAreUnique'
    BY DEF IInv, TypeOK, Idle, NoLease, TokensAreUnique, HasToken
<1>3. NumbersGrow'
    BY DEF IInv, TypeOK, Idle, NumbersGrow, HasToken, InTurn
<1>4. HistoryOfOneVersion' /\ HistoryFits'
    BY DEF IInv, HistoryOfOneVersion, HistoryFits
<1>5. LeaseholderIsCurrent'
    BY DEF IInv, TypeOK, Idle, NoLease, LeaseholderIsCurrent, HoldsLease, Leased
<1> QED
    BY <1>1, <1>2, <1>3, <1>4, <1>5 DEF IInv

LEMMA UpdateContextKeeps == ASSUME IInv, NEW r \in Request, UpdateContext(r) PROVE IInv'
<1> USE DEF UpdateContext, At, Become
<1>1. requests[r] \in Reading
    BY Records DEF IInv
<1>2. session' \in [version : Version, history : Seq(Turn)]
    BY <1>1 DEF IInv, TypeOK, Reading
<1>3. session' = session \/ session'.history = <<>>
    OBVIOUS
<1>4. TypeOK' /\ TokensAreUnique' /\ NumbersGrow'
    BY <1>2, <1>3 DEF IInv, TypeOK, Idle, TokensAreUnique, NumbersGrow, HasToken, InTurn
<1>5. HistoryOfOneVersion' /\ HistoryFits'
    BY <1>3 DEF IInv, HistoryOfOneVersion, HistoryFits
<1>6. LeaseholderIsCurrent'
    BY DEF IInv, TypeOK, Idle, LeaseholderIsCurrent, HoldsLease, Leased
<1> QED
    BY <1>4, <1>5, <1>6 DEF IInv

LEMMA RowStepKeeps == ASSUME IInv, Forget \/ ChangeGrants \/ Tick PROVE IInv'
<1>1. CASE Forget
    BY <1>1, TurnsAssumption
    DEF Forget, At, IInv, TypeOK, NoLease, TokensAreUnique, NumbersGrow, HasToken, InTurn,
        HistoryOfOneVersion, LeaseholderIsCurrent, HoldsLease, Leased, HistoryFits
<1>2. CASE ChangeGrants
    BY <1>2
    DEF ChangeGrants, IInv, TypeOK, TokensAreUnique, NumbersGrow, HasToken, InTurn,
        HistoryOfOneVersion, LeaseholderIsCurrent, HoldsLease, Leased, HistoryFits
<1>3. CASE Tick
    <2>1. lease' \in [token : Nat, left : 0..LeaseTTL] /\ lease'.token = lease.token
        BY <1>3, TurnsAssumption DEF Tick, Leased, IInv, TypeOK
    <2> QED
        BY <1>3, <2>1
        DEF Tick, Leased, IInv, TypeOK, TokensAreUnique, NumbersGrow, HasToken, InTurn,
            HistoryOfOneVersion, LeaseholderIsCurrent, HoldsLease, HistoryFits
<1> QED
    BY <1>1, <1>2, <1>3

LEMMA RequestStepKeeps ==
    ASSUME IInv, NEW r \in Request,
           \/ Open(r) \/ Refuse(r) \/ OfferTools(r) \/ \E x \in Tool : CallTool(r, x)
           \/ Reply(r) \/ FailTurn(r) \/ Crash(r)
    PROVE  IInv'
<1>1. ASSUME Open(r) PROVE IInv'
    <2>1. PICK pc \in {"opened", "updating"} : Become(r, [pc |-> pc, version |-> grants])
        BY <1>1 DEF Open
    <2>2. [pc |-> pc, version |-> grants] \in Reading
        BY DEF IInv, TypeOK, Reading
    <2> QED
        BY <1>1, <2>1, <2>2, RequestLeaves DEF Open, Become, IInv, TypeOK
<1>2. ASSUME Refuse(r) \/ Crash(r) PROVE IInv'
    BY <1>2, RequestLeaves DEF Refuse, Crash, Become, IInv, TypeOK
<1>3. ASSUME OfferTools(r) \/ (\E x \in Tool : CallTool(r, x)) \/ Reply(r) \/ FailTurn(r) PROVE IInv'
    <2>1. InTurn(r) /\ requests[r] \in Working
        BY <1>3, Records DEF OfferTools, CallTool, Reply, FailTurn, At, InTurn, HasToken, IInv
    <2>2. UNCHANGED <<session, lease, begun, grants>>
        BY <1>3 DEF OfferTools, CallTool, Reply, FailTurn
    <2>3. \E pc \in {"running", "replied", "ending"}, tools, results \in SUBSET Tool :
            requests' = [requests EXCEPT ![r] =
                [requests[r] EXCEPT !.pc = pc, !.tools = tools, !.results = results]]
        <3>1. CASE OfferTools(r)
            <4>1. requests' = [requests EXCEPT ![r] =
                    [requests[r] EXCEPT !.pc = "running", !.tools = grants,
                                        !.results = requests[r].results]]
                BY <3>1, <2>1 DEF OfferTools, Become, Working
            <4> QED
                BY <4>1, <2>1 DEF Working, IInv, TypeOK, Version
        <3>2. CASE \E x \in Tool : CallTool(r, x)
            <4>1. PICK x \in Tool : CallTool(r, x)
                BY <3>2
            <4>2. requests' = [requests EXCEPT ![r] =
                    [requests[r] EXCEPT !.pc = "running", !.tools = requests[r].tools,
                                        !.results = requests[r].results \cup {x}]]
                BY <4>1, <2>1 DEF CallTool, At, Become, Working
            <4> QED
                BY <4>2, <2>1 DEF Working
        <3>3. CASE Reply(r)
            <4>1. requests' = [requests EXCEPT ![r] =
                    [requests[r] EXCEPT !.pc = "replied", !.tools = requests[r].tools,
                                        !.results = requests[r].results]]
                BY <3>3, <2>1 DEF Reply, Become, Working
            <4> QED
                BY <4>1, <2>1 DEF Working
        <3>4. CASE FailTurn(r)
            <4>1. requests' = [requests EXCEPT ![r] =
                    [requests[r] EXCEPT !.pc = "ending", !.tools = requests[r].tools,
                                        !.results = requests[r].results]]
                BY <3>4, <2>1 DEF FailTurn, Become, Working
            <4> QED
                BY <4>1, <2>1 DEF Working
        <3> QED
            BY <1>3, <3>1, <3>2, <3>3, <3>4
    <2> QED
        BY <2>1, <2>2, <2>3, RequestGoesOn
<1> QED
    BY <1>1, <1>2, <1>3

LEMMA NextKeeps == ASSUME IInv, [Next]_vars PROVE IInv'
<1>1. CASE UNCHANGED vars
    BY <1>1
    DEF vars, IInv, TypeOK, TokensAreUnique, NumbersGrow, HasToken, InTurn,
        HistoryOfOneVersion, LeaseholderIsCurrent, HoldsLease, Leased, HistoryFits
<1> QED
    BY <1>1, RequestStepKeeps, BeginTurnKeeps, CompleteTurnKeeps, AbortTurnKeeps,
       UpdateContextKeeps, RowStepKeeps DEF Next

-----------------------------------------------------------------------------
(* The invariant, for any number of requests, tools and turns.             *)
THEOREM Inductive == Spec => []IInv
<1>1. Init => IInv
    BY InitEstablishes
<1>2. IInv /\ [Next]_vars => IInv'
    BY NextKeeps
<1> QED
    BY <1>1, <1>2, PTL DEF Spec

(* The variables keep their types.                                         *)
THEOREM TypeCorrect == Spec => []TypeOK
<1>1. IInv => TypeOK
    BY DEF IInv
<1> QED
    BY <1>1, Inductive, PTL

(* A history never mixes permission versions, whatever overlaps.           *)
THEOREM OneVersion == Spec => []HistoryOfOneVersion
<1>1. IInv => HistoryOfOneVersion
    BY DEF IInv
<1> QED
    BY <1>1, Inductive, PTL

(* Nothing was stored between a leaseholder's load and its store.          *)
THEOREM NothingOverwritten == Spec => []LeaseholderIsCurrent
<1>1. IInv => LeaseholderIsCurrent
    BY DEF IInv
<1> QED
    BY <1>1, Inductive, PTL

(* boundedHistory keeps what is stored within the limits.                  *)
THEOREM HistoryBounded == Spec => []HistoryFits
<1>1. IInv => HistoryFits
    BY DEF IInv
<1> QED
    BY <1>1, Inductive, PTL

LEMMA OwnLease ==
    ASSUME IInv, Next, NEW r \in Request, InTurn(r), HoldsLease(r), requests'[r] = requests[r]
    PROVE  lease'.token = lease.token
<1>1. ASSUME NEW q \in Request, AbortTurn(q) \/ \E s \in Size : CompleteTurn(q, s)
      PROVE  lease'.token = lease.token
    <2>1. HasToken(q) /\ requests'[q].pc # requests[q].pc
        BY <1>1 DEF CompleteTurn, AbortTurn, At, Become, HasToken, Idle, IInv, TypeOK, Reading, Working
    <2>2. q # r
        BY <2>1
    <2>3. requests[q].token # lease.token
        BY <2>1, <2>2 DEF IInv, TokensAreUnique, HasToken, InTurn, HoldsLease
    <2> QED
        BY <1>1, <2>3 DEF CompleteTurn, AbortTurn, HoldsLease
<1>2. CASE Forget \/ ChangeGrants \/ Tick
    BY <1>2 DEF Forget, ChangeGrants, Tick, HoldsLease, IInv, TypeOK
<1>3. ASSUME NEW q \in Request,
             \/ Open(q) \/ BeginTurn(q) \/ Refuse(q) \/ OfferTools(q)
             \/ (\E x \in Tool : CallTool(q, x)) \/ Reply(q) \/ FailTurn(q) \/ Crash(q)
             \/ UpdateContext(q)
      PROVE  lease'.token = lease.token
    BY <1>3 DEF Open, BeginTurn, Refuse, OfferTools, CallTool, Reply, FailTurn, Crash,
                UpdateContext, HoldsLease
<1> QED
    BY <1>1, <1>2, <1>3 DEF Next

(* AbortTurn of a request whose lease is lost takes it from nobody.        *)
THEOREM LeasesAreTheirOwners == Spec => OnlyOwnLeaseReleased
<1>1. IInv /\ [Next]_vars =>
        [\A r \in Request :
            /\ requests[r].pc \in {"begun", "running", "replied"}
            /\ HoldsLease(r)
            /\ requests'[r] = requests[r]
            => lease'.token = lease.token]_vars
    BY OwnLease DEF InTurn, vars
<1> QED
    BY <1>1, Inductive, PTL DEF Spec, OnlyOwnLeaseReleased

-----------------------------------------------------------------------------
(* Every step of the store is one of the conversation, or none.            *)

LEMMA CompleteTurnSays ==
    ASSUME IInv, NEW r \in Request, NEW s \in Size, CompleteTurn(r, s) PROVE Transcripts!Say
<1>1. PICK k \in 1..Len(Transcript(r, s)) : session'.history = Recent(Transcript(r, s), k)
    BY StoredTurns
<1>2. PICK t \in Turn : /\ t.version = session.version /\ t.number = requests[r].token
                        /\ Transcript(r, s) = Append(session.history, t)
    BY StoredTurns
<1> DEFINE h == Append(session.history, t)
<1>3. session.history \in Seq(Turn) /\ h \in Seq(Turn) /\ Len(h) = Len(session.history) + 1
      /\ h[Len(h)] = t
    BY <1>2 DEF IInv, TypeOK
<1>4. k \in 1..Len(h) /\ session'.history = Recent(h, k)
    BY <1>1, <1>2
<1>5. Len(session'.history) = Len(h) - k + 1 /\ session'.history[Len(session'.history)] = t
    <2>1. Len(Recent(h, k)) = Len(h) - k + 1
        BY <1>3, <1>4, RecentTurns
    <2>2. Recent(h, k)[Len(Recent(h, k))] = h[Len(h)]
        BY <1>3, <1>4, RecentTurns
    <2> QED
        BY <1>3, <1>4, <2>1, <2>2
<1>6. session'.history # <<>>
    BY <1>3, <1>4, <1>5
<1>7. \A i \in 1..Len(session.history) : session.history[i].number < t.number
    BY <1>2, StoredTurns DEF IInv, NumbersGrow, InTurn, CompleteTurn, At
<1>8. session'.history \in Transcripts!Suffixes(h)
    BY <1>4 DEF Transcripts!Suffixes, Recent
<1>9. session'.version = session.version
    BY StoredTurns
<1> QED
    BY <1>2, <1>5, <1>6, <1>7, <1>8, <1>9 DEF Transcripts!Say

LEMMA OthersStartOver ==
    ASSUME IInv, Next, \A r \in Request, s \in Size : ~CompleteTurn(r, s)
    PROVE  Transcripts!StartOver \/ UNCHANGED <<session.history, session.version>>
<1>1. session' \in [version : Version, history : Seq(Turn)]
    BY NextKeeps DEF IInv, TypeOK
<1>2. session' = session \/ session'.history = <<>>
    <2>1. CASE Forget \/ ChangeGrants \/ Tick
        BY <2>1 DEF Forget, ChangeGrants, Tick
    <2>2. ASSUME NEW r \in Request, BeginTurn(r) \/ UpdateContext(r)
          PROVE  session' = session \/ session'.history = <<>>
        BY <2>2 DEF BeginTurn, UpdateContext
    <2>3. ASSUME NEW r \in Request,
                 \/ Open(r) \/ Refuse(r) \/ OfferTools(r) \/ (\E x \in Tool : CallTool(r, x))
                 \/ Reply(r) \/ FailTurn(r) \/ AbortTurn(r) \/ Crash(r)
          PROVE  session' = session
        BY <2>3 DEF Open, Refuse, OfferTools, CallTool, Reply, FailTurn, AbortTurn, Crash
    <2> QED
        BY <2>1, <2>2, <2>3 DEF Next
<1> QED
    BY <1>1, <1>2 DEF Transcripts!StartOver

(* The store of the agent's sessions implements one conversation: leases   *)
(* that run out, late answers and crashes never show in it.                *)
THEOREM Refinement == Spec => ImplementsConversation
<1>1. Init => Transcripts!Init
    BY DEF Init, Transcripts!Init
<1>2. IInv /\ [Next]_vars => [Transcripts!Next]_(Transcripts!vars)
    <2> SUFFICES ASSUME IInv, [Next]_vars
                 PROVE  Transcripts!Next \/ UNCHANGED Transcripts!vars
        OBVIOUS
    <2>1. CASE UNCHANGED vars
        BY <2>1 DEF vars, Transcripts!vars
    <2>2. CASE Next /\ \E r \in Request, s \in Size : CompleteTurn(r, s)
        BY <2>2, CompleteTurnSays DEF Transcripts!Next
    <2>3. CASE Next /\ \A r \in Request, s \in Size : ~CompleteTurn(r, s)
        BY <2>3, OthersStartOver DEF Transcripts!Next, Transcripts!vars
    <2> QED
        BY <2>1, <2>2, <2>3
<1> QED
    BY <1>1, <1>2, Inductive, PTL DEF Spec, ImplementsConversation, Transcripts!Spec

=============================================================================
