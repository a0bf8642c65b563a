----------------------------- MODULE AgentTurns -----------------------------
(***************************************************************************)
(* One agent session, shared by every gateway process through its MySQL    *)
(* row, and the HTTP requests that run turns in it or update its context.  *)
(*                                                                         *)
(* The row carries the history, the permission version it was made under   *)
(* and a generation lease.  Each store call (mutate) locks the row, so it  *)
(* is one action; between two calls of a request anything may happen: the  *)
(* permissions change, the lease runs out, the client leaves, the gateway  *)
(* dies.  A permission version is a digest of the granted tools, modelled  *)
(* as the set of tools itself.                                             *)
(***************************************************************************)
EXTENDS Naturals, Sequences, Functions

CONSTANTS
    Request,      \* concurrent requests of the session's owner
    Tool,         \* the tools a permission may grant
    Size,         \* bound: sizes a turn's transcript may have
    LeaseTTL,     \* turnLeaseTTL, in ticks
    MaxHistory,   \* maxHistoryTurns
    MaxSize,      \* maxHistoryMessages and maxHistoryBytes
    MaxTurns      \* bound: turns that are ever begun

ASSUME TurnsAssumption ==
    /\ Size \subseteq Nat \ {0}
    /\ LeaseTTL \in Nat \ {0}
    /\ MaxHistory \in Nat \ {0}
    /\ MaxSize \in Nat
    /\ MaxTurns \in Nat

VARIABLES
    session,    \* the row: permission version and history
    lease,      \* the row's lease: token (0 for none) and ticks left to live
    requests,   \* what each request is doing
    grants,     \* the tools the owner is granted now
    begun       \* the number of lease tokens generated

vars == <<session, lease, requests, grants, begun>>

Version == SUBSET Tool
Turn == [number : Nat \ {0}, version : Version, results : SUBSET Tool, size : Size]
NoLease == [token |-> 0, left |-> 0]
Idle == [pc |-> "idle"]

(* What a request knows: the permissions it read, its lease token, the     *)
(* history it loaded, the tools it offers the model and those whose        *)
(* results it has.                                                         *)
Reading == [pc : {"opened", "updating"}, version : Version]
Working == [pc : {"begun", "running", "replied", "ending"}, version : Version, token : Nat \ {0},
            history : Seq(Turn), tools : SUBSET Tool, results : SUBSET Tool]

TypeOK ==
    /\ session \in [version : Version, history : Seq(Turn)]
    /\ lease \in [token : Nat, left : 0..LeaseTTL]
    /\ requests \in [Request -> {Idle} \cup Reading \cup Working]
    /\ grants \in Version
    /\ begun \in Nat

(* SessionStore.Create for a new conversation.                             *)
Init ==
    /\ grants \in Version
    /\ session = [version |-> grants, history |-> <<>>]
    /\ lease = NoLease
    /\ requests = [r \in Request |-> Idle]
    /\ begun = 0

-----------------------------------------------------------------------------
(* boundedHistory: the longest run of whole recent turns that fits.        *)

TotalSize(h) == SumFunction([i \in 1..Len(h) |-> h[i].size])
Fits(h) == Len(h) <= MaxHistory /\ TotalSize(h) <= MaxSize
Recent(h, k) == SubSeq(h, k, Len(h))
Storable(h) == \E k \in 1..Len(h) : Fits(Recent(h, k))

(* Slip: the transcript is stored as it is.  (Slips are what the code      *)
(* could plausibly have done wrong; no action uses them.)                  *)
UnboundedHistory(h) == h

BoundedHistory(h) ==
    Recent(h, CHOOSE k \in 1..Len(h) :
                Fits(Recent(h, k)) /\ \A j \in 1..(k - 1) : ~Fits(Recent(h, j)))

-----------------------------------------------------------------------------
(* A turn: streamAgent.                                                    *)

At(r, pc) == requests[r].pc = pc
Leased == lease.left > 0
Become(r, req) == requests' = [requests EXCEPT ![r] = req]

(* Get, verifyAgentOwner and agentAuth: the permissions as of now.         *)
Open(r) ==
    /\ At(r, "idle")
    /\ \E pc \in {"opened", "updating"} : Become(r, [pc |-> pc, version |-> grants])
    /\ UNCHANGED <<session, lease, grants, begun>>

(* BeginTurn takes the lease.  The request's permissions differ from the   *)
(* session's: its history is dropped.                                      *)
BeginTurn(r) ==
    /\ At(r, "opened")
    /\ ~Leased
    /\ begun < MaxTurns
    /\ begun' = begun + 1
    /\ lease' = [token |-> begun', left |-> LeaseTTL]
    /\ session' = IF session.version = requests[r].version THEN session
                  ELSE [version |-> requests[r].version, history |-> <<>>]
    /\ Become(r, [pc |-> "begun", version |-> requests[r].version, token |-> begun',
                  history |-> session'.history, tools |-> {}, results |-> {}])
    /\ UNCHANGED grants

(* ErrSessionBusy, or the request fails before the turn begins.            *)
Refuse(r) ==
    /\ At(r, "opened") \/ At(r, "updating")
    /\ Become(r, Idle)
    /\ UNCHANGED <<session, lease, grants, begun>>

(* agentToolOptions offers the model what CheckAccess admits by now.       *)
OfferTools(r) ==
    /\ At(r, "begun")
    /\ Become(r, [requests[r] EXCEPT !.pc = "running", !.tools = grants])
    /\ UNCHANGED <<session, lease, grants, begun>>

(* A tool handler checks the access again before it calls the route; a     *)
(* refused call leaves nothing but an error message in the transcript.     *)
CallTool(r, x) ==
    /\ At(r, "running")
    /\ x \in requests[r].tools \cap grants
    /\ Become(r, [requests[r] EXCEPT !.results = @ \cup {x}])
    /\ UNCHANGED <<session, lease, grants, begun>>

(* The model's reply is complete: the done event reaches the handler.      *)
Reply(r) ==
    /\ At(r, "running")
    /\ Become(r, [requests[r] EXCEPT !.pc = "replied"])
    /\ UNCHANGED <<session, lease, grants, begun>>

Transcript(r, s) ==
    Append(requests[r].history,
           [number |-> requests[r].token, version |-> requests[r].version,
            results |-> requests[r].results, size |-> s])

(* Slips: the token is compared and the time is not, or the reverse.       *)
HoldsToken(r) == lease.token = requests[r].token
HoldsSomeLease(r) == Leased

HoldsLease(r) == lease.token = requests[r].token /\ Leased

(* CompleteTurn commits the transcript, of some size s, and gives the      *)
(* lease back.  If the commit is reported as a failure the row is the same.*)
CompleteTurn(r, s) ==
    /\ At(r, "replied")
    /\ Storable(Transcript(r, s))
    /\ HoldsLease(r)
    /\ session' = [session EXCEPT !.history = BoundedHistory(Transcript(r, s))]
    /\ lease' = NoLease
    /\ Become(r, [requests[r] EXCEPT !.pc = "ending"])
    /\ UNCHANGED <<grants, begun>>

(* The turn is not recorded: it fails, it is cancelled, its transcript is  *)
(* too long, its lease is lost or the database does not answer.            *)
FailTurn(r) ==
    /\ requests[r].pc \in {"begun", "running", "replied"}
    /\ Become(r, [requests[r] EXCEPT !.pc = "ending"])
    /\ UNCHANGED <<session, lease, grants, begun>>

(* Slip: whoever gives up releases whatever lease there is.                *)
AbortAnyTurn(r) ==
    /\ At(r, "ending")
    /\ lease' = NoLease
    /\ Become(r, Idle)
    /\ UNCHANGED <<session, grants, begun>>

(* The deferred AbortTurn gives the lease back, unless it was lost.        *)
AbortTurn(r) ==
    /\ At(r, "ending")
    /\ lease' = IF lease.token = requests[r].token THEN NoLease ELSE lease
    /\ Become(r, Idle)
    /\ UNCHANGED <<session, grants, begun>>

(* The gateway dies in the middle, or AbortTurn does not reach the         *)
(* database: the lease stays until it runs out.                            *)
Crash(r) ==
    /\ ~At(r, "idle")
    /\ Become(r, Idle)
    /\ UNCHANGED <<session, lease, grants, begun>>

-----------------------------------------------------------------------------
(* Slip: a context update ignores the turn that runs.                      *)
UpdateContextAnyTime(r) ==
    /\ At(r, "updating")
    /\ session' = IF session.version = requests[r].version THEN session
                  ELSE [version |-> requests[r].version, history |-> <<>>]
    /\ Become(r, Idle)
    /\ UNCHANGED <<lease, grants, begun>>

(* Slip: every touch of the row renews the lease.                          *)
UpdateContextRenewing(r) ==
    /\ At(r, "updating")
    /\ session.version # requests[r].version => ~Leased
    /\ session' = IF session.version = requests[r].version THEN session
                  ELSE [version |-> requests[r].version, history |-> <<>>]
    /\ lease' = IF Leased THEN [lease EXCEPT !.left = LeaseTTL] ELSE lease
    /\ Become(r, Idle)
    /\ UNCHANGED <<grants, begun>>

(* UpdateContext, refused while a turn runs under other permissions.       *)
UpdateContext(r) ==
    /\ At(r, "updating")
    /\ session.version # requests[r].version => ~Leased
    /\ session' = IF session.version = requests[r].version THEN session
                  ELSE [version |-> requests[r].version, history |-> <<>>]
    /\ Become(r, Idle)
    /\ UNCHANGED <<lease, grants, begun>>

(* Thirty days without a call: the row is gone, the owner creates another. *)
(* No request lives that long.                                             *)
Forget ==
    /\ ~Leased
    /\ \A r \in Request : At(r, "idle")
    /\ session' = [version |-> grants, history |-> <<>>]
    /\ lease' = NoLease
    /\ UNCHANGED <<requests, grants, begun>>

(* An administrator changes a role, a membership or an entitlement.        *)
ChangeGrants ==
    /\ grants' \in Version
    /\ UNCHANGED <<session, lease, requests, begun>>

(* Slip: the time left is not floored at zero.                             *)
TickBelowZero ==
    /\ lease' = [lease EXCEPT !.left = @ - 1]
    /\ UNCHANGED <<session, requests, grants, begun>>

Tick ==
    /\ Leased
    /\ lease' = [lease EXCEPT !.left = @ - 1]
    /\ UNCHANGED <<session, requests, grants, begun>>

Next ==
    \/ \E r \in Request :
          \/ Open(r) \/ BeginTurn(r) \/ Refuse(r) \/ OfferTools(r)
          \/ \E x \in Tool : CallTool(r, x)
          \/ Reply(r)
          \/ \E s \in Size : CompleteTurn(r, s)
          \/ FailTurn(r) \/ AbortTurn(r) \/ Crash(r) \/ UpdateContext(r)
    \/ Forget
    \/ ChangeGrants
    \/ Tick

Spec == Init /\ [][Next]_vars

(* Time passes.  No request is assumed to make progress.                   *)
FairSpec == Spec /\ WF_vars(Tick)

-----------------------------------------------------------------------------
(* Safety.                                                                 *)

(* Every turn of the history was begun under the permission version the    *)
(* session now has: a turn that outlives its lease, or overlaps a context  *)
(* update with other permissions, never adds to it (UpdateContext,         *)
(* BeginTurn, CompleteTurn).                                               *)
HistoryOfOneVersion ==
    \A i \in 1..Len(session.history) : session.history[i].version = session.version

(* Whoever holds the lease holds the current history: the transcript it    *)
(* will store overwrites nothing it has not seen (the documented purpose   *)
(* of the lease: no concurrent overwrite of one session).                  *)
LeaseholderIsCurrent ==
    \A r \in Request :
        requests[r].pc \in {"begun", "running", "replied"} /\ HoldsLease(r) =>
            /\ requests[r].history = session.history
            /\ requests[r].version = session.version

(* The stored history, unless it is empty, stays within its limits in      *)
(* turns and in size.                                                      *)
HistoryFits == session.history # <<>> => Fits(session.history)

(* A request that lost its lease takes it from nobody: giving up late      *)
(* leaves the turn that runs by then alone (AbortTurn).                    *)
OnlyOwnLeaseReleased ==
    [][\A r \in Request :
          /\ requests[r].pc \in {"begun", "running", "replied"}
          /\ HoldsLease(r)
          /\ requests'[r] = requests[r]
          => lease'.token = lease.token]_vars

(* A session is not busy forever, even if the gateway that ran the turn    *)
(* died or could not give the lease back.                                  *)
LeaseEnds == Leased ~> ~Leased

(* session.go, UpdateContext: "A new permission version must not reuse     *)
(* cached tool results from permissions that may have been revoked since   *)
(* the previous request."  It may: a tool granted while a turn runs, used  *)
(* by it and revoked again leaves its result in a history whose version    *)
(* is the old one.                                                         *)
NoRevokedResults ==
    \A r \in Request : At(r, "begun") =>
        \A i \in 1..Len(requests[r].history) :
            requests[r].history[i].results \subseteq requests[r].version

-----------------------------------------------------------------------------
(* The store implements one conversation.                                  *)
Transcripts == INSTANCE Conversation WITH log <- session.history, version <- session.version

(* With leases that run out, late answers, crashes and context updates,    *)
(* the row is still one conversation, appended to turn by turn.            *)
ImplementsConversation == Transcripts!Spec

=============================================================================
