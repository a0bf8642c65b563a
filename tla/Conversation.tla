---------------------------- MODULE Conversation ----------------------------
(***************************************************************************)
(* What the agent's session store promises: one conversation, to which     *)
(* complete turns are appended one at a time.  Only the oldest turns are   *)
(* ever dropped; a change of permissions starts it over.  There are no     *)
(* requests, no leases, no clock and no failures here.  AgentTurns.tla     *)
(* refines this module.                                                    *)
(***************************************************************************)
EXTENDS Naturals, Sequences

CONSTANTS Version,   \* permission versions
          Turn       \* the turns that can be recorded, each with its version

VARIABLES log, version

vars == <<log, version>>

TypeOK == log \in Seq(Turn) /\ version \in Version

Init == log = <<>> /\ version \in Version

Suffixes(s) == {SubSeq(s, k, Len(s)) : k \in 1..Len(s)}

(* A turn that ran under the conversation's permissions is recorded last.  *)
Say ==
    /\ log' # <<>>
    /\ LET t == log'[Len(log')] IN
         /\ t \in Turn
         /\ t.version = version
         /\ \A i \in 1..Len(log) : log[i].number < t.number
         /\ log' \in Suffixes(Append(log, t))
    /\ UNCHANGED version

(* The permissions changed, or nobody has spoken for thirty days.          *)
StartOver == log' = <<>> /\ version' \in Version

Next == Say \/ StartOver

Spec == Init /\ [][Next]_vars

=============================================================================
