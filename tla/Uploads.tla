------------------------------ MODULE Uploads ------------------------------
(***************************************************************************)
(* A file upload crosses three parties that share no transaction: the      *)
(* gateway's handler, the core's file rows in MySQL and the object store.  *)
(* The core creates a pending row, the handler stores the object, the core *)
(* confirms the row; when anything fails in between, the handler asks the  *)
(* core to cancel.                                                         *)
(*                                                                         *)
(* Every call may be refused, be executed, or be executed without the      *)
(* handler learning it: its answer is lost, or the client leaves and the   *)
(* request's context is cancelled under it.  A call the handler has given  *)
(* up is not executed later, except that the store may still apply a Put.  *)
(***************************************************************************)
EXTENDS Naturals, FiniteSets

CONSTANTS Upload,          \* requests that may be served at the same time
          File,            \* bound: the file rows ever created
          MaxConcurrent,   \* MaxConcurrentUploads
          NoFile

ASSUME UploadsAssumption ==
    /\ MaxConcurrent \in Nat \ {0}
    /\ NoFile \notin File
    /\ IsFiniteSet(Upload)

VARIABLES
    rows,      \* table files
    objects,   \* the objects in the store
    uploads,   \* each handler: its step and its pending file
    access,    \* the uploaders whose session, membership and grants hold
    flying,    \* objects of cancelled Puts that the store may still apply
    created,   \* history: every row CreateUpload committed
    shown,     \* history: the files whose key was given to a client
    unheard,   \* history: the rows whose creation the handler never heard of
    excused    \* history: files whose cleanup an outage or a crash prevented

vars == <<rows, objects, uploads, access, flying, created, shown, unheard, excused>>
history == <<created, shown, unheard, excused>>

Steps == {"idle", "staging", "put", "confirm", "cancel"}
Holding == {"put", "confirm", "cancel"}

TypeOK ==
    /\ rows \in [File -> {"none", "pending", "confirmed"}]
    /\ objects \in SUBSET File
    /\ uploads \in [Upload -> [step : Steps, file : File \cup {NoFile}]]
    /\ access \in SUBSET Upload
    /\ flying \in SUBSET File
    /\ created \in SUBSET File /\ shown \in SUBSET File
    /\ unheard \in SUBSET File /\ excused \in SUBSET File

Idle == [step |-> "idle", file |-> NoFile]

Init ==
    /\ rows = [f \in File |-> "none"]
    /\ objects = {}
    /\ uploads = [r \in Upload |-> Idle]
    /\ access = Upload
    /\ flying = {}
    /\ created = {} /\ shown = {} /\ unheard = {} /\ excused = {}

At(r, step) == uploads[r].step = step
Go(r, step) == uploads' = [uploads EXCEPT ![r].step = step]
End(r) == uploads' = [uploads EXCEPT ![r] = Idle]
FileOf(r) == uploads[r].file

(* The slots channel: one is taken by every request being served.          *)
SlotsTaken == Cardinality({r \in Upload : ~At(r, "idle")})

-----------------------------------------------------------------------------
(* HandlerWithConfig, step by step.                                        *)

(* A slot is free and the session is valid; the body is being staged.      *)
(* Without a slot the answer is 429 and nothing happens.                   *)
Start(r) ==
    /\ At(r, "idle")
    /\ SlotsTaken < MaxConcurrent
    /\ r \in access
    /\ Go(r, "staging")
    /\ UNCHANGED <<rows, objects, access, flying, history>>

(* The body or the purpose is refused, or CreateUpload fails.              *)
RejectBody(r) ==
    /\ At(r, "staging")
    /\ End(r)
    /\ UNCHANGED <<rows, objects, access, flying, history>>

(* CreateUpload commits a pending row under a fresh random key.            *)
CreateUpload(r, f) ==
    /\ At(r, "staging")
    /\ r \in access
    /\ f \notin created
    /\ rows' = [rows EXCEPT ![f] = "pending"]
    /\ created' = created \cup {f}
    /\ \/ /\ uploads' = [uploads EXCEPT ![r] = [step |-> "put", file |-> f]]
          /\ UNCHANGED unheard
       \/ /\ End(r)             \* no answer: the cleanup is not armed yet
          /\ unheard' = unheard \cup {f}
    /\ UNCHANGED <<objects, access, flying, shown, excused>>

(* Slip: a failed Put is tried again without limit.  (Slips are what the   *)
(* code could plausibly have done wrong; no action uses them.)             *)
PutRetrying(r) ==
    /\ At(r, "put")
    /\ \/ /\ objects' = objects \cup {FileOf(r)}
          /\ Go(r, "confirm")
          /\ UNCHANGED flying
       \/ /\ flying' = flying \cup {FileOf(r)}
          /\ UNCHANGED <<objects, uploads>>
    /\ UNCHANGED <<rows, access, history>>

(* ObjectStore.Put.  Failing, it may or may not have stored the object,    *)
(* or may be about to.                                                     *)
Put(r) ==
    /\ At(r, "put")
    /\ \/ /\ objects' = objects \cup {FileOf(r)}
          /\ Go(r, "confirm") \/ Go(r, "cancel")
          /\ UNCHANGED flying
       \/ /\ Go(r, "cancel")
          /\ flying' \in {flying, flying \cup {FileOf(r)}}
          /\ UNCHANGED objects
    /\ UNCHANGED <<rows, access, history>>

(* ConfirmUpload, under the platform lock: the uploader still has access,  *)
(* Stat finds the object.  The key goes to the client.                     *)
Confirmable(r) == r \in access /\ rows[FileOf(r)] = "pending" /\ FileOf(r) \in objects

ConfirmUpload(r) ==
    /\ At(r, "confirm")
    /\ Confirmable(r)
    /\ rows' = [rows EXCEPT ![FileOf(r)] = "confirmed"]
    /\ \/ /\ End(r)
          /\ shown' = shown \cup {FileOf(r)}
       \/ /\ Go(r, "cancel")    \* no answer
          /\ UNCHANGED shown
    /\ UNCHANGED <<objects, access, flying, created, unheard, excused>>

(* Slips: the key is returned although the row is not confirmed; a refusal *)
(* ends the request without a cleanup.                                     *)
ConfirmFailsShowing(r) ==
    /\ At(r, "confirm")
    /\ Go(r, "cancel")
    /\ shown' = shown \cup {FileOf(r)}
    /\ UNCHANGED <<rows, objects, access, flying, created, unheard, excused>>

ConfirmFailsLeaving(r) ==
    /\ At(r, "confirm")
    /\ End(r)
    /\ UNCHANGED <<rows, objects, access, flying, history>>

(* ConfirmUpload is refused or never arrives: access was withdrawn, the    *)
(* client left, the core or the store is down.                             *)
ConfirmFails(r) ==
    /\ At(r, "confirm")
    /\ Go(r, "cancel")
    /\ UNCHANGED <<rows, objects, access, flying, history>>

(* Slips: a confirmed row is not looked at; a status nobody knows.         *)
CancelAnyUpload(r) ==
    /\ At(r, "cancel")
    /\ objects' = objects \ {FileOf(r)}
    /\ rows' = IF rows[FileOf(r)] = "confirmed" THEN rows
               ELSE [rows EXCEPT ![FileOf(r)] = "none"]
    /\ End(r)
    /\ UNCHANGED <<access, flying, history>>

CancelUploadMarking(r) ==
    /\ At(r, "cancel")
    /\ rows' = [rows EXCEPT ![FileOf(r)] = "cancelled"]
    /\ objects' = objects \ {FileOf(r)}
    /\ End(r)
    /\ UNCHANGED <<access, flying, history>>

(* CancelUpload, under the platform lock and without a session: refused    *)
(* for a confirmed row; otherwise the object goes first, then the row.     *)
CancelUpload(r) ==
    /\ At(r, "cancel")
    /\ IF rows[FileOf(r)] = "confirmed" THEN UNCHANGED <<rows, objects>>
       ELSE /\ objects' = objects \ {FileOf(r)}
            /\ rows' = [rows EXCEPT ![FileOf(r)] = "none"]
    /\ End(r)
    /\ UNCHANGED <<access, flying, history>>

(* An outage: the call never arrives, or Remove fails, or Remove succeeds  *)
(* and the transaction does not commit.  One log line is written.          *)
CancelFails(r) ==
    /\ At(r, "cancel")
    /\ \/ UNCHANGED objects
       \/ rows[FileOf(r)] = "pending" /\ objects' = objects \ {FileOf(r)}
    /\ excused' = excused \cup {FileOf(r)}
    /\ End(r)
    /\ UNCHANGED <<rows, access, flying, created, shown, unheard>>

-----------------------------------------------------------------------------
(* The environment.                                                        *)

(* The store applies a Put whose caller has gone.                          *)
PutLands(f) ==
    /\ f \in flying
    /\ flying' = flying \ {f}
    /\ objects' = objects \cup {f}
    /\ excused' = excused \cup {f}
    /\ UNCHANGED <<rows, uploads, access, created, shown, unheard>>

(* Logout, a revoked grant, an expired application; or they are restored.  *)
ChangeAccess(r) ==
    /\ access' \in {access \cup {r}, access \ {r}}
    /\ UNCHANGED <<rows, objects, uploads, flying, history>>

(* The gateway process dies with every upload it serves.                   *)
Crash ==
    /\ excused' = excused \cup {FileOf(r) : r \in {q \in Upload : uploads[q].step \in Holding}}
    /\ uploads' = [r \in Upload |-> Idle]
    /\ UNCHANGED <<rows, objects, access, flying, created, shown, unheard>>

Serve(r) ==
    \/ RejectBody(r) \/ (\E f \in File : CreateUpload(r, f))
    \/ Put(r) \/ ConfirmUpload(r) \/ ConfirmFails(r) \/ CancelUpload(r) \/ CancelFails(r)

Next ==
    \/ \E r \in Upload : Start(r) \/ Serve(r) \/ ChangeAccess(r)
    \/ \E f \in File : PutLands(f)
    \/ Crash

Spec == Init /\ [][Next]_vars

(* A handler goes on: bodies are read under ReadTimeout, the calls of the  *)
(* core and of the store time out.                                         *)
Fairness == \A r \in Upload : WF_vars(Serve(r))

FairSpec == Spec /\ Fairness

-----------------------------------------------------------------------------
(* Safety.                                                                 *)

(* A confirmed row always has its object: no cancellation, late or after a *)
(* lost answer, removes what was confirmed (Confirm and CancelUpload both  *)
(* decide under the platform lock).                                        *)
ConfirmedHasObject == \A f \in File : rows[f] = "confirmed" => f \in objects

(* A client only ever holds keys of files that can be downloaded, for good *)
(* (docs/migration/attachments.md, on when the key is returned).           *)
ShownIsConfirmed == \A f \in shown : rows[f] = "confirmed"

(* A failed upload leaves neither row nor object behind: what is not       *)
(* confirmed belongs to a request being served, unless an outage or a      *)
(* crash kept the cleanup from running, or the answer of CreateUpload was  *)
(* lost.                                                                   *)
Held(f) == \E r \in Upload : uploads[r].step \in Holding /\ FileOf(r) = f

Reclaimed(f) ==
    rows[f] # "confirmed" /\ (rows[f] = "pending" \/ f \in objects) => Held(f)

FailedUploadsReclaimed ==
    \A f \in File : f \in excused \cup unheard \/ Reclaimed(f)

(* docs/migration/attachments.md: "失败请求取消尚未确认的对象和元数据", that is  *)
(* a failed request cancels what it has not confirmed; only outages are    *)
(* exempt.  Not so: a client that leaves while CreateUpload answers leaves *)
(* a pending row nobody cancels, the cleanup being armed only afterwards.  *)
EveryFailedUploadReclaimed ==
    \A f \in File : f \in excused \/ Reclaimed(f)

(* Every upload ends and gives its slot back, whatever fails on the way.   *)
EveryUploadEnds == \A r \in Upload : ~At(r, "idle") ~> At(r, "idle")

=============================================================================
