--------------------------- MODULE Uploads_proofs ---------------------------
(***************************************************************************)
(* The three rules about files are inductive once it is known that a row   *)
(* is only ever made for a key that was never used, and that a request     *)
(* which is past CreateUpload knows its file.  The handlers need not be    *)
(* told apart: a file with two holders would be as safe.                   *)
(***************************************************************************)
EXTENDS Uploads, TLAPS

(* What has a row or was shown had its row created: keys are fresh.        *)
KeysAreFresh == \A f \in File : rows[f] # "none" => f \in created

(* Past CreateUpload a handler knows the file it will have to give back.   *)
HoldersKnowTheirFile ==
    \A r \in Upload : uploads[r].step \in Holding => FileOf(r) \in File

IInv ==
    /\ TypeOK /\ KeysAreFresh /\ HoldersKnowTheirFile
    /\ ConfirmedHasObject /\ ShownIsConfirmed /\ FailedUploadsReclaimed

LEMMA InitEstablishes == Init => IInv
BY UploadsAssumption
DEF Init, IInv, TypeOK, Steps, Idle, KeysAreFresh, HoldersKnowTheirFile, Holding, FileOf,
    ConfirmedHasObject, ShownIsConfirmed, FailedUploadsReclaimed, Reclaimed, Held

(* A step that leaves files alone keeps the rules if it holds on to what   *)
(* is held, or excuses it.                                                 *)
LEMMA FilesUntouched ==
    ASSUME IInv, TypeOK', HoldersKnowTheirFile',
           UNCHANGED <<rows, objects, created, shown, unheard>>,
           excused \subseteq excused',
           \A f \in File : Held(f) => Held(f)' \/ f \in excused'
    PROVE  IInv'
BY DEF IInv, KeysAreFresh, ConfirmedHasObject, ShownIsConfirmed, FailedUploadsReclaimed, Reclaimed

(* A request that keeps its file, or had none, releases nothing.           *)
LEMMA OthersStillHold ==
    ASSUME TypeOK, NEW r \in Upload, NEW u,
           uploads' = [uploads EXCEPT ![r] = u],
           NEW f \in File, Held(f),
           ~(uploads[r].step \in Holding /\ FileOf(r) = f)
    PROVE  Held(f)'
<1>1. PICK q \in Upload : uploads[q].step \in Holding /\ FileOf(q) = f
    BY DEF Held
<1>2. q # r /\ uploads'[q] = uploads[q]
    BY <1>1 DEF TypeOK
<1> QED
    BY <1>1, <1>2 DEF Held, FileOf

LEMMA StartKeeps == ASSUME IInv, NEW r \in Upload, Start(r) PROVE IInv'
<1> USE DEF Start, At, Go, history
<1>1. TypeOK' /\ HoldersKnowTheirFile'
    BY DEF IInv, TypeOK, Steps, HoldersKnowTheirFile, Holding, FileOf
<1>2. \A f \in File : Held(f) => Held(f)'
    BY DEF IInv, TypeOK, Held, FileOf, Holding
<1> QED
    BY <1>1, <1>2, FilesUntouched

LEMMA RejectBodyKeeps == ASSUME IInv, NEW r \in Upload, RejectBody(r) PROVE IInv'
<1> USE DEF RejectBody, At, End, Idle, history
<1>1. TypeOK' /\ HoldersKnowTheirFile'
    BY DEF IInv, TypeOK, Steps, HoldersKnowTheirFile, Holding, FileOf
<1>2. \A f \in File : Held(f) => Held(f)'
    BY DEF IInv, TypeOK, Held, FileOf, Holding
<1> QED
    BY <1>1, <1>2, FilesUntouched

LEMMA CreateUploadKeeps ==
    ASSUME IInv, NEW r \in Upload, NEW f \in File, CreateUpload(r, f) PROVE IInv'
<1> USE DEF CreateUpload, At, End, Idle, IInv
<1>1. TypeOK'
    BY DEF TypeOK, Steps
<1>2. KeysAreFresh' /\ HoldersKnowTheirFile'
    BY DEF TypeOK, Steps, KeysAreFresh, HoldersKnowTheirFile, Holding, FileOf
<1>3. ConfirmedHasObject'
    BY DEF TypeOK, ConfirmedHasObject
<1>4. ShownIsConfirmed'
    <2>1. f \notin shown
        BY DEF KeysAreFresh, ShownIsConfirmed, TypeOK
    <2> QED
        BY <2>1 DEF ShownIsConfirmed, TypeOK
<1>5. ASSUME NEW g \in File, g \notin excused' \cup unheard' PROVE Reclaimed(g)'
    <2>1. CASE g = f
        <3>1. uploads' = [uploads EXCEPT ![r] = [step |-> "put", file |-> f]]
            BY <1>5, <2>1
        <3> QED
            BY <2>1, <3>1 DEF TypeOK, Reclaimed, Held, FileOf, Holding
    <2>2. CASE g # f
        <3>1. PICK u : uploads' = [uploads EXCEPT ![r] = u]
            OBVIOUS
        <3>2. ~(uploads[r].step \in Holding)
            BY DEF Holding
        <3>3. Held(g) => Held(g)'
            BY <3>1, <3>2, OthersStillHold
        <3> QED
            BY <1>5, <2>2, <3>3 DEF TypeOK, FailedUploadsReclaimed, Reclaimed
    <2> QED
        BY <2>1, <2>2
<1> QED
    BY <1>1, <1>2, <1>3, <1>4, <1>5 DEF FailedUploadsReclaimed

LEMMA PutKeeps == ASSUME IInv, NEW r \in Upload, Put(r) PROVE IInv'
<1> USE DEF Put, At, Go, IInv, history
<1>1. FileOf(r) \in File
    BY DEF HoldersKnowTheirFile, Holding
<1>2. PICK s \in {"confirm", "cancel"} : uploads' = [uploads EXCEPT ![r].step = s]
    OBVIOUS
<1>3. TypeOK'
    BY <1>1, <1>2 DEF TypeOK, Steps
<1>4. HoldersKnowTheirFile'
    BY <1>1, <1>2 DEF TypeOK, HoldersKnowTheirFile, Holding, FileOf
<1>5. KeysAreFresh' /\ ConfirmedHasObject' /\ ShownIsConfirmed'
    BY DEF TypeOK, KeysAreFresh, ConfirmedHasObject, ShownIsConfirmed
<1>6. ASSUME NEW g \in File, g = FileOf(r) PROVE Held(g)'
    BY <1>2, <1>6 DEF TypeOK, Held, FileOf, Holding
<1>7. ASSUME NEW g \in File, g \notin excused' \cup unheard' PROVE Reclaimed(g)'
    <2>1. CASE g = FileOf(r)
        BY <2>1, <1>6 DEF Reclaimed
    <2>2. CASE g # FileOf(r)
        <3>1. Held(g) => Held(g)'
            BY <2>2, <1>2 DEF TypeOK, Held, FileOf, Holding
        <3> QED
            BY <1>7, <2>2, <3>1 DEF FailedUploadsReclaimed, Reclaimed
    <2> QED
        BY <2>1, <2>2
<1> QED
    BY <1>3, <1>4, <1>5, <1>7 DEF FailedUploadsReclaimed

LEMMA ConfirmUploadKeeps == ASSUME IInv, NEW r \in Upload, ConfirmUpload(r) PROVE IInv'
<1> USE DEF ConfirmUpload, Confirmable, At, Go, End, Idle, IInv
<1>1. FileOf(r) \in File
    BY DEF HoldersKnowTheirFile, Holding
<1>2. TypeOK'
    BY <1>1, UploadsAssumption DEF TypeOK, Steps
<1>3. HoldersKnowTheirFile'
    BY <1>1 DEF TypeOK, HoldersKnowTheirFile, Holding, FileOf
<1>4. KeysAreFresh' /\ ConfirmedHasObject' /\ ShownIsConfirmed'
    BY <1>1 DEF TypeOK, KeysAreFresh, ConfirmedHasObject, ShownIsConfirmed
<1>5. ASSUME NEW g \in File, g \notin excused' \cup unheard' PROVE Reclaimed(g)'
    <2>1. CASE g = FileOf(r)
        BY <1>1, <2>1 DEF TypeOK, Reclaimed
    <2>2. CASE g # FileOf(r)
        <3>1. PICK u : uploads' = [uploads EXCEPT ![r] = u]
            BY DEF TypeOK
        <3>2. Held(g) => Held(g)'
            BY <2>2, <3>1, OthersStillHold
        <3> QED
            BY <1>5, <2>2, <3>2 DEF TypeOK, FailedUploadsReclaimed, Reclaimed
    <2> QED
        BY <2>1, <2>2
<1> QED
    BY <1>2, <1>3, <1>4, <1>5 DEF FailedUploadsReclaimed

LEMMA ConfirmFailsKeeps == ASSUME IInv, NEW r \in Upload, ConfirmFails(r) PROVE IInv'
<1> USE DEF ConfirmFails, At, Go, history
<1>1. TypeOK' /\ HoldersKnowTheirFile'
    BY DEF IInv, TypeOK, Steps, HoldersKnowTheirFile, Holding, FileOf
<1>2. \A f \in File : Held(f) => Held(f)'
    BY DEF IInv, TypeOK, Held, FileOf, Holding
<1> QED
    BY <1>1, <1>2, FilesUntouched

LEMMA CancelUploadKeeps == ASSUME IInv, NEW r \in Upload, CancelUpload(r) PROVE IInv'
<1> USE DEF CancelUpload, At, End, Idle, IInv, history
<1>1. FileOf(r) \in File
    BY DEF HoldersKnowTheirFile, Holding
<1>2. TypeOK'
    BY <1>1, UploadsAssumption DEF TypeOK, Steps
<1>3. HoldersKnowTheirFile'
    BY DEF TypeOK, HoldersKnowTheirFile, Holding, FileOf
<1>4. KeysAreFresh' /\ ConfirmedHasObject' /\ ShownIsConfirmed'
    BY <1>1 DEF TypeOK, KeysAreFresh, ConfirmedHasObject, ShownIsConfirmed
<1>5. ASSUME NEW g \in File, g \notin excused' \cup unheard' PROVE Reclaimed(g)'
    <2>1. CASE g = FileOf(r)
        BY <1>1, <2>1 DEF TypeOK, Reclaimed
    <2>2. CASE g # FileOf(r)
        <3>1. Held(g) => Held(g)'
            BY <2>2, OthersStillHold
        <3>2. rows'[g] = rows[g] /\ (g \in objects' <=> g \in objects)
            BY <1>1, <2>2 DEF TypeOK
        <3> QED
            BY <1>5, <3>1, <3>2 DEF FailedUploadsReclaimed, Reclaimed
    <2> QED
        BY <2>1, <2>2
<1> QED
    BY <1>2, <1>3, <1>4, <1>5 DEF FailedUploadsReclaimed

LEMMA CancelFailsKeeps == ASSUME IInv, NEW r \in Upload, CancelFails(r) PROVE IInv'
<1> USE DEF CancelFails, At, End, Idle, IInv
<1>1. FileOf(r) \in File
    BY DEF HoldersKnowTheirFile, Holding
<1>2. TypeOK'
    BY <1>1, UploadsAssumption DEF TypeOK, Steps
<1>3. HoldersKnowTheirFile'
    BY DEF TypeOK, HoldersKnowTheirFile, Holding, FileOf
<1>4. KeysAreFresh' /\ ConfirmedHasObject' /\ ShownIsConfirmed'
    BY <1>1 DEF TypeOK, KeysAreFresh, ConfirmedHasObject, ShownIsConfirmed
<1>5. ASSUME NEW g \in File, g \notin excused' \cup unheard' PROVE Reclaimed(g)'
    <2>1. g # FileOf(r)
        BY <1>5
    <2>2. Held(g) => Held(g)'
        BY <2>1, OthersStillHold
    <2>3. g \in objects' <=> g \in objects
        BY <2>1
    <2> QED
        BY <1>5, <2>2, <2>3 DEF FailedUploadsReclaimed, Reclaimed
<1> QED
    BY <1>2, <1>3, <1>4, <1>5 DEF FailedUploadsReclaimed

LEMMA PutLandsKeeps == ASSUME IInv, NEW f \in File, PutLands(f) PROVE IInv'
BY DEF PutLands, IInv, TypeOK, KeysAreFresh, HoldersKnowTheirFile, FileOf,
       ConfirmedHasObject, ShownIsConfirmed, FailedUploadsReclaimed, Reclaimed, Held

LEMMA CrashKeeps == ASSUME IInv, Crash PROVE IInv'
<1> USE DEF Crash, Idle
<1>1. {FileOf(r) : r \in {q \in Upload : uploads[q].step \in Holding}} \subseteq File
    BY DEF IInv, HoldersKnowTheirFile
<1>2. TypeOK' /\ HoldersKnowTheirFile'
    BY <1>1 DEF IInv, TypeOK, Steps, HoldersKnowTheirFile, Holding
<1>3. \A f \in File : Held(f) => f \in excused'
    BY DEF Held
<1> QED
    BY <1>2, <1>3, FilesUntouched

LEMMA NextKeeps == ASSUME IInv, [Next]_vars PROVE IInv'
<1>1. CASE UNCHANGED vars
    BY <1>1 DEF vars, IInv, TypeOK, KeysAreFresh, HoldersKnowTheirFile, FileOf,
                ConfirmedHasObject, ShownIsConfirmed, FailedUploadsReclaimed, Reclaimed, Held
<1>2. ASSUME NEW r \in Upload, Start(r) PROVE IInv'
    BY <1>2, StartKeeps
<1>3. ASSUME NEW r \in Upload, Serve(r) PROVE IInv'
    BY <1>3, RejectBodyKeeps, CreateUploadKeeps, PutKeeps, ConfirmUploadKeeps,
       ConfirmFailsKeeps, CancelUploadKeeps, CancelFailsKeeps DEF Serve
<1>4. ASSUME NEW r \in Upload, ChangeAccess(r) PROVE IInv'
    BY <1>4 DEF ChangeAccess, history, IInv, TypeOK, KeysAreFresh, HoldersKnowTheirFile, FileOf,
                ConfirmedHasObject, ShownIsConfirmed, FailedUploadsReclaimed, Reclaimed, Held
<1>5. ASSUME NEW f \in File, PutLands(f) PROVE IInv'
    BY <1>5, PutLandsKeeps
<1>6. CASE Crash
    BY <1>6, CrashKeeps
<1> QED
    BY <1>1, <1>2, <1>3, <1>4, <1>5, <1>6 DEF Next

(* The invariant, for any number of uploads, slots and files.              *)
THEOREM Inductive == Spec => []IInv
<1>1. Init => IInv
    BY InitEstablishes
<1>2. IInv /\ [Next]_vars => IInv'
    BY NextKeeps
<1> QED
    BY <1>1, <1>2, PTL DEF Spec

(* The variables keep their types.                                         *)
THEOREM TypeCorrect == Spec => []TypeOK
<1>1. IInv => TypeOK
    BY DEF IInv
<1> QED
    BY <1>1, Inductive, PTL

(* A confirmed row has its object: neither a cancellation after a lost     *)
(* answer nor one that half fails removes it.                              *)
THEOREM ConfirmedFilesExist == Spec => []ConfirmedHasObject
<1>1. IInv => ConfirmedHasObject
    BY DEF IInv
<1> QED
    BY <1>1, Inductive, PTL

(* The key of a file is given to a client only when the file is there to   *)
(* stay.                                                                   *)
THEOREM ShownKeysWork == Spec => []ShownIsConfirmed
<1>1. IInv => ShownIsConfirmed
    BY DEF IInv
<1> QED
    BY <1>1, Inductive, PTL

(* What a failed upload made is given back by the request that made it,    *)
(* save for the three exceptions the property names.                       *)
THEOREM FailuresAreReclaimed == Spec => []FailedUploadsReclaimed
<1>1. IInv => FailedUploadsReclaimed
    BY DEF IInv
<1> QED
    BY <1>1, Inductive, PTL

=============================================================================
