\* The client leaves while CreateUpload answers.
SPECIFICATION Spec
CONSTANTS
    Upload = {r1}
    File = {f1}
    MaxConcurrent = 1
    NoFile = NoFile
SYMMETRY Symmetry
INVARIANTS EveryFailedUploadReclaimed
