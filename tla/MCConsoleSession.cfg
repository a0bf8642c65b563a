\* Two accounts and three accepted sign-ins: one to leave, one to be late, one to follow.
CONSTANTS
    User = {u1, u2}
    MaxSignIns = 3
    None = None
SYMMETRY Symmetry
SPECIFICATION ConsoleSpec
INVARIANTS SignedOutStaysOut 
PROPERTY StaysSignedIn
