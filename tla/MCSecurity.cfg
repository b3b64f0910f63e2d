\* Setups, logins, changes of the password, rekeys and recoveries that overlap,
\* with a crash at any await and inside a rekey.
CONSTANTS
    r1 = r1
    r2 = r2
    r3 = r3
    r4 = r4
    Request = {r1, r2, r3, r4}
    First = First
    None = None
    MaxCrashes = 2
SPECIFICATION Spec
SYMMETRY Symmetry
CHECK_DEADLOCK FALSE
INVARIANTS
    StartsAgain
    WorkspaceRecoverable
    CredentialsReadable
    SessionsFollowPassword
