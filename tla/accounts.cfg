\* One buyer (or member of a bank's staff) and one administrator.
CONSTANTS
    None = None
    Users = {u1, admin}
    Admins = {admin}
    Tokens = {t1, t2}
    Documents = {d1}
    Requests = {r1, r2}
    RefreshTime = 0
    MaxTime = 1
SPECIFICATION Spec
SYMMETRY Symmetry
\* The administrator may be deactivated, the clock at its bound.
CHECK_DEADLOCK FALSE
INVARIANT TypeOK
PROPERTIES
    DeactivatedStaysOut
    TokensRotate
    ApprovalSettles
