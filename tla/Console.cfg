SPECIFICATION Spec
CONSTANTS
    Browsers = {tab, b1, b2}
    tab = tab
    Servers = {s1, s2}
    Names = {n1, n2}
    Requests = {r1, r2, r3}
    MaxTokens = 2
    MaxOps = 5
    Nil = Nil
SYMMETRY Symmetry
INVARIANTS OneAdministrator LockExact TokenIsCurrent ListAgrees
PROPERTIES TokenKept
CHECK_DEADLOCK FALSE
