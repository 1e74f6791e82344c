SPECIFICATION Spec
CONSTANTS
    a1 = a1
    s1 = s1
    s2 = s2
    c1 = c1
    c2 = c2
    Approvals = {a1}
    Refreshes = {s1, s2}
    Clicks = {c1, c2}
SYMMETRY Symmetry
INVARIANTS
    OneCallPerApproval
    ButtonsAreBacked
