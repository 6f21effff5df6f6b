SPECIFICATION Spec
CONSTANTS
    None = None
    Keys = {b1}
    Topics = {t1, t2}
    Clients = {c1, c2, c3}
    Goroutines = {g1, g2}
    Reconcilers = {w1, w2}
SYMMETRY Symmetry
INVARIANTS
    SubscribedWhenSettled
