SPECIFICATION Spec
CONSTANTS
    Workers = {w1}
    Entities = {e1}
    Groups = {g1, g2}
    Offline = Offline
    Faults = {}
INVARIANTS
    InconsistencyIsDetectable
