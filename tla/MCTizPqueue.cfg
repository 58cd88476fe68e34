SPECIFICATION Spec
CONSTANTS
    Data = {d1, d2}
    MaxPrio = 2
    Addresses = {a1, a2, a3, a4, a5}
    NULL = NULL
SYMMETRY Layouts
INVARIANT
    ListIsSound
PROPERTY
    ImplementsPriorityFifo
