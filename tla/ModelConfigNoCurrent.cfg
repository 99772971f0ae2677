SPECIFICATION Spec
CONSTANTS
    Configs = {x, y}
    Admins = {a1, a2}
    Endpoints = {e1, e2}
    None = none
PROPERTY DisablingKeepsACurrent
SYMMETRY Symmetry
