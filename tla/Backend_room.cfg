CONSTANTS
    Request = {r1, r2, r3, r4}
    Probe = {p1}
    MaxConc = 1
SPECIFICATION Spec
SYMMETRY Symmetry
PROPERTY RefusedOnlyWhenRoomFull
