SPECIFICATION Spec

CONSTANTS
    Getters = {g1, g2}
    Destroyers = {d1, d2}
    Objects = {o1, o2}
    Nil = Nil

INVARIANTS
    OneInstance

PROPERTIES
    FastPathLive
