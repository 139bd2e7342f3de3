SPECIFICATION Spec
CONSTANTS
    MaxLegs = 4
    Quantities = {1, 2}
INVARIANTS NothingLostInNetting FirstInFirstOut LifecycleAgrees
PROPERTY NewBuyVisible
CHECK_DEADLOCK FALSE
