SPECIFICATION Spec
CONSTANT MaxFaults = 5
CHECK_DEADLOCK FALSE
PROPERTIES
    HealthyIsAttached
