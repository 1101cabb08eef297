SPECIFICATION FairSpec
CONSTANTS
    Authorities = {r1, r2}
    None = None
    MaxOutside = 2
    MaxFailures = 2
INVARIANTS TypeOK PlanningHeld ReservationRecorded
PROPERTIES ActsWithinIntent DeliveryResolves
CHECK_DEADLOCK FALSE
