SPECIFICATION Spec
CONSTANTS
    Challenges = {c1}
    WrongAnswers = {c2}
    TIs = {t1}
    Nothing = Nothing
    MAX_PROCEDURES = 8
INVARIANTS
    RoutingUnambiguous
    TickedWhileRunning
    AnswerHasItsParameters
    IdleIsClean
    WaitsAreTimed
PROPERTIES
    RegisteredAfterChecks
    SilenceEndsWaiting
CHECK_DEADLOCK FALSE
