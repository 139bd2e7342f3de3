SPECIFICATION Spec
CONSTANTS
    Prices = {200, 201}
    NoDecision = NoDecision
    DelayedRetryEnabled = TRUE
    RetryWindow = 3
    RetryToleranceMille = 5
    MaxBars = 4
PROPERTY RetryWhileThesisLives
CHECK_DEADLOCK FALSE
