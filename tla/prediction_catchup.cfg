SPECIFICATION PredictionSpec
CONSTANTS
    Submissions = {a}
    NoView = NoView
    MaxCatchUp = 1
    MaxTransitions = 2
PROPERTY NewerBodiesShown
CHECK_DEADLOCK FALSE
