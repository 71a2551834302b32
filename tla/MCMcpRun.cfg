CONSTANTS
    c1 = c1
    c2 = c2
    Calls = {c1, c2}
    Slots = 1
    Requests <- Either
SPECIFICATION MixedSpec
INVARIANTS IndInv NothingLeftBehind AnswersAreTrue NetworkIsAnnounced RunsAreAudited LateCallsStartNothing
PROPERTIES ImplementsService
CHECK_DEADLOCK FALSE
SYMMETRY Interchangeable
