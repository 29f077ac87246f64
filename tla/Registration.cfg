SPECIFICATION Spec
CONSTANTS
    Clients <- MCClients
    Names <- MCNames
    Scenarios <- MCScenarios
    Fields <- MCFields
    Tokens <- MCTokens
    Window = 2
    MaxConns = 2
    NoUser = NoUser
    NoForm = NoForm
INVARIANTS AnswerIsOutcome WinnerKeepsName LimiterIsExact DefaultsComeFirst 
PROPERTIES LostOnlyToOverlap  AcceptedIsServed
\* A scenario has a finite number of calls.
CHECK_DEADLOCK FALSE
