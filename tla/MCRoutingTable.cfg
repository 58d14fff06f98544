SPECIFICATION Spec
CONSTANTS
    Width = 3
    Direct = Direct
    Gateway = Gateway
    Routes <- AllRoutes
    MaxRoutes = 4
INVARIANTS MatchesHighBits SeparatedMatchLongest
CHECK_DEADLOCK FALSE
