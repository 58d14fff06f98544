SPECIFICATION Spec
CONSTANTS
    Width = 3
    Direct = Direct
    Gateway = Gateway
    Routes <- DefaultAndDirect
    MaxRoutes = 2
INVARIANTS LongestPrefixMatch
CHECK_DEADLOCK FALSE
