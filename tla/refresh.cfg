\* No user, no source, a user alone, then receivers that see up to 9 routes and
\* more than 9, with sources that nobody features (from the fifth user on) and
\* budgets that repeat (from the ninth).
CONSTANTS
    UserCounts   = {0, 1, 2, 3, 4, 5, 8, 12, 16}
    SourceCounts = {0, 1, 2, 3}
SPECIFICATION RefreshSpec
INVARIANTS
    SamePlan
    ResultExact
