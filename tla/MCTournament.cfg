SPECIFICATION Spec
CONSTANTS
    Sessions = {a}
    Requests = {r1, r2}
    Submissions = {x, y}
    Challenges = {c1, c2}
    TicketIds = {k1, k2}
    MatchIds = {m1}
    Settlements <- BothSettlements
    None = None
SYMMETRY Symmetry
INVARIANTS
    EntryIsPaid
    MatchIsFair
    PrizeIsEarned
PROPERTIES
    LossNeedsRace
