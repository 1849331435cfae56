SPECIFICATION Spec
CONSTANTS
    Sessions = {a}
    Requests = {r1, r2}
    Submissions = {x, y}
    Challenges = {c1}
    TicketIds = {k1}
    MatchIds = {m1}
    Settlements <- BothSettlements
    None = None
PROPERTIES
    LedgerIsDurable
