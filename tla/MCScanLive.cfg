SPECIFICATION FairSpec
CONSTANTS
    u1 = u1
    c1 = c1
    c2 = c2
    d1 = d1
    Users = {u1}
    Companies = {c1, c2}
    Domains = {d1}
    Callers = {k1, k2}
    Runs = {r1, r2}
    Owner <- MCOwner
    DomainOf <- MCDomainOf
    ActiveLimit = 2
    ScansPerDay = 2
    DomainPerHour = 2
    FaultsOn = FALSE
    RestartsOn = FALSE
    None = None
INVARIANTS TypeOK OneScanPerCompany SlotsExact
PROPERTY EveryRunSettles
