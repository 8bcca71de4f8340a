SPECIFICATION Spec
CONSTANTS
    t1 = t1
    c1 = c1
    c2 = c2
    a1 = a1
    Tenants = {t1}
    Eager = {t1}
    Clients = {c1, c2}
    Admins = {a1}
    MaxFailures = 1
    PerInstance = 2
    PerExtension = 2
    PerTenant = 2
    MaxRuntimes = 2
    Scenarios <- Mixed
INVARIANTS
    PermitsExact
    ChargedOnce
    DrainedIsQuiet
    ServingAccepts
    ServingCurrent
PROPERTIES
    DrainEnds
CHECK_DEADLOCK FALSE
