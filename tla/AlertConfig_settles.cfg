\* One group, one Alert, one AIProvider and two Secrets, not all there at the
\* start; fair scheduling.
SPECIFICATION FairSpec
CONSTANTS
    s1 = s1
    s2 = s2
    a1 = a1
    g1 = g1
    p1 = p1
    None = None
    Secrets = {s1, s2}
    Alerts = {a1}
    Groups = {g1}
    Providers = {p1}
    Clusters <- MCClusters
    AlertSpecs <- MCAlerts
    GroupSpecs <- MCGroups
    ProviderSpecs <- MCProviders
    Steps = 2
    ReadsFail = TRUE
    MaxEvents = 1
CHECK_DEADLOCK FALSE
INVARIANTS TypeOK SettledReady
PROPERTIES StatusOfSpec ReadyFollows
