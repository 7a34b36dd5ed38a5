SPECIFICATION MCSpec
CONSTANTS
    d = d  A = A  ns = ns
    Workloads = {d}
    KindOf <- MCKindOf
    NamespaceOf <- MCNamespaceOf
    OwnedByDeployment = {}
    Autoscaled = {d}
    MinReplicas <- MCMin
    MaxReplicas <- MCMax
    Legacy = {}
    Namespaces = {ns}
    HPs = {A}
    HomeOf <- MCHomeOf
    CHPs = {}
    HPSpecs <- MCHPSpecs
    CHPSpecs = {}
    Counts = {2, 3}
    Labels = {}
    HibernateLabel = HibernateLabel
    None = None
    NightEdits = FALSE
    MaxLag = 1
    MaxEdits = 0
    MaxFaults = 0
PROPERTIES HPARestored
