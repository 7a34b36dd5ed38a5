SPECIFICATION MCSpec
CONSTANTS
    d = d  A = A  B = B  ns = ns  CapA = 1  CapB = 2
    Workloads = {d}
    KindOf <- MCKindOf
    NamespaceOf <- MCNamespaceOf
    OwnedByDeployment = {}
    Autoscaled = {d}
    MinReplicas <- MCMin
    MaxReplicas <- MCMax
    Legacy = {}
    Namespaces = {ns}
    HPs = {A}
    HomeOf <- MCHomeOf
    CHPs = {B}
    HPSpecs <- MCHPSpecs
    CHPSpecs <- MCCHPSpecs
    Counts = {2, 3}
    Labels = {}
    HibernateLabel = HibernateLabel
    None = None
    NightEdits = FALSE
    MaxLag = 0
    MaxEdits = 0
    MaxFaults = 1
INVARIANTS OriginalsKept
PROPERTIES ImplementsSleepAndWake AwakeInWindows AsleepOutsideWindows
