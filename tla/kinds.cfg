SPECIFICATION MCSpec
CONSTANTS
    dep = dep  sts = sts  rs = rs  ds = ds  owned = owned  ns = ns
    Workloads = {dep, sts, rs, ds, owned}
    KindOf <- MCKindOf
    NamespaceOf <- MCNamespaceOf
    OwnedByDeployment = {owned}
    Autoscaled = {dep}
    MinReplicas <- MCMin
    MaxReplicas <- MCMax
    Legacy = {rs}
    Namespaces = {ns}
    HPs = {A}
    HomeOf <- MCHomeOf
    CHPs = {}
    HPSpecs <- MCHPSpecs
    CHPSpecs = {}
    Counts = {2}
    Labels = {zone}
    HibernateLabel = HibernateLabel
    None = None
    NightEdits = FALSE
    MaxLag = 1
    MaxEdits = 0
    MaxFaults = 0
INVARIANTS OriginalsKept
PROPERTIES AwakeInWindows AsleepOutsideWindows StatusSettles
