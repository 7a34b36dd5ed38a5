SPECIFICATION MCSpec
CONSTANTS
    d = d  sts = sts  rs = rs  ds = ds  owned = owned
    A1 = A1  A2 = A2  B = B  C = C  home = home  ns = ns  other = other
    Workloads = {d, sts, rs, ds, owned}
    KindOf <- MCKindOf
    NamespaceOf <- MCNamespaceOf
    OwnedByDeployment = {owned}
    Autoscaled = {d}
    MinReplicas <- MCMin
    MaxReplicas <- MCMax
    Legacy = {rs}
    Namespaces = {home, ns, other}
    HPs = {A1, A2}
    HomeOf <- MCHomeOf
    CHPs = {B, C}
    HPSpecs <- MCHPSpecs
    CHPSpecs <- MCCHPSpecs
    Counts = {2, 3}
    Labels = {zone}
    HibernateLabel = HibernateLabel
    None = None
    NightEdits = TRUE
    MaxLag = 0
    MaxEdits = 1
    MaxFaults = 2
INVARIANTS TypeOK OriginalsKept HPAOriginalsKept
PROPERTIES OnlyOwnerWakes OwnerKept HPARestored HPASuspended StatusSettles
    AwakeInWindows AnnotationWins
