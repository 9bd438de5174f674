CONSTANTS
    None = None
    ip1 = ip1
    ip2 = ip2
    Ips = {ip1, ip2}
    Burst = 2
    Rate = 1
    GlobalBurst = 3
    GlobalRate = 2
    XForwardedFor = FALSE
    MaxSeconds = 2
    MaxRequests = 5
SPECIFICATION Spec
SYMMETRY Perms
INVARIANT TypeOK
PROPERTY GlobalCellsOnlyForAdmitted
