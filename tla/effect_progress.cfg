\* Prompt steps, portal sessions: a live dispatch is kept, and every dispatch settles.
CONSTANTS
    i1 = i1  i2 = i2  d1 = d1  d2 = d2  e1 = e1
    r1 = r1  r2 = r2  s1 = s1  t1 = t1  t2 = t2
    Instance = {i1, i2}
    Desk = {}
    Effect = {e1}
    Request = {r1}
    Subject = {s1}
    Receipt = {t1}
    Code <- PluginCodes
    Operation <- PortalOnly
    SubjectOf <- OneSubject
    Issued <- FirstReceipt
    Uncertainty = 2
    HttpTimeout = 1
    PromptStore = TRUE
    None = None
SPECIFICATION RetrySpec
INVARIANTS
    LiveDispatchKept
PROPERTIES
    SettlesOnceFaultsCease
