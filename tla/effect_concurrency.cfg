\* Two processes, two requests with one key, two operators: the checkout ledger
\* with everything that may fail.
CONSTANTS
    i1 = i1  i2 = i2  d1 = d1  d2 = d2  e1 = e1
    r1 = r1  r2 = r2  s1 = s1  t1 = t1  t2 = t2
    Instance = {i1, i2}
    Desk = {d1, d2}
    Effect = {e1}
    Request = {r1, r2}
    Subject = {s1}
    Receipt = {t1, t2}
    Code <- PluginCodes
    Operation <- CheckoutOnly
    SubjectOf <- OneSubject
    Issued <- FirstReceipt
    Uncertainty = 2
    HttpTimeout = 1
    PromptStore = FALSE
    None = None
SPECIFICATION Spec
SYMMETRY Interchangeable
INVARIANTS
    TypeOK
    AtMostOneDispatch
    DispatchMatchesFingerprint
    PluginVerdictSound
    AcceptedAnswerIsDurable
    AcknowledgedVerdictStands
PROPERTIES
    ImplementsOneShot
