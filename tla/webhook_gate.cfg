\* Two gateways, one rotation; time goes on, and requests come at both ends of the
\* tolerance and beyond it.
CONSTANTS
    g1 = g1  g2 = g2  e1 = e1  ann = ann  s1 = s1
    ingress = ingress  ui = ui  cron = cron  ops = ops  pro = pro  basic = basic
    price1 = price1  calls = calls  app = app  home = home
    ref1 = ref1  ref2 = ref2  ref3 = ref3  ref4 = ref4
    Gateway = {g1, g2}
    Event = {e1}
    Scenario <- Scenarios
    Person = {ann}
    Sub = {s1}
    OldKey = OldKey
    NewKey = NewKey
    Candidate <- Candidates
    Lag <- Behind
    Caller = {ingress}
    TickLength = 120
    Transit = 120
    MaxFaults = 2
    Schema = {"s"}
    SecretReference = {ref1, ref2, ref3, ref4}
    StripeApi = {"api"}
    Name = {ingress, ui, cron, ops, pro, basic, calls}
    EventName = {calls}
    PriceId = {price1}
    RedirectOrigin <- Origins
    None = None
SPECIFICATION RetrySpec
INVARIANTS
    TypeOK
    OnlyGenuineBodies
    EffectsOncePerReceipt
    ActiveIsUnambiguous
    RetryWouldPass
PROPERTIES
    ImplementsInbox
    EveryEventAcknowledged
