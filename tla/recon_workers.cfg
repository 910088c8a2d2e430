\* Two workers on one subscription of three states: no event is swallowed, the
\* rows mirror Stripe, and converged means granted unless workers overlap.
CONSTANTS
    w1 = w1  w2 = w2  s1 = s1  s2 = s2  p1 = p1  p2 = p2  f1 = f1  f2 = f2
    basic = basic  plus = plus  other = other
    Worker = {w1, w2}
    Sub = {s1}
    Person = {p1}
    Feature = {f1}
    Price = {basic}
    Catalog <- OnePlan
    PersonOf <- SamePerson
    PlanOf <- AllBasic
    Snapshot <- PaymentOnly
    MaxVersion = 3
    Replies = {"ok", "failed"}
    None = None
SPECIFICATION Spec
INVARIANTS
    TypeOK
    NoEventSwallowed
PROPERTIES
    ImplementsMirror
    SerialConverges
