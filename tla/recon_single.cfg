\* One worker and every fault: what a converged row means, and that the entitled
\* are granted.
CONSTANTS
    w1 = w1  w2 = w2  s1 = s1  s2 = s2  p1 = p1  p2 = p2  f1 = f1  f2 = f2
    basic = basic  plus = plus  other = other
    Worker = {w1}
    Sub = {s1}
    Person = {p1}
    Feature = {f1, f2}
    Price = {basic, plus, other}
    Catalog <- TwoPlans
    PersonOf <- SamePerson
    PlanOf <- AllPlus
    Snapshot <- PlanChanges
    MaxVersion = 3
    Replies = {"ok", "lost", "failed"}
    None = None
SPECIFICATION PollSpec
INVARIANTS
    ConvergedGrants
PROPERTIES
    EntitledIsGranted
