\* Two workers, nothing fails: does a converged row mean the grants are there?
CONSTANTS
    w1 = w1  w2 = w2  s1 = s1  s2 = s2  p1 = p1  p2 = p2  f1 = f1  f2 = f2
    basic = basic  plus = plus  other = other
    Worker = {w1, w2}
    Sub = {s1}
    Person = {p1}
    Feature = {f1}
    Price = {basic}
    Catalog <- OnePlan
    PersonOf <- SamePerson
    PlanOf <- AllBasic
    Snapshot <- PaymentOnly
    MaxVersion = 3
    Replies = {"ok"}
    None = None
SPECIFICATION Spec
INVARIANTS
    ConvergedGrants
