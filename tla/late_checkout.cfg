\* One worker, nothing fails, two subscriptions of one person, of which one may
\* be canceled: is she granted the other in whatever order the events come?
CONSTANTS
    w1 = w1  w2 = w2  s1 = s1  s2 = s2  p1 = p1  p2 = p2  f1 = f1  f2 = f2
    basic = basic  plus = plus  other = other
    Worker = {w1}
    Sub = {s1, s2}
    Person = {p1}
    Feature = {f1}
    Price = {basic}
    Catalog <- OnePlan
    PersonOf <- SamePerson
    PlanOf <- AllBasic
    Snapshot <- Cancellation
    MaxVersion = 2
    Replies = {"ok"}
    None = None
SPECIFICATION PollSpec
PROPERTIES
    EntitledIsGranted
