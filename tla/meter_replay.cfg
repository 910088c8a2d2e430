\* Is a stored acceptance what a repeated request is answered with?
CONSTANTS
    p1 = p1  p2 = p2  d1 = d1  r1 = r1  r2 = r2  r3 = r3  ann = ann  bob = bob
    k1 = k1  k2 = k2  s1 = s1  s2 = s2  x1 = x1  y1 = y1  y2 = y2
    Process = {p1, p2}
    Delivery = {d1}
    Request = {r1, r2, r3}
    Caller = {ann, bob}
    Content = {k1, k2}
    Subject = {s1, s2}
    Customer = {x1, y1, y2}
    CallerOf <- TwoCallers
    ContentOf <- TwoContents
    SubjectOf <- TwoSubjects
    OwnerOf <- Customers
    Traffic <- Casts
    Uncertainty = 1
    None = None
SPECIFICATION Spec
PROPERTIES
    ReplayReturnsReceipt
