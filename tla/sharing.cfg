SPECIFICATION Spec
CONSTANTS
  u1 = u1  u2 = u2
  p1 = p1  p2 = p2  p3 = p3
  amazon = amazon  flipkart = flipkart
  Users = {u1, u2}
  Exempt = {u2}
  Listers = {u2}
  Urls = {p1, p2}
  Shop <- OneShop
  Limit = 1
  MaxRows = 2
SYMMETRY Symmetry
INVARIANTS TypeOK ListingsKeepTheirProduct QuotaKept
PROPERTIES OthersLoseOnlyUncounted UnwatchedIsQuiet
