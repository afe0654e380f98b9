SPECIFICATION ScheduleSpec
CONSTANTS
  w1 = w1  w2 = w2
  p1 = p1  p2 = p2
  Workers = {w1, w2}
  Products = {p1}
  Intervals = {1, 2}
  MaxErrors = 1
INVARIANTS StallsOnlyBesideAnother
PROPERTIES FollowsProducts ReadsStopped
