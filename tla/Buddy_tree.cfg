SPECIFICATION Spec
CONSTANTS
  t1 = t1
  Threads = {t1}
  Others = Others
  Nobody = Nobody
  PageQuantity = 8
  PageSize = 2
  Requests = {0, 1, 3, 6, 10, 11, 16, 17}
INVARIANTS TypeOK NoOverlap MarksTrue Coalesced
