\* One pipe, a buffer of two bytes, three threads; deletePipe takes handle 0
\* for pipe 0, whose bytes go through handle 3.
CONSTANTS
  t1 = t1
  t2 = t2
  t3 = t3
  Threads = {t1, t2, t3}
  Nobody = Nobody
  MaxPipes = 1
  LENGTH = 2
  n1 = n1
  Names = {n1}
  NoName = NoName
  Bytes = {1, 2, 3}
  Garbage = Garbage
  Pages = {0, 1}
  Messages <- MCMessages
  Sizes = {1, 2}
  MaxSent = 4
  Creations = {TRUE, FALSE}
  StaleValues = {0, 1}
  DataHandles = {3}
  CloseHandles = {0}
SPECIFICATION Spec
INVARIANTS TypeOK 
 
SYMMETRY Symmetry
CHECK_DEADLOCK FALSE
