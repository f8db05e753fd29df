CONSTANTS
  Depth = 3
  Value = {v1, v2, v3}
  v1 = v1
  v2 = v2
  v3 = v3
SPECIFICATION FifoSpec
INVARIANTS FifoTypeOK PointersAgree
PROPERTY FifoIsAQueue
