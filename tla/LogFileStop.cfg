SPECIFICATION Spec
CONSTANTS
  Buffers = {b0, b1}
  First = b0
  Readers = {r1, r2}
  RingSize = 2
  MaxCount = 2
  Capacity = 3
  Sizes = {1, 2}
  Chunks = {2}
  MaxLogged = 3
  Overlaps = {"callback"}
INVARIANT UsesLiveMemory
