SPECIFICATION Spec
CONSTANTS
  Addrs = {a1, a2}
  Tags = {weights, kv_cache}
  Offloaded = {weights}
  Values = {v1, v2}
  Garbage = Garbage
  None = None
SYMMETRY Symmetry
INVARIANTS TypeOK ContentPreserved MemoryTracked
