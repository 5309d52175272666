\* Allocations and releases, also by libc free, in four configurations.
SPECIFICATION Spec
CONSTANTS
  Ptrs = {p1, p2, p3}
  NoBlock = NoBlock
  Configs <- MCConfigs
  Sizes = {1, 2}
  Alignments = {1, 2}
  Thresholds = {1}
SYMMETRY Symmetry
INVARIANTS CountersAgree ArenaAccounted
PROPERTIES StrictRequests AbstractSpec
