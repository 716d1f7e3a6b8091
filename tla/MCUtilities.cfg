\* Allocators may run out of memory, and clients may stop.
CONSTANTS
  Granularity = 2
  Kinds = {"vm", "allocator"}
  Space = 7
  Sizes = {0, 1, 2, 3}
  MaxInits = 2
  Pages = 5
  PageSizes = {1, 3}
  Slab = {s1, s2, s3}
  PreallocNum = 2
  Obj = {o1, o2, o3}
  Block = {b1, b2}
  Null = Null
  Failed = Failed
  InlineSize = 1
  MemSizes = {1, 2}
  FileSize = 3
  PageSize = 2
  Values = {0, 1}
  Formats = {"UNKNOWN", "NDARRAY", "N4CX", "NHWC8", "NHWC"}
  Dims <- SignedDims
  Paddings = {1}
  MaxRank = 3
  Wrap = 16
  Worker = {w1, w2}
  Key <- AesKey
  Iv <- AesIv
  Plain <- AesPlain
  Encrypted <- AesEncrypted
  Lengths = {16, 24, 32}
  Custom = {c1}
SPECIFICATION MCSpec
INVARIANTS UtilitiesTypeOK BlocksKept NothingLost ToldRight ConvertedRight
PROPERTIES ImplementsRegions
CHECK_DEADLOCK FALSE
