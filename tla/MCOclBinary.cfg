\* Handles may run out, and clients may stop.
CONSTANTS
  Runner = {r1, r2}
  Names <- TwoNames
  Options = {o1, o2}
  MaxKernels = 3
  MaxGroups = 1
  Careful = FALSE
  Ns = {"cv", "nn"}
  Names0 = {1, 2}
  Names1 = {1, 2}
  MaxSaved = 3
  MaxLoads = 2
  ChunkId <- SomeChunks
  Function <- Functions
  Kernels <- KernelsOf
  Size <- SizeOf
  MaxCount = 8
  MaxStores = 4
  System <- TwoPlatforms
  NoDevice = "none"
  Version <- VersionOf
  PerDim <- PerDimOf
  MaxItems <- MaxItemsOf
  Mali = {"d2"}
  MaxDescribed = 2
  Globals = {0, 3, 33}
  Locals = {1, 2, 3}
  MaxDims = 2
  MaxEvents = 2
  MaxListed = 2
  Gpu <- Gpus
  GpuVendor <- VendorOfGpu
  GpuExtensions <- ExtensionsOf
  OldGpu = {"mali", "arc"}
  DefaultGpu = "adreno"
SPECIFICATION OclSpec
INVARIANTS BinaryThereWhenUsed
CHECK_DEADLOCK FALSE
