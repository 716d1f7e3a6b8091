# A verification project for ppl.common

`ppl.common` is the base library of the PPL projects: threads and queues, memory managers, a few data types, and a layer
over OpenCL. This directory holds TLA+ modules that model it, TLC configurations that check the models on small
instances, and proofs that the TLA+ proof system (TLAPS) checks for all values of the constants. All source files named
below are in `src/src/ppl/common/`.

## 1. Inventory

### 1.1 Concurrency

| part | source | state | operations | who shares it |
|---|---|---|---|---|
| `MessageQueue<T>` | `message_queue.h` | list of items, mutex, condition | `Push`, `Pop` (blocks) | any threads |
| `ThreadPool` | `threadpool.h/.cc` | `threads_` (with the pids), `queues_`, `queue_num_` | `Init`, `AddTask`, `Destroy`, `SetAffinity` | the client thread, N workers |
| `JoinableThreadTask` | `threadpool.h/.cc` | mutex, condition, the subclass's own progress | `Run`, `Join` | workers, joiners |
| `Barrier` | `barrier.h` | counter, maximum, mutex, condition | `Wait`, `Reset` | any threads |
| `StaticThreadPool` | `threadpool.h/.cc` | `threads_`, `func_`, a `Barrier` | `Init`, `Run`, `RunAsync`, `Wait`, `Destroy` | the client thread, N workers |
| `EventCount` | `event_count.h/.cc`, `futex_wrapper.cc` | one 64-bit word: epoch and number of waiters | `PrepareWait`, `CommitWait`, `CancelWait`, `NotifyOne`, `NotifyAll`, `Wait(pred)` | any threads |
| `MPSCQueue`, `TypedMPSCQueue` | `mpsc_queue.h/.cc`, `typed_mpsc_queue.h` | linked nodes, atomic tail, head, stub; approximate size | `Push`, `Pop` | many producers, one consumer |
| `SPSCRingBuffer` | `spsc_ring_buffer.h` | slots, atomic tail and head | `Push`, `Pop`, `IsEmpty`, `IsFull` | one producer, one consumer |
| pthread for Windows | `windows/pthread.cc` | once flag, handles | `pthread_once`, `pthread_create`, `pthread_join`, ... | any threads |
| logger | `log.h/.cc` | a global `shared_ptr`, the level | `SetCurrentLogger`, `GetCurrentLogger`, the `LOG` macro | any threads and static objects, unsynchronised |
| CPU information | `x86/sysinfo.cc`, `arm/sysinfo.cc` | flags and cache sizes, a once flag; the handler of SIGILL and its jump buffer | `GetCpuInfo`, `GetCPUInfoByRun` | any threads |

### 1.2 Memory

| part | source | state | operations |
|---|---|---|---|
| `CompactAddrManager` | `compact_addr_manager.h/.cc` | two maps over the free blocks, by address and by size | `Alloc` (best fit, grows through an `Allocator` or a `VMAllocator`), `Free` (merges neighbours) |
| `PageManager` | `page_manager.h/.cc` | two maps over the free page ranges | `Init`, `Alloc` (several ranges), `Free` |
| `ObjectPool` | `object_pool.h` | slabs, a list of free objects | `Alloc`, `Free`, `Clear` |
| `CudaBufferedAllocator` | `cuda/cuda_buffered_allocator.h/.cc` | a reserved address range, mapped chunks | `Init`, `Extend`, `Destroy` |
| `Mmap` | `mmap.h/.cc` | base, start, size, mapping | `Init`, move, `Destroy` |
| `TensorShape` | `tensor_shape.h` | dimensions, paddings, data format | `Reshape`, `SetDim`, `SetDataFormat`, `SetPadding`, counts |
| halves | `half.h`, `half_soft.cc`, `half.cc` | none | conversions to and from `float`, one by one and of arrays |

### 1.3 OpenCL layer (`ocl/`)

| part | source | state | operations |
|---|---|---|---|
| kernel pool | `kernelpool.cc/.h` | map context -> project -> kernel name -> kernel, mutex | insert, get, remove, remove all |
| kernel runner | `runkernel.cc/.h` | uses the pool, the binary database, a frame chain | compile, run, tune |
| binary database | `binary.cc/.h` | chunk groups (sorted), a sorted list of new binaries, mutex | find, insert, load, save, clear |
| kernel binaries manager | `kernelbinariesmanager.cc/.h`, `kernelbinaries_interface.cc` | file offsets, counts, maps | prepare, store, load, retrieve |
| device | `device.cc/.h` | platforms, devices, indices, what each device can do; shared singletons | detect, choose, query; `validateNDrange` (`runkernel.cc`) and the tool `oclgpuinfo` use it |
| frame chain | `framechain.cc/.h` | context, queues, a list of events, what the GPU can do; shared singletons | create, ask for extensions, test for sub-groups, tune, profile |
| encryption | `aes.cc`, `crypto.h` | the key schedule | `DecryptContent` |
| OpenCL loader | `openclruntime.cc/.h` | the library, a table of its functions, how it was opened | load at the first call, unload at exit |

### 1.4 How they interact

A `ThreadPool` owns one `MessageQueue` or one per worker; its workers pop tasks and run them, and a task's `Run` may
signal threads blocked in `Join`. A `StaticThreadPool` and its client meet in a `Barrier`. A `CompactAddrManager` calls
its allocator back to grow, and `CudaBufferedAllocator` is one such allocator. The kernel runner looks a kernel up in the
pool, compiles it from the binary database or from source, with the options that the frame chain has derived from the GPU's
extensions, and inserts the result; the pool and the database each have a mutex that is not held between the two. The runner takes context and queue from a frame chain, which found them through the
shared device, and checks ranges against the shared device of that moment. Every call of OpenCL goes through the loader's table.
Everything logs, the pool of kernels even while static objects are destroyed.

### 1.5 Where it is hard

Threads meet in condition variables (lost and spurious wakeups), in lock-free structures (interleavings and weak memory),
and in objects whose lifetime one of them ends: the locals of `ThreadPool::Init`, the queues, the nodes of an
`MPSCQueue`, a kernel in the pool. The memory managers keep two views of the same free blocks that must agree after any
sequence of calls, failed ones included. The hazards, each at its line, are in `PROJECT.json`.

The properties that make each part correct are those of section 4; what is hard about it is in the hazards.

## 2. Modules

Each component has a module with its variables and one action per step of the code. A critical section under one lock is
one step; a thread is between two steps wherever it holds no lock, and every access to an atomic is a step. A `.cfg` belongs to
the module whose name its name begins with. Modules whose names begin with `MC` define the values of constants that a `.cfg`
cannot write down; `MessageQueueClients`, `EventCount`, `MPSCQueue` and `SPSCRingBuffer` are run as they are. `*_proofs` and
`Lemmas` hold theorems and lemmas.

| module | models | abstract specification |
|---|---|---|
| `MessageQueue` | a queue and its condition as a value, with the effect of `Push` and of each part of `Pop` | |
| `MessageQueueClients` | threads pushing to and popping from one queue | |
| `TaskExecutor` | *abstract*: what a pool promises about tasks | |
| `ThreadPool` | client, workers, queues (`MessageQueue` values), `JoinableThreadTask` and its joiners | `TaskExecutor` |
| `WindowsThreads` | threads, handles and `pthread_once` of `windows/pthread.cc` | |
| `Barrier`, `StaticThreadPool` | the barrier as a value; client and workers around it | `ForkJoin` |
| `MPSCQueue` | `MPSCQueue` inside `TypedMPSCQueue`: producers, the consumer, destructor | `FIFOQueue` |
| `SPSCRingBuffer` | the two threads of the ring buffer | `BoundedFIFO` |
| `EventCount` | waiters, notifiers, the word and the futex | |
| `BlockMaps` | the two maps over free blocks, as operators, shared by the two modules below | |
| `CudaBufferedAllocator`, `CompactAddrManager` | the provider of memory as operators; the manager with either kind of provider | `RegionAllocator` |
| `PageManager`, `ObjectPool`, `Mmap`, `TensorShape`, `Half` | the classes of these names; the conversions of `half_soft.cc` and of arrays | |
| `CpuInfo` | threads that ask for the instructions and caches of the processor, by CPUID or by trying instructions | |
| `Logger` | the current logger, its replacement, and the messages on their way to it, from before `main` until after it | |
| `Utilities` | the manager, pages, objects, `Mmap`, shapes, Windows threads, processor and logger beside each other | |
| `Aes` | key schedule, its inverse and decryption in CBC mode | |
| `KernelRunner` | threads in `runOclKernel`, the kernel pool, the database of binaries as far as they use it | |
| `BinaryStore` | saving, writing, loading and searching of compiled programs (`binary.cc`) | |
| `KernelBinaries` | the other file of binaries (`kernelbinariesmanager.cc`) | |
| `Device` | detection, indices and information of devices, the shared ones, launch ranges; the library's clients and the tool | |
| `FrameChain` | OpenCL objects of a frame chain, those of its tests, and the events of kernels | |
| `FrameExtensions` | what a frame chain finds out about its GPU, and the compile options and context properties it makes of that | |
| `OpenCLLoader` | the OpenCL library, and the static objects that call it until the program has ended | |
| `Ocl` | the seven modules above, from `KernelRunner` on, beside each other | |

How the models correspond to the code:

* **ThreadPool.** `main` is the place of the client thread in `Init` or `Destroy`, `worker[w]` that of a worker in
  `thread_worker`; `frame` says whether the locals of `Init` exist, `queues` is `queues_`. `Run` is three steps: its test
  outside of the lock (`RunTests`), the critical section (`WakeJoiner`, `NextTasks`) and `Process`. A task is handed over
  once by clients, and each call of `Process` may hand over one more: two submissions of one unfinished task race at
  `threadpool.cc:44` in a way the header does not allow or forbid, and are left out. `faults` is chosen at the start: which of
  `pthread_create` and the waits may fail or end without a signal. Reading undefined memory is one of the outcomes the
  build can have: a join through a pid nobody has written fails at once, and a worker whose queue was freed has no
  further step.
* **StaticThreadPool.** One barrier of `thread_num + 1` parties, met at the start and the end of each run. A run's function is
  its number. `CreateFails` resizes the barrier as `Init` does. At most one wait ends without a signal (`woken`); it makes
  every promise void, as the code does not test for it, and the properties hold until then.
* **MPSCQueue.** `tails` is the history of the stores to `m_tail`; a relaxed load returns any element not older than what the
  consumer knows, and a link that is not visible yet is null. Node numbers are not reused, which `NoUseAfterFree` justifies.
* **SPSCRingBuffer.** Stores to `tail_` and `head_` are numbered; a load returns any store between the newest one this
  thread has seen and the newest one there is. Nothing else of the C++ memory model is needed: each location has one writer.
* **EventCount.** `val_` is the pair of epoch and waiters. `Wait(pred)` is its six steps; the futex compares in the kernel.
* **CompactAddrManager.** `blocks` is the pair of maps, changed by the operators of `BlockMaps` in the code's order. CUDA
  addresses count from `addr_`. A provider that fails changes nothing. A block of 0 bytes that is freed where it touches no free
  block gets into the maps and sets `spoilt`, where the model stops: the block that starts there later finds its place taken.
* **PageManager, ObjectPool.** `Init` is called once. Clients of `ObjectPool` drop what they hold before `Clear`.
* **Mmap.** A pointer is a block or an object with an offset; the bytes of a small Mmap are its own `base` and `fd`, so a client
  who writes changes them. `written` is what clients expect to read.
* **TensorShape.** The whole class but the data type; `plain` and `calculated` remember where the paddings come from.
* **Half.** Floats and halves as the numbers that their bits are; a product with a power of two is a shift. Arrays are converted by
  eights, where the instructions exist, and the rest one by one.
* **CpuInfo.** `cpu` is the machine: its maker, instructions and caches. `GetCpuInfo` is under `std::call_once`, `GetCPUInfoByRun` is
  not: `try_run` keeps the handler it replaced in `exceptOldAct` and its place in `exceptJmpBuf`, both shared. A signal comes when an
  instruction is missing, and ends the process (`dead`) if its handler is gone or the thread has it `blocked`.
* **Logger.** `stage` is before, in or after `main`, `statics` the order of construction; the two looks at the logger in
  `LOG` and the end of its statement are steps. `careless` records the uses the code leaves to its clients to avoid.
* **Aes.** A word is four bytes, exclusive or a table over half bytes. `byte` enumerates all bytes, each pushed through the S-boxes
  and the multiplications, before a client that decrypts known messages in pieces.
* **KernelRunner.** Steps are the calls that take a lock of the pool or of the database, with what lies between two of them.
  Clients remove a kernel only while nobody uses it; `Careful` says whether they treat binaries so too. Handles of released
  kernels may come back, any call of the runtime may fail.
* **Device.** A platform is the sequence of its devices and a device has a version, limits per dimension, a limit in all, and a
  vendor. `program` is the tool `oclgpuinfo`, whose steps are those of `showGpuInformation`, or a client. A range is checked
  and rounded in one step (`Check`), as `validateNDrange` calls nothing that changes state. Every query may fail, the basic and the
  thorough ones, at the place where the code returns and leaves the rest as it was.
* **FrameChain.** `chain` are the handles that are not null, `refs` and `temps` what exists and has to be released; the calls
  of `get_extention_info` that may fail are steps (`Test`), each with the releases of its error path (`GivenBack`).
* **FrameExtensions.** `frame` is one chain with its flags, options and properties. Extensions are names; `strstr` also finds one
  inside a longer name, and after a failed query searches undefined memory: the extensions of any GPU.
* **OpenCLLoader.** `open` has a library together with what opened it, because only the counterpart may close it. `statics` is the
  order in which static objects were completed, and `Destroy` takes the last. `Careful` clients empty the pool before they exit.
* **WindowsThreads.** The reads, compares and increments of the flag in `pthread_once` are steps of their own. A handle is
  closed by `pthread_detach` or after the wait of `pthread_join`.
* **BinaryStore, KernelBinaries.** Files keep lengths, offsets and counts; bytes are abstracted to whose binary they
  are. A process may end between any two calls, and while it writes the archive. `SaveKernelBinToFile` measures and copies one list
  after the other without the lock (`writing`, `room`), and binaries may be saved in between; when a list is copied that no longer
  fits the room measured for it, `overrun` is set and the model stops.

## 3. Plan

Done in this order, the most used and most concurrent parts first: `MessageQueue`, `ThreadPool`, `StaticThreadPool`, the two
lock-free queues, `EventCount`, the memory managers, the OpenCL layer's pool and files, the data types; `Device`, `FrameChain`,
`OpenCLLoader` and `WindowsThreads`; then `Aes`, `CpuInfo`, `Logger` and `FrameExtensions`, and the failures and
interleavings of `Device` and `BinaryStore`. Proofs in the order `MessageQueue`, `SPSCRingBuffer`, `EventCount`, `ThreadPool` with
its refinement, `StaticThreadPool` with its refinement, `MPSCQueue` with its refinement, so that the queues and pools in which
threads meet have their safety proved; `Utilities`: `CompactAddrManager` with `BlockMaps` under it, then the other parts; and `Ocl`:
the running of kernels, the file of kernel binaries, the devices, the frame chain and its extensions, the loader, and last the
archive with its binary search.

Next:

1. Decryption of groups (`binary.cc`), which shares the chunk maps with the search.
2. Failing writes in `KernelBinaries`; mutexes and conditions of `windows/pthread.cc` under `MessageQueue`; the Windows variant of
   `Mmap`; `SetAffinity` of `ThreadPool`, which needs the pids that workers write.

## 4. Runs

All bounds are in the `.cfg` files. Deadlock is checked in `MessageQueueClients` and `SPSCRingBuffer`; elsewhere the system may
stop, as each `.cfg` says.

| run | instance | shows |
|---|---|---|
| `MessageQueueClients` | 3 consumers, 5 pushes | whoever blocks has no item waiting that nobody was woken for (`NoLostWakeup`); items leave in their order (`FIFO`); each is delivered (`Delivered`) |
| `MCThreadPool` | up to 2 threads, shared and own queues, 2 sessions, 2 tasks (one runs twice), 1 joiner | the pool implements `TaskExecutor`; no dangling locals of `Init` and no freed queue is touched (`NoDanglingPointers`), pids are there when needed, `Process` runs on unfinished tasks only; tasks finish, `Destroy` and `Join` return |
| `MCThreadPoolInitHang` | no faults | *finding*: `Init` may wait for ever |
| `MCThreadPoolInitLocals` | one fault in `Init` | *finding*: `Init` may return before its workers are done with its locals |
| `MCStaticThreadPool` | up to 3 workers, 2 runs, 2 sessions | `func_` is assigned only when nobody reads it, the pool implements `ForkJoin`, `Run` returns, and so does the first `Destroy` of a session, but no second one |
| `MPSCQueue` | 3 producers, 3 pushes | FIFO refinement, no node used after its deletion, all freed at the end, `Pop` says empty only if the queue is empty or its first node is just being inserted, `Pop` returns |
| `MPSCQueueEmpty` | 2 producers, 2 pushes | *finding*: `is_empty` may be true although it is not |
| `EventCount` | 2 waiters, 2 notifiers, 3 tokens | the counter of waiters is right, nobody sleeps beside a token (`NoLostWakeup`), tokens get taken |
| `SPSCRingBuffer` | 3 slots, 7 pushes of 2 values | no race on a slot, FIFO refinement |
| `MCUtilities` | see below | the parts that one thread uses at a time, and those that a few threads use in a few steps |
| `MCOcl` | see below | kernels, OpenCL objects and libraries are used while they exist and given back (`ObjectsSound`), what runs is what was asked for, compiled for its GPU and fits its device (`LaunchesRight`), both files give back what was put into them (`SavedIsFound`) |
| `MCOclBinary` | clients that release binaries at any time | *finding*: a binary may be freed while it is used |

`Utilities` (with the conversions and the cipher: `MCUtilities`) and `Ocl` are disjoint sums: `part` selects one module and the
others stay as they are, so one run checks several small and independent modules, and a property is the conjunction of what is
to be said of each. In `MCUtilities`:

* `CompactAddrManager` over 7 addresses with both providers and blocks of 0 to 3 bytes (refines `RegionAllocator`; `BlocksKept`: the
  free blocks are disjoint, maximal where merging is due, in both maps, and with the live regions they make up all that was
  provided, until a block of 0 bytes spoils the maps);
* `NothingLost`: mapped memory stays mapped; pages, objects and the memory of three `Mmap` objects are neither lost nor owned twice;
  a once function of 2 Windows threads runs exactly once; a message reaches a logger that is alive, unless clients are careless;
* `ToldRight`: shapes of rank up to 3; the instructions and caches of each kind of machine, asked for by 2 threads;
* `ConvertedRight`: all 2^15 halves without sign, each with the floats next to it, to the next half, and half way, and arrays of
  them; the S-boxes and multiplications for all 256 bytes, and the messages of NIST SP 800-38A (F.2.1, F.2.5) for 128 and 256 bits,
  in pieces of 16, 24 and 32 bytes.

The theorems are about `Utilities`, which leaves out the conversions and the cipher: a step of `MCUtilities` is one of `Utilities`
or leaves its variables alone (`part = "none"`).

`MCOcl` gives the constants of `Ocl` their values. Kernels: 2 threads, 2 kernels, 2 sets of options. Archive: 3 of 5 binaries of 2 projects, some of them empty, and a
thread that writes while another saves. File of binaries: 3 functions. Devices: 2 platforms with 1 and 2 devices that differ in
everything; ranges of up to 2 dimensions with global sizes 0, 3 and 33 and local sizes 1 to 3, around the limits 1 to 3 of the devices
and the rounding of the Mali GPUs; the tool describes 2 devices, so that one can be shown with what is left of the other. Frame
chain: 2 events, both kinds of constructor, with and without profiling, mobile and other GPUs, a failure at any call. Extensions:
5 GPUs of 5 vendors, two of one vendor's kind, some with the extensions of another, some of old OpenCL versions; chains of the
default GPU and of a client's queue. Loader: three operating systems, every library and symbol there or not, the static objects in
every possible order.

Assumed of clients: whoever has a frame chain does not change the shared device and has one before a chain of a queue is made;
with the queue the client gives its references to the queue and the context away; indices of platforms and devices are not negative;
local sizes are positive (0 would be a divisor, `runkernel.cc:258`); kernels in the pool are removed before exit.

Why the bounds are enough. Races in the pools are between a client and one worker, or two workers; a second session is needed
for what `Destroy` leaves behind, and so is a task that comes back for the race in `Run`. Three consumers are needed for one
to wait, one to be woken and one to overtake. The ring buffer wraps twice; MPSC's stub goes around with three pushes.
Memory managers need three neighbours to merge on both sides and a gap. `MaxCount` and `MaxStores` of `KernelBinaries` allow a
second session with counts of the first, and one clash of names. The mutants in `PROJECT.json` show that the bounds reach the
behaviour: each property is violated when one mapped definition is changed as a likely bug would.

**Fairness.** Weak fairness for each thread that is inside a call (threads are scheduled and get the locks they ask for;
in `EventCount`, strong fairness for leaving `CommitWait` because wakeups without cause may come in between). Clients need not
begin a call, and nothing must wake a thread without a signal. `PopReturns` of `MPSCQueue` holds because the pushes are
bounded: `Pop` waits for the insertion it has met, and with ever new producers it may meet ever new ones.

## 5. Findings

The four runs with expected violations are listed in `PROJECT.json` with the lines they contradict. Met while modelling, and but for
`half.h` without a statement in the repository that they contradict: a second `Destroy` of a `StaticThreadPool`, that of the destructor included,
never returns (`threadpool.h:120`); with two joiners of one task one may wait for ever (`threadpool.cc:47`); after a name clash
the file of `kernelbinariesmanager.cc` is inconsistent and yet passes the check for inconsistency (393), which compares a place with one
computed from the same numbers; a second session that compiles writes counts that `releaseResource` has not reset, and its
file is refused. `float2half_soft` rounds towards zero, and the instructions in `half.cc` to the nearest even: results differ
in the last bit. Paddings stay when a shape changes from a blocked format to `NHWC`. A block of 0 bytes that is freed inside memory in
use takes the place of the block that starts there, whose bytes are then lost (`compact_addr_manager.cc:33`).

About the processor, the logger and the ciphers:

* `GetCPUInfoByRun` is not thread-safe: a thread that enters `try_run` while another is in it saves the temporary handler as the one to
  restore, and leaves it installed (`x86/sysinfo.cc:84`). It only adds flags to what the caller passes, and the tool `cpuinfo.cc`
  passes an uninitialised record.
* The test by CPUID does not ask whether the operating system saves the registers (OSXSAVE), so flags may be set for instructions
  that raise SIGILL. On ARM, `ReadFromFile` needs the newline at the end of the file.
* `half.h:29-31` says that the conversions fall back to software; `half.cc` calls `_cvtsh_ss` unconditionally where it is built for x86.
* `LOG` looks at the logger twice (`log.h:106`): the level may be one logger's and the message another's, which may be gone by then.
* `DecryptContent` rounds the size up to whole blocks and reads that much of its source (`aes.cc:296`).

In the OpenCL layer and the Windows wrapper, also without a run of their own:

* `kernel_pool` (`kernelpool.cc:171`) is usually constructed before the table of OpenCL functions and so destroyed after it: kernels
  left in it are released through a library that is closed, and after their context. `OpenCLLoader` shows it with
  `Careful = FALSE`; the order the comment at `openclruntime.cc:115` asks for is the wrong one.
* Without any OpenCL library, or without a symbol, the pointers in the table are null and calls go through them untested.
  `clCreateContextFromType` is declared in the table and never loaded.
* `Device(p, d)` with an index that is too large complains, but the flags stay true, and `getPlatformId` or `getDeviceId` then read
  out of range (`device.cc:38-52`, `181-203`). `detectAValidPlatformDevice` never gets past the first platform (147-179).
* `max_group_items_per_dim_` is appended to and never cleared (402-404), so `oclgpuinfo` shows the default device's limits for
  every device; a query that fails half way leaves limits that were never set, and the tool prints those of the device before, or
  reads beyond the end of the vector. `max_constant_args_` is printed unset below OpenCL 2.0. `queryPlatformInfo` returns the error
  code: failures count as success and successes as failure (223-239). `GetDeviceDesc` throws if the vendor, or "Adreno" in the
  version, is missing.
* `GetMaxImageWidth` and its like make the default device the shared one, whichever it was (594-607).
* `FrameChain(queue)` with a null queue leaves `queue_` unset and releases it (`framechain.cc:154-157`, `193`), and without a shared
  device it follows a null pointer.
  `queryProfiling` looks at elements that the query has not written, so that a queue of OpenCL 2.0 is never profiled (677-681).
  `PlatformOnly_ext` declares three structures and has no members, so the second of the two bytes
  written as `QCOM_ext` lies beyond it (`framechain.h:61-65`, `195-200`).
* When the extensions cannot be asked for, the flags come from what is on the stack (335). `cl_khr_subgroup_shuffle` is
  also found in `cl_khr_subgroup_shuffle_relative`.
* `SaveKernelBinToFile` uses sizes from before a concurrent `InsertNode` (`binary.cc:471`). A failed `fwrite` leaves part of a group with
  later groups behind it; `InitFromArchive` loops for ever on a group of size 0, and leaks the decrypted copy of a group it refuses.
* The events of the flush kernels of a tuning run are not released (`runkernel.cc:285-307`); when enqueueing with profiling fails, an
  event nobody has set is listed (325-329).
* `pthread_self` on Windows gives a pseudo handle that means "whoever uses it": `ThreadPool::Destroy` would wait for its own thread
  (`windows/pthread.cc:129-131`, `threadpool.cc:76`, `267`). Callers of `pthread_once` may return before its function
  has. `pthread_cancel` is spelled `pthrad_cancel`.

## 6. Proofs

TLAPS checks all theorems, for every value of the constants under their named assumptions. In each module an inductive invariant
`IInv`, which TLC has checked on the instances above, carries them.

* `ThreadPool_proofs`: `TypeCorrect`, `NoProcessAfterFinish` (`ProcessOnlyUnfinished`), `MemorySafe` (`NoDanglingPointers`) and
  `AllJoined` (`JoinsKnownWorkers`), for any numbers of threads, sessions, tasks and joiners, with shared or own queues. The
  properties speak of single pointers, the invariant of how far the client has come: its place bounds where workers can be
  (`InPlace`, `Lifecycle`), `count_for_init` counts the workers past their greeting (`Counted`), and a task is in one queue or in the
  hands of one worker (`Handed`). `MemorySafe` holds under `Sound` (no `pthread_create` fails, no wait of `Init` ends without a signal;
  otherwise see the findings), where `Accounted` adds which workers have arrived or exited at each place of the client. `Refinement`
  (`ImplementsExecutor`) takes the order of items beyond that: null tasks come last (`NullsLast`), so a worker that stops leaves
  no accepted task behind.
  The last section is about `MessageQueueClients`: `ClientsTypeCorrect`, `WakeupsKept` (`NoLostWakeup`) and `QueueOrderKept` (`FIFO`),
  for every finite set of consumers and `MaxPushes \in Nat`. `NoLostWakeup` says that while someone is blocked, there are at least as
  many consumers awake in `Pop` as items; it is inductive together with `ClientsTypeOK`. A push adds an item and wakes one; a
  consumer that takes an item leaves as one. `FIFO` follows from the stronger fact that what was returned, followed by what is queued,
  is what was pushed. `Lemmas` says what the operations on a queue preserve, for this section and for the pools.
* `StaticThreadPool_proofs`: `TypeCorrect`, `FuncSafe` (`FuncUnusedWhenAssigned`) and `Refinement` (`ImplementsForkJoin`), failed
  creations included, as long as no wait has ended without a signal (`Signalled`). The barrier keeps a count and not who has
  arrived, so the invariant says for each phase of the client (creating, between runs, running, ended) where every worker may
  be and how many have arrived; a worker released from a round but still in `Wait` counts as gone on.
* `MPSCQueue_proofs`: `TypeCorrect`, `NodesLive` (`NoUseAfterFree`), `AllFreed` (`DestroyFreesAll`), `Refinement` (`ImplementsFIFO`)
  and `EmptyIsEmpty` (`EmptyUnlessInserting`), for any set of producers and number of pushes. The invariant is about the history of
  `m_tail`: the head is one of its elements; behind it the nodes form a chain with a gap wherever a thread has exchanged and not
  linked; before it all but the stubs were taken. The consumer knows of every stub in the history (`StubsKnown`), so that however old its load of `m_tail` is, it never inserts the stub a second time. The
  abstract queue is the history without stubs and without what was popped (`Without`, a recursive function): a push appends
  to it, and that a pop takes its first item is that what is before the head in the history is gone.
* `EventCount_proofs`: `TypeCorrect`, `CountRight` (`WaitersCounted`) and `WakeupsKept` (`NoLostWakeup`), for all finite sets of waiters
  and notifiers. `NoLostWakeup` is not inductive: it says nothing of a waiter that has tested in vain and is about to sleep, and counts
  notifiers that will wake a sleeper who did not need it. The invariant tells sleepers apart by the epoch in their keys
  (`EpochsCounted`, `Covered`); it needs that the epoch does not wrap while a waiter is between its key and the futex, which the
  bound on tokens below `EpochMod` gives.
* `SPSCRingBuffer_proofs`: the invariant `IInv` ties the indices to the numbers of stores, orders these (`headSeen <= popped <=
  tailSeen <= pushed <= headSeen + Size`), and says what each thread has established past its test and that the slots between hold
  items. `NoSlotRace` alone is not inductive: that the producer's slot is free follows from what it has *seen* of the head,
  however old. `RaceFreedom`, `CapacityKept` and `Refinement` (every step is one of `BoundedFIFO` or a stutter) follow for every
  `Size \in Nat \ {0}`. The module begins with the arithmetic of indices.
* `Utilities_proofs`: of the manager alone `TypeCorrect` (`TypeOK`), `MapsAgree` (`BlocksKept`), `HandsOutMapped`
  (`MappedWhileLive`) and `Refinement` (`ImplementsRegions`), and of all parts together `UtilitiesTyped` (`UtilitiesTypeOK`),
  `NothingGetsLost` (`NothingLost`) and `CallersAreToldRight` (`ToldRight`). Each part has its own invariant, kept by its own steps;
  the others leave its variables alone (`UtilitiesStep`).
  * *Manager*, for every address space, set of sizes and granularity, and any provider that gives free addresses. The lemmas on
    `BlockMaps` say what removing, adding and merging blocks does to the bytes they hold and that the two maps stay in step (best
    fit is `Least`, the last block `Greatest`). The invariant is a partition: the bytes of the blocks and of the live regions
    make up `owned`, no two share one, and blocks are not empty. It holds until a block of 0 bytes gets into the maps (`spoilt`,
    see the findings), where the model stops; that a VM range lies below `buffered` (`Backed`) is what makes the last block
    meet its end.
  * *Pages*, for every number of them: the same lemmas, and for the loops of `Alloc` and `Free` what holds after every round (`Taken`,
    `AllCollected`): the pages taken so far are those that the blocks have lost, and a page that is given back is merged once.
  * *Objects*, for every set of slabs: an object is on the stack once or with a client, and `Clear` drops the slabs of both.
  * *Maps*, for all objects and blocks: an object without memory is as constructed, a small one points to itself, any other owns a
    block or a mapping with its descriptor, and no two own the same. The heap's bytes are what clients wrote.
  * *Shapes*, for all dimensions, ranks and widths of integers: paddings are those of the format they were calculated for, and
    the products, which wrap, are what the dimensions with their paddings give.
  * *Windows threads*: only the caller whose increment was the first runs the function of `pthread_once`, and its increment stays
    while the others take theirs back, however many they are.
  * *Processor*, any number of threads: what was found so far is what was there from the start and the tests that are over and whose
    instructions work (`given`, `todo`); on ARM, under `call_once`, one thread at most is between saving and restoring the handler.
  * *Logger*: as long as clients are not `careless`, a message under way was let pass by the current logger, which is alive.
* `Ocl_proofs`: `OclTyped` (`OclTypeOK`), `ObjectsAreSound` (`ObjectsSound`), `LaunchesAreRight` (`LaunchesRight`), `SavedGetsFound`
  (`SavedIsFound`) and `BinaryIsThere` (`BinaryThereWhenUsed`). `ObjectsAreSound` and `BinaryIsThere` assume `Careful` clients, without
  whom `MCOclBinary` and the findings show the opposite. Again each part has its own invariant (`OclInvNext` puts them together):
  * *Running of kernels* (`RunnerInv`), any threads, kernels and options: where a thread is says what it has (`Local`); a kernel
    that is not in the pool yet is held by the thread that made it and by nobody else (`Alone`), so that a handle is in the pool
    once and releasing it there hurts nobody.
  * *File of kernel binaries* (`DatabaseInv`), any functions with at least one kernel and a binary that is not empty: while a session
    compiles, every entry of its maps has its binary in the file at the place the entry says (`Writing`); a file is accepted if
    and only if the process that wrote it had counted nothing before (`OnDisk`), and then the maps that are read are those that were written.
    After a clash of names nothing is claimed, as the property says.
  * *Devices* (`DeviceInv`), any system of platforms and any limits: an object's indices name a platform and device it has
    detected, and its limits those of a device it has asked, at each step of the tool (`ToolRight`). A range that was accepted and
    rounded stays below the limits of each dimension and of their product.
  * *Frame chain* (`FrameInv`): what the tests of `get_extention_info` have is among what the calls before this one gave
    (`TestsInv`), so that the error path of each call gives back all of it; a list of events has each of them once (`EventsInv`).
  * *Extensions* (`ExtensionsInv`): options and context properties of a chain are those of the flags that its GPU's extensions set.
  * *Library* (`LoaderInv`): `open` has the OpenCL library exactly while the table of functions exists or is being filled, with what
    opened it; in every order of static objects the pool and the chains are destroyed when a careful client needs no library.
  * *Archive* (`StoreInv`), any projects, and any names that are numbers: lists are sorted by both names, without
    duplicates, and hold what was saved (`ListsInv`); a group made of a list passes the checks of `InsertChunkGroup`, and is
    as long as the room measured for it unless a binary was saved in between (`WritingInv`); in a file that nobody writes the last
    group at most lacks its end (`ArchiveInv`), so `InitFromArchive` keeps whole groups only; and what is loaded is exactly what the
    groups in memory hold (`LoadedInv`). The binary search keeps every match within its range and halves the range until it is empty
    or has met one, by any pair of names or by the first alone; back to back, the data of a chunk are those saved under its names.

Loops that the modules define as recursive functions (pages, products, the queue of `MPSCQueue`, the sums, the groups and the search
of `BinaryStore`) are proved by induction over the number of
rounds. The library's induction theorems take an operator, which the provers cannot instantiate; `Lemmas` therefore proves `Induction`
for *sets* of numbers, from the pigeonhole principle, and a proof applies it to the set of rounds after which its claim holds.

Named assumptions of `Ocl`: devices have a version and limits, functions a kernel and a size, local sizes are positive, names are
numbers (`ArchiveAssumption`, in the order of `strcmp`), and bounds are numbers.

Only model-checked: all liveness (TLAPS has no ENABLED), that is `Delivered`, the progress of the pools, of `EventCount` and of `Pop`; and
`ConvertedRight`, which is about concrete tables, vectors of a standard and all halves without sign, so that a proof would be the enumeration
that TLC does. The four violated properties are false and stay with their runs. No module declares a RECURSIVE operator.

## 7. Not modelled

* Plain CUDA allocators, `cuda_env.cc`, the NCCL wrappers, the aligned CPU allocator: each function forwards to one call.
* `types.h`, `retcode.h`, `conv_param.h`, `tensor_quant_param.h` and their like: tables and plain records. Vendored code.
* Left out of modelled parts: what messages and `oclgpuinfo` look like; setters of one member of a frame chain that nothing in
  `src/` reads; the encrypted groups, which no code here writes; failing writes in `KernelBinaries`; the Windows variants of `Mmap` and of
  the futex; mutexes and conditions of the Windows wrapper, which forward to the system; the affinity of threads.
* Failures of `malloc` and of the CUDA driver that change nothing, and that of `cuMemMap`, which leaks a handle.

`PROJECT.json` lists every component with its status, and the hazards with what covers them; only that of `barrier.h:50` has no
property, since the code promises nothing after a wakeup without a signal.
