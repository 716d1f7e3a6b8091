-------------------------------- MODULE Mmap --------------------------------
(***************************************************************************)
(* Mmap (mmap.h, mmap.cc): an object that owns a mapped piece of a file, a *)
(* block of the heap, or, if it is small, keeps its bytes in itself: in    *)
(* the place of base_ and fd_ (mmap.h:76-79).  Objects are constructed,    *)
(* initialised, written to, moved and destroyed in any order; the POSIX    *)
(* variant.                                                                *)
(*                                                                         *)
(* A piece of memory is a member of Block, whatever its length; pieces are *)
(* free, from the heap, or mapped with a length.  A pointer is a block, or *)
(* an object (for the address of its base_), with an offset.  The bytes    *)
(* that a client writes are one value, an integer that a descriptor may    *)
(* have as well; as two words they cover base_ and fd_.                    *)
(*                                                                         *)
(* Bounds: the sets of objects, blocks, descriptors, sizes and values.     *)
(***************************************************************************)
EXTENDS Integers, FiniteSets, Functions

CONSTANTS Obj, Block, Null, Failed,
  InlineSize, MemSizes,       \* INLINE_DATA_SIZE, and sizes clients ask for
  FileSize, PageSize,         \* of the file that is mapped
  Values

VARIABLES
  obj,       \* the members of the objects that exist
  memory,    \* for each block, what it is, and its bytes
  open,      \* the open descriptors
  written    \* history: what the clients of each object expect in it

mmapVars == <<obj, memory, open, written>>

Pointer(to, off) == [to |-> to, off |-> off]
NoPointer == Pointer(Null, 0)
New == [start |-> NoPointer, base |-> Null, fd |-> -1, size |-> 0]

Free == [use |-> "free", length |-> 0]
Heap == [use |-> "heap", length |-> 0]
Mapped(n) == [use |-> "map", length |-> n]

Exists == DOMAIN obj
IsInline(o) == obj[o].start.to = o
IsInit(o) == obj[o].start # NoPointer

Bytes(o) ==
  IF IsInline(o) THEN <<obj[o].base, obj[o].fd>> ELSE memory[obj[o].start.to].bytes

TypeOK ==
  /\ Exists \subseteq Obj /\ DOMAIN written = {o \in Exists : IsInit(o)}
  /\ \A o \in Exists :
       /\ obj[o].start.to \in Obj \cup Block \cup {Null} /\ obj[o].start.off \in Nat
       /\ obj[o].fd \in Int /\ obj[o].size \in Nat
  /\ \A b \in Block : memory[b].what.use \in {"free", "heap", "map"}
  /\ open \subseteq Nat

Init ==
  /\ obj = <<>> /\ written = <<>> /\ open = {}
  /\ memory = [b \in Block |-> [what |-> Free, bytes |-> <<0, 0>>]]

-----------------------------------------------------------------------------
With(o, members) == [p \in Exists \cup {o} |-> IF p = o THEN members ELSE obj[p]]

WithWritten(o, v) ==
  [p \in DOMAIN written \cup {o} |-> IF p = o THEN v ELSE written[p]]

(* Mmap::Mmap() *)
Construct(o) ==
  /\ o \notin Exists
  /\ obj' = With(o, New)
  /\ UNCHANGED <<memory, open, written>>

(* Mmap::Init(size); malloc gives a block that is free, with any bytes. *)
InitMemory(o, size) ==
  /\ o \in Exists /\ ~IsInit(o)
  /\ IF size <= InlineSize
       THEN /\ obj' = With(o, [obj[o] EXCEPT !.start = Pointer(o, 0), !.size = size])
            /\ written' = WithWritten(o, <<obj[o].base, obj[o].fd>>)
            /\ UNCHANGED memory
       ELSE \E b \in Block :
            /\ memory[b].what = Free
            /\ memory' = [memory EXCEPT ![b].what = Heap]
            /\ obj' = With(o, [obj[o] EXCEPT !.start = Pointer(b, 0), !.size = size])
            /\ written' = WithWritten(o, memory[b].bytes)
  /\ UNCHANGED open

(* Mmap::Init(filename, ...), POSIX: open gives the lowest descriptor that *)
(* is free; mmap fails, and always if there is nothing to map, or maps.    *)
(* Where open or fstat fail, and behind the end of the file, nothing       *)
(* changes but a descriptor that is closed again.                          *)
InitFile(o, offset, length) ==
  LET inPage == offset % PageSize
      n == IF length > FileSize - offset THEN FileSize - offset ELSE length
      fd == CHOOSE d \in 0..Cardinality(open) :
              d \notin open /\ \A e \in 0..(d - 1) : e \in open
  IN  /\ o \in Exists /\ ~IsInit(o)
      /\ offset < FileSize
      /\ \/ /\ obj' = With(o, [obj[o] EXCEPT !.base = Failed])
            /\ UNCHANGED <<memory, open, written>>
         \/ \E b \in Block :
            /\ n + inPage > 0 /\ memory[b].what = Free
            /\ memory' = [memory EXCEPT ![b].what = Mapped(n + inPage), ![b].bytes = <<0, 0>>]
            /\ open' = open \cup {fd}
            /\ obj' = With(o, [start |-> Pointer(b, inPage), base |-> b, fd |-> fd, size |-> n])
            /\ written' = WithWritten(o, <<0, 0>>)

(* A client writes through GetData(). *)
Write(o, v) ==
  /\ o \in Exists /\ IsInit(o)
  /\ written' = WithWritten(o, <<v, v>>)
  /\ IF IsInline(o)
       THEN /\ obj' = With(o, [obj[o] EXCEPT !.base = v, !.fd = v])
            /\ UNCHANGED memory
       ELSE /\ memory' = [memory EXCEPT ![obj[o].start.to].bytes = <<v, v>>]
            /\ UNCHANGED obj
  /\ UNCHANGED open

-----------------------------------------------------------------------------
(* Mmap::Destroy: a range is unmapped that begins at base_ and ends with   *)
(* the bytes of the client; free takes the pointer itself.                 *)
Destroy(o) ==
  LET m == obj[o]
      Release(b) == [memory EXCEPT ![b].what = Free]
  IN  IF ~IsInit(o) \/ IsInline(o) THEN UNCHANGED <<memory, open>>
      ELSE IF m.fd >= 0
        THEN /\ memory' = IF memory[m.base].what = Mapped(m.size + m.start.off)
                          THEN Release(m.base) ELSE memory
             /\ open' = open \ {m.fd}
        ELSE /\ memory' = Release(m.start.to)
             /\ UNCHANGED open

\* A mutant of Moved: the object that was moved from keeps its descriptor.
MovedKeepsFd(o, p) == [New EXCEPT !.fd = obj[p].fd]

(* What DoMove leaves in the object p that is moved to o *)
Moved(o, p) == New

(* DoMove: a pointer to the other object's bytes becomes one to our own. *)
MovedTo(o, p) ==
  [q \in Exists \cup {o} |->
    CASE q = o -> [obj[p] EXCEPT !.start = IF IsInline(p) THEN Pointer(o, 0) ELSE @]
      [] q = p -> Moved(o, p)
      [] OTHER -> obj[q]]

MovedWritten(o, p) ==
  [q \in (DOMAIN written \ {o, p}) \cup (IF IsInit(p) THEN {o} ELSE {}) |->
    IF q = o THEN written[p] ELSE written[q]]

(* Mmap::Mmap(Mmap&&) *)
MoveConstruct(o, p) ==
  /\ o \notin Exists /\ p \in Exists
  /\ obj' = MovedTo(o, p) /\ written' = MovedWritten(o, p)
  /\ UNCHANGED <<memory, open>>

(* Mmap::operator=(Mmap&&), which does nothing for an object and itself *)
MoveAssign(o, p) ==
  /\ o # p /\ o \in Exists /\ p \in Exists
  /\ Destroy(o)
  /\ obj' = MovedTo(o, p) /\ written' = MovedWritten(o, p)

(* Mmap::~Mmap *)
Destruct(o) ==
  /\ o \in Exists
  /\ Destroy(o)
  /\ obj' = Restrict(obj, Exists \ {o})
  /\ written' = Restrict(written, DOMAIN written \ {o})

Next == \E o \in Obj :
  \/ Construct(o) \/ Destruct(o)
  \/ \E size \in MemSizes : InitMemory(o, size)
  \/ \E offset, length \in 0..FileSize : InitFile(o, offset, length)
  \/ \E v \in Values : Write(o, v)
  \/ \E p \in Obj : MoveConstruct(o, p) \/ MoveAssign(o, p)

Spec == Init /\ [][Next]_mmapVars

-----------------------------------------------------------------------------
OwnsHeap(o, b) == IsInit(o) /\ obj[o].start = Pointer(b, 0) /\ obj[o].fd < 0

OwnsMap(o, b) ==
  LET m == obj[o] IN
  /\ m.start.to = b /\ m.base = b /\ m.fd \in open
  /\ memory[b].what = Mapped(m.size + m.start.off)

(***************************************************************************)
(* Each block that is not free, and each open descriptor, is released by   *)
(* the destructor of exactly one object, with the call it needs; and an    *)
(* object has the bytes that were written to it, or to the ones from which *)
(* it was moved, though its own members may hold them.  mmap.cc:56-117.    *)
(***************************************************************************)
MemoryKept ==
  /\ \A o \in Exists : IsInit(o) /\ ~IsInline(o) =>
       memory[obj[o].start.to].what # Free
  /\ \A b \in Block : memory[b].what # Free =>
       /\ Cardinality({o \in Exists : obj[o].start.to = b}) = 1
       /\ \E o \in Exists : IF memory[b].what = Heap THEN OwnsHeap(o, b) ELSE OwnsMap(o, b)
  /\ Cardinality(open) = Cardinality({b \in Block : memory[b].what.use = "map"})
  /\ \A o, p \in Exists :
       o # p /\ ~IsInline(o) /\ ~IsInline(p) /\ obj[o].fd >= 0 => obj[o].fd # obj[p].fd
  /\ \A o \in DOMAIN written : Bytes(o) = written[o]
=============================================================================
