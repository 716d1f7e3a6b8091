---------------------------- MODULE BinaryStore ----------------------------
(***************************************************************************)
(* How compiled programs outlive a process (ocl/binary.cc): the binaries   *)
(* saved so far (class Binary) are kept in a sorted list per project,      *)
(* SaveKernelBinToFile writes them to a file as one chunk group per        *)
(* project, and the database (class ChunkGroupDB) that is given the file   *)
(* finds them by binary search.                                            *)
(*                                                                         *)
(* The two names of a chunk are numbers in the order of strcmp.  A group's *)
(* header and a chunk's header are one byte long.  The binary of a chunk   *)
(* depends on its project and its names only.  Encrypted groups are never  *)
(* written by this code and left out.                                      *)
(*                                                                         *)
(* SaveKernelBinToFile takes no lock: it measures and copies a list after  *)
(* the other while binaries may be saved.  Where a list no longer fits the *)
(* room that was measured for it, anything may happen: the model stops.    *)
(* A process may die at any time, and the file is then what had got there. *)
(*                                                                         *)
(* Bounds: MaxSaved binaries are saved, and MaxLoads files are loaded      *)
(* between two calls of ReleaseAllKernelBinaryGroup.                       *)
(***************************************************************************)
EXTENDS Naturals, Integers, Sequences, SequencesExt, FiniteSets

CONSTANTS Ns, Names0, Names1, MaxSaved, MaxLoads,
  ChunkId   \* the chunks that may be saved, of Ns \X Names0 \X Names1

VARIABLES
  group,      \* Binary::group: the lists of chunks, in the order of creation
  file,       \* ppl_ocl_binary.bin: a sequence of chunk groups
  writing,    \* the group that is being written, 0 for none,
  room,       \* and the bytes that were measured for it, None before
  chunkMap,   \* ChunkGroupDB::chunkMap_: the groups of each project
  saved,      \* history: the chunks saved,
  filed,      \* those of them that are in the file,
  loaded,     \* and those in the files that were loaded
  careless,   \* history: a binary was saved while the file is written
  overrun     \* history: a list was copied to less room than it needs

writerVars == <<writing, room, careless, overrun>>
vars == <<group, file, chunkMap, saved, filed, loaded, writerVars>>

None == -1

Null == -1                    \* archIOInfo of a search by the first name only

(* The binary of a chunk; some are empty. *)
Content(ns, n0, n1) == [i \in 1..((n0 + n1) % 3) |-> <<ns, n0, n1, i>>]

Init ==
  /\ group = <<>> /\ file = <<>> /\ chunkMap = [ns \in Ns |-> <<>>]
  /\ saved = {} /\ filed = {} /\ loaded = {}
  /\ writing = 0 /\ room = None /\ careless = FALSE /\ overrun = FALSE

\* The first of some indices, 0 if there is none
First(indices) == IF indices = {} THEN 0 ELSE Min(indices)

\* The sum of a sequence of sizes
Total(size) ==
  LET total[i \in 0..Len(size)] == IF i = 0 THEN 0 ELSE total[i - 1] + size[i]
  IN  total[Len(size)]

(* Compare_KernelBin *)
Compare(c, n0, n1) ==
  IF c.name0 # n0 THEN c.name0 - n0
  ELSE IF n1 = Null THEN 0 ELSE c.name1 - n1

(* CreateBinHeader *)
CreateBinHeader(ns, c) == Append(group, [ns |-> ns, list |-> <<c>>])

\* A mutant of Inserted: a chunk that is less than the first goes to the end.
InsertedNotFirst(list, c) ==
  LET j == First({i \in DOMAIN list : Compare(list[i], c.name0, c.name1) >= 0})
  IN  IF j < 2 THEN Append(list, c)
      ELSE IF Compare(list[j], c.name0, c.name1) = 0 THEN list
      ELSE InsertAt(list, j, c)

(* insert: before the first chunk that is greater, unless it is there. *)
Inserted(list, c) ==
  LET j == First({i \in DOMAIN list : Compare(list[i], c.name0, c.name1) >= 0})
  IN  IF j = 0 THEN Append(list, c)
      ELSE IF Compare(list[j], c.name0, c.name1) = 0 THEN list
      ELSE InsertAt(list, j, c)

InsertNode(ns, n0, n1) ==
  LET c == [name0 |-> n0, name1 |-> n1, data |-> Content(ns, n0, n1)]
      k == First({i \in DOMAIN group : group[i].ns = ns})
  IN  /\ Cardinality(saved \cup {<<ns, n0, n1>>}) <= MaxSaved
      /\ group' = IF k = 0 THEN CreateBinHeader(ns, c)
                  ELSE [group EXCEPT ![k].list = Inserted(@, c)]
      /\ saved' = saved \cup {<<ns, n0, n1>>}
      /\ careless' = (careless \/ writing # 0)
      /\ UNCHANGED <<file, chunkMap, filed, loaded, writing, room, overrun>>

\* A mutant of ChunkDataOffset: the headers of the chunks are forgotten.
GroupHeaderOnly(count) == 1

(* Where the data of a group with that many chunks start. *)
ChunkDataOffset(count) == 1 + count

(* What is written of a list: the data follow the headers back to back. *)
ChunkGroup(g) ==
  LET n == Len(g.list)
      data[i \in 0..n] == IF i = 0 THEN <<>> ELSE data[i - 1] \o g.list[i].data
      Offset(i) == ChunkDataOffset(n) + Len(data[i - 1])
  IN  [ns |-> g.ns, size |-> Offset(n + 1),
       chunks |-> [i \in 1..n |->
         [name0 |-> g.list[i].name0, name1 |-> g.list[i].name1,
          offset |-> Offset(i), size |-> Len(g.list[i].data)]],
       data |-> data[n]]

(* SaveKernelBinToFile: the file is emptied, and the groups follow. *)
Open ==
  /\ writing = 0
  /\ file' = <<>> /\ filed' = {}
  /\ writing' = 1
  /\ UNCHANGED <<group, chunkMap, saved, loaded, room, careless, overrun>>

(* The size of a list: what was inserted, with headers *)
SizeOfList(list) == Total([i \in DOMAIN list |-> 1 + Len(list[i].data)])

\* A mutant of RoomFor: the header of the group is forgotten.
RoomForChunks(g) == SizeOfList(g.list)

RoomFor(g) == 1 + SizeOfList(g.list)

Measure ==
  /\ writing \in DOMAIN group /\ room = None
  /\ room' = RoomFor(group[writing])
  /\ UNCHANGED <<group, file, chunkMap, saved, filed, loaded, writing, careless, overrun>>

Copy ==
  /\ room # None
  /\ LET g == ChunkGroup(group[writing])
     IN  /\ overrun' = (g.size > room)
         /\ file' = Append(file, g)
  /\ filed' = filed \cup {id \in saved : id[1] = group[writing].ns}
  /\ writing' = writing + 1 /\ room' = None
  /\ UNCHANGED <<group, chunkMap, saved, loaded, careless>>

Close ==
  /\ writing = Len(group) + 1
  /\ writing' = 0 /\ careless' = FALSE
  /\ UNCHANGED <<group, file, chunkMap, saved, filed, loaded, room, overrun>>

(* The checks of InsertChunkGroup *)
WellFormed(g) ==
  LET n == Len(g.chunks)
  IN  /\ g.size >= 1 + n
      /\ \A i \in 1..n : g.chunks[i].offset + g.chunks[i].size <= g.size
      /\ Total([i \in 1..n |-> g.chunks[i].size]) = g.size - (1 + n)

\* A mutant of Readable: a group is taken although its end is missing.
ReadableAll == file

(* InitFromArchive: the groups up to the first that is longer than the rest *)
Readable ==
  LET cut == First({k \in DOMAIN file :
                      Len(file[k].data) < file[k].size - 1 - Len(file[k].chunks)})
  IN  IF cut = 0 THEN file ELSE SubSeq(file, 1, cut - 1)

InsertChunkGroup(groups, g) ==
  IF WellFormed(g) THEN [groups EXCEPT ![g.ns] = Append(@, g)] ELSE groups

(* InsertKernelBinaryGroup for the file *)
LoadFile ==
  LET after[k \in 0..Len(Readable)] ==
        IF k = 0 THEN chunkMap ELSE InsertChunkGroup(after[k - 1], Readable[k])
  IN  /\ writing = 0
      /\ \A ns \in Ns : Len(chunkMap[ns]) < MaxLoads
      /\ chunkMap' = after[Len(Readable)]
      /\ loaded' = loaded \cup filed
      /\ UNCHANGED <<group, file, saved, filed, writerVars>>

(* ReleaseAllKernelBinaryGroup *)
ClearChunkMap ==
  /\ chunkMap' = [ns \in Ns |-> <<>>]
  /\ loaded' = {}
  /\ UNCHANGED <<group, file, saved, filed, writerVars>>

(***************************************************************************)
(* The process ends and the next one starts: the file is what remains, and *)
(* if it was not closed, any part of it from its start: n groups, and      *)
(* maybe one more without the end of its data.                             *)
(***************************************************************************)
Restart ==
  /\ \/ writing = 0 /\ UNCHANGED <<file, filed>>
     \/ /\ writing # 0
        /\ \E n \in 0..Len(file) :
             /\ filed' = {id \in filed : \E k \in 1..n : file[k].ns = id[1]}
             /\ \/ file' = SubSeq(file, 1, n)
                \/ /\ n < Len(file) /\ file[n + 1].data # <<>>
                   /\ file' = Append(SubSeq(file, 1, n), [file[n + 1] EXCEPT !.data = Front(@)])
  /\ group' = <<>> /\ saved' = {}
  /\ chunkMap' = [ns \in Ns |-> <<>>] /\ loaded' = {}
  /\ writing' = 0 /\ room' = None /\ careless' = FALSE
  /\ UNCHANGED overrun

Next ==
  /\ ~overrun
  /\ \/ \E id \in ChunkId : InsertNode(id[1], id[2], id[3])
     \/ Open \/ Measure \/ Copy \/ Close
     \/ LoadFile \/ ClearChunkMap \/ Restart

Spec == Init /\ [][Next]_vars

-----------------------------------------------------------------------------
(* One round of the search, over the chunks from begin up to end *)
Middle(r) == (r.begin + r.end) \div 2

Narrowed(r, g, n0, n1) ==
  LET rc == Compare(g.chunks[Middle(r) + 1], n0, n1)
  IN  IF r.begin >= r.end \/ rc = 0 THEN r
      ELSE IF rc < 0 THEN [begin |-> Middle(r) + 1, end |-> r.end]
      ELSE [begin |-> r.begin, end |-> Middle(r)]

(* FindChunkInGroup: the number of a chunk of g with these names, or 0.    *)
(* There are as many rounds as chunks at most.                             *)
FindChunkInGroup(g, n0, n1) ==
  LET n == Len(g.chunks)
      search[i \in 0..n] ==
        IF i = 0 THEN [begin |-> 0, end |-> n] ELSE Narrowed(search[i - 1], g, n0, n1)
  IN  IF search[n].begin >= search[n].end THEN 0 ELSE Middle(search[n]) + 1

(* The bytes of g from an offset on; beyond its end there are none. *)
Bytes(g, offset, size) ==
  LET start == offset - (1 + Len(g.chunks))
  IN  [i \in 1..size |-> IF start + i \in DOMAIN g.data THEN g.data[start + i] ELSE <<>>]

(* FindChunk: the binaries that it may give, at most one *)
FindChunk(ns, n0, n1) ==
  LET j == First({k \in DOMAIN chunkMap[ns] : FindChunkInGroup(chunkMap[ns][k], n0, n1) # 0})
      g == chunkMap[ns][j]
      c == g.chunks[FindChunkInGroup(g, n0, n1)]
  IN  IF j = 0 THEN {} ELSE {Bytes(g, c.offset, c.size)}

TypeOK ==
  /\ \A k \in DOMAIN group : group[k].ns \in Ns /\ Len(group[k].list) > 0
  /\ saved \cup filed \cup loaded \subseteq ChunkId
  /\ Cardinality(saved) <= MaxSaved
  /\ \A k \in DOMAIN file : file[k].ns \in Ns /\ WellFormed(file[k])

(***************************************************************************)
(* Exactly the binaries that were saved, written and loaded are found, and *)
(* each is the one that was saved under those names, in this process or an *)
(* earlier one.  A search without the second name (as for sources) finds   *)
(* one that has the first.  A process that dies while it writes loses      *)
(* binaries, but spoils none, and no list is copied over the end of its    *)
(* room unless a binary is saved meanwhile (binary.cc:68-117, 184-509).    *)
(***************************************************************************)
SavedIsFound ==
  /\ overrun => careless
  /\ \A ns \in Ns, n0 \in Names0 :
       /\ \A n1 \in Names1 :
            FindChunk(ns, n0, n1) =
              IF <<ns, n0, n1>> \in loaded THEN {Content(ns, n0, n1)} ELSE {}
       /\ LET named == {id \in loaded : id[1] = ns /\ id[2] = n0}
          IN  IF named = {} THEN FindChunk(ns, n0, Null) = {}
              ELSE \E id \in named : FindChunk(ns, n0, Null) = {Content(id[1], id[2], id[3])}
=============================================================================
