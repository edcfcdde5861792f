--------------------------------- MODULE Fat ---------------------------------
(***************************************************************************)
(* The FAT file system (file.c, fat.c).  This module has no variables: a   *)
(* function of the code is an operator from a file system to a file system *)
(* so that a command, which calls several and then saves, is one action of *)
(* the modules that use it (Pennfat, FileDescriptors).                     *)
(*                                                                         *)
(* A file system is the table of links, the bytes in the data blocks, the  *)
(* list of directory entries in memory, the directory as saveFat last      *)
(* wrote it, and the count of free blocks that decides whether a write is  *)
(* tried.  Table and bytes are mapped or written through, so they change   *)
(* on disk at once; the directory does so only in saveFat.                 *)
(*                                                                         *)
(* The code damages the table or the directory in a number of situations.  *)
(* Each has a name, which the operator where it arises puts in the field   *)
(* damage.  A specification says in Situations which of them it allows.    *)
(***************************************************************************)
EXTENDS Integers, FiniteSets, SequencesExt

CONSTANTS
  Name,        \* file names
  Byte,
  Addr,        \* addresses malloc gives to directory entries
  NumEntries,  \* entries of the table; 0 holds sizes, 1 is the directory's
  BlockSize,   \* bytes in a block
  PerBlock,    \* directory entries in a block
  Eof,         \* 0xFFFF: no entry, except in the largest file system
  Header,      \* entry 0 of the table: numBlocks and block size
  Junk,        \* a byte nobody wrote there
  Outdated,    \* stands for a directory on disk that is never loaded
  Situations

Index == 0..(NumEntries - 1)
Data  == 2..(NumEntries - 1)
Cell  == Index \X (0..(BlockSize - 1))
Perms == SUBSET {"r", "w"}
Entry == [name: Name, size: Nat, firstBlock: Index, perm: Perms, at: Addr]

ASSUME FatAssumption ==
  /\ NumEntries \in Nat /\ NumEntries > 2
  /\ BlockSize \in Nat \ {0} /\ PerBlock \in Nat \ {0}
  /\ Eof \in Nat /\ Eof >= NumEntries - 1
  /\ Header \in Nat \ Index /\ Header # Eof
  /\ Junk \notin Byte /\ Outdated \notin Seq(Entry)

IsFileSystem(fs) ==
  /\ DOMAIN fs = {"blocks", "data", "dir", "disk", "freeBlocks", "damage"}
  /\ fs.blocks \in [Index -> Index \cup {Eof, Header}]
  /\ DOMAIN fs.data \subseteq Cell /\ Range(fs.data) \subseteq Byte \cup {Junk}
  /\ fs.dir \in Seq(Entry) /\ (fs.disk = Outdated \/ fs.disk \in Seq(Entry))
  /\ fs.freeBlocks \in 0..(NumEntries - 2)
  /\ fs.damage \subseteq Situations

\* What a function returns.
Done(fs)   == [ok |-> TRUE, fs |-> fs]
Failed(fs) == [ok |-> FALSE, fs |-> fs]

Flag(situation, holds) == IF holds THEN {situation} ELSE {}

\* getFat for a new file system.
NewFat ==
  [blocks |-> [b \in Index |-> CASE b = 0 -> Header [] b = 1 -> Eof [] OTHER -> 0],
   data |-> <<>>, dir |-> <<>>, disk |-> <<>>,
   freeBlocks |-> NumEntries - 2, damage |-> {}]

-----------------------------------------------------------------------------
(***************************************************************************)
(* Chains.                                                                 *)
(***************************************************************************)
\* bytesToBlocks; a negative argument is greater than -blockSize.
bytesToBlocks(n) == IF n <= 0 THEN 0 ELSE (n + BlockSize - 1) \div BlockSize

\* A walk along the links of t from block b, up to a link that leads nowhere.
End == -1
Walk(t, b) ==
  LET walk[i \in 0..NumEntries] ==
        IF i = 0 THEN b
        ELSE LET c == walk[i - 1]
             IN  IF c = End \/ t[c] \notin Index \ {0} THEN End ELSE t[c]
  IN  walk

Chain(t, b) == LET walk == Walk(t, b) IN {walk[i] : i \in 0..NumEntries} \ {End}

Free(t) == {b \in Index \ {0} : t[b] = 0}

\* The search for a free block from index i on.
FirstFree(t, i, default) ==
  LET found == {b \in Free(t) : b >= i}
  IN  IF found = {} THEN default ELSE Min(found)

\* Mutant: only the first block is given back.
deleteFileHelper_First(t, size, b) == IF size = 0 THEN t ELSE [t EXCEPT ![b] = 0]

\* deleteFileHelper: an empty file has no blocks.
deleteFileHelper(t, size, b) ==
  IF size = 0 THEN t
  ELSE LET gone == Chain(t, b) IN [c \in Index |-> IF c \in gone THEN 0 ELSE t[c]]

\* Mutant: the search starts at the block it extends, not behind it.
NextBlock_Same(t, c) == FirstFree(t, c, c)

\* The block to go on with behind block c: the next free one, with no way back
\* to the front unless c is the last; if there is none, one in use.
NextBlock(t, c) ==
  LET n == IF c + 1 >= NumEntries THEN 2 ELSE c + 1 IN FirstFree(t, n, n)

\* The loop of writeFileToFAT over n block boundaries, from block c on: the
\* links, the block it is at and the one the host file is positioned at, which
\* a link that is there already is followed without; clean: all blocks taken
\* were free.
Grow(t, c, n) ==
  LET loop[i \in 0..n] ==
        IF i = 0 THEN [links |-> t, at |-> c, host |-> c, clean |-> TRUE]
        ELSE LET g == loop[i - 1]
                 next == NextBlock(g.links, g.at)
             IN  IF g.links[g.at] \notin {0, Eof}
                   THEN [g EXCEPT !.at = g.links[g.at], !.host = @ + 1]
                   ELSE [links |-> [g.links EXCEPT ![g.at] = next], at |-> next,
                         host |-> next, clean |-> g.clean /\ g.links[next] = 0]
  IN  loop

\* The file or directory ends where the loop has ended.
Terminate(fs, g) ==
  [fs EXCEPT !.blocks = [g.links EXCEPT ![g.at] = Eof],
             !.damage = @ \cup Flag("no_room_behind", ~g.clean)]

\* What the cells hold when the bytes have been written to them one by one.
Written(cell, bytes) ==
  [x \in Range(cell) |-> bytes[Max({j \in DOMAIN bytes : cell[j] = x})]]

\* The bytes of written, and where there are none those of data.
Over(written, data) ==
  [x \in DOMAIN written \cup DOMAIN data |->
     IF x \in DOMAIN written THEN written[x] ELSE data[x]]

\* The bytes are written to the n + 1 blocks of loop g, the first of them at offset.
WriteAlong(fs, g, n, offset, bytes) ==
  [Terminate(fs, g[n]) EXCEPT
     !.data = Over(Written([j \in DOMAIN bytes |-> <<g[(offset + j - 1) \div BlockSize].host,
                                                     (offset + j - 1) % BlockSize>>], bytes), @),
     !.damage = @ \cup Flag("block_1_taken", g[0].at = 1)]

\* ... from block c on.
Write(fs, t, c, offset, bytes) ==
  LET n == bytesToBlocks(offset + Len(bytes)) - 1
  IN  IF bytes = <<>> THEN [fs EXCEPT !.blocks = t]
      ELSE WriteAlong(fs, Grow(t, c, n), n, offset, bytes)

-----------------------------------------------------------------------------
(***************************************************************************)
(* Entries and bytes.                                                      *)
(***************************************************************************)
\* The first of some places in a list, 0 if there is none.
FirstOf(places) == IF places = {} THEN 0 ELSE Min(places)

\* The addresses of the entries of a directory.
Ats(dir) == {dir[i].at : i \in DOMAIN dir}

\* getEntryNodeAndPrev.
Find(fs, name) == FirstOf({i \in DOMAIN fs.dir : fs.dir[i].name = name})

\* The cells getBytes reads for an entry, in order.
Cells(fs, e) ==
  LET walk == Walk(fs.blocks, e.firstBlock)
  IN  [j \in 1..e.size |-> <<walk[(j - 1) \div BlockSize], (j - 1) % BlockSize>>]

\* getBytes.
Bytes(fs, e) ==
  LET cell == Cells(fs, e)
  IN  [j \in 1..e.size |-> IF cell[j] \in DOMAIN fs.data THEN fs.data[cell[j]] ELSE Junk]

\* readFileFromFAT: whether it can be read.
Readable(fs, name) == Find(fs, name) # 0 /\ "r" \in fs.dir[Find(fs, name)].perm

readFileFromFAT(fs, name) == Bytes(fs, fs.dir[Find(fs, name)])

\* Between two commands only the bytes that files hold are kept.
Settle(fs) ==
  LET held(dir) == UNION {Range(Cells(fs, dir[i])) : i \in DOMAIN dir}
      kept == held(fs.dir) \cup (IF fs.disk = Outdated THEN {} ELSE held(fs.disk))
  IN  [fs EXCEPT !.data = Restrict(@, DOMAIN @ \cap kept)]

\* An outdated directory on disk is kept only where it may be loaded.
Unsaved(fs) ==
  [fs EXCEPT !.disk = IF @ = fs.dir \/ "load_unsaved" \in Situations THEN @ ELSE Outdated]

-----------------------------------------------------------------------------
(***************************************************************************)
(* writeFileToFAT, by the branches that compute changeInFreeBlocks.        *)
(***************************************************************************)
\* Mutant: no block is set aside for the directory.
Needed_NoDirectory(fs, length) == bytesToBlocks(length)

\* A new file may need a block for the directory too.
Needed(fs, length) ==
  bytesToBlocks(length)
    + (IF fs.dir # <<>> /\ Len(fs.dir) % PerBlock = 0 THEN 1 ELSE 0)

\* No entry of that name.
Create(fs, name, bytes, at) ==
  LET c == FirstFree(fs.blocks, 1, 1)
      new == [name |-> name, size |-> Len(bytes), perm |-> {"r", "w"}, at |-> at,
              firstBlock |-> IF bytes = <<>> THEN 0 ELSE c]
  IN  IF fs.freeBlocks < Needed(fs, Len(bytes)) THEN Failed(fs)
      ELSE Done([Write(fs, fs.blocks, c, 0, bytes) EXCEPT
                   !.dir = Append(@, new), !.freeBlocks = @ - Needed(fs, Len(bytes))])

\* The links when the blocks of file i have been given back.
Released(fs, i) == deleteFileHelper(fs.blocks, fs.dir[i].size, fs.dir[i].firstBlock)

\* changeInFreeBlocks if file i gets n bytes.
Change(fs, i, n) == bytesToBlocks(fs.dir[i].size) - bytesToBlocks(n)

\* File i is written from its beginning, in links t from block c on.
WriteAnew(fs, i, bytes, t, c) ==
  [Write(fs, t, c, 0, bytes) EXCEPT
     !.dir[i].size = Len(bytes),
     !.dir[i].firstBlock = IF bytes = <<>> THEN 0 ELSE c,
     !.freeBlocks = @ + Change(fs, i, Len(bytes))]

\* Mutant: the entry keeps its first block.
Overwrite_FirstKept(fs, i, bytes) ==
  LET t == Released(fs, i)
  IN  IF fs.freeBlocks + Change(fs, i, Len(bytes)) < 0 THEN Failed(fs)
      ELSE Done([WriteAnew(fs, i, bytes, t, FirstFree(t, 1, 1)) EXCEPT
                   !.dir[i].firstBlock = fs.dir[i].firstBlock])

\* An existing file from its beginning: its blocks are given back first.
Overwrite(fs, i, bytes) ==
  LET t == Released(fs, i)
  IN  IF fs.freeBlocks + Change(fs, i, Len(bytes)) < 0 THEN Failed(fs)
      ELSE Done(WriteAnew(fs, i, bytes, t, FirstFree(t, 1, 1)))

\* File i is written from offset on, in links t, of which next is the first that
\* is free.  The blocks were given back before the offset is looked up.  From the
\* second block on the links followed are those just freed: the first leads to
\* block 0, the last one of the table itself, the next to entry Header.  The
\* latter, outside the table, is not followed further.
WriteBehind(fs, i, offset, bytes, t, next) ==
  LET size == fs.dir[i].size
      length == Len(bytes)
      later == offset >= BlockSize
      at == IF later THEN 0 ELSE fs.dir[i].firstBlock
      full == size % BlockSize = 0
      c == IF full THEN next ELSE at
      within == offset % BlockSize
      outside == offset >= 2 * BlockSize \/ (c = 0 /\ within + length > BlockSize)
      found == [fs EXCEPT !.damage = @ \cup Flag("offset_in_later_block", later)
                                       \cup Flag("link_outside", outside)
                                       \cup Flag("offset_in_full_block", full /\ ~later)
                                       \cup Flag("offset_shortens", offset + length <= size)]
  IN  IF outside THEN found
      ELSE [Write(found, IF full THEN [t EXCEPT ![at] = next] ELSE t, c, within, bytes) EXCEPT
              !.dir[i].firstBlock = IF length = 0 THEN 0 ELSE c,
              !.dir[i].size = IF offset + length > size THEN offset + length ELSE length,
              !.freeBlocks = @ + Change(fs, i, offset + length)]

\* An existing file from an offset on, as f_write does with its position.
WriteAt(fs, i, offset, bytes) ==
  LET t == Released(fs, i)
  IN  IF fs.freeBlocks + Change(fs, i, offset + Len(bytes)) < 0 THEN Failed(fs)
      ELSE IF offset > fs.dir[i].size
        THEN Failed([fs EXCEPT !.blocks = t, !.damage = @ \cup {"offset_past_end"}])
      ELSE Done(WriteBehind(fs, i, offset, bytes, t, FirstFree(t, 1, 0)))

\* The blocks a file of some size lacks for n more bytes.
Lacks(size, n) ==
  LET within == size % BlockSize
  IN  bytesToBlocks(IF within = 0 THEN n ELSE n - (BlockSize - within))

\* Behind file i, the last block of which is last: a full block is linked to the
\* next, also if there is nothing to write (touch).
WriteOn(fs, i, bytes, last) ==
  LET size == fs.dir[i].size
      full == size > 0 /\ size % BlockSize = 0
      c == IF size = 0 THEN FirstFree(fs.blocks, 1, 1)
           ELSE IF full THEN FirstFree(fs.blocks, 1, 0) ELSE last
      t == IF full THEN [fs.blocks EXCEPT ![last] = c] ELSE fs.blocks
  IN  [Write(fs, t, c, size % BlockSize, bytes) EXCEPT
         !.dir[i].size = @ + Len(bytes), !.freeBlocks = @ - Lacks(size, Len(bytes)),
         !.damage = @ \cup Flag("append_to_empty", size = 0 /\ bytes # <<>>)
                      \cup Flag("touch_full_block", full /\ bytes = <<>>)]

\* Appending.
AppendTo(fs, i, bytes) ==
  LET e == fs.dir[i]
      ends == {b \in Chain(fs.blocks, e.firstBlock) : fs.blocks[b] = Eof}
  IN  IF fs.freeBlocks < Lacks(e.size, Len(bytes)) THEN Failed(fs)
      ELSE IF ends # {} THEN Done(WriteOn(fs, i, bytes, Min(ends)))
      ELSE Done(WriteOn([fs EXCEPT !.damage = @ \cup Flag("link_outside", e.size > 0)],
                        i, bytes, 0))

\* A write without permission or blocks changes nothing.
writeFileToFAT(fs, name, bytes, offset, appending, at) ==
  LET i == Find(fs, name)
  IN  IF i = 0 THEN Create(fs, name, bytes, at)
      ELSE IF "w" \notin fs.dir[i].perm THEN Failed(fs)
      ELSE IF appending THEN AppendTo(fs, i, bytes)
      ELSE IF offset > 0 THEN WriteAt(fs, i, offset, bytes)
      ELSE Overwrite(fs, i, bytes)

-----------------------------------------------------------------------------
(***************************************************************************)
(* Entries: delete, rename, permissions.                                   *)
(***************************************************************************)
\* Mutant: the size is given back, not the number of blocks.
Delete_Size(fs, i) ==
  [fs EXCEPT !.blocks = deleteFileHelper(@, fs.dir[i].size, fs.dir[i].firstBlock),
             !.dir = RemoveAt(@, i), !.freeBlocks = @ + fs.dir[i].size]

Delete(fs, i) ==
  [fs EXCEPT !.blocks = deleteFileHelper(@, fs.dir[i].size, fs.dir[i].firstBlock),
             !.dir = RemoveAt(@, i),
             !.freeBlocks = @ + bytesToBlocks(fs.dir[i].size)]

deleteFileFromFAT(fs, name) ==
  LET i == Find(fs, name)
  IN  IF i = 0 \/ "w" \notin fs.dir[i].perm THEN Failed(fs) ELSE Done(Delete(fs, i))

\* A file that has the new name is deleted first: also if it is the file
\* itself, whose freed entry is then renamed.  If it must not be written it
\* stays, and the other is renamed all the same.
renameFile(fs, old, new) ==
  LET i == Find(fs, old)
      j == Find(fs, new)
      renamed == [fs EXCEPT !.dir[i].name = new]
  IN  IF i = 0 \/ "w" \notin fs.dir[i].perm THEN Failed(fs)
      ELSE IF j = 0 THEN Done(renamed)
      ELSE IF "w" \in fs.dir[j].perm
        THEN Done([Delete(renamed, j) EXCEPT !.damage = @ \cup Flag("mv_to_itself", i = j)])
      ELSE Done([renamed EXCEPT !.damage = @ \cup {"mv_over_readonly"}])

chmodFile(fs, name, perm) ==
  IF Find(fs, name) = 0 THEN Failed(fs)
  ELSE Done([fs EXCEPT !.dir[Find(fs, name)].perm = perm])

-----------------------------------------------------------------------------
(***************************************************************************)
(* The directory file.                                                     *)
(***************************************************************************)
DirBlocks(n) == (n + PerBlock - 1) \div PerBlock

\* writeDirectoryFile: an empty directory is written as nothing, which leaves
\* the old one on disk and block 1 free.
saveFat(fs) ==
  LET t == deleteFileHelper(fs.blocks, 1, 1)
      n == DirBlocks(Len(fs.dir)) - 1
  IN  IF fs.dir = <<>> THEN [fs EXCEPT !.blocks = t]
      ELSE Terminate([fs EXCEPT !.disk = fs.dir], Grow(t, 1, n)[n])

\* freeFat without a saveFat before it, or the end of the program.
freeFat(fs) ==
  [fs EXCEPT !.dir = <<>>, !.freeBlocks = 0,
             !.damage = @ \cup Flag("load_unsaved", fs.dir # fs.disk)]

\* loadFat, if the header is still there.
Loadable(fs) == fs.blocks[0] = Header

\* The blocks that the entries of a directory call for.
UsedBlocks(dir) == FoldLeft(LAMBDA n, e : n + bytesToBlocks(e.size), 0, dir)

loadFat(fs) ==
  [fs EXCEPT !.blocks[1] = IF @ = 0 THEN Eof ELSE @,
             !.dir = fs.disk,
             !.freeBlocks = NumEntries - 2 - UsedBlocks(fs.disk),
             !.damage = @ \cup Flag("load_long_directory", Len(fs.disk) > PerBlock)]

-----------------------------------------------------------------------------
(***************************************************************************)
(* What a file system with directory dir is to keep to.                    *)
(***************************************************************************)
Owned(fs, e) == IF e.size = 0 THEN {} ELSE Chain(fs.blocks, e.firstBlock)
DirChain(fs) == Chain(fs.blocks, 1)

\* The chain of every file has as many blocks as its size needs and ends with
\* Eof: readFileFromFAT follows it without looking.
WholeChains(fs, dir) ==
  \A i \in DOMAIN dir :
     LET owned == Owned(fs, dir[i])
     IN  /\ owned \subseteq Data
         /\ Cardinality(owned) = bytesToBlocks(dir[i].size)
         /\ owned # {} => \E b \in owned : fs.blocks[b] = Eof

\* No block belongs to two files, or to a file and the directory.
DisjointChains(fs, dir) ==
  \A i \in DOMAIN dir :
     /\ Owned(fs, dir[i]) \cap DirChain(fs) = {}
     /\ \A j \in DOMAIN dir :
          i # j => Owned(fs, dir[i]) \cap Owned(fs, dir[j]) = {}

\* Every block in use is reached from the directory or from an entry.
NothingLost(fs, dir) ==
  \A b \in Data :
     fs.blocks[b] # 0 => b \in DirChain(fs) \/ \E i \in DOMAIN dir : b \in Owned(fs, dir[i])

\* The count of free blocks promises no more than there are: a write that passes
\* the test of writeFileToFAT finds its blocks, and so does the next saveFat,
\* which takes blocks without a test.
CountIsSafe(fs) ==
  LET missing == DirBlocks(Len(fs.dir)) - Cardinality(DirChain(fs))
  IN  fs.freeBlocks + (IF missing > 0 THEN missing ELSE 0)
        <= Cardinality(Free(fs.blocks) \ {1})
=============================================================================
