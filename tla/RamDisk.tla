--------------------------------- MODULE RamDisk ---------------------------------
(***************************************************************************)
(* The file system of the RAM disk (src/fs/ext2.cpp).  Its calls do not    *)
(* overlap (the generator and KeMain make them one after another), so each *)
(* public one is an action; the private ones are functions from disks to   *)
(* disks.                                                                  *)
(*                                                                         *)
(* A disk is a record: used (bits of the block bitmap), inodes (bits of    *)
(* the inode bitmap), ptr (which block each pointer of an inode, or below  *)
(* it, holds), size (i_size), cells (entries of directory blocks) and      *)
(* bytes (contents of data blocks).  What is not in the domain of ptr,     *)
(* cells or bytes is still zero.  Sizes count blocks: Size / BLOCK_SIZE +  *)
(* 1.  The bitmap has bits for 31736 blocks whatever the size of the disk  *)
(* and never runs out here.                                                *)
(***************************************************************************)
EXTENDS Naturals, Sequences, SequencesExt, FiniteSetsExt

CONSTANTS
  Name,        \* file names, those that MakeDir may invent included
  Prefix,      \* pairs <<m, n>>: m is n or its beginning, as strncmp sees them
  Path,        \* absolute paths that calls use: sequences of names
  Stray,       \* what may lie behind a path that has no terminator: sequences of names
  Content,     \* what calls write: sequences of the contents of blocks
  NDirect,     \* 12 pointers of an inode to blocks
  Span,        \* 1024 pointers in an indirect block
  PerBlock,    \* 14 entries in a block of a directory
  MaxCalls     \* bound on the number of calls

ASSUME RamDiskAssumption ==
  /\ Prefix \subseteq Name \X Name /\ \A n \in Name : <<n, n>> \in Prefix
  /\ Path \subseteq Seq(Name) /\ Stray \subseteq Seq(Name)
  /\ \A content \in Content : content \in Seq(Range(content))
  /\ NDirect \in Nat \ {0} /\ Span \in Nat \ {0}
  /\ PerBlock \in Nat \ {0} /\ MaxCalls \in Nat

VARIABLES
  disk,
  done,       \* the last call: [op, path, content, ok]
  confused,   \* some lookup has taken one name for another
  calls       \* how many calls have been made

vars == <<disk, done, confused, calls>>

Root == 2
REG == "file"
DIR == "directory"

\* The function f with v at x.
Put(f, x, v) == [y \in DOMAIN f \cup {x} |-> IF y = x THEN v ELSE f[y]]

--------------------------------------------------------------------------------
(* Blocks                                                                  *)

\* A pointer: <<0, k>> is i_block[k], <<1>> is i_block[14], and longer sequences are in
\* the indirect blocks below that one.
DirectPtr(k) == <<0, k>>
IndirectPtr(i) == <<1, i \div (Span * Span), (i % (Span * Span)) \div Span, i % Span>>
Above(p) == IF p[1] = 0 THEN <<>> ELSE <<<<1>>, SubSeq(p, 1, 2), SubSeq(p, 1, 3)>>

\* Pointers to block k of a file, and to the block that holds entry e of a directory.
FilePtr(k) == IF k < NDirect THEN DirectPtr(k) ELSE IndirectPtr(k - NDirect)
EntryPtr(e) == IF e \div PerBlock < NDirect THEN DirectPtr(e \div PerBlock) ELSE IndirectPtr(e)

\* The lowest number from k on that is not in S.
FirstFree(S, k) == CHOOSE n \in k .. k + Cardinality(S) :
                     n \notin S /\ \A j \in k .. n - 1 : j \in S

\* Mutant of AllocateBlock: the bit of the block is not set.
AllocateUnmarked(d, i, p) ==
  IF p \in DOMAIN d.ptr[i] THEN d
  ELSE [d EXCEPT !.ptr[i] = Put(@, p, FirstFree(d.used, 1))]

\* AllocateBlock, for a pointer that is still zero.
AllocateBlock(d, i, p) ==
  IF p \in DOMAIN d.ptr[i] THEN d
  ELSE LET b == FirstFree(d.used, 1)
       IN [d EXCEPT !.used = @ \cup {b}, !.ptr[i] = Put(@, p, b)]

\* One pointer after another.
AllocateAll(d, i, pointers) ==
  LET after[k \in 0 .. Len(pointers)] ==
        IF k = 0 THEN d ELSE AllocateBlock(after[k - 1], i, pointers[k])
  IN after[Len(pointers)]

\* GetTIBPEntry and SetTIBPEntry make the indirect blocks on the way to the pointer.
Ensure(d, i, p) == AllocateAll(d, i, Append(Above(p), p))

\* The first n blocks of a file.
EnsureAll(d, i, n) ==
  LET after[k \in 0 .. n] == IF k = 0 THEN d ELSE Ensure(after[k - 1], i, FilePtr(k - 1))
  IN after[n]

\* AllocateBlocks takes each block before the indirect blocks that lead to it.
AllocateBlocks(d, i, n) ==
  LET after[k \in 0 .. n] ==
        IF k = 0 THEN d
        ELSE AllocateAll(after[k - 1], i, <<FilePtr(k - 1)>> \o Above(FilePtr(k - 1)))
  IN after[n]

--------------------------------------------------------------------------------
(* Directories                                                             *)

HasEntry(d, i, e) == /\ EntryPtr(e) \in DOMAIN d.ptr[i]
                     /\ <<d.ptr[i][EntryPtr(e)], e % PerBlock>> \in DOMAIN d.cells
Entry(d, i, e) == d.cells[<<d.ptr[i][EntryPtr(e)], e % PerBlock>>]
FirstEmpty(d, i) == CHOOSE e \in 0 .. MaxCalls : /\ ~HasEntry(d, i, e)
                                                 /\ \A f \in 0 .. e - 1 : HasEntry(d, i, f)

\* One component of a path: w.missing says which one was not found, w.through that a
\* file has been taken for a directory.
Descend(w, n, called) ==
  LET e == FirstEmpty(w.disk, w.inode)
      same == {f \in 0 .. e - 1 : <<n, Entry(w.disk, w.inode, f).name>> \in Prefix}
      entry == Entry(w.disk, w.inode, Min(same))
      next == [w EXCEPT !.at = @ + 1, !.through = @ \/ w.type = REG]
  IN CASE w.missing # 0 -> w
       [] w.missing = 0 /\ same = {} ->
            [next EXCEPT !.missing = w.at, !.disk = Ensure(@, w.inode, EntryPtr(e))]
       [] OTHER ->
            [next EXCEPT !.inode = entry.inode, !.type = entry.type,
                         !.confused = @ \/ entry.called # called]

\* GetFile, for a path that stands for the path called (they differ in MakeDir only): a
\* lookup may give a directory a new block.
GetFile(d, path, called) ==
  LET start == [disk |-> d, inode |-> Root, type |-> DIR, at |-> 1, missing |-> 0,
                through |-> FALSE, confused |-> FALSE]
      after[k \in 0 .. Len(path)] ==
        IF k = 0 THEN start ELSE Descend(after[k - 1], path[k], called[k])
  IN after[Len(path)]

\* CreateFile, after GetFile has failed as w says: the first component that is missing
\* becomes a file of that name, even if it is not the last one.
CreateFile(w, path, called, type, n) ==
  LET d == w.disk
      e == FirstEmpty(d, w.inode)
      cell == <<d.ptr[w.inode][EntryPtr(e)], e % PerBlock>>
      i == FirstFree(d.inodes, 3)
      made == [d EXCEPT !.inodes = @ \cup {i}, !.ptr = Put(@, i, <<>>), !.size = Put(@, i, 0),
                        !.cells = Put(@, cell, [name |-> path[w.missing], type |-> type, inode |-> i,
                                                called |-> called[w.missing]])]
  IN IF type = REG THEN AllocateBlocks(made, i, n) ELSE made

--------------------------------------------------------------------------------
(* Calls                                                                   *)

\* RAMDisk(pStart, Size, true).
Init ==
  /\ disk = [used |-> {}, inodes |-> {}, ptr |-> [i \in {Root} |-> <<>>],
             size |-> [i \in {Root} |-> 0],
             cells |-> <<>>, bytes |-> <<>>]
  /\ done = [op |-> "none", path |-> <<>>, content |-> <<>>, ok |-> TRUE]
  /\ confused = FALSE
  /\ calls = 0

Called(op, path, content, ok) ==
  done' = [op |-> op, path |-> path, content |-> content, ok |-> ok]

\* Calls are made with directories for directories, and none after a null pointer was used.
Running == calls < MaxCalls /\ (done.ok \/ done.op = "MakeDir")
Count(w) == calls' = calls + 1 /\ ~w.through /\ confused' = (confused \/ w.confused)

\* Mutant of Written: i_size of a file that exists is kept.
WrittenInPlace(d, i, content) ==
  LET full == EnsureAll(d, i, Len(content))
      block(k) == full.ptr[i][FilePtr(k - 1)]
      new == {block(k) : k \in DOMAIN content}
  IN [full EXCEPT !.size[i] = IF @ = 0 THEN Len(content) ELSE @,
                  !.bytes = [b \in DOMAIN @ \cup new |->
                               IF b \in new THEN content[Min({k \in DOMAIN content : block(k) = b})]
                               ELSE full.bytes[b]]]

\* The blocks of the file are written one after another; missing ones are allocated.
Written(d, i, content) ==
  LET full == EnsureAll(d, i, Len(content))
      block(k) == full.ptr[i][FilePtr(k - 1)]
      new == {block(k) : k \in DOMAIN content}
  IN [full EXCEPT !.size[i] = Len(content),
                  !.bytes = [b \in DOMAIN @ \cup new |->
                               IF b \in new THEN content[Min({k \in DOMAIN content : block(k) = b})]
                               ELSE full.bytes[b]]]

\* Mutant of WriteFile: the file is not looked up again after it has been created.
WriteFileOnce(path, content) ==
  /\ Running
  /\ LET first == GetFile(disk, path, path)
     IN /\ Count(first)
        /\ first.missing = 0 => first.type = REG
        /\ disk' = IF first.missing = 0 THEN Written(first.disk, first.inode, content)
                   ELSE CreateFile(first, path, path, REG, Len(content))
        /\ Called("WriteFile", path, content, first.missing = 0)

\* WriteFile.  If the file is still not there after CreateFile, a null pointer is used.
WriteFile(path, content) ==
  /\ Running
  /\ LET first == GetFile(disk, path, path)
         made == CreateFile(first, path, path, REG, Len(content))
         second == IF first.missing = 0 THEN first ELSE GetFile(made, path, path)
     IN /\ Count(first)
        /\ first.missing = 0 => first.type = REG
        /\ disk' = IF second.missing = 0 THEN Written(second.disk, second.inode, content)
                   ELSE second.disk
        /\ Called("WriteFile", path, content, second.missing = 0)

\* MakeDir copies the path without its terminator into a variable that nothing has
\* initialized: what lies behind may make the last name longer, and may add names.
MakeDir(path) ==
  /\ Running
  /\ \E n \in Name, stray \in Stray :
       LET called == path \o stray
           made == [called EXCEPT ![Len(path)] = n]
           w == GetFile(disk, made, called)
       IN /\ <<path[Len(path)], n>> \in Prefix
          /\ Count(w)
          /\ disk' = IF w.missing = 0 THEN w.disk ELSE CreateFile(w, made, called, DIR, 0)
          /\ Called("MakeDir", path, <<>>, w.missing # 0)

\* Mutant of ReadFile: the last block is left out.
ReadFileShort(path) ==
  /\ Running
  /\ LET w == GetFile(disk, path, path)
     IN /\ Count(w)
        /\ w.missing = 0 => w.type = REG
        /\ disk' = w.disk
        /\ Called("ReadFile", path,
                  IF w.missing # 0 THEN <<>>
                  ELSE [k \in 1 .. disk.size[w.inode] - 1 |->
                          disk.bytes[disk.ptr[w.inode][FilePtr(k - 1)]]],
                  w.missing = 0)

\* File(ramDisk, type, path), which uses a null pointer if there is no such file, and
\* ReadFile.
ReadFile(path) ==
  /\ Running
  /\ LET w == GetFile(disk, path, path)
         full == EnsureAll(w.disk, w.inode, w.disk.size[w.inode])
     IN /\ Count(w)
        /\ w.missing = 0 => w.type = REG
        /\ disk' = IF w.missing = 0 THEN full ELSE w.disk
        /\ Called("ReadFile", path,
                  IF w.missing # 0 THEN <<>>
                  ELSE [k \in 1 .. full.size[w.inode] |->
                          full.bytes[full.ptr[w.inode][FilePtr(k - 1)]]],
                  w.missing = 0)

Next ==
  \E path \in Path : \/ MakeDir(path) \/ ReadFile(path)
                     \/ \E content \in Content : WriteFile(path, content)

Spec == Init /\ [][Next]_vars

--------------------------------------------------------------------------------
Pointers == UNION {{<<i, p>> : p \in DOMAIN disk.ptr[i]} : i \in DOMAIN disk.ptr}

\* Blocks are taken by AllocateBlock, by AllocateBlocks and by mere lookups, and inodes
\* by CreateFile.  The bits that are set are those of the blocks that some pointer holds
\* and of the inodes that some entry names, and none is held or named twice.
OwnedOnce ==
  /\ disk.used = {disk.ptr[x[1]][x[2]] : x \in Pointers}
  /\ Cardinality(disk.used) = Cardinality(Pointers)
  /\ disk.inodes = {disk.cells[c].inode : c \in DOMAIN disk.cells}
  /\ Cardinality(disk.inodes) = Cardinality(DOMAIN disk.cells)

\* The inode of a path, 0 if there is none, and what the file holds, with names that are
\* compared as a whole.
Child(d, i, n) ==
  LET same == IF i = 0 THEN {}
              ELSE {f \in 0 .. FirstEmpty(d, i) - 1 : Entry(d, i, f).called = n}
  IN IF same = {} THEN 0 ELSE Entry(d, i, Min(same)).inode
INodeOf(d, path) ==
  LET at[k \in 0 .. Len(path)] == IF k = 0 THEN Root ELSE Child(d, at[k - 1], path[k])
  IN at[Len(path)]
ContentOf(d, path) ==
  LET i == INodeOf(d, path)
  IN IF i = 0 THEN <<>> ELSE [k \in 1 .. d.size[i] |-> d.bytes[d.ptr[i][FilePtr(k - 1)]]]

\* As long as no lookup takes one name for another, WriteFile gives its file the content
\* of the buffer, longer or shorter than the old one, and no call changes another file.
WriteIsolated ==
  [][~confused' => \A p \in Path :
       ContentOf(disk', p) = IF done'.op = "WriteFile" /\ done'.ok /\ done'.path = p
                             THEN done'.content ELSE ContentOf(disk, p)]_vars

\* ReadFile then returns what the file holds.
ReadsContent == ~confused /\ done.op = "ReadFile" => done.content = ContentOf(disk, done.path)

\* WriteFile uses a null pointer if and only if there is no directory for the file.
WriteFaults ==
  [][~confused' /\ done'.op = "WriteFile" =>
       (done'.ok <=> INodeOf(disk, Front(done'.path)) # 0)]_vars

================================================================================
