--------------------------------- MODULE FS ---------------------------------
(***************************************************************************)
(* The flat file system of src/fs/fs.c over the block device of disk.h.   *)
(*                                                                         *)
(* The in-memory globals (disk_super_block with its usage bitmap, the     *)
(* directory, the inode table and the descriptor table) are variables, so *)
(* are the metadata the last umount_fs or make_fs wrote to the disk.      *)
(* Every API call is one step; its loops are folded into operators.  The  *)
(* bytes of files are left out: the model keeps which blocks a file       *)
(* holds, its size and every descriptor's file pointer, which is what the *)
(* allocation, truncation and reference counting work on.                 *)
(*                                                                         *)
(* struct inode is an array element whose last field is blocks[], so the  *)
(* word after blocks[MAX_FILE_SIZE / BLOCK_SIZE - 1] is the next inode's  *)
(* ref_count.  The table is modelled as the flat array of int words the   *)
(* code indexes past the end of (Word, SetWord).                          *)
(***************************************************************************)
EXTENDS Naturals, Integers, FiniteSets, FiniteSetsExt

CONSTANTS
    DISK_BLOCKS,           \* blocks of the disk
    BLOCK_SIZE,            \* bytes of a block
    MAX_FILES,             \* entries of directory[] and inode_table[]
    MAX_FILE_DESCRIPTORS,  \* entries of file_descriptors[]
    MAX_FILE_SIZE,         \* bytes of the largest file
    DirectorySize,         \* directory_size as make_fs computes it (line 69)
    SizeofDirectoryFile,   \* sizeof(struct directory_file) in the build
    SizeofInode,           \* sizeof(struct inode) in the build
    Names,                 \* file names passed to the API
    NoName,                \* the empty name "" of an unused entry
    Garbled,               \* a name read back from bytes of another struct
    ReadSizes, WriteSizes, \* nbyte passed to fs_read / fs_write
    Offsets,               \* offsets passed to fs_lseek
    Lengths                \* lengths passed to fs_truncate

ASSUME MAX_FILE_SIZE % BLOCK_SIZE = 0 /\ NoName \notin Names
       /\ Garbled \notin Names \cup {NoName}

BlocksPerFile == MAX_FILE_SIZE \div BLOCK_SIZE
FileIdx == 0 .. MAX_FILES - 1
FdIdx == 0 .. MAX_FILE_DESCRIPTORS - 1
Slots == 0 .. BlocksPerFile - 1
BlockNo == 0 .. DISK_BLOCKS - 1

\* The layout make_fs computes (lines 67-77).
directory_offset == 1
inode_table_offset == directory_offset + DirectorySize
data_offset == inode_table_offset + MAX_FILES
MetaBlocks == 0 .. data_offset - 1

FreshInode == [ref_count |-> 0, file_size |-> 0, blocks |-> [s \in Slots |-> -1]]
FreeFd == [inode_index |-> -1, file_pointer |-> -1]

VARIABLES
    is_mounted,        \* disk_super_block.is_mounted
    usage_bitmap,      \* blocks whose bit is set in disk_super_block.usage_bitmap
    directory,         \* directory[k]: [name, inode_index]
    inode_table,       \* inode_table[i]: [ref_count, file_size, blocks]
    file_descriptors,  \* file_descriptors[d]: [inode_index, file_pointer]
    disk_bitmap,       \* the usage bitmap of the superblock on disk
    disk_directory,    \* the directory image written to block directory_offset
    disk_inodes,       \* the inode images written to blocks inode_table_offset + i
    crashed            \* "none", or how the process died

vars == <<is_mounted, usage_bitmap, directory, inode_table, file_descriptors,
          disk_bitmap, disk_directory, disk_inodes, crashed>>
diskVars == <<disk_bitmap, disk_directory, disk_inodes>>

Int32 == -1 - MAX_FILE_DESCRIPTORS .. DISK_BLOCKS + MAX_FILE_SIZE
Inode == [ref_count : Int32, file_size : Int32, blocks : [Slots -> Int32]]
Entry == [name : Names \cup {NoName, Garbled}, inode_index : Int32]

TypeOK ==
    /\ is_mounted \in BOOLEAN
    /\ usage_bitmap \subseteq BlockNo /\ disk_bitmap \subseteq BlockNo
    /\ directory \in [FileIdx -> Entry] /\ disk_directory \in [FileIdx -> Entry]
    /\ inode_table \in [FileIdx -> Inode] /\ disk_inodes \in [FileIdx -> Inode]
    /\ \A i \in FileIdx, s \in Slots :
          inode_table[i].blocks[s] \in {-1} \cup (data_offset .. DISK_BLOCKS - 1)
    /\ file_descriptors \in [FdIdx -> [inode_index : {-1} \cup FileIdx,
                                      file_pointer : -1 .. MAX_FILE_SIZE]]
    /\ crashed \in {"none", "huge_read", "bad_fd", "oob_write"}

(* The process after make_fs: the globals as make_fs left them, the       *)
(* descriptor table still zero-initialised (it is set up by mount_fs).    *)
Init ==
    /\ is_mounted = FALSE
    /\ usage_bitmap = MetaBlocks /\ disk_bitmap = MetaBlocks
    /\ directory = [k \in FileIdx |-> [name |-> NoName, inode_index |-> -1]]
    /\ disk_directory = directory
    /\ inode_table = [i \in FileIdx |-> FreshInode] /\ disk_inodes = inode_table
    /\ file_descriptors = [d \in FdIdx |-> [inode_index |-> 0, file_pointer |-> 0]]
    /\ crashed = "none"

Alive == crashed = "none"

(***************************************************************************)
(* The inode table as the array of ints the code walks past blocks[].      *)
(***************************************************************************)
WordsPerInode == 2 + BlocksPerFile
Addr(i, s) == i * WordsPerInode + 2 + s          \* &inode_table[i].blocks[s]
InTable(a) == a < MAX_FILES * WordsPerInode
Word(it, a) ==
    LET i == a \div WordsPerInode
        f == a % WordsPerInode
    IN  CASE f = 0 -> it[i].ref_count
          [] f = 1 -> it[i].file_size
          [] OTHER -> it[i].blocks[f - 2]
SetWord(it, a, v) ==
    LET i == a \div WordsPerInode
        f == a % WordsPerInode
    IN  CASE f = 0 -> [it EXCEPT ![i].ref_count = v]
          [] f = 1 -> [it EXCEPT ![i].file_size = v]
          [] OTHER -> [it EXCEPT ![i].blocks[f - 2] = v]

(***************************************************************************)
(* Blocks.                                                                 *)
(***************************************************************************)
(* The first data block whose bit is clear (fs_write, lines 489-497), or   *)
(* -1 when the disk is full.                                               *)
FreeBlockPastEnd(bm) ==
    LET free == {b \in data_offset .. DISK_BLOCKS : b \notin bm}
    IN  IF free = {} THEN -1 ELSE Min(free)
FreeBlock(bm) ==
    LET free == {b \in data_offset .. DISK_BLOCKS - 1 : b \notin bm}
    IN  IF free = {} THEN -1 ELSE Min(free)

(* The bit fs_truncate clears for file block s (line 655): bit            *)
(* s % sizeof(char) of byte s / sizeof(char), i.e. the bit of disk block  *)
(* 8 * s, whatever block the file holds there.                             *)
TruncBit(s) == (s \div 1) * 8 + (s % 1)

\* Fill without setting the bitmap bit of the block it takes (mutant).
RECURSIVE FillNoMark(_, _, _, _, _)
FillNoMark(it, bm, i, s, last) ==
    IF s > last THEN <<it, bm, TRUE>>
    ELSE LET a  == Addr(i, s)
             fb == FreeBlock(bm)
             it2 == IF InTable(a) /\ Word(it, a) = -1 THEN SetWord(it, a, fb) ELSE it
         IN  IF InTable(a) /\ Word(it, a) = -1 /\ fb = -1 THEN <<it2, bm, FALSE>>
                                                     ELSE FillNoMark(it2, bm, i, s + 1, last)

(* The loop of fs_write over file blocks s .. last of inode i (the first  *)
(* one at lines 487-511, the others at 530-551): a block that is -1 gets  *)
(* the first free one; if none is left the call stops.  Slot              *)
(* BlocksPerFile is one past blocks[], the next inode's ref_count: when   *)
(* that word is not -1 it is read and written back unchanged.  Past the   *)
(* last inode lies memory the model does not hold, assumed not -1.        *)
(* Result: <<inode table, bitmap, whether every block was there>>.        *)
RECURSIVE Fill(_, _, _, _, _)
Fill(it, bm, i, s, last) ==
    IF s > last THEN <<it, bm, TRUE>>
    ELSE LET a    == Addr(i, s)
             need == InTable(a) /\ Word(it, a) = -1
             fb   == FreeBlock(bm)
             it2  == IF need THEN SetWord(it, a, fb) ELSE it
             bm2  == IF need /\ fb # -1 THEN bm \cup {fb} ELSE bm
         IN  IF need /\ fb = -1 THEN <<it2, bm2, FALSE>>
                                ELSE Fill(it2, bm2, i, s + 1, last)

(* The loop of fs_truncate (lines 653-661) from file block s of inode i:  *)
(* while the word is not -1, clear TruncBit(s) and set the word to -1.    *)
(* It stops at the first -1 word, which may lie in a later inode; walking *)
(* past the table writes memory the program does not own.                 *)
(* Result: <<inode table, bitmap, whether it stayed in the table>>.       *)
RECURSIVE Cut(_, _, _, _)
Cut(it, bm, i, s) ==
    LET a == Addr(i, s)
    IN  IF ~InTable(a) THEN <<it, bm, FALSE>>
        ELSE IF Word(it, a) = -1 THEN <<it, bm, TRUE>>
        ELSE Cut(SetWord(it, a, -1), bm \ {TruncBit(s)}, i, s + 1)

(* The directory as mount_fs reads it from block directory_offset.  When  *)
(* directory_size is 0 that block is also inode 0's, written after the    *)
(* directory by umount_fs and make_fs: entry k keeps its bytes only past  *)
(* sizeof(struct inode).  Its name then holds inode bytes; its            *)
(* inode_index (at byte 16 of the entry) holds the blocks[] word at the   *)
(* same offset, -1 past the blocks a file of this model can have.         *)
InodeWordAt(ino, byte) ==
    LET w == (byte - 8) \div 4
    IN  IF w < BlocksPerFile THEN ino.blocks[w] ELSE -1
Overlay(ino, dir) ==
    [k \in FileIdx |->
        LET at == k * SizeofDirectoryFile
        IN  [name |-> IF at < SizeofInode THEN Garbled ELSE dir[k].name,
             inode_index |-> IF at + 16 < SizeofInode THEN InodeWordAt(ino, at + 16)
                                                      ELSE dir[k].inode_index]]
DirectoryOnDisk ==
    IF inode_table_offset = directory_offset
    THEN Overlay(disk_inodes[0], disk_directory) ELSE disk_directory

(***************************************************************************)
(* Mounting.                                                               *)
(***************************************************************************)
(* make_fs on a disk that is not open: the superblock, a directory whose  *)
(* entries are all unused (the names are left as they were) and fresh     *)
(* inodes, in memory and on disk.  The descriptors are left alone.         *)
MakeFs ==
    /\ Alive
    /\ \/ /\ ~is_mounted
          /\ usage_bitmap' = MetaBlocks
          /\ directory' = [k \in FileIdx |-> [directory[k] EXCEPT !.inode_index = -1]]
          /\ inode_table' = [i \in FileIdx |-> FreshInode]
          /\ disk_bitmap' = MetaBlocks
          /\ disk_directory' = directory'
          /\ disk_inodes' = inode_table'
          /\ UNCHANGED <<is_mounted, file_descriptors, crashed>>
       \/ is_mounted /\ UNCHANGED vars       \* open_disk fails

(* mount_fs: superblock, directory and inodes from the disk, every        *)
(* descriptor free.                                                        *)
MountFs ==
    /\ Alive
    /\ \/ /\ ~is_mounted
          /\ usage_bitmap' = disk_bitmap
          /\ directory' = DirectoryOnDisk
          /\ inode_table' = disk_inodes
          /\ file_descriptors' = [d \in FdIdx |-> FreeFd]
          /\ is_mounted' = TRUE
          /\ UNCHANGED <<diskVars, crashed>>
       \/ is_mounted /\ UNCHANGED vars

(* umount_fs: superblock, directory, then every inode, to the disk.  The  *)
(* descriptors stay as they are.                                           *)
UmountFs ==
    /\ Alive
    /\ \/ /\ is_mounted
          /\ is_mounted' = FALSE
          /\ disk_bitmap' = usage_bitmap
          /\ disk_directory' = directory
          /\ disk_inodes' = inode_table
          /\ UNCHANGED <<usage_bitmap, directory, inode_table, file_descriptors,
                         crashed>>
       \/ ~is_mounted /\ UNCHANGED vars

(***************************************************************************)
(* Files.                                                                  *)
(***************************************************************************)
(* The last directory entry with this name (the search has no break).     *)
Matches(name) == {k \in FileIdx : directory[k].name = name}
LastMatch(name) == Max(Matches(name))
FreeFds == {d \in FdIdx : file_descriptors[d].inode_index = -1}
IsOpen(d) == file_descriptors[d].inode_index # -1

FsOpen(name) ==
    LET i == IF Matches(name) = {} THEN -1
             ELSE directory[LastMatch(name)].inode_index
        d == Min(FreeFds)
    IN  /\ Alive
        /\ \/ ~is_mounted /\ UNCHANGED vars
           \/ is_mounted /\ i = -1 /\ UNCHANGED vars
           \/ is_mounted /\ i # -1 /\ FreeFds = {} /\ UNCHANGED vars
           \/ /\ is_mounted /\ i # -1 /\ FreeFds # {}
              /\ file_descriptors' = [file_descriptors EXCEPT
                                         ![d] = [inode_index |-> i, file_pointer |-> 0]]
              /\ inode_table' = [inode_table EXCEPT ![i].ref_count = @ + 1]
              /\ UNCHANGED <<is_mounted, usage_bitmap, directory, diskVars, crashed>>

FsClose(d) ==
    /\ Alive
    /\ \/ ~IsOpen(d) /\ UNCHANGED vars
       \/ IsOpen(d) /\ ~is_mounted /\ UNCHANGED vars
       \/ /\ IsOpen(d) /\ is_mounted
          /\ inode_table' = [inode_table EXCEPT
                                ![file_descriptors[d].inode_index].ref_count = @ - 1]
          /\ file_descriptors' = [file_descriptors EXCEPT ![d] = FreeFd]
          /\ UNCHANGED <<is_mounted, usage_bitmap, directory, diskVars, crashed>>

(* fs_create takes the first unused entry and the LAST inode whose        *)
(* ref_count is 0 (the search has no break).                               *)
FsCreate(name) ==
    LET freeEntries == {k \in FileIdx : directory[k].inode_index = -1}
        freeInodes  == {i \in FileIdx : inode_table[i].ref_count = 0}
        k == Min(freeEntries)
        i == Max(freeInodes)
    IN  /\ Alive
        /\ \/ ~is_mounted /\ UNCHANGED vars
           \/ is_mounted /\ Matches(name) # {} /\ UNCHANGED vars
           \/ is_mounted /\ Matches(name) = {} /\ freeEntries = {} /\ UNCHANGED vars
           \/ /\ is_mounted /\ Matches(name) = {} /\ freeEntries # {}
              /\ freeInodes = {} /\ UNCHANGED vars
           \/ /\ is_mounted /\ Matches(name) = {} /\ freeEntries # {}
              /\ freeInodes # {}
              /\ directory' = [directory EXCEPT ![k] = [name |-> name, inode_index |-> i]]
              /\ inode_table' = [inode_table EXCEPT ![i].ref_count = @ + 1]
              /\ UNCHANGED <<is_mounted, usage_bitmap, file_descriptors, diskVars,
                             crashed>>

(* "Check that there are no file descriptors pointing to file".           *)
DeleteRefused(ref) == ref > 1

(* fs_delete frees every block of the inode (clearing the right bit) and  *)
(* clears the entry and the inode.                                         *)
FsDelete(name) ==
    LET k == LastMatch(name)
        i == directory[k].inode_index
        held == {inode_table[i].blocks[s] : s \in Slots} \ {-1}
    IN  /\ Alive
        /\ \/ ~is_mounted /\ UNCHANGED vars
           \/ is_mounted /\ Matches(name) = {} /\ UNCHANGED vars
           \/ is_mounted /\ Matches(name) # {} /\ i = -1 /\ UNCHANGED vars
           \/ /\ is_mounted /\ Matches(name) # {} /\ i # -1
              /\ DeleteRefused(inode_table[i].ref_count) /\ UNCHANGED vars
           \/ /\ is_mounted /\ Matches(name) # {} /\ i # -1
              /\ ~DeleteRefused(inode_table[i].ref_count)
              /\ usage_bitmap' = usage_bitmap \ held
              /\ directory' = [directory EXCEPT ![k] = [name |-> NoName, inode_index |-> -1]]
              /\ inode_table' = [inode_table EXCEPT ![i] = FreshInode]
              /\ UNCHANGED <<is_mounted, file_descriptors, diskVars, crashed>>

(* The new size when a write ends past it.  The comparison is done in     *)
(* size_t, so a file_size of -1 is never exceeded.                         *)
Grown(size, end) == IF size >= 0 /\ end > size THEN end ELSE size

(* fs_read moves the file pointer by the bytes it reads.  When the file   *)
(* pointer is past the end (fs_truncate leaves it there), nbyte becomes   *)
(* file_size - file_pointer < 0 as a size_t: malloc fails and the copy     *)
(* loop writes through NULL.                                               *)
FsRead(d, n) ==
    LET fd == file_descriptors[d]
        size == inode_table[fd.inode_index].file_size
        m == IF Grown(size, fd.file_pointer + n) # size
             THEN size - fd.file_pointer ELSE n
    IN  /\ Alive
        /\ \/ ~is_mounted /\ UNCHANGED vars
           \/ is_mounted /\ ~IsOpen(d) /\ UNCHANGED vars
           \/ /\ is_mounted /\ IsOpen(d) /\ m < 0
              /\ crashed' = "huge_read"
              /\ UNCHANGED <<is_mounted, usage_bitmap, directory, inode_table,
                             file_descriptors, diskVars>>
           \/ /\ is_mounted /\ IsOpen(d) /\ m >= 0
              /\ file_descriptors' = [file_descriptors EXCEPT ![d].file_pointer = @ + m]
              /\ UNCHANGED <<is_mounted, usage_bitmap, directory, inode_table,
                             diskVars, crashed>>

(* fs_write: nbyte is cut to what fits in MAX_FILE_SIZE; the size grows   *)
(* before the blocks are known to be there, and a disk that fills up      *)
(* half way leaves the blocks it got and the new size.                    *)
FsWrite(d, n) ==
    LET fd == file_descriptors[d]
        i  == fd.inode_index
        fp == fd.file_pointer
        m  == IF fp + n > MAX_FILE_SIZE THEN MAX_FILE_SIZE - fp ELSE n
        it == [inode_table EXCEPT ![i].file_size = Grown(@, fp + m)]
        r  == Fill(it, usage_bitmap, i, fp \div BLOCK_SIZE, (fp + m) \div BLOCK_SIZE)
    IN  /\ Alive
        /\ \/ ~is_mounted /\ UNCHANGED vars
           \/ is_mounted /\ ~IsOpen(d) /\ UNCHANGED vars
           \/ is_mounted /\ IsOpen(d) /\ m = 0 /\ UNCHANGED vars
           \/ /\ is_mounted /\ IsOpen(d) /\ m # 0
              /\ inode_table' = r[1]
              /\ usage_bitmap' = r[2]
              /\ file_descriptors' = IF r[3]
                                     THEN [file_descriptors EXCEPT ![d].file_pointer = fp + m]
                                     ELSE file_descriptors
              /\ UNCHANGED <<is_mounted, directory, diskVars, crashed>>

(* fs_lseek accepts offsets 0 .. file_size - 1; it does not look at        *)
(* is_mounted.                                                              *)
FsLseek(d, off) ==
    /\ Alive
    /\ \/ ~IsOpen(d) /\ UNCHANGED vars
       \/ /\ IsOpen(d)
          /\ off > inode_table[file_descriptors[d].inode_index].file_size - 1
          /\ UNCHANGED vars
       \/ /\ IsOpen(d)
          /\ off <= inode_table[file_descriptors[d].inode_index].file_size - 1
          /\ file_descriptors' = [file_descriptors EXCEPT ![d].file_pointer = off]
          /\ UNCHANGED <<is_mounted, usage_bitmap, directory, inode_table,
                         diskVars, crashed>>

(* fs_truncate does not return on a closed descriptor: it goes on with    *)
(* inode_table[-1].  It frees from file block length / BLOCK_SIZE on,     *)
(* the block holding the kept bytes included, with the wrong bitmap bit,  *)
(* and leaves every file pointer where it was.  It does not look at       *)
(* is_mounted.                                                              *)
FsTruncate(d, len) ==
    LET i == file_descriptors[d].inode_index
        r == Cut(inode_table, usage_bitmap, i, len \div BLOCK_SIZE)
    IN  /\ Alive
        /\ \/ /\ ~IsOpen(d) /\ crashed' = "bad_fd"
              /\ UNCHANGED <<is_mounted, usage_bitmap, directory, inode_table,
                             file_descriptors, diskVars>>
           \/ IsOpen(d) /\ len > inode_table[i].file_size /\ UNCHANGED vars
           \/ /\ IsOpen(d) /\ len <= inode_table[i].file_size /\ ~r[3]
              /\ crashed' = "oob_write"
              /\ UNCHANGED <<is_mounted, usage_bitmap, directory, inode_table,
                             file_descriptors, diskVars>>
           \/ /\ IsOpen(d) /\ len <= inode_table[i].file_size /\ r[3]
              /\ inode_table' = [r[1] EXCEPT ![i].file_size = len]
              /\ usage_bitmap' = r[2]
              /\ UNCHANGED <<is_mounted, directory, file_descriptors, diskVars,
                             crashed>>

Next ==
    \/ MakeFs \/ MountFs \/ UmountFs
    \/ \E name \in Names : FsCreate(name)
    \* fs_open and fs_delete do not check the name: "" matches an unused entry
    \/ \E name \in Names \cup {NoName} : FsDelete(name) \/ FsOpen(name)
    \/ \E d \in FdIdx :
          \/ FsClose(d)
          \/ \E n \in ReadSizes : FsRead(d, n)
          \/ \E n \in WriteSizes : FsWrite(d, n)
          \/ \E off \in Offsets : FsLseek(d, off)
          \/ \E len \in Lengths : FsTruncate(d, len)

Spec == Init /\ [][Next]_vars

(***************************************************************************)
(* Properties.                                                             *)
(***************************************************************************)

(* While the file system is mounted, every open descriptor refers to an   *)
(* inode some directory entry names: fs_delete's ref_count test ("no file *)
(* descriptors pointing to file") never lets a file go while it is open.  *)
(* ref_count is shared by fs_create, fs_open, fs_close and fs_delete, and *)
(* survives umount_fs / mount_fs.  fs_truncate's walk into the next      *)
(* inode (line 653) breaks it as soon as there are two inodes, so no       *)
(* passing run can check it; see the hazard at fs.c:653.                   *)
DescriptorNamesLiveFile ==
    is_mounted =>
        \A d \in FdIdx : IsOpen(d) =>
            \E k \in FileIdx : directory[k].inode_index = file_descriptors[d].inode_index

(* Every block an inode holds is marked used in the usage bitmap and held *)
(* by no other slot: fs_write's free-block search (lines 489-497, 536-   *)
(* 546) never hands out a block a file still has, across fs_delete and    *)
(* fs_truncate freeing blocks and mount_fs reloading the bitmap.          *)
BlocksOwnedOnce ==
    \A i, j \in FileIdx, s, t \in Slots :
        LET b == inode_table[i].blocks[s]
        IN  b # -1 => /\ b \in usage_bitmap
                      /\ (inode_table[j].blocks[t] = b => i = j /\ s = t)
====
