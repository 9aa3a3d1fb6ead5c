-------------------------------- MODULE MCFS --------------------------------
(* FS instantiated for TLC with blocks of two bytes and files of two      *)
(* blocks, so one write can cross a block boundary, end on one, or be cut *)
(* at MAX_FILE_SIZE.  directory_size, sizeof(struct directory_file) and   *)
(* sizeof(struct inode) are those of the real build (20 * 64 / 4096 = 0,  *)
(* 20 and 1032 bytes).                                                     *)
EXTENDS FS

CONSTANTS n1, n2

MCNames == {n1, n2}
\* one byte; three bytes, which crosses a block boundary from 0 and is
\* cut at MAX_FILE_SIZE from 2
MCReadSizes == {1}
MCWriteSizes == {1, 3}
\* the start of the file and of its second block
MCOffsets == {0, 2}
\* truncate to empty, into the first block, into the second block
MCLengths == {0, 1, 3}
====
