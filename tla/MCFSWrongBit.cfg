\* One file of three blocks and eight data blocks, so a data block numbered
\* 8 exists: the bit fs_truncate clears for file block 1.
CONSTANTS
    DISK_BLOCKS = 10
    BLOCK_SIZE = 2
    MAX_FILES = 1
    MAX_FILE_DESCRIPTORS = 2
    MAX_FILE_SIZE = 6
    DirectorySize = 0
    SizeofDirectoryFile = 20
    SizeofInode = 1032
    n1 = n1
    n2 = n2
    NoName = NoName
    Garbled = Garbled
    Names <- MCNames
    ReadSizes <- MCReadSizes
    WriteSizes <- MCWriteSizes
    Offsets <- MCOffsets
    Lengths <- MCLengths
SPECIFICATION Spec
INVARIANT BlocksOwnedOnce
\* A crash (crashed # "none") ends the process.
CHECK_DEADLOCK FALSE
