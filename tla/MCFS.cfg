\* One file, two descriptors, three data blocks: the disk can fill up.
CONSTANTS
    DISK_BLOCKS = 5
    BLOCK_SIZE = 2
    MAX_FILES = 1
    MAX_FILE_DESCRIPTORS = 2
    MAX_FILE_SIZE = 4
    DirectorySize = 0
    SizeofDirectoryFile = 20
    SizeofInode = 1032
    n1 = n1
    n2 = n2
    NoName = NoName
    Garbled = Garbled
    Names <- MCNames
    ReadSizes <- MCReadSizes
    WriteSizes <- MCWriteSizes
    Offsets <- MCOffsets
    Lengths <- MCLengths
SPECIFICATION Spec
INVARIANT TypeOK
INVARIANT BlocksOwnedOnce
\* A crash (crashed # "none") ends the process.
CHECK_DEADLOCK FALSE
