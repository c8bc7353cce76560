SPECIFICATION FairSpec
CONSTANTS
    BLOCK_SIZE = 2
    Byte <- MCByte
    Block <- MCBlock
    Inode <- MCInode
    Dentry <- MCDentry
    dot = dot
    two = two
    three = three
    rtc = rtc
    none = none
    Dot = dot
    Device = {rtc}
    d1 = d1
    d2 = d2
    p1 = p1
    p2 = p2
    Fd <- MCFd
    Process = {p2}
    Owner <- MCOwner
    NBytes = {0, 1, 2, 8}
    OneDirectory = TRUE
    Free = Free
INVARIANTS
    TypeOK
    DataIsSlice
PROPERTIES
    ImplementsFileStream
    ReadReturns
