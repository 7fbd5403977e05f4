CONSTANT Names <- MCNames
CONSTANT Extras <- MCExtras
CONSTANT Datas <- MCDatas
CONSTANT Comments <- MCComments
CONSTANT Dangling = Dangling
CONSTANT Crc <- MCCrc
CONSTANT W16 = 6
CONSTANT W32 = 65536
CONSTANT EmptyResize = 1
CONSTANT MaxCap = 2
SPECIFICATION Spec
CONSTRAINT NameOfEach
CHECK_DEADLOCK FALSE
INVARIANT TypeOK
INVARIANT Paired
INVARIANT Readable
INVARIANT ParsedBack
PROPERTY HandlesKept
