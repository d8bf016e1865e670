SPECIFICATION Spec
CONSTANTS
    Sinks = {s1}
    Closed = Closed
    Readers = {r1}
    NoRead = NoRead
    Zero = Zero
    MaxInt = 3
    Offsets <- Int64
    Amounts = {0}
    Sizes <- UInt64
    Chunk = 2
    MaxLen = 3
PROPERTIES
    WritesAtOffset
