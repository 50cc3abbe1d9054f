SPECIFICATION Spec
CONSTANTS
    s1 = s1  s2 = s2  closer = closer
    Subscriber = {s1, s2}
    Closer = {closer}
    Frames = 3
    Monitor = {2}
    MaxReaders = 2
SYMMETRY Streams
CONSTRAINT Explored
INVARIANTS StreamInOrder NothingLost PortHasOneReader ReaderServesStreams
