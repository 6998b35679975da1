\* Two players share two packets, which are used again and again.
SPECIFICATION StreamSpec
CONSTANTS
    Outputs = {o1, o2}
    Packets = {p1, p2}
    fNumBookmarks = 1
    sOverBufferInMsec = 0
    sMaxPacketAgeMSec = 1
    MaxWaiting = 1
    NoPacket = NoPacket
SYMMETRY Symmetry
INVARIANTS BookmarkIsKept NothingSkipped
