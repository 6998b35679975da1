\* Packets that are not for the broadcast come in between.
SPECIFICATION FairStreamSpec
CONSTANTS
    Outputs = {o1}
    Packets = {p1}
    fNumBookmarks = 1
    sOverBufferInMsec = 0
    sMaxPacketAgeMSec = 1
    MaxWaiting = 2
    NoPacket = NoPacket
PROPERTY OutstandingAreReceived
CHECK_DEADLOCK FALSE
