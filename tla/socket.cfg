SPECIFICATION FairSpec
CONSTANTS
    world = world  mapWorker = mapWorker
    nullptr = nullptr
    Sender = {world, mapWorker}
    MaxPackets = 3
    SendBufferSize = 2
    PacketSize = {1, 3}
INVARIANTS
    TypeOK SessionUsedWhileAlive LinksLiveNodes
PROPERTIES
    PacketsInOrder RefusedLearnWhy EnqueuedAreSent
