SPECIFICATION FairSpec
CONSTANTS
    DRIVES = 3
    Kinds = {"absent", "floating", "ata", "atapi"}
    IDENTIFY_WORDS = 2
    PACKET_SIZES = {4, 6}
    RESP_BYTES = 4
    Counts = {2, 4, 6}
    HELD_MAX = 2
CHECK_DEADLOCK FALSE
INVARIANT DataWhenReady
PROPERTY Ends
