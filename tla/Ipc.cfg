SPECIFICATION Spec
CONSTANTS
    NumEntries = 2
    Data = {"zero", "a", "b"}
    Zero = "zero"
    Words = {"a", "b"}
    Nibbles = {0, 5, 9}
    Masks = {{}, {"Sync"}}
    Senders = {"ARM9"}
    Uses = {{"IF", "IPCFIFOCNT", "IPCFIFOSEND", "IPCFIFORECV"},
            {"IME", "IE", "IF", "IPCSYNC"}}
INVARIANTS TypeOK LineFollows
PROPERTIES Signalled ImplementsChannel
