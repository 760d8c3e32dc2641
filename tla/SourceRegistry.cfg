\* Three HID slots and one vendor class device: a third source of a kind appears
\* (and stays ignored), and the two pads of a receiver compete with HID sources
\* for the places.
CONSTANTS
    HidInstance = {h1, h2, h3}
    Addr = {a1}
    NoHandler = NoHandler
    NoTarget = NoTarget
    NoSource = NoSource
SPECIFICATION FairSpec
INVARIANTS TypeOK Routing
PROPERTIES ServiceKept PromotedEventually ImplementsPool
