SPECIFICATION ConfigSpec
CONSTANTS
    usb = usb
    tcp = tcp
    knob = knob
    lamp = lamp
    lamp1 = lamp1
    lamp2 = lamp2
    dim = dim
    odd = odd
    entry = entry
    long = long
    night = night
    api = api
    Absent = absent
    Wrong = wrong
    None = none
    ProfileDoc <- MCProfileDoc
    BindingDoc <- MCBindingDoc
    EntryDoc <- MCEntryDoc
    Known <- MCKnown
    Ids = {lamp}
    Behaviors = {"dimmer"}
    Endpoints = {api}
    Transports = {usb, tcp}
    Authenticated = {tcp}
    Button = knob
    Contents <- MCContents
    Dumps <- MCDumps
    SD_MODE_SLOTS = 2
    SD_SAFE_ENTRIES = 1
    SD_PROFILE_JSON_MAX = 2048
    SD_BINDING_JSON_MAX = 1024
    ENTRY_JSON_MAX = 384
    SK_CLI_LINE_BUF = 1024
    CONFIRM_SLOTS = 1
    SK_CLI_MAX_COMMANDS = 128
    MaxEvents = 3
INVARIANTS ConfigTypeOK StoreConsistent 
