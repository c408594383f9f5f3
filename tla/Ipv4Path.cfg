SPECIFICATION PathSpec
CONSTANTS
    six = six
    any6 = any6
    V4 = {17, 31}
    V6 = {six}
    Unspecified4 = 0
    Unspecified6 = any6
    MaxBindings = 3
    AddressBits = 6
    OurMac <- MCOurMac
    PeerMac <- MCPeerMac
    PeerAddress = 20
    PeerPrefix = 2
    Port = 515
    Mtu = 100
    Identification = 40000
    Identifier = 300
    Sequence = 65535
    Times <- MCTimes
    Grants <- MCGrants
    RouteRequests <- MCRouteRequests
    Destinations = {20, 31, 40}
    PeerDestinations = {17, 18, 31, 63}
    Payloads <- MCPayloads
    PeerPayloads <- MCPeerPayloads
    Tags <- MCTags
    Codes = {1, 3}
    Complaints <- MCComplaints
    MaxSteps = 3
CHECK_DEADLOCK FALSE
INVARIANTS
    RoutesAreSound
    HeardAsMeant
    DatagramsFindTheirListener
    FramesFit
    SharingIsAgreed
PROPERTIES
    ListenersStay
