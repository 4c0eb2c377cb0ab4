SPECIFICATION Spec
CONSTANTS
    Handlers = {h1, h2}
    h1 = h1
    h2 = h2
    Infos = {i1, i2}
    i1 = i1
    i2 = i2
    NoInfo = NoInfo
    Reports <- MCReports
    Uploads <- MCUploads
    Paths = {p1}
    p1 = p1
    Cooldown = 2
    MaxRequests = 3
SYMMETRY Symmetric
INVARIANTS TypeOK DeviceInfoSingle LastRequestShows EventsAccounted
PROPERTIES WarnsSpaced
