\* Two requests of any route by anybody, of one or two chunks, pages of two.
SPECIFICATION ApiSpec
CONSTANTS
    short = short
    ten = ten
    other = other
    eleven = eleven
    admin = admin
    known = known
    guest = guest
    Users = {short, ten, other, eleven}
    SessionId <- MCSessionId
    Uids = {admin, known, guest}
    Registered <- MCRegistered
    Admins = {short}
    NoUser = NoUser
    PerPage = 2
    Exts = {jpg, png}
    NoExt = NoExt
    MaxUploads = 2
    MaxSize = 2
INVARIANTS
    ApiTypeOK
    PathsSpellIds
    CoversBelongToOneUser
    RowsLeadToFiles
    OneIdPerUid
    PagesAreNotOverpromised
PROPERTY
    RequestsAreAnswered
