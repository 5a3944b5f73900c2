CONSTANTS
    m1 = m1
    m2 = m2
    m3 = m3
    Msgs = {m1, m2, m3}
    Ids = {"a", "b", "c"}
    IdOf <- TwiceId
    Expiring = {"a"}
    Sources = {"poller", "webhook"}
    ChCap = 1
    EvCap = 1
    Slots = 1
    MaxParts = 2
    Watched = {m1}
    Followed = {m1}
    MaxWire = 1
    Tailscale = FALSE
    Words <- MCWords
    Lower <- MCLower
    Roles <- MCRoles
    Definitions <- MCDefinitions
    Text <- TwiceText
    RoleOf <- TwiceRole
    SenderOf <- TwiceSender
SPECIFICATION Spec
INVARIANTS TypeOK Accounted
PROPERTIES NoTypingAfterAnswer ImplementsConversation
