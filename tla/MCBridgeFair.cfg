CONSTANTS
    m1 = m1
    m2 = m2
    m3 = m3
    Msgs = {m1, m2, m3}
    Ids = {"a", "b", "c"}
    IdOf <- AgentId
    Expiring = {}
    Sources = {"webhook"}
    ChCap = 1
    EvCap = 1
    Slots = 2
    MaxParts = 1
    Watched = {}
    Followed = {}
    MaxWire = 0
    Tailscale = TRUE
    Words <- MCWords
    Lower <- MCLower
    Roles <- MCRoles
    Definitions <- MCDefinitions
    Text <- AgentText
    RoleOf <- AgentRole
    SenderOf <- AgentSender
SPECIFICATION FairSpec
INVARIANTS FunnelNotLeft
PROPERTIES Served SignalEnds
