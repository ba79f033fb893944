SPECIFICATION Spec
CONSTANTS
    None = None
    g0 = g0
    g1 = g1
    g2 = g2
    outsider = outsider
    GovernanceKeys = {g0, g1, g2, outsider}
    ConsensusKeys = {1, 2, 3, 4, 5}
    Networks = {"lantern", "other"}
    AddressOf <- Address
    Trusted <- Holders
    Payloads <- Proposals
    SignerLists <- Lists
    Labels = {0, 1, 2, 3}
    MaxSignatures = 4
INVARIANTS
    QuorumSigned
    UpdatesReplace
    SigningExact
