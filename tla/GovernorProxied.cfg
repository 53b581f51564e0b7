\* A bridge behind a proxy, with an operator that may report errors: one proposal, up
\* to two jobs for it and one of somebody else, also in the Governor's name; two
\* different results or errors, each any number of times, early, late, after an error
\* and under ids that no job has; and cancellations by anybody.
SPECIFICATION Spec
CONSTANTS
    p1 = p1
    p2 = p2
    u1 = u1
    u2 = u2
    n1 = n1
    h1 = h1
    ProposalIds = {p1}
    Subject = p1
    ZeroId = p0
    Calls <- MCCalls
    MayPropose <- MCMayPropose
    Digits = 2
    Address <- MCAddress
    Description <- MCDescription
    NoUser = nobody
    Ether = 2
    VotingPeriods = {1}
    Quorums = {1}
    EmissionRates = {1}
    DockerImages = {image}
    DefaultImage = image
    DefaultEmission = 1
    Responses <- MajorityOrNot
    Undecodable = noise
    ErrorMessages = {error}
    MaxTime = 3
    Users = {u1, u2}
    Deployer = u1
    InitialSupply = 5
    TransferAmounts = {}
    Names = {n1}
    EmptyName = empty
    Hashes = {h1}
    NoHash = nohash
    Deployments = {"proxied"}
    GovernorAddress = governor
    OtherClients = {other}
    OtherSpec = otherSpec
    Wallets = {wallet}
    ZeroAddress = zero
    DefaultWallet = wallet
    DefaultFee = 1
    DefaultMinAutoPay = 1
    MaxJobs = 3
    MaxReports = 2
    MaxOtherJobs = 1
INVARIANTS
    JobsMatchBridge
    TallyFromOwnJob
    ClaimsBacked
    SupplyAccounted
PROPERTIES
    VerdictStable
    
