\* The deployment of deployContracts.ts and of the test, where nobody may report an
\* error: two proposals, whose jobs anybody may cancel, and two reports, so that both
\* are decided.  The one transfer is of the initial supply and all rewards together.
SPECIFICATION FairSpec
CONSTANTS
    p1 = p1
    p2 = p2
    u1 = u1
    u2 = u2
    n1 = n1
    h1 = h1
    ProposalIds = {p1, p2}
    Subject = p1
    ZeroId = p0
    Calls <- MCCalls
    MayPropose <- MCMayPropose
    Digits = 2
    Address <- MCAddress
    Description <- MCDescription
    NoUser = nobody
    Ether = 2
    VotingPeriods = {1}
    Quorums = {2}
    EmissionRates = {1}
    DockerImages = {image}
    DefaultImage = image
    DefaultEmission = 1
    Responses <- AcceptedOnly
    Undecodable = noise
    ErrorMessages = {error}
    MaxTime = 3
    Users = {u1, u2}
    Deployer = u1
    InitialSupply = 5
    TransferAmounts = {8}
    Names = {n1}
    EmptyName = empty
    Hashes = {h1}
    NoHash = nohash
    Deployments = {"direct"}
    GovernorAddress = governor
    OtherClients = {}
    OtherSpec = otherSpec
    Wallets = {wallet}
    ZeroAddress = zero
    DefaultWallet = wallet
    DefaultFee = 1
    DefaultMinAutoPay = 1
    MaxJobs = 2
    MaxReports = 2
    MaxOtherJobs = 0
INVARIANTS
    GovernorTypeOK
    VotingClosedBeforeTally
    RegistryGoverned
    ProposerRespected
PROPERTIES
    ExecutionIsGoverned
    
