\* Both deployments; payments of one and two fees around a threshold of 2; the
\* setters can move the fee and the threshold under jobs already paid for.
SPECIFICATION BridgeSpec
CONSTANTS
    Deployments = {"direct", "proxied"}
    Requestors = {governor}
    Specs = {spec}
    Results = {result}
    Wallets = {wallet}
    ZeroAddress = zero
    DefaultWallet = wallet
    DefaultFee = 1
    DefaultMinAutoPay = 2
    Payments = {0, 1, 2}
    Fees = {0, 1}
    MinAutoPays = {1, 3}
    MaxJobs = 3
    ReportIds = {0, 1}
    MaxReports = 2
INVARIANTS
    BridgeTypeOK
    EscrowMatchesBalance
PROPERTIES
    FeesConserved
    EscrowPaidOut
