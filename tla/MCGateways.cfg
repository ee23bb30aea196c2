\* One payment, three words of its provider, one fault.
CONSTANTS
    Payments = {p1}
    Deployments <- MCDeployments
    Channels <- MCChannels
    Amounts <- MCAmounts
    Providers <- MCProviders
    FallbackPriority <- MCPriority
    MaxWords = 3
    MaxFaults = 1
SPECIFICATION Spec
INVARIANTS
    GatewaysTypeOK
    PaidOnlyIfPaid
    RowFollowsGateway
PROPERTIES
    ChosenIsCheapest
CHECK_DEADLOCK FALSE
