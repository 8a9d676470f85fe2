SPECIFICATION FairSpec
CONSTANTS
    Requests = {r1}
    Apis <- MixedApis
    Auth <- MixedAuth
    Secrets = {1, 2}
    SecretOf <- MixedSecretOf
    AuthURL <- MixedURL
    Endpoint <- MixedEndpoint
    CallerTokens <- MixedCallerTokens
    endpoint = endpoint
    NoEndpoint = NoEndpoint
    CredsOf <- TwoCredsOf
    NoCredentials = NoCredentials
    Serials = {1, 2, 3, 4, 5, 6}
    Nil = Nil
    Custom = Custom
    Lifetimes = TRUE
    MaxChanges = 2
    MaxFaults = 1
PROPERTIES Answered RequestsAreServedAgain
