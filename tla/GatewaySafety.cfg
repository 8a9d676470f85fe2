SPECIFICATION WarmSpec
CONSTANTS
    Requests = {r1, r2}
    Apis <- SharedApis
    Auth <- SharedAuth
    Secrets = {1, 2}
    SecretOf <- SharedSecretOf
    AuthURL <- SharedURL
    Endpoint <- SharedEndpoint
    CallerTokens = {}
    endpoint = endpoint
    NoEndpoint = NoEndpoint
    CredsOf <- TwoCredsOf
    NoCredentials = NoCredentials
    Serials = {1, 2, 3, 4, 5, 6}
    Nil = Nil
    Custom = Custom
    Lifetimes = TRUE
    MaxChanges = 1
    MaxFaults = 0
SYMMETRY CallerSymmetry
INVARIANTS TypeOK NeverResent RoutedToItsApi
