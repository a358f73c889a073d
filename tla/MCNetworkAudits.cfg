SPECIFICATION Spec
CONSTANTS
    local = local
    https = https
    http = http
    NoToken = NoToken
    Variables <- MCVariables
    Normalized <- MCNormalized
    WithPrefix <- MCWithPrefix
    Servers <- MCServers
    Cleartext = {http}
    Malformed <- MCMalformed
    Localhost = local
    Files <- MCFiles
    Timeouts = {0}
INVARIANTS
    TypeOK
    TokenNeverInCleartext
    CredentialsStayTogether
    RequestsAreAsNamed
