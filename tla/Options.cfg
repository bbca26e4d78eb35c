CONSTANTS
    Kinds = {"HTTPRequest", "Operation"}
    Protocols = {"graphql-ws", "graphql-transport-ws"}
    Fields = {"keepalive", "resultProcessor"}
    MaxOptions = 4
SPECIFICATION Spec
INVARIANTS
    TypeOK
    OrderOfOptions
    HandlerLast
    SettingsEffective
