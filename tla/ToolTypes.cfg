\* create_object, drop_object and list_objects with every documented type, one
\* caller: expected to be violated by the type "database" and by six of the
\* eight types that list_objects names.
CONSTANTS
    Callers = {c1}
    Conns = {k1}
    Nobody = Nobody
    MaxWaiting = 1
    AuditRequired = FALSE
    AllowWrite = TRUE
    MaxItems = 1
    Calls <- TypedCalls
SPECIFICATION Spec
INVARIANTS
    DocumentedTypesWork
