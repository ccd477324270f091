SPECIFICATION Spec
CONSTANTS
    jdk = jdk
    None = None
    Cacerts = {jdk}
    MaxIOErrors = 0
INVARIANT ReadOnlyServed
CHECK_DEADLOCK FALSE
