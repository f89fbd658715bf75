CONSTANTS
    TlsTcp = {"1.2"}
    TlsBudget = 1
    TlsInput = 1
SPECIFICATION TlsSpec
INVARIANTS TlsNobodySleepsInVain TlsResultsAreHonest
CHECK_DEADLOCK FALSE
