CONSTANTS
    Senders = {a1, a2, a3}
    Receivers = {b1, b2}
    Waiters = {a1, a2, a3, b1, b2}
    Capacities = {0, 1, 2, 9}
    Unbounded = 9
    Modes = {"wait", "token"}
    TokenSends = 2
    None = None
SYMMETRY Symmetry
SPECIFICATION SafeSpec
INVARIANTS ResultsAreHonest WakesAreExact
PROPERTIES FifoButForClose
CHECK_DEADLOCK FALSE
