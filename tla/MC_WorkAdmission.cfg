\* A command, keys, a plugin call and a local page's call, as `asked` chooses.
SPECIFICATION MCSpec
CONSTANTS
    r1 = r1
    k1 = k1
    p1 = p1
    g1 = g1
    Run = {r1}
    Type = {k1}
    Plugin = {p1}
    Page = {g1}
    Nobody = Nobody
INVARIANT WorkIsSafe
INVARIANT ConsentIsSafe
INVARIANT UpdateInterruptsNothing
PROPERTY GateReopens
CHECK_DEADLOCK FALSE
