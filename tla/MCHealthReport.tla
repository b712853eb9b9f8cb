--------------------------- MODULE MCHealthReport ---------------------------
EXTENDS HealthReport

Config(e, d, a, m) == [enabled |-> e, delivery |-> d, addr |-> a, max |-> m]

SomeConfigs == {Config(TRUE, "forward", TRUE, 2), Config(TRUE, "forward", TRUE, 0),
                Config(FALSE, "forward", TRUE, 2)}
=============================================================================
