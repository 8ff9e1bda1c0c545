--------------------------- MODULE MCAlertIntake ---------------------------
EXTENDS AlertIntakeProps, TLC

CONSTANTS a1, c1, c2, d1, d2

MCAlerts == {a1}
MCContents == {c1, c2}
MCSlots == {d1, d2}
MCSenders == {"signed", TENANT_ENGINEER, TENANT_LEADERSHIP}

=============================================================================
