-------------------------- MODULE MCBackgroundWork --------------------------
EXTENDS BackgroundWork

CONSTANTS p1, p2, p3, c1, pass, wake, recovery

TwoJobs == <<wake, recovery>>
=============================================================================
