---------------------------- MODULE MCEnrollment ----------------------------
\* An agent, a forwarder and a clone that share one token, for TLC.
EXTENDS Enrollment
CONSTANTS agent, clone, forwarder, h1, h2
=============================================================================
