---------------------------- MODULE MCCheckOutcomes ----------------------------
\* A small instance of CheckOutcomes: the pages of three assets are read, one of
\* a check without oddities, one that tells unknown states, and one that takes
\* failed checks for states.
EXTENDS CheckOutcomes
SomeChecks == {VultrServer, AwsLoadBalancer, AwsSecurity}
=============================================================================
