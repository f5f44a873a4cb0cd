---------------------------- MODULE MCContinuous ----------------------------
\* Continuous collection of one configured target.
EXTENDS Continuous
=============================================================================
