---------------------------- MODULE MCFairShare ----------------------------
EXTENDS FairShare
=============================================================================
