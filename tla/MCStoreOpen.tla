---------------------------- MODULE MCStoreOpen ----------------------------
EXTENDS StoreOpen

CONSTANTS p1, p2, r1, r2, pw1, pw2
=============================================================================
