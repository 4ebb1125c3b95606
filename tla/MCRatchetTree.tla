---------------------------- MODULE MCRatchetTree ----------------------------
EXTENDS RatchetTree
=============================================================================
