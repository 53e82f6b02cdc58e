---------------------------- MODULE MCActionWake ----------------------------
EXTENDS ActionWake
=============================================================================
