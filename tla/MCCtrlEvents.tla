----------------------------- MODULE MCCtrlEvents -----------------------------
EXTENDS CtrlEvents
=============================================================================
