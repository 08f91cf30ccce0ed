---------------------------- MODULE MCAskDialog ----------------------------
EXTENDS AskDialog
=============================================================================
