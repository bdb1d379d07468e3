------------------------------ MODULE MCInbox ------------------------------
EXTENDS RevisionInbox
=============================================================================
