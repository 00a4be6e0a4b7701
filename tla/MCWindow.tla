------------------------------- MODULE MCWindow -------------------------------
EXTENDS Window

=============================================================================
