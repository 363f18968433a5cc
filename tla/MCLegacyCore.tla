---------------------------- MODULE MCLegacyCore ----------------------------
EXTENDS LegacyCore
=============================================================================
