-------------------------- MODULE MCProcessGroups --------------------------
EXTENDS ProcessGroups
============================================================================
