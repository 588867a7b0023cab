---------------------------- MODULE MCAlfParameters ----------------------------
EXTENDS AlfParameters
================================================================================
