------------------------------ MODULE MCAcmHub ------------------------------
EXTENDS AcmHub
=============================================================================
