--------------------------- MODULE MCVideoOutput ----------------------------
EXTENDS VideoOutput
=============================================================================
