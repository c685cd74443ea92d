------------------------------ MODULE MCSshPin ------------------------------
EXTENDS SshPin, TLC

CONSTANTS y1, y2
=============================================================================
