---------------------------- MODULE MCBoundedRun ----------------------------
EXTENDS BoundedRun
CONSTANTS b1, b2
Two == <<b1, b2>>
=============================================================================
