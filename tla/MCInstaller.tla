---------------------------- MODULE MCInstaller ----------------------------
EXTENDS Installer

CONSTANTS w1, w2, a, b, d1, d2
=============================================================================
