---------------------------- MODULE MCTargetInstall ----------------------------
\* Instances of TargetInstall for TLC.
EXTENDS TargetInstall
CONSTANTS t1, t2
TwoTargets == {t1, t2}
=============================================================================
