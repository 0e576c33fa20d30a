---------------------------- MODULE MCSvcEndPoint ----------------------------
EXTENDS SvcEndPoint

CONSTANTS e1, e2

OneEndPoint  == {e1}
TwoEndPoints == {e1, e2}
AllKinds     == {"STEP1", "STEP2", "STEP3", "other"}
JustStep2    == {"STEP2"}
Symmetric    == Permutations(EndPoints)
==============================================================================
