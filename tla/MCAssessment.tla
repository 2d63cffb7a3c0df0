---------------------------- MODULE MCAssessment ----------------------------
EXTENDS Assessment

MCMinimumBits == [RSA |-> 2048, EC |-> 224]
=============================================================================
