---------------------------- MODULE MCFlowControl ----------------------------
EXTENDS FlowControl

TwoTemps == <<"t1", "t2">>
=============================================================================
