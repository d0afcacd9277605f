-------------------------- MODULE MCCaptionPipeline --------------------------
EXTENDS CaptionPipeline

NoLists == {}
OneProfile == {[maxItems |-> 2, window |-> 1, interimTTL |-> 1, finalTTL |-> 2, show |-> TRUE]}
=============================================================================
