-------------------------- MODULE MCCaptionIngress --------------------------
EXTENDS CaptionIngress

\* Batches of two packets, of which one may fail.
Two == {<<2, 1>>}
=============================================================================
