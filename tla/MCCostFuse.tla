------------------------------ MODULE MCCostFuse ------------------------------
\* Two alarms of the ad fuse, the first delivered twice, one of the analytics fuse and
\* a warning.
EXTENDS CostFuse

MCKindOf == [requests |-> "AD_FUSE", impressions |-> "AD_FUSE",
             events |-> "ANALYTICS_FUSE", spend |-> "WARNING"]
MCMaxDeliveries == [requests |-> 2, impressions |-> 1, events |-> 1, spend |-> 1]
==============================================================================
