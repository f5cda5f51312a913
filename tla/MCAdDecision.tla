--------------------------- MODULE MCAdDecision ---------------------------
\* Guaranteed, preferred and ordinary line items; bids below, at and above the
\* floor and the line items, in half cents.
EXTENDS AdDecision

MCPriorities == {1, 4, 5}
MCValues == {2, 6}
MCOffers == {0, 1, 3, 7}
MCFloors == {0, 4}
=============================================================================
