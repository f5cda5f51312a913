--------------------------- MODULE MCBillingLedger ---------------------------
\* The ad of a line item billed per impression.
EXTENDS BillingLedger, TLC

CONSTANT r1

MCPricing == r1 :> "CPM"

ContainerSymmetry == Permutations(Containers)
==============================================================================
