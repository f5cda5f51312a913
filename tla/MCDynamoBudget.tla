---------------------------- MODULE MCDynamoBudget ----------------------------
\* One line item, which has room for two impressions a day.
EXTENDS DynamoBudget, TLC

MCBudget == <<2>>

ContainerSymmetry == Permutations(Containers)
===============================================================================
