-------------------------- MODULE MCDynamoFrequency --------------------------
\* Two containers, one subject capped at two.
EXTENDS DynamoFrequency, TLC

CONSTANT k1

MCOneCap == k1 :> 2

ContainerSymmetry == Permutations(Containers)
==============================================================================
