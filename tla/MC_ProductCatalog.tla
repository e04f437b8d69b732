-------------------------- MODULE MC_ProductCatalog --------------------------
EXTENDS ProductCatalog, TLC

Symmetry == Permutations(Products)
=============================================================================
