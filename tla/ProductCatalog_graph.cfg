CONSTANTS
  Products = {p, q}
  p = p
  q = q
  MaxVersion = 3
SYMMETRY Symmetry
SPECIFICATION Spec
INVARIANTS DependenciesPublished GraphAcyclic
