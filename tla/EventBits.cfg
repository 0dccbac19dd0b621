CONSTANT W = 4

SPECIFICATION Spec

INVARIANT PredicateMatchesDoc
