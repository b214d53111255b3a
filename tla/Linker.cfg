SPECIFICATION Spec
INVARIANT NothingLeftToLoad
