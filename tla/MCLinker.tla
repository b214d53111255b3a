------------------------------ MODULE MCLinker ------------------------------
(* The links of MCLinks, for TLC. *)
EXTENDS MCLinks

VARIABLES input, phase, linked, table, position, before, errors, live, worklist

L == INSTANCE Linker WITH
    Names <- {"start", "a", "b"}, Entry <- "start", Initial <- "initial"

Spec == L!Spec

\* "Resolve all undefined symbols in the libraries." (linker.c:1099): no name is
\* left undefined after the last pass that an archive or a library defines.
NothingLeftToLoad == L!NothingLeftToLoad
=============================================================================
