------------------------------ MODULE MCSafety -----------------------------
(***************************************************************************)
(* The values Runtime is checked with.                                     *)
(***************************************************************************)
EXTENDS Runtime, Sequences, SequencesExt, MCLinks

Symmetry == Permutations(Workers)

MCMaxOps == [t \in AllThreads |-> IF t = Main THEN 3 ELSE 2]
MCDso == [h1 |-> "null", h2 |-> "lib", h3 |-> "lib"]

\* What each image needs: chains, diamonds, cycles and a missing library.
Graphs ==
    [main : {<<"a", "b">>, <<"b", "a">>, <<"a">>},
     a : {<< >>, <<"b">>, <<"c">>, <<"c", "b">>},
     b : {<< >>, <<"c">>, <<"c", "a">>},
     c : {<< >>, <<"a">>, <<"missing">>}]

\* A library goes to the search list when the first image that needs it is loaded.
Load(sofar, wanted) ==
    sofar \o SelectSeq(wanted, LAMBDA x : x # "missing" /\ x \notin Range(sofar))
SearchOf(g) ==
    FoldLeft(LAMBDA sofar, k : IF k <= Len(sofar) THEN Load(sofar, g[sofar[k]]) ELSE sofar,
             <<"main">>, <<1, 2, 3, 4>>)

Arrays == {[preinit |-> {"main"}, init |-> i, fini |-> f] :
              i \in {Images, {"main", "a"}}, f \in {Images, {"b", "c"}}}

MCLoads ==
    UNION {[needed : {g}, search : {SearchOf(g)}, pie : BOOLEAN,
            arrays : Arrays, guestFini : BOOLEAN, exitInInit : {g.c = << >>}] :
            g \in {g \in Graphs : Len(SearchOf(g)) = 4}}
=============================================================================
