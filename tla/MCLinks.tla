------------------------------- MODULE MCLinks -------------------------------
(***************************************************************************)
(* Small links: a program, a second object, two archive members, a shared  *)
(* library; what each defines and refers to, strongly or weakly, and the   *)
(* order in which the hash table is walked.                                *)
(***************************************************************************)
EXTENDS Naturals, Sequences

None == [n \in {"start", "a", "b"} |-> "none"]
Ones == [n \in {"start", "a", "b"} |-> 1]
NoRefs == [s \in {"start", "a", "b", "initial"} |-> {}]

File(id, defs, size, refs, weak) ==
    [id |-> id, defs |-> defs, size |-> size, refs |-> refs, weak |-> weak]

Defs(n, how) == [None EXCEPT ![n] = how]

\* The program refers to a and b from its entry or its constructors.
Programs ==
    {p \in {File("main", Defs("start", "strong"), Ones,
                [NoRefs EXCEPT !["start"] = r, !["initial"] = i], w) :
            r \in {{}, {"a"}, {"a", "b"}}, i \in {{}, {"b"}}, w \in SUBSET {"a", "b"}} :
        p.weak \subseteq p.refs["start"] \cup p.refs["initial"]}

\* A second object defines or refers to one of them.
Others ==
    {File("other", Defs("a", d), [Ones EXCEPT !["a"] = 2],
          [NoRefs EXCEPT !["a"] = r], {}) :
        d \in {"strong", "weak", "common"}, r \in {{}, {"b"}}}

MembersA ==
    {<<File("ma", Defs("a", d), Ones, [NoRefs EXCEPT !["a"] = r], {})>> :
        d \in {"strong", "weak", "common"}, r \in {{}, {"b"}}}

MembersB ==
    {<<File("mb", [None EXCEPT !["b"] = "strong", !["a"] = d], [Ones EXCEPT !["a"] = 3],
          [NoRefs EXCEPT !["b"] = r], {})>> :
        d \in {"none", "strong", "common"}, r \in {{}, {"a"}}}

EntryMember ==
    <<File("crt", Defs("start", "strong"), Ones, [NoRefs EXCEPT !["start"] = {"a"}], {})>>

Alone == {<<p>> : p \in Programs}
Pairs == {<<p, o>> : p \in Programs, o \in Others}
Archives == {ma \o mb : ma \in MembersA, mb \in MembersB}

Inputs ==
    [objects : Alone, members : Archives, dynamic : {{}},
     order : {<<"start", "a", "b">>, <<"b", "a", "start">>}, gc : {TRUE}, dso : {FALSE}]
    \cup
    [objects : Pairs, members : Archives, dynamic : {{}},
     order : {<<"b", "a", "start">>}, gc : {TRUE}, dso : {FALSE}]
    \cup
    [objects : Alone \cup Pairs, members : {<< >>} \cup MembersB, dynamic : {{"a"}},
     order : {<<"a", "b", "start">>}, gc : {TRUE}, dso : {TRUE}]
    \cup
    [objects : {<<o>> : o \in Others}, members : {EntryMember \o mb : mb \in MembersB},
     dynamic : {{}}, order : {<<"a", "start", "b">>}, gc : BOOLEAN, dso : {FALSE}]
=============================================================================
