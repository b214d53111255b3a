-------------------------------- MODULE Linker --------------------------------
(***************************************************************************)
(* Linker/linker.c, linker_symbols.c, linker_gc.c: from the object files   *)
(* and the archives of one link to the global symbol table and the set of  *)
(* input sections that are kept.  A link reads every object, then the      *)
(* member that defines the entry symbol, then walks the symbol table in    *)
(* the order of its hash, again and again, and reads the member that       *)
(* defines each undefined symbol it meets.  Sections are then collected    *)
(* from the roots, and symbols that are still undefined are reported.      *)
(*                                                                         *)
(* A file is a record: defs[n] says how it defines the name n, size[n] how *)
(* large, refs[s] the global names the section s refers to, weak the names *)
(* whose reference is weak.  Every name defined in a section has a section *)
(* of its own; Initial is a section the collector keeps by its name or     *)
(* flags (.init_array).  Members are read without error.                   *)
(***************************************************************************)
EXTENDS Integers, Sequences, FiniteSets, FiniteSetsExt

CONSTANTS
    Names, Entry, Initial,
    Inputs      \* the links: objects, archive members, shared libraries, hash order

VARIABLES
    input,          \* the link, fixed
    phase,
    linked,         \* linker->files, in order
    table,          \* linker->global_symbol_table
    position,       \* of the traversal
    before,         \* old_num_symbols
    errors,         \* <<message, name>>
    live,           \* sections not discarded
    worklist        \* a stack in the code; any section of it may be next here

vars == <<input, phase, linked, table, position, before, errors, live, worklist>>

Absent == [place |-> "absent"]

Init ==
    /\ input \in Inputs
    /\ phase = "objects" /\ linked = << >> /\ table = [n \in Names |-> Absent]
    /\ position = 1 /\ before = 0 /\ errors = {} /\ live = {} /\ worklist = {}

-----------------------------------------------------------------------------
\* A file's symbol table.  place is st_shndx: undefined, common or a section.

Referred(file) == UNION {file.refs[s] : s \in DOMAIN file.refs}

Place(file, n) ==
    IF file.defs[n] # "none" THEN IF file.defs[n] = "common" THEN "common" ELSE "section"
    ELSE IF n \in Referred(file) THEN "undefined" ELSE "absent"

Weak(file, n) ==
    \/ file.defs[n] = "weak"
    \/ file.defs[n] = "none" /\ n \in file.weak

Symbol(file, n) ==
    [place |-> Place(file, n), weak |-> Weak(file, n), size |-> file.size[n],
     defined |-> Place(file, n) # "undefined", file |-> file.id, dynamic |-> FALSE]

BothCommon(old, new) == old.place = "common" /\ new.place = "common"

\* Seeded fault: two common symbols collide.
DuplicateOfCommons(old, new) ==
    new.defined /\ old.defined /\ ~old.weak /\ ~new.weak

Duplicate(old, new) ==
    new.defined /\ old.defined /\ ~BothCommon(old, new) /\ ~old.weak /\ ~new.weak

\* Seeded fault: the strong definition leaves the file of the weak one.
RedefineKeepsFile(old, new) ==
    IF new.defined /\ (old.weak \/ ~old.defined) THEN [new EXCEPT !.file = old.file] ELSE old

RedefineSymbol(old, new) ==
    IF ~new.defined
    THEN IF ~old.defined /\ old.weak /\ ~new.weak
         THEN [old EXCEPT !.weak = FALSE, !.size = new.size, !.file = new.file]
         ELSE old
    ELSE IF ~old.defined THEN new
    ELSE IF BothCommon(old, new) THEN [old EXCEPT !.size = Max({@, new.size})]
    ELSE IF old.weak /\ ~new.weak THEN new
    ELSE old

ReadSymbol(old, new) ==
    IF new.place = "absent" THEN old
    ELSE IF old = Absent THEN new
    ELSE RedefineSymbol(old, new)

\* What is assumed of the constants: a link names an object, its files are told
\* apart by their names, and the table's hash comes to every name.
IsFile(file) ==
    /\ file.defs \in [Names -> {"none", "weak", "strong", "common"}]
    /\ file.size \in [Names -> Nat] /\ file.weak \subseteq Names
    /\ file.refs \in [Names \cup {Initial} -> SUBSET Names]

Files(link) == Range(link.objects) \cup Range(link.members)

IsLink(link) ==
    /\ \A f \in Files(link) : IsFile(f)
    /\ link.objects \in Seq(Files(link)) /\ link.members \in Seq(Files(link))
    /\ \A f, g \in Files(link) : f.id = g.id => f = g
    /\ \A i, j \in DOMAIN link.objects : link.objects[i] = link.objects[j] => i = j
    /\ Range(link.objects) \cap Range(link.members) = {}
    /\ link.order \in Seq(Names) /\ Range(link.order) = Names
    /\ \E f \in Range(link.objects), n \in Names : Place(f, n) # "absent"

LinkerConstants ==
    /\ IsFiniteSet(Names) /\ Entry \in Names /\ Initial \notin Names
    /\ \A link \in Inputs : IsLink(link)

SectionsOf(file) ==
    {<<file.id, s>> : s \in {n \in Names : Place(file, n) = "section"} \cup {Initial}}

\* LinkerReadObjectFile, LinkerReadObjectFileFromArchive
ReadFile(file) ==
    /\ linked' = Append(linked, file)
    /\ table' = [n \in Names |-> ReadSymbol(table[n], Symbol(file, n))]
    /\ errors' = errors \cup
          {<<"Multiple definition", n>> : n \in
              {n \in Names : /\ table[n] # Absent /\ Place(file, n) # "absent"
                             /\ Duplicate(table[n], Symbol(file, n))}}

\* object_count of the table
SymbolCount == Cardinality({n \in Names : table[n] # Absent})

-----------------------------------------------------------------------------
\* Every object, then the entry symbol, then the passes.

Defining(n) == {i \in DOMAIN input.members : Place(input.members[i], n) \in {"common", "section"}}

\* ARArchiveFindSymbol on each archive in turn
FindInStaticLibraries(n) == input.members[Min(Defining(n))]

ReadObject ==
    /\ phase = "objects"
    /\ IF position <= Len(input.objects)
       THEN /\ ReadFile(input.objects[position])
            /\ position' = position + 1 /\ UNCHANGED phase
       ELSE /\ phase' = "entry" /\ position' = 1
            /\ UNCHANGED <<linked, table, errors>>
    /\ UNCHANGED <<input, before, live, worklist>>

ResolveEntrySymbol ==
    /\ phase = "entry" /\ phase' = "begin"
    /\ IF Defining(Entry) # {}
       THEN ReadFile(FindInStaticLibraries(Entry))
       ELSE UNCHANGED <<linked, table, errors>>
    /\ UNCHANGED <<input, position, before, live, worklist>>

BeginPass ==
    /\ phase = "begin" /\ phase' = "pass"
    /\ before' = SymbolCount /\ position' = 1
    /\ UNCHANGED <<input, linked, table, errors, live, worklist>>

\* Seeded fault: a weak reference is enough to link a member.
WantedWeakly(n) == table[n] # Absent /\ ~table[n].defined

Wanted(n) == table[n] # Absent /\ ~table[n].defined /\ ~table[n].weak

ResolveUndefined ==
    /\ phase = "pass" /\ position <= Len(input.order)
    /\ LET n == input.order[position] IN
       IF Wanted(n) /\ Defining(n) # {}
       THEN ReadFile(FindInStaticLibraries(n))
       ELSE /\ table' = IF Wanted(n) /\ n \in input.dynamic
                        THEN [table EXCEPT ![n].defined = TRUE, ![n].dynamic = TRUE]
                        ELSE table
            /\ UNCHANGED <<linked, errors>>
    /\ position' = position + 1
    /\ UNCHANGED <<input, phase, before, live, worklist>>

\* Seeded faults: one pass; passes until every name is defined.
OnePass == TRUE
NothingWanted == \A n \in Names : ~Wanted(n)

PassesAreOver == SymbolCount = before

EndPass ==
    /\ phase = "pass" /\ position > Len(input.order)
    /\ phase' = IF PassesAreOver THEN "collect" ELSE "begin"
    /\ UNCHANGED <<input, linked, table, position, before, errors, live, worklist>>

-----------------------------------------------------------------------------
\* LinkerGarbageCollectSections

AllSections == UNION {SectionsOf(f) : f \in Range(linked)}

SectionOf(n) ==
    IF table[n] # Absent /\ table[n].place = "section" THEN {<<table[n].file, n>>} ELSE {}

Roots ==
    {s \in AllSections : s[2] = Initial} \cup SectionOf(Entry)
    \cup IF input.dso THEN UNION {SectionOf(n) : n \in Names} ELSE {}

FileNamed(id) == CHOOSE f \in Range(linked) : f.id = id

\* BuildSectionRelocGraph
References(s) == UNION {SectionOf(n) : n \in FileNamed(s[1]).refs[s[2]]}

MarkLive(sections) ==
    /\ live' = live \cup sections
    /\ worklist' = worklist \cup (sections \ live)

MarkRoots ==
    /\ phase = "collect"
    /\ IF input.gc
       THEN phase' = "mark" /\ MarkLive(Roots)
       ELSE phase' = "check" /\ live' = AllSections /\ UNCHANGED worklist
    /\ UNCHANGED <<input, linked, table, position, before, errors>>

\* Seeded fault: what a kept section refers to is not followed further.
MarkDirectReferences ==
    /\ phase = "mark"
    /\ \E s \in worklist : live' = live \cup References(s) /\ worklist' = worklist \ {s}
    /\ UNCHANGED <<input, phase, linked, table, position, before, errors>>

MarkReferences ==
    /\ phase = "mark"
    /\ \E s \in worklist :
          /\ live' = live \cup References(s)
          /\ worklist' = (worklist \ {s}) \cup (References(s) \ live)
    /\ UNCHANGED <<input, phase, linked, table, position, before, errors>>

EndCollection ==
    /\ phase = "mark" /\ worklist = {} /\ phase' = "check"
    /\ UNCHANGED <<input, linked, table, position, before, errors, live, worklist>>

\* LinkerCheckForUndefinedSymbols; a shared object leaves them to the loader
CheckUndefined ==
    /\ phase = "check" /\ phase' = "done"
    /\ errors' = errors \cup
          (IF input.dso THEN {} ELSE {<<"Undefined symbol", n>> : n \in {n \in Names : Wanted(n)}})
    /\ UNCHANGED <<input, linked, table, position, before, live, worklist>>

Done == phase = "done" /\ UNCHANGED vars

Next ==
    \/ ReadObject \/ ResolveEntrySymbol \/ BeginPass \/ ResolveUndefined \/ EndPass
    \/ MarkRoots \/ MarkReferences \/ EndCollection \/ CheckUndefined \/ Done

Spec == Init /\ [][Next]_vars

-----------------------------------------------------------------------------
(***************************************************************************)
(* What the table means, from the files in the order they were linked and  *)
(* not from the steps that merged them.                                    *)
(***************************************************************************)
Positions == DOMAIN linked

DefiningFiles(n) == {i \in Positions : Place(linked[i], n) \in {"common", "section"}}

StrongFiles(n) == {i \in DefiningFiles(n) : ~Weak(linked[i], n)}

ReferringFiles(n) == {i \in Positions : Place(linked[i], n) = "undefined"}

Winner(n) == Min(IF StrongFiles(n) # {} THEN StrongFiles(n) ELSE DefiningFiles(n))

Commons(n) == {i \in Positions : Place(linked[i], n) = "common"}

SizeOf(n) ==
    IF Winner(n) \in Commons(n) THEN Max({linked[i].size[n] : i \in Commons(n)})
    ELSE linked[Winner(n)].size[n]

(***************************************************************************)
(* A name is bound to the first strong definition among the files linked,  *)
(* or to the first weak one; a common symbol is as large as its largest    *)
(* definition; an undefined name is weak only if every reference to it is. *)
(* (RedefineSymbol, whatever order objects and members come in.)           *)
(***************************************************************************)
BoundAsLinked ==
    \A n \in Names :
        IF DefiningFiles(n) # {}
        THEN /\ table[n].defined /\ ~table[n].dynamic
             /\ table[n].file = linked[Winner(n)].id
             /\ table[n].place = Place(linked[Winner(n)], n)
             /\ table[n].size = SizeOf(n)
        ELSE IF ReferringFiles(n) # {}
        THEN /\ table[n].place = "undefined"
             /\ table[n].defined = table[n].dynamic
             /\ table[n].weak <=> \A i \in ReferringFiles(n) : Weak(linked[i], n)
        ELSE table[n] = Absent

(***************************************************************************)
(* "Multiple definition" is reported of a name exactly when two linked     *)
(* files define it strongly, other than as commons both.  (RedefineSymbol) *)
(***************************************************************************)
DuplicatesReported ==
    \A n \in Names :
        <<"Multiple definition", n>> \in errors <=>
            \E i \in StrongFiles(n) : \E j \in StrongFiles(n) :
                i < j /\ ~(i \in Commons(n) /\ j \in Commons(n))

(***************************************************************************)
(* No archive member is linked twice, and each that is linked is the first *)
(* to define the entry symbol or a name that another linked file refers to *)
(* strongly.  (ResolveUndefined, while the table it walks grows)           *)
(***************************************************************************)
MembersLinkedOnceWhenNeeded ==
    /\ \A i, j \in Positions : i # j => linked[i].id # linked[j].id
    /\ \A i \in Positions : linked[i] \in Range(input.members) =>
          \E n \in Names :
              /\ Defining(n) # {} /\ FindInStaticLibraries(n) = linked[i]
              /\ \/ n = Entry
                 \/ \E j \in ReferringFiles(n) : j # i /\ ~Weak(linked[j], n)

Resolved == phase \in {"collect", "mark", "check", "done"}

LeftBehind(n) == Wanted(n) /\ (Defining(n) # {} \/ n \in input.dynamic)

(***************************************************************************)
(* After the last pass no undefined symbol is left that an archive or a    *)
(* shared library defines.  ("Resolve all undefined symbols in the         *)
(* libraries.", linker.c:1099; "Undefined symbols are resolved from those  *)
(* archives.", docs/linker.md:100)                                         *)
(***************************************************************************)
NothingLeftToLoad == Resolved => \A n \in Names : ~LeftBehind(n)

(***************************************************************************)
(* The same of the names that no linked file refers to weakly: the passes  *)
(* are repeated often enough for these, however the hash orders the names. *)
(***************************************************************************)
NothingStrongLeftToLoad ==
    Resolved => \A n \in Names :
        LeftBehind(n) => \E i \in ReferringFiles(n) : Weak(linked[i], n)

Closed(sections) == \A s \in sections : References(s) \subseteq sections

(***************************************************************************)
(* The sections kept are the least set that has the roots and every        *)
(* section a kept one refers to: nothing used is dropped, nothing unused   *)
(* survives.  (LinkerGarbageCollectSections)                               *)
(***************************************************************************)
KeptIsReachable ==
    (phase \in {"check", "done"} /\ input.gc) =>
        /\ Roots \subseteq live /\ Closed(live)
        /\ \A s \in SUBSET (live \ Roots) : Closed(Roots \cup s) => Roots \cup s = live

(***************************************************************************)
(* Every pass begins with more names than the one before it: there are no  *)
(* more passes than names, whatever the members bring.                     *)
(* (LinkerResolveLibrarySymbols)                                           *)
(***************************************************************************)
BeginsWithMore == (phase = "begin" /\ phase' = "pass") => before' > before
PassesAreFew == [][BeginsWithMore]_vars

\* What is linked, and what the names are bound to, follow from the inputs
\* and not from the order of the walks (linker.c, linker_symbols.c).
LinkSafe ==
    /\ [](BoundAsLinked /\ DuplicatesReported)
    /\ [](MembersLinkedOnceWhenNeeded /\ NothingStrongLeftToLoad)
    /\ PassesAreFew
=============================================================================
