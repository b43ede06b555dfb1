----------------------------- MODULE PackageLink -----------------------------
(***************************************************************************)
(* From source files to one linked program: analyze_modules of             *)
(* crates/syllog-semantic/src/modules.rs (module identities, definitions,  *)
(* imports, cycles, interface hashes) and compile_package of               *)
(* crates/syllog-compiler/src/package.rs (identities of definitions,       *)
(* members and locals, and what each source's names mean).                 *)
(*                                                                         *)
(* File and module names are numbers (the code sorts them).  An item is    *)
(* its name, visibility, members (fields or variants), number of locals    *)
(* and signature; whether a source parses, its bodies type-check and their *)
(* effects are declared is left to `untyped'.                              *)
(***************************************************************************)
EXTENDS Naturals, FiniteSets, SequencesExt, Graphs

CONSTANTS
  SourceLists, \* sequences of [file, module, items, imports, untyped]
  NoModule     \* module of a source that declares none

VARIABLES listed, linked

linkVars == <<listed, linked>>

-----------------------------------------------------------------------------
(***************************************************************************)
(* Modules and definitions.                                                *)
(***************************************************************************)
ByFile(list) == SortSeq(list, LAMBDA a, b : a.file < b.file)

ModuleNames(list) == {list[i].module : i \in DOMAIN list} \ {NoModule}
ModuleId(list, name) == Cardinality({m \in ModuleNames(list) : m < name})

\* The items of a module in the order of its files: their positions are the
\* indices of the definitions.
ItemsOf(list, module) ==
  FlattenSeq([i \in DOMAIN list |-> IF list[i].module = module THEN list[i].items ELSE <<>>])
ImportsOf(list, module) ==
  FlattenSeq([i \in DOMAIN list |-> IF list[i].module = module THEN list[i].imports ELSE <<>>])

Named(items, name) == {i \in DOMAIN items : items[i].name = name}
FirstOf(is) == CHOOSE i \in is : \A j \in is : i <= j

\* The first definition of a name is the one that counts.
Definitions(list, module) ==
  LET items == ItemsOf(list, module)
  IN [n \in {items[i].name : i \in DOMAIN items} |->
        [id |-> <<ModuleId(list, module), FirstOf(Named(items, n)) - 1>>,
         item |-> items[FirstOf(Named(items, n))]]]

Duplicates(list, module) ==
  LET items == ItemsOf(list, module) IN \E i, j \in DOMAIN items : i # j /\ items[i].name = items[j].name

-----------------------------------------------------------------------------
(***************************************************************************)
(* Imports: [module, symbol, alias].                                       *)
(***************************************************************************)
Importable(list, import) ==
  /\ import.module \in ModuleNames(list)
  /\ import.symbol \in DOMAIN Definitions(list, import.module)
  /\ Definitions(list, import.module)[import.symbol].item.public

\* Local names of a module's imports, in order; a name in use is refused.
ResolveImport(list, module, names, import) ==
  IF ~Importable(list, import) \/ import.alias \in DOMAIN Definitions(list, module)
                               \/ import.alias \in DOMAIN names
  THEN names
  ELSE [n \in DOMAIN names \cup {import.alias} |->
          IF n = import.alias THEN import ELSE names[n]]

ResolvedImports(list, module) ==
  FoldLeft(LAMBDA names, import : ResolveImport(list, module, names, import),
           <<>>, ImportsOf(list, module))

\* A refused local name still makes its module a dependency.
Dependencies(list, module) ==
  {ImportsOf(list, module)[k].module :
     k \in {i \in DOMAIN ImportsOf(list, module) : Importable(list, ImportsOf(list, module)[i])}}

BadImport(list, module) ==
  Cardinality(DOMAIN ResolvedImports(list, module)) # Len(ImportsOf(list, module))

-----------------------------------------------------------------------------
(***************************************************************************)
(* find_cycle: depth-first search with colours; deps is module -> set.     *)
(***************************************************************************)
RECURSIVE VisitModule(_, _, _)

\* search = [open, closed, cycle]: modules on the stack, finished modules.
VisitModule(node, deps, search) ==
  LET entered == [search EXCEPT !.open = search.open \cup {node}]
      Follow(s, next) == IF s.cycle \/ next \in s.closed THEN s
                         ELSE IF next \in s.open THEN [s EXCEPT !.cycle = TRUE]
                         ELSE VisitModule(next, deps, s)
      left == FoldLeft(Follow, entered, SetToSortSeq(deps[node], <))
  IN IF left.cycle THEN left
     ELSE [left EXCEPT !.open = left.open \ {node}, !.closed = left.closed \cup {node}]

\* Mutant: only the first module is searched.
FindCycleFromFirst(deps) ==
  VisitModule(CHOOSE m \in DOMAIN deps : \A n \in DOMAIN deps : m <= n, deps,
              [open |-> {}, closed |-> {}, cycle |-> FALSE]).cycle

FindCycle(deps) ==
  FoldLeft(LAMBDA s, m : IF s.cycle \/ m \in s.closed THEN s ELSE VisitModule(m, deps, s),
           [open |-> {}, closed |-> {}, cycle |-> FALSE],
           SetToSortSeq(DOMAIN deps, <)).cycle

DependencyGraph(list) == [m \in ModuleNames(list) |-> Dependencies(list, m)]

\* The signatures of public items; private items, members' bodies and the
\* order of items do not show.
InterfaceHash(list, module) ==
  LET items == ItemsOf(list, module)
      public == {i \in DOMAIN items : items[i].public}
  IN [s \in {items[i].signature : i \in public} |->
        Cardinality({i \in public : items[i].signature = s})]

-----------------------------------------------------------------------------
(***************************************************************************)
(* compile_package.                                                        *)
(***************************************************************************)
\* A definition has the id of its analysis; members, and then locals, take
\* ids from a counter that starts behind the definitions, file by file.
Identities(list, module) ==
  LET items == ItemsOf(list, module)
      own == Definitions(list, module)
      Owned(kind, count(_)) ==
        FlattenSeq([i \in DOMAIN items |->
          [k \in 1 .. count(i) |-> [kind |-> kind, owner |-> items[i].name, position |-> k]]])
      Identity(e, id) == [kind |-> e.kind, owner |-> e.owner, position |-> e.position, id |-> id]
      Take(plan, e) == [next |-> plan.next + 1,
                        ids |-> plan.ids \cup {Identity(e, <<ModuleId(list, module), plan.next>>)}]
      definitions == {Identity([kind |-> "definition", owner |-> n, position |-> 0], own[n].id) :
                        n \in DOMAIN own}
      planned == FoldLeft(Take, [next |-> Cardinality(DOMAIN own), ids |-> definitions],
                          Owned("member", LAMBDA i : items[i].members))
  IN FoldLeft(Take, planned, Owned("local", LAMBDA i : items[i].locals)).ids

\* What the names of a module's sources mean: its definitions and imports,
\* and the members of both, under the local name of their owner.
Globals(list, module) ==
  LET own == Definitions(list, module)
      imports == ResolvedImports(list, module)
  IN [n \in DOMAIN own \cup DOMAIN imports |->
        IF n \in DOMAIN imports
        THEN Definitions(list, imports[n].module)[imports[n].symbol].id
        ELSE own[n].id]

MemberIds(list, module, owner) ==
  {<<e.position, e.id>> : e \in {f \in Identities(list, module) :
                                   f.kind = "member" /\ f.owner = owner}}

PlannedMembers(list, module) ==
  LET own == Definitions(list, module)
      imports == ResolvedImports(list, module)
  IN [n \in DOMAIN own \cup DOMAIN imports |->
        IF n \in DOMAIN imports THEN MemberIds(list, imports[n].module, imports[n].symbol)
        ELSE MemberIds(list, module, n)]

Entries(list) ==
  {<<m, i>> \in ModuleNames(list) \X (1 .. 4) :
     i \in DOMAIN ItemsOf(list, m) /\ ItemsOf(list, m)[i].name = "main"}

Rejected == [ok |-> FALSE, modules |-> <<>>]

CompilePackage(given) ==
  LET list == ByFile(given)
  IN IF \/ list = <<>>
        \/ \E i \in 1 .. Len(list) - 1 : list[i].file = list[i + 1].file
        \/ \E i \in DOMAIN list : list[i].untyped \/ list[i].module = NoModule
        \/ \E m \in ModuleNames(list) : Duplicates(list, m) \/ BadImport(list, m)
        \/ FindCycle(DependencyGraph(list))
        \/ Cardinality(Entries(list)) > 1
     THEN Rejected
     ELSE [ok |-> TRUE,
           modules |-> [m \in ModuleNames(list) |->
              [identities |-> Identities(list, m), names |-> Globals(list, m),
               members |-> PlannedMembers(list, m), interface |-> InterfaceHash(list, m)]]]

LinkInit == listed \in SourceLists /\ linked = [ok |-> FALSE, modules |-> <<>>, done |-> FALSE]

Link ==
  /\ ~linked.done
  /\ linked' = [f \in {"ok", "modules", "done"} |->
                  IF f = "done" THEN TRUE ELSE CompilePackage(listed)[f]]
  /\ UNCHANGED listed

LinkSpec == LinkInit /\ [][Link]_linkVars

-----------------------------------------------------------------------------
\* Reference, over declarations rather than positions.
Declared ==
  UNION {{[module |-> listed[i].module, item |-> listed[i].items[k], at |-> <<i, k>>] :
            k \in DOMAIN listed[i].items} : i \in DOMAIN listed}
Used ==
  UNION {{[module |-> listed[i].module, import |-> listed[i].imports[k], at |-> <<i, k>>] :
            k \in DOMAIN listed[i].imports} : i \in DOMAIN listed}

Finds(u, d) == d.module = u.import.module /\ d.item.name = u.import.symbol /\ d.item.public
ImportGraph ==
  [node |-> {u.module : u \in Used} \cup {u.import.module : u \in Used},
   edge |-> {<<u.module, u.import.module>> : u \in Used}]
Cyclic == \E e \in ImportGraph.edge : ConnectionsIn(ImportGraph)[e[2], e[1]]

WellFormedPackage ==
  /\ listed # <<>>
  /\ \A i, j \in DOMAIN listed : listed[i].file = listed[j].file => i = j
  /\ \A i \in DOMAIN listed : ~listed[i].untyped /\ listed[i].module # NoModule
  /\ \A d, e \in Declared : d.module = e.module /\ d.item.name = e.item.name => d = e
  /\ \A u \in Used : \E d \in Declared : Finds(u, d)
  /\ \A u \in Used : ~\E d \in Declared : d.module = u.module /\ d.item.name = u.import.alias
  /\ \A u, v \in Used : u.module = v.module /\ u.import.alias = v.import.alias => u = v
  /\ ~Cyclic
  /\ Cardinality({d \in Declared : d.item.name = "main"}) <= 1

\* A package links exactly when it is well formed, in whatever order its
\* sources are given; then no two definitions, members or locals of the
\* program share an id, and an imported name and its members have the ids
\* they have at home (compile_package, analyze_modules, find_cycle).
LinkedFaithfully ==
  linked.done =>
    /\ linked.ok <=> WellFormedPackage
    /\ CompilePackage(Reverse(listed)) = [ok |-> linked.ok, modules |-> linked.modules]
    /\ LET ids == UNION {linked.modules[m].identities : m \in DOMAIN linked.modules}
       IN \A e, f \in ids : e.id = f.id => e = f
    /\ linked.ok => \A u \in Used :
         LET here == linked.modules[u.module]
             home == linked.modules[u.import.module]
         IN /\ here.names[u.import.alias] = home.names[u.import.symbol]
            /\ here.members[u.import.alias] = home.members[u.import.symbol]
=============================================================================
