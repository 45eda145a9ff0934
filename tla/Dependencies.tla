---------------------------- MODULE Dependencies ----------------------------
(***************************************************************************)
(* libdbpmgr/dependencies.c: what dbpmgr_depend_check finds missing, given *)
(* the stanzas of /var/lib/dpkg/status and the packages that dbpd has.     *)
(*                                                                         *)
(* Both are put into trees that branch by the letters of the names: a node *)
(* lists what it has until the list is too long and is spread over nodes   *)
(* for the next letter.  Each program that checks a package builds them    *)
(* once, for one call of dbpmgr_depend_check; here the state is what they  *)
(* are built from.  A dependency is given as dbpmgr_depend_parse returns   *)
(* it, with module Version's comparisons of versions.                      *)
(***************************************************************************)
EXTENDS Version

CONSTANTS
  Letter,       \* letters of names
  Indexed,      \* those that a lookup has a slot of their own for
  Name,         \* names of packages
  Arch,         \* architectures of Debian packages
  Number_,      \* versions of packages
  Status,       \* last words of the status lines
  ListLimit,    \* how many packages a node may list, 25 in the code
  MaxPackages   \* bound on the packages there are

ASSUME DependenciesAssumption ==
  /\ Name \subseteq Seq(Letter) \ {<< >>}
  /\ {ListLimit, MaxPackages} \subseteq Nat \ {0}

VARIABLES
  status,    \* the stanzas of the status file, in order
  packages   \* dbpd's registry, in order

Stanza == [name : Name, arch : Arch, version : Number_, status : Status]
DBPList == [name : Name, version : Number_]

-----------------------------------------------------------------------------
(* The trees                                                               *)

\* The slot of a character in a lookup: those without one of their own share one.
TREE_LOOKUP(c) == IF c \in Indexed THEN c ELSE "other"

\* A node is named by the slots that lead to it: those of the first n letters of
\* a name.
Path(name, n) == [k \in 1..n |-> TREE_LOOKUP(name[k])]
Paths == UNION {{Path(name, n) : n \in 0..Len(name)} : name \in Name}

\* No node at all is as good as an empty one.
NoNode == [match |-> << >>, list |-> << >>, lookup |-> FALSE]

\* How many letters of a name there are lookups for, one below the other
Depth(root, name) ==
  Min({n \in 0..Len(name) : n = Len(name) \/ ~root[Path(name, n)].lookup})

Push(e, s) == <<e>> \o s

\* A package is put into a node that has no lookup, or that its name leads to
put(root, e, n) ==
  IF n = Len(e.name) THEN [root EXCEPT ![Path(e.name, n)].match = Push(e, @)]
  ELSE [root EXCEPT ![Path(e.name, n)].list = Push(e, @)]

\* A node gets a lookup: its list is taken from it first
Cleared(root, node) == [root EXCEPT ![node] = [match |-> @.match, list |-> << >>, lookup |-> TRUE]]

\* Defect: the loop begins at the second package
spread_next(root, node) ==
  LET list == root[node].list
      after[k \in 0..Len(list) - 1] ==
        IF k = 0 THEN Cleared(root, node)
        ELSE put(after[k - 1], list[k + 1], Len(node) + 1)
  IN after[Len(list) - 1]

\* The loop over the list of a node that gets a lookup
spread(root, node) ==
  LET list == root[node].list
      after[k \in 0..Len(list)] ==
        IF k = 0 THEN Cleared(root, node)
        ELSE put(after[k - 1], list[k], Len(node) + 1)
  IN after[Len(list)]

\* A list that has become too long is spread over nodes that were not there
\* before, so of these only the one that e is in can have too long a list: if all
\* packages went there.  It is spread when the last one arrives, and so on.
package_tree_populate(root, e) ==
  LET depth == Depth(root, e.name)
      after[k \in 0..Len(e.name) - depth] ==
        IF k = 0 THEN put(root, e, depth)
        ELSE LET last == after[k - 1]
                 node == Path(e.name, depth + k - 1)
             IN IF Len(last[node].list) > ListLimit THEN spread(last, node) ELSE last
  IN after[Len(e.name) - depth]

\* The loops of build_database and build_dbp_database, over the entries that they
\* put into the tree
Tree(entries, taken) ==
  LET after[n \in 0..Len(entries)] ==
        IF n = 0 THEN [node \in Paths |-> NoNode]
        ELSE LET last == after[n - 1]
             IN IF entries[n] \in taken THEN package_tree_populate(last, entries[n]) ELSE last
  IN after[Len(entries)]

find_list(name, root) ==
  LET n == Depth(root, name)
  IN IF n = Len(name) THEN root[Path(name, n)].match ELSE root[Path(name, n)].list

\* Where dbpmgr_depend_debian_next and dbpmgr_depend_dbp_next stop in a list
Found(name, list) == {i \in 1..Len(list) : list[i].name = name}

\* build_database looks for the word "installed"
installed(stanza) == stanza.status \in {"installed", "half-installed", "not-installed"}

debian_root == Tree(status, {stanza \in ToSet(status) : installed(stanza)})

\* The package list arrives in reverse order
dbp_root == Tree(Reverse(packages), ToSet(packages))

-----------------------------------------------------------------------------
(* The checks                                                              *)

arch_matches(e, dep) == e.arch \in {"any", "all", dep.arch} \/ dep.arch = "any"

\* The first package that there is for the architecture decides
dbpmgr_depend_debian_check(root, dep) ==
  LET list == find_list(dep.pkg_name, root)
      found == {i \in Found(dep.pkg_name, list) : arch_matches(list[i], dep)}
  IN found # {} /\ Satisfies(list[Min(found)].version, dep)

\* The first package decides, and its architecture is not asked for
dbpmgr_depend_dbp_check(root, dep) ==
  LET list == find_list(dep.pkg_name, root)
      found == Found(dep.pkg_name, list)
  IN found # {} /\ Satisfies(list[Min(found)].version, dep)

Kind == {"sysonly", "syspref", "dbponly", "dbppref", "whatevs"}

\* Defect: what may come from either place is looked for in one
missing_one(kind, debian, dbp) == IF kind \in {"sysonly", "syspref"} THEN ~debian ELSE ~dbp

\* Whether a dependency of a list is missing, given what the two checks say
missing(kind, debian, dbp) ==
  CASE kind = "sysonly" -> ~debian
    [] kind = "dbponly" -> ~dbp
    [] OTHER -> ~debian /\ ~dbp

\* The result, when the lists of a package's meta-data hold these dependencies
dbpmgr_depend_check(meta) ==
  LET debian == debian_root
      dbp == dbp_root
      asked == UNION {meta[kind] : kind \in Kind}
      in_debian == {dep \in asked : dbpmgr_depend_debian_check(debian, dep)}
      in_dbp == {dep \in asked : dbpmgr_depend_dbp_check(dbp, dep)}
  IN [kind \in Kind |-> {dep \in meta[kind] : missing(kind, dep \in in_debian, dep \in in_dbp)}]

\* init_conv_table runs when the first Debian package is looked for, which is
\* before the first DBP package only if one of these lists is there.  A tree that
\* branches without it writes and reads outside its lookups.
Defined(meta) ==
  LET root == dbp_root
  IN (\E node \in Paths : root[node].lookup) => meta["sysonly"] # {} \/ meta["syspref"] # {}

-----------------------------------------------------------------------------
(* Installing                                                              *)

Space == Len(status) + Len(packages) < MaxPackages

\* dpkg has one stanza for each name and architecture, and installs the same
\* version of a package for every one
dpkg(stanza) ==
  /\ Space
  /\ \A e \in ToSet(status) :
       e.name = stanza.name =>
         /\ e.arch # stanza.arch
         /\ installed(e) /\ installed(stanza) => e.version = stanza.version
  /\ status' = Append(status, stanza)
  /\ UNCHANGED packages

\* dbpd has one package for each id
register(entry) ==
  /\ Space
  /\ \A e \in ToSet(packages) : e.name # entry.name
  /\ packages' = Append(packages, entry)
  /\ UNCHANGED status

Installs == (\E stanza \in Stanza : dpkg(stanza)) \/ (\E entry \in DBPList : register(entry))

\* Either packages are installed, or versions are written, which module Version
\* compares
Installing == version = <<<< >>>>

DependNext ==
  \/ Installing /\ Installs /\ UNCHANGED version
  \/ status = << >> /\ packages = << >> /\ Next /\ UNCHANGED <<status, packages>>

DependInit == Init /\ status = << >> /\ packages = << >>

DependSpec == DependInit /\ [][DependNext]_<<version, status, packages>>

-----------------------------------------------------------------------------
(* Properties                                                              *)

IsInstalled(stanza) == stanza.status = "installed"

\* Whatever order they come in and however the lists were spread, each installed
\* package is found once under its name, and nothing else is (dependencies.c
\* 280-299, 375-396).
FindsExact ==
  LET Once(name, list, entries) ==
        /\ \A i, j \in Found(name, list) : list[i] = list[j] => i = j
        /\ {list[i] : i \in Found(name, list)} = {e \in entries : e.name = name}
      debian == debian_root
      dbp == dbp_root
  IN Installing => \A n \in Name :
       /\ Once(n, find_list(n, debian), {e \in ToSet(status) : IsInstalled(e)})
       /\ Once(n, find_list(n, dbp), ToSet(packages))

\* Dependencies on one package, of any version or of one or newer
Dependency ==
  [pkg_name : Name, arch : Arch \cup {"any"},
   version : {{}} \cup {{<<<<">", "=">>, v>>} : v \in Number_}]

\* The lists name what is missing: a dependency is in its list just if no installed
\* package satisfies it of the sort that the list allows, Debian's for its
\* architecture or dbpd's (dependencies.c 411-438, 481-500, 550-597), whether there
\* are lists that begin with a look-up of a Debian package or not.
MissingRight ==
  LET Debian(dep) == \E e \in ToSet(status) :
                       /\ IsInstalled(e) /\ e.name = dep.pkg_name
                       /\ dep.arch = "any" \/ e.arch \in {"any", "all", dep.arch}
                       /\ Satisfies(e.version, dep)
      Dbp(dep) == \E e \in ToSet(packages) : e.name = dep.pkg_name /\ Satisfies(e.version, dep)
      debian == {dep \in Dependency : Debian(dep)}
      dbp == {dep \in Dependency : Dbp(dep)}
      Allowed(kind) == (IF kind = "dbponly" THEN {} ELSE debian) \cup (IF kind = "sysonly" THEN {} ELSE dbp)
  IN Installing =>
       \A present \in {Kind, Kind \ {"sysonly", "syspref"}} :
         LET meta == [kind \in Kind |-> IF kind \in present THEN Dependency ELSE {}]
         IN Defined(meta) =>
              dbpmgr_depend_check(meta) = [kind \in Kind |-> meta[kind] \ Allowed(kind)]
=============================================================================
