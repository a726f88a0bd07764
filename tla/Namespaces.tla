------------------------------ MODULE Namespaces ------------------------------
(***************************************************************************)
(* The namespaces of a project, src/src/driver.rs: what each declares and  *)
(* uses, the order in which they are compiled, and what the names in each  *)
(* mean.                                                                   *)
(***************************************************************************)
EXTENDS Syntax

\* The one name of a namespace that parses has no "::" to be replaced.
Mangle(ns, x) == ns \o "__" \o x

Namespaces(files) == {f.ns[1] : f \in {f \in Range(files) : f.ns # <<>>}}
\* What each namespace declares and uses, over all files, in order.
Put(unit, d) ==
    IF d.k = "use" THEN [unit EXCEPT !.uses = Append(@, d)]
    ELSE [unit EXCEPT !.decls = Append(@, d)]
PutFile(ns, unit, f) == IF f.ns = <<ns>> THEN Fold(Put, unit, f.decls) ELSE unit
NoUnit == [decls |-> <<>>, uses |-> <<>>]
UnitOf(files, ns) == Fold(LAMBDA unit, f : PutFile(ns, unit, f), NoUnit, files)
ExtractNamespaceUnits(files) == [ns \in Namespaces(files) |-> UnitOf(files, ns)]

Names(decls) == {decls[i].name : i \in {i \in DOMAIN decls : HasName(decls[i])}}
HasDuplicate(decls) ==
    \E i, j \in DOMAIN decls : i < j /\ HasName(decls[i]) /\ HasName(decls[j])
                                 /\ decls[i].name = decls[j].name
BuildNamespaceDeclMaps(units) ==
    [ns \in DOMAIN units |-> [x \in Names(units[ns].decls) |-> Mangle(ns, x)]]

\* ---- what a namespace uses ----------------------------------------------------------
\* A path of one segment names nothing; a wildcard is a use of all the target declares.
JoinPath(segs) == Fold(LAMBDA a, s : IF a = "" THEN s ELSE a \o "::" \o s, "", segs)
ValidUse(u) == IF u.wildcard THEN u.segments # <<>> ELSE Len(u.segments) >= 2
UseTarget(u) == IF u.wildcard THEN JoinPath(u.segments) ELSE JoinPath(Front(u.segments))
\* Mutant: a use of the namespace itself is no edge.
EdgesToOthers(units) ==
    [ns \in DOMAIN units |-> {UseTarget(u) : u \in Range(units[ns].uses)} \ {ns}]
Edges(units) == [ns \in DOMAIN units |-> {UseTarget(u) : u \in Range(units[ns].uses)}]

\* The namespaces reached from some, through those that exist.
Needed(edges, from) ==
    LET grow[found \in SUBSET DOMAIN edges] ==
          LET more == found \cup UNION {edges[n] \cap DOMAIN edges : n \in found}
          IN  IF more = found THEN found ELSE grow[more]
    IN  grow[from]

\* f[v, d] for each d of s in turn.
ForEach(f, v, s) ==
    LET upTo[i \in 0..Len(s)] == IF i = 0 THEN v ELSE f[<<upTo[i - 1], s[i]>>] IN upTo[Len(s)]

\* Depth first: what visiting n does to v, where path holds the namespaces marked Temp,
\* which are those on the stack, and v.out those marked Perm.  A namespace met again
\* before it is done is a cycle.  deps: its edges in the order the set is iterated in.
Visits(nodes) == [ok : BOOLEAN, out : Seq(nodes)]
Visit(deps) ==
    LET nodes == DOMAIN deps
        visit[path \in SUBSET nodes] ==
          [vn \in Visits(nodes) \X nodes |->
              LET v == vn[1]
                  n == vn[2]
                  done == ForEach(visit[path \cup {n}], v, deps[n])
              IN  IF n \in Range(v.out) THEN v
                  ELSE IF n \in path THEN [v EXCEPT !.ok = FALSE]
                  ELSE [done EXCEPT !.out = Append(@, n)]]
    IN  visit
TopoSort(names, deps) == ForEach(Visit(deps)[{}], [ok |-> TRUE, out |-> <<>>], names)

\* The order in which the namespaces are emitted: an importer before what it uses.
ComputeTransitive(units, entry) ==
    LET edges == Edges(units)
        needed == Needed(edges, {entry})
        order == TopoSort(SetToSeq(needed), [n \in needed |-> SetToSeq(edges[n])])
    IN  IF \/ \E ns \in DOMAIN units : \E u \in Range(units[ns].uses) : ~ValidUse(u)
           \/ \E n \in needed : ~(edges[n] \subseteq DOMAIN units)
        THEN [ok |-> FALSE, out |-> <<>>]
        ELSE [ok |-> order.ok, out |-> Reverse(order.out)]

\* Its own names, then those it imports; a name may not come to mean two things.
Imported(maps, u) ==
    IF u.wildcard THEN DOMAIN maps[UseTarget(u)] ELSE {Last(u.segments)}
Import(maps, a, u) ==
    LET from == maps[UseTarget(u)]
        clash(x) == x \notin DOMAIN from \/ (x \in DOMAIN a.al /\ a.al[x] # from[x])
    IN  IF UseTarget(u) \notin DOMAIN maps \/ \E x \in Imported(maps, u) : clash(x)
        THEN [a EXCEPT !.ok = FALSE]
        ELSE [a EXCEPT !.al = [x \in DOMAIN @ \cup Imported(maps, u) |->
                                 IF x \in DOMAIN @ THEN @[x] ELSE from[x]]]
BuildAliasMap(ns, units, maps) ==
    Fold(LAMBDA a, u : Import(maps, a, u), [ok |-> TRUE, al |-> maps[ns]], units[ns].uses)
================================================================================
