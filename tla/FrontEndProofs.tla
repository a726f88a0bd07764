----------------------------- MODULE FrontEndProofs ----------------------------
(***************************************************************************)
(* For every project: the driver's worklist finds what is reached from the *)
(* entry, and its depth-first search rejects the projects whose namespaces *)
(* use one another in a circle and orders all others, an importer before   *)
(* what it uses, in whatever order its sets are iterated.  So a project of *)
(* one namespace compiles only if it uses nothing.  And within a namespace *)
(* every name means one thing.                                             *)
(*                                                                         *)
(* For every set of newtypes: name resolution ends unless a newtype stands *)
(* for itself, and accepts what leads to known names only.                 *)
(***************************************************************************)
EXTENDS Namespaces, Aliases, FiniteSetTheorems, TLAPS

\* Induction up to n: a set of numbers that holds 0, and the successor of each number
\* below n that it holds, holds n, else there would be a smallest one that it lacks.
LEMMA CountUp ==
  ASSUME NEW n \in Nat, NEW S, 0 \in S, \A i \in 0 .. n - 1 : i \in S => i + 1 \in S
  PROVE  n \in S
<1> DEFINE T == {i \in 0 .. n : i \notin S}
           R == OpToRel(<, Nat)
<1>1. SUFFICES ASSUME n \notin S PROVE FALSE
  OBVIOUS
<1>2. T \in SUBSET Nat /\ n \in T
  BY <1>1
<1>3. IsWellFoundedOn(R, Nat)
  BY NatLessThanWellFounded
<1> HIDE DEF T, R
<1>4. PICK x \in T : \A y \in T : <<y, x>> \notin R
  BY <1>2, <1>3, WFMin
<1>5. \A y \in T : ~(y < x)
  BY <1>2, <1>4 DEF OpToRel, R
<1>6. x # 0 /\ x \in 0 .. n /\ x \notin S
  BY DEF T
<1>7. x - 1 \in 0 .. n - 1
  BY <1>6
<1>8. x - 1 \in S
  BY <1>5, <1>6, <1>7 DEF T
<1>9. QED
  BY <1>6, <1>7, <1>8
--------------------------------------------------------------------------------
(* Going through a sequence (ForEach). *)

\* What ForEach has of the first n elements of s.
Through(f, v, s, n, g) ==
    g = [i \in 0 .. n |-> IF i = 0 THEN v ELSE f[<<g[i - 1], s[i]>>]]

\* The function ForEach defines exists.
LEMMA ThroughExists ==
  ASSUME NEW f, NEW v, NEW s, NEW n \in Nat
  PROVE  \E g : Through(f, v, s, n, g)
<1> DEFINE S == {k \in 0 .. n : \E g : Through(f, v, s, k, g)}
<1>1. 0 \in S
  <2> DEFINE g == [i \in 0 .. 0 |-> v]
  <2>1. Through(f, v, s, 0, g)
    BY DEF Through
  <2>2. QED
    BY <2>1
<1>2. ASSUME NEW k \in 0 .. n - 1, k \in S PROVE k + 1 \in S
  <2>1. PICK g : Through(f, v, s, k, g)
    BY <1>2
  <2> DEFINE e == f[<<g[k], s[k + 1]>>]
             h == [i \in 0 .. k + 1 |-> IF i = k + 1 THEN e ELSE g[i]]
  <2>2. ASSUME NEW i \in 0 .. k + 1
        PROVE  h[i] = IF i = 0 THEN v ELSE f[<<h[i - 1], s[i]>>]
    <3>1. CASE i = k + 1
      <4>1. i # 0 /\ i - 1 = k /\ h[i - 1] = g[k] /\ h[i] = e
        BY <3>1
      <4>2. QED
        BY <3>1, <4>1
    <3>2. CASE i # k + 1
      <4>1. i \in 0 .. k /\ h[i] = g[i]
        BY <3>2
      <4>2. g[i] = IF i = 0 THEN v ELSE f[<<g[i - 1], s[i]>>]
        BY <2>1, <4>1 DEF Through
      <4>3. i # 0 => h[i - 1] = g[i - 1]
        BY <4>1
      <4> HIDE DEF h
      <4>4. QED
        BY <4>1, <4>2, <4>3
    <3>3. QED
      BY <3>1, <3>2
  <2> HIDE DEF e
  <2>3. h = [i \in 0 .. k + 1 |-> h[i]]
    OBVIOUS
  <2> HIDE DEF h
  <2>4. Through(f, v, s, k + 1, h)
    BY <2>2, <2>3 DEF Through
  <2>5. QED
    BY <2>4
<1> HIDE DEF S
<1>3. n \in S
  BY <1>1, <1>2, CountUp
<1>4. QED
  BY <1>3 DEF S

\* What holds of v, and goes from what there is after i - 1 elements to what f makes of it
\* with the next, holds at the end: I[i] are the values allowed after i elements.
LEMMA ForEachKeeps ==
  ASSUME NEW f, NEW v, NEW s, Len(s) \in Nat, NEW I, v \in I[0],
         \A i \in 1 .. Len(s) : \A w \in I[i - 1] : f[<<w, s[i]>>] \in I[i]
  PROVE  ForEach(f, v, s) \in I[Len(s)]
<1> DEFINE n == Len(s)
           g == CHOOSE h : Through(f, v, s, n, h)
<1>1. ForEach(f, v, s) = g[n]
  BY DEF ForEach, Through
<1>2. Through(f, v, s, n, g)
  BY ThroughExists
<1> DEFINE S == {i \in 0 .. n : g[i] \in I[i]}
<1> HIDE DEF g
<1>3. 0 \in S
  BY <1>2 DEF Through
<1>4. ASSUME NEW i \in 0 .. n - 1, i \in S PROVE i + 1 \in S
  <2>1. g[i + 1] = f[<<g[i], s[i + 1]>>]
    <3>1. i + 1 \in 0 .. n /\ i + 1 # 0 /\ (i + 1) - 1 = i
      OBVIOUS
    <3>2. QED
      BY <1>2, <3>1 DEF Through
  <2>2. i + 1 \in 1 .. Len(s) /\ g[i] \in I[(i + 1) - 1]
    BY <1>4
  <2>3. QED
    BY <2>1, <2>2
<1> HIDE DEF S
<1>5. n \in S
  BY <1>3, <1>4, CountUp
<1>6. QED
  BY <1>1, <1>5 DEF S
--------------------------------------------------------------------------------
(* What is reached (Needed). *)

\* What there is with what it uses, one step further.
Further(edges, found) == found \cup UNION {edges[n] \cap DOMAIN edges : n \in found}
Closed(edges, S) == \A n \in S : edges[n] \cap DOMAIN edges \subseteq S
\* The namespaces reached from some, stated without an algorithm: those in every set
\* that has these and, with a namespace, all that it uses.
Reached(edges, from) ==
    {n \in DOMAIN edges :
        \A S \in SUBSET DOMAIN edges : (from \subseteq S /\ Closed(edges, S)) => n \in S}

\* The reached are closed, and within every closed set that has those they start from.
LEMMA ReachedIsClosed ==
  ASSUME NEW edges, NEW from \in SUBSET DOMAIN edges
  PROVE  /\ Reached(edges, from) \in SUBSET DOMAIN edges
         /\ from \subseteq Reached(edges, from)
         /\ Closed(edges, Reached(edges, from))
         /\ \A S \in SUBSET DOMAIN edges :
               (from \subseteq S /\ Closed(edges, S)) => Reached(edges, from) \subseteq S
<1>1. Reached(edges, from) \in SUBSET DOMAIN edges /\ from \subseteq Reached(edges, from)
  BY DEF Reached
<1>2. ASSUME NEW n \in Reached(edges, from), NEW d \in edges[n] \cap DOMAIN edges
      PROVE  d \in Reached(edges, from)
  <2>1. SUFFICES ASSUME NEW S \in SUBSET DOMAIN edges, from \subseteq S, Closed(edges, S)
                 PROVE  d \in S
    BY DEF Reached
  <2>2. n \in S
    BY <2>1 DEF Reached
  <2>3. QED
    BY <2>1, <2>2 DEF Closed
<1>3. Closed(edges, Reached(edges, from))
  BY <1>2 DEF Closed
<1>4. QED
  BY <1>1, <1>3 DEF Reached

\* One step further reaches nothing new, and is no step where nothing is left.
LEMMA FurtherReaches ==
  ASSUME NEW edges, NEW found \in SUBSET DOMAIN edges
  PROVE  /\ Further(edges, found) \in SUBSET DOMAIN edges
         /\ found \subseteq Further(edges, found)
         /\ Reached(edges, Further(edges, found)) = Reached(edges, found)
         /\ Further(edges, found) = found => Reached(edges, found) = found
<1>1. Further(edges, found) \in SUBSET DOMAIN edges /\ found \subseteq Further(edges, found)
  BY DEF Further
<1>2. ASSUME NEW S \in SUBSET DOMAIN edges, Closed(edges, S)
      PROVE  found \subseteq S <=> Further(edges, found) \subseteq S
  BY <1>2 DEF Closed, Further
<1>3. Reached(edges, Further(edges, found)) = Reached(edges, found)
  BY <1>2 DEF Reached
<1>4. ASSUME Further(edges, found) = found PROVE Reached(edges, found) = found
  <2>1. Closed(edges, found)
    BY <1>4 DEF Closed, Further
  <2>2. QED
    BY <2>1, ReachedIsClosed
<1>5. QED
  BY <1>1, <1>3, <1>4

\* What the worklist makes of what it has found.
Grows(edges, g) ==
    g = [found \in SUBSET DOMAIN edges |->
            IF Further(edges, found) = found THEN found ELSE g[Further(edges, found)]]

\* The worklist ends with exactly what is reached (compute_transitive).
THEOREM NeededIsReached ==
  ASSUME NEW edges, IsFiniteSet(DOMAIN edges), NEW from \in SUBSET DOMAIN edges
  PROVE  Needed(edges, from) = Reached(edges, from)
<1> DEFINE D == DOMAIN edges
           g == CHOOSE h : Grows(edges, h)
           h == [found \in SUBSET D |-> Reached(edges, found)]
<1>1. Needed(edges, from) = g[from]
  BY DEF Needed, Grows, Further
<1>2. Grows(edges, h)
  <2>1. ASSUME NEW found \in SUBSET D
        PROVE  Reached(edges, found) = IF Further(edges, found) = found THEN found
                                       ELSE h[Further(edges, found)]
    BY FurtherReaches
  <2>2. QED
    BY <2>1 DEF Grows
<1>3. Grows(edges, g)
  BY <1>2
<1> HIDE DEF g, h
<1> DEFINE S == {k \in Nat : \A found \in SUBSET D :
                    Cardinality(D \ found) <= k => g[found] = Reached(edges, found)}
<1>4. ASSUME NEW found \in SUBSET D PROVE Cardinality(D \ found) \in Nat
  BY FS_Difference, FS_CardinalityType
<1>5. ASSUME NEW found \in SUBSET D, Further(edges, found) # found
      PROVE  Cardinality(D \ Further(edges, found)) < Cardinality(D \ found)
  <2>1. D \ Further(edges, found) \subseteq D \ found
          /\ D \ Further(edges, found) # D \ found
    BY <1>5, FurtherReaches
  <2>2. IsFiniteSet(D \ found)
    BY FS_Difference
  <2>3. Further(edges, found) \in SUBSET D
    BY FurtherReaches
  <2>4. /\ Cardinality(D \ Further(edges, found)) <= Cardinality(D \ found)
        /\ Cardinality(D \ Further(edges, found)) # Cardinality(D \ found)
    BY <2>1, <2>2, FS_Subset
  <2>5. Cardinality(D \ found) \in Nat /\ Cardinality(D \ Further(edges, found)) \in Nat
    BY <1>4, <2>3
  <2>6. QED
    BY <2>4, <2>5
<1>6. ASSUME NEW found \in SUBSET D,
             Further(edges, found) # found =>
                 g[Further(edges, found)] = Reached(edges, Further(edges, found))
      PROVE  g[found] = Reached(edges, found)
  <2>1. g[found] = IF Further(edges, found) = found THEN found ELSE g[Further(edges, found)]
    BY <1>3 DEF Grows
  <2>2. QED
    BY <1>6, <2>1, FurtherReaches
<1>7. 0 \in S
  <2>1. ASSUME NEW found \in SUBSET D, Cardinality(D \ found) <= 0
        PROVE  g[found] = Reached(edges, found)
    <3>1. SUFFICES Further(edges, found) = found
      BY <1>6
    <3>2. SUFFICES ASSUME Further(edges, found) # found PROVE FALSE
      OBVIOUS
    <3>3. Further(edges, found) \in SUBSET D
      BY FurtherReaches
    <3>4. Cardinality(D \ found) \in Nat /\ Cardinality(D \ Further(edges, found)) \in Nat
      BY <1>4, <3>3
    <3>5. QED
      BY <1>5, <2>1, <3>2, <3>4
  <2>2. QED
    BY <2>1
<1>8. ASSUME NEW k \in Nat, k \in S PROVE k + 1 \in S
  <2>1. ASSUME NEW found \in SUBSET D, Cardinality(D \ found) <= k + 1
        PROVE  g[found] = Reached(edges, found)
    <3>1. CASE Further(edges, found) = found
      BY <1>6, <3>1
    <3>2. CASE Further(edges, found) # found
      <4>1. Further(edges, found) \in SUBSET D
        BY FurtherReaches
      <4>2. Cardinality(D \ found) \in Nat
              /\ Cardinality(D \ Further(edges, found)) \in Nat
        BY <1>4, <4>1
      <4>3. Cardinality(D \ Further(edges, found)) < Cardinality(D \ found)
        BY <1>5, <3>2
      <4>4. Cardinality(D \ Further(edges, found)) <= k
        BY <2>1, <4>2, <4>3
      <4>5. QED
        BY <1>6, <1>8, <4>1, <4>4
    <3>3. QED
      BY <3>1, <3>2
  <2>2. QED
    BY <2>1
<1> DEFINE n == Cardinality(D \ from)
<1>9. n \in Nat
  BY <1>4
<1> HIDE DEF S, n
<1>10. n \in S
  BY <1>7, <1>8, <1>9, CountUp
<1>11. g[from] = Reached(edges, from)
  <2>1. \A found \in SUBSET D : Cardinality(D \ found) <= n => g[found] = Reached(edges, found)
    BY <1>10 DEF S
  <2>2. Cardinality(D \ from) <= n
    BY <1>9 DEF n
  <2>3. QED
    BY <2>1, <2>2
<1>12. QED
  BY <1>1, <1>11
--------------------------------------------------------------------------------
(* Visiting (Visit). *)

\* Adding one to what is on the stack leaves one less.
LEMMA OneLess ==
  ASSUME NEW nodes, IsFiniteSet(nodes), NEW path \in SUBSET nodes, NEW n \in nodes \ path
  PROVE  /\ path \cup {n} \in SUBSET nodes
         /\ Cardinality(nodes \ path) \in Nat
         /\ Cardinality(nodes \ (path \cup {n})) = Cardinality(nodes \ path) - 1
<1>1. IsFiniteSet(nodes \ path)
  BY FS_Difference
<1>2. nodes \ (path \cup {n}) = (nodes \ path) \ {n}
  OBVIOUS
<1>3. Cardinality((nodes \ path) \ {n}) = Cardinality(nodes \ path) - 1
  BY <1>1, FS_RemoveElement
<1>4. Cardinality(nodes \ path) \in Nat
  BY <1>1, FS_CardinalityType
<1>5. path \cup {n} \in SUBSET nodes
  OBVIOUS
<1>6. QED
  BY <1>2, <1>3, <1>4, <1>5

\* Induction over what is not on the stack: what holds of a stack when it holds of those
\* with one more, holds of all.
LEMMA FromTheTop ==
  ASSUME NEW nodes, IsFiniteSet(nodes), NEW T,
         \A p \in SUBSET nodes : (\A n \in nodes \ p : p \cup {n} \in T) => p \in T
  PROVE  SUBSET nodes \subseteq T
<1> DEFINE left(p) == Cardinality(nodes \ p)
           S == {k \in Nat : \A p \in SUBSET nodes : left(p) < k => p \in T}
<1>1. ASSUME NEW p \in SUBSET nodes PROVE left(p) \in Nat
  BY FS_Difference, FS_CardinalityType
<1>2. 0 \in S
  <2>1. ASSUME NEW p \in SUBSET nodes PROVE ~(left(p) < 0)
    <3>1. left(p) \in Nat
      BY <1>1
    <3> HIDE DEF left
    <3>2. QED
      BY <3>1
  <2>2. QED
    BY <2>1
<1>3. ASSUME NEW k \in Nat, k \in S PROVE k + 1 \in S
  <2>1. ASSUME NEW p \in SUBSET nodes, left(p) < k + 1 PROVE p \in T
    <3>1. ASSUME NEW n \in nodes \ p PROVE p \cup {n} \in T
      <4>1. p \cup {n} \in SUBSET nodes /\ left(p) \in Nat /\ left(p \cup {n}) = left(p) - 1
        BY OneLess
      <4>2. left(p \cup {n}) < k
        BY <2>1, <4>1
      <4>3. QED
        BY <1>3, <4>1, <4>2
    <3>2. QED
      BY <3>1
  <2>2. QED
    BY <2>1
<1>4. ASSUME NEW path \in SUBSET nodes PROVE path \in T
  <2>1. left(path) \in Nat
    BY <1>1
  <2> DEFINE n == left(path)
  <2> HIDE DEF S, n
  <2>2. n \in Nat /\ n + 1 \in Nat /\ n < n + 1
    BY <2>1 DEF n
  <2>3. n + 1 \in S
    BY <1>2, <1>3, <2>2, CountUp
  <2>4. QED
    BY <2>2, <2>3 DEF S, n
<1>5. QED
  BY <1>4

\* What visiting does where path is on the stack, given what it does, f, further up.
VisitOne(deps, f, path) ==
    [vn \in Visits(DOMAIN deps) \X DOMAIN deps |->
        IF vn[2] \in Range(vn[1].out) THEN vn[1]
        ELSE IF vn[2] \in path THEN [vn[1] EXCEPT !.ok = FALSE]
        ELSE [ForEach(f[path \cup {vn[2]}], vn[1], deps[vn[2]])
                EXCEPT !.out = Append(@, vn[2])]]
IsVisit(deps, f, paths) == \A path \in paths : f[path] = VisitOne(deps, f, path)

\* It needs only what visiting does further up.
LEMMA VisitOneLooksUp ==
  ASSUME NEW deps, NEW path, NEW f, NEW g,
         \A n \in DOMAIN deps \ path : f[path \cup {n}] = g[path \cup {n}]
  PROVE  VisitOne(deps, f, path) = VisitOne(deps, g, path)
<1>1. ASSUME NEW v, NEW n \in DOMAIN deps
      PROVE  (IF n \in Range(v.out) THEN v
              ELSE IF n \in path THEN [v EXCEPT !.ok = FALSE]
              ELSE [ForEach(f[path \cup {n}], v, deps[n]) EXCEPT !.out = Append(@, n)])
             = (IF n \in Range(v.out) THEN v
                ELSE IF n \in path THEN [v EXCEPT !.ok = FALSE]
                ELSE [ForEach(g[path \cup {n}], v, deps[n]) EXCEPT !.out = Append(@, n)])
  <2>1. CASE n \in path
    BY <2>1
  <2>2. CASE n \notin path
    <3>1. f[path \cup {n}] = g[path \cup {n}]
      BY <2>2
    <3>2. QED
      BY <3>1
  <2>3. QED
    BY <2>1, <2>2
<1>2. ASSUME NEW vn \in Visits(DOMAIN deps) \X DOMAIN deps PROVE vn[2] \in DOMAIN deps
  OBVIOUS
<1>3. QED
  BY <1>1, <1>2, Zenon DEF VisitOne

\* Where there are finitely many namespaces, Visit is what its definition says.
LEMMA VisitStep ==
  ASSUME NEW deps, IsFiniteSet(DOMAIN deps), NEW path \in SUBSET DOMAIN deps
  PROVE  Visit(deps)[path] = VisitOne(deps, Visit(deps), path)
<1> DEFINE nodes == DOMAIN deps
           Is(f) == f = [p \in SUBSET nodes |-> VisitOne(deps, f, p)]
           Near(k) == {p \in SUBSET nodes : Cardinality(nodes \ p) < k}
           S == {k \in Nat : \E f : IsVisit(deps, f, Near(k))}
<1>1. Visit(deps) = CHOOSE f : Is(f)
  BY DEF Visit, VisitOne
<1>2. ASSUME NEW p \in SUBSET nodes PROVE Cardinality(nodes \ p) \in Nat
  BY FS_Difference, FS_CardinalityType
<1>3. 0 \in S
  <2>1. Near(0) = {}
    BY <1>2
  <2>2. QED
    BY <2>1 DEF IsVisit
<1>4. ASSUME NEW k \in Nat, k \in S PROVE k + 1 \in S
  <2>1. PICK f : IsVisit(deps, f, Near(k))
    BY <1>4
  <2> DEFINE g == [p \in SUBSET nodes |-> IF p \in Near(k) THEN f[p] ELSE VisitOne(deps, f, p)]
  <2>2. ASSUME NEW p \in SUBSET nodes, Cardinality(nodes \ p) < k + 1
        PROVE  VisitOne(deps, f, p) = VisitOne(deps, g, p)
    <3>1. ASSUME NEW n \in nodes \ p PROVE f[p \cup {n}] = g[p \cup {n}]
      <4>1. /\ p \cup {n} \in SUBSET nodes
            /\ Cardinality(nodes \ p) \in Nat
            /\ Cardinality(nodes \ (p \cup {n})) = Cardinality(nodes \ p) - 1
        BY OneLess
      <4>2. Cardinality(nodes \ (p \cup {n})) < k
        BY <2>2, <4>1
      <4>3. QED
        BY <4>1, <4>2
    <3> HIDE DEF g
    <3>2. QED
      BY <3>1, VisitOneLooksUp
  <2>3. ASSUME NEW p \in Near(k + 1) PROVE g[p] = VisitOne(deps, g, p)
    <3>1. g[p] = VisitOne(deps, f, p)
      BY <2>1 DEF IsVisit
    <3> HIDE DEF g
    <3>2. QED
      BY <2>2, <3>1
  <2> HIDE DEF g
  <2>4. IsVisit(deps, g, Near(k + 1))
    BY <2>3 DEF IsVisit
  <2>5. k + 1 \in Nat
    OBVIOUS
  <2> HIDE DEF Near
  <2>6. QED
    BY <2>4, <2>5
<1> DEFINE n == Cardinality(nodes) + 1
<1>5. Cardinality(nodes) \in Nat
  BY FS_CardinalityType
<1>6. ASSUME NEW p \in SUBSET nodes PROVE Cardinality(nodes \ p) < n
  <2>1. Cardinality(nodes \ p) <= Cardinality(nodes)
    BY FS_Subset
  <2>2. Cardinality(nodes \ p) \in Nat
    BY <1>2
  <2>3. QED
    BY <1>5, <2>1, <2>2
<1>7. Near(n) = SUBSET nodes
  BY <1>6
<1>8. n \in Nat
  BY <1>5
<1> HIDE DEF S, n
<1>9. n \in S
  BY <1>3, <1>4, <1>8, CountUp
<1> HIDE DEF Near
<1>10. PICK f : IsVisit(deps, f, SUBSET nodes)
  BY <1>7, <1>9 DEF S
<1> DEFINE g == [p \in SUBSET nodes |-> f[p]]
<1>11. Is(g)
  <2>1. ASSUME NEW p \in SUBSET nodes PROVE g[p] = VisitOne(deps, g, p)
    <3>1. ASSUME NEW m \in nodes \ p PROVE f[p \cup {m}] = g[p \cup {m}]
      OBVIOUS
    <3>2. g[p] = VisitOne(deps, f, p)
      BY <1>10 DEF IsVisit
    <3> HIDE DEF g
    <3>3. QED
      BY <3>1, <3>2, VisitOneLooksUp
  <2>2. g = [p \in SUBSET nodes |-> g[p]]
    OBVIOUS
  <2> HIDE DEF g
  <2>3. QED
    BY <2>1, <2>2
<1> HIDE DEF g
<1>12. Is(Visit(deps))
  <2> HIDE DEF Is
  <2>1. QED
    BY <1>1, <1>11
<1> DEFINE V == Visit(deps)
<1>13. V = [p \in SUBSET nodes |-> VisitOne(deps, V, p)]
  BY <1>12
<1> HIDE DEF V
<1>14. V[path] = VisitOne(deps, V, path)
  BY <1>13
<1>15. QED
  BY <1>14 DEF V
--------------------------------------------------------------------------------
(* What the depth-first search finds. *)

\* The namespaces in an order in which each comes once, after all that it uses.
Sorted(deps, out) ==
    /\ \A i, j \in 1 .. Len(out) : out[i] = out[j] => i = j
    /\ \A i \in 1 .. Len(out) : \A d \in Range(deps[out[i]]) : \E j \in 1 .. i - 1 : out[j] = d

\* What a namespace reaches through those it uses; none may reach itself.
EdgesOf(deps) == [n \in DOMAIN deps |-> Range(deps[n])]
Beyond(deps, n) == Reached(EdgesOf(deps), Range(deps[n]))
NoCircle(deps) == \A n \in DOMAIN deps : n \notin Beyond(deps, n)

\* The graphs the search is about.
Graph(deps) ==
    /\ IsFiniteSet(DOMAIN deps)
    /\ \A n \in DOMAIN deps : deps[n] \in Seq(DOMAIN deps)

\* What a search from v to w may have done while path was on the stack.
After(deps, path, v, w) ==
    /\ w \in Visits(DOMAIN deps)
    /\ w.ok => v.ok
    /\ Range(v.out) \subseteq Range(w.out)
    /\ Range(w.out) \cap path \subseteq Range(v.out)
    /\ w.ok /\ Sorted(deps, v.out) => Sorted(deps, w.out)
\* n is reached by all that is on the stack.
Above(deps, path, n) == \A p \in path : n \in Beyond(deps, p)
\* A visit of n does no more, finishes n unless it finds an error, and finds none where
\* there is no circle.
Visited(deps, path, v, n, w) ==
    /\ After(deps, path, v, w)
    /\ w.ok => n \in Range(w.out)
    /\ NoCircle(deps) /\ v.ok /\ Above(deps, path, n) => w.ok
\* Wherever the search has got to, and whatever it visits next.
VisitsWell(deps, path) ==
    \A v \in Visits(DOMAIN deps) : \A n \in DOMAIN deps :
        Visited(deps, path, v, n, Visit(deps)[path][<<v, n>>])

\* Two searches one after the other are one.
LEMMA AfterComposes ==
  ASSUME NEW deps, NEW path, NEW u, NEW v, NEW w,
         After(deps, path, u, v), After(deps, path, v, w)
  PROVE  After(deps, path, u, w)
<1>1. w \in Visits(DOMAIN deps) /\ (w.ok => u.ok)
  BY DEF After
<1>2. Range(u.out) \subseteq Range(w.out) /\ Range(w.out) \cap path \subseteq Range(u.out)
  BY DEF After
<1>3. w.ok /\ Sorted(deps, u.out) => Sorted(deps, w.out)
  BY DEF After
<1>4. QED
  BY <1>1, <1>2, <1>3 DEF After

\* What is reached beyond n is reached by what reaches n.
LEMMA BeyondIsClosed ==
  ASSUME NEW deps, Graph(deps), NEW p \in DOMAIN deps
  PROVE  /\ Beyond(deps, p) \in SUBSET DOMAIN deps
         /\ Range(deps[p]) \subseteq Beyond(deps, p)
         /\ \A n \in Beyond(deps, p) : Range(deps[n]) \subseteq Beyond(deps, p)
<1>1. \A n \in DOMAIN deps : Range(deps[n]) \in SUBSET DOMAIN deps
  BY DEF Graph, Range
<1>2. /\ DOMAIN EdgesOf(deps) = DOMAIN deps
      /\ \A n \in DOMAIN deps : EdgesOf(deps)[n] = Range(deps[n])
  BY DEF EdgesOf
<1> DEFINE R == Reached(EdgesOf(deps), Range(deps[p]))
<1>3. /\ R \in SUBSET DOMAIN EdgesOf(deps) /\ Range(deps[p]) \subseteq R
      /\ Closed(EdgesOf(deps), R)
  BY <1>1, <1>2, ReachedIsClosed
<1> HIDE DEF R
<1>4. \A n \in R : Range(deps[n]) \subseteq R
  BY <1>1, <1>2, <1>3 DEF Closed
<1>5. QED
  BY <1>2, <1>3, <1>4 DEF R, Beyond

\* A namespace may come last once all that it uses has come.
LEMMA SortedAppend ==
  ASSUME NEW deps, NEW nodes, NEW out \in Seq(nodes), NEW n \in nodes, Sorted(deps, out),
         n \notin Range(out), Range(deps[n]) \subseteq Range(out)
  PROVE  Sorted(deps, Append(out, n))
<1> DEFINE o == Append(out, n)
<1>1. Len(o) = Len(out) + 1 /\ o[Len(out) + 1] = n /\ \A i \in 1 .. Len(out) : o[i] = out[i]
  OBVIOUS
<1>2. \A i \in 1 .. Len(out) : out[i] # n
  BY DEF Range
<1>3. Len(out) \in Nat
  OBVIOUS
<1> HIDE DEF o
<1>4. ASSUME NEW i \in 1 .. Len(o), NEW j \in 1 .. Len(o), o[i] = o[j] PROVE i = j
  <2>1. CASE i \in 1 .. Len(out) /\ j \in 1 .. Len(out)
    BY <1>1, <1>4, <2>1 DEF Sorted
  <2>2. CASE i = Len(out) + 1 /\ j = Len(out) + 1
    BY <2>2
  <2>3. CASE i = Len(out) + 1 /\ j \in 1 .. Len(out)
    BY <1>1, <1>2, <1>4, <2>3
  <2>4. CASE j = Len(out) + 1 /\ i \in 1 .. Len(out)
    BY <1>1, <1>2, <1>4, <2>4
  <2>5. QED
    BY <1>1, <1>3, <2>1, <2>2, <2>3, <2>4
<1>5. ASSUME NEW i \in 1 .. Len(o), NEW d \in Range(deps[o[i]])
      PROVE  \E j \in 1 .. i - 1 : o[j] = d
  <2>1. CASE i \in 1 .. Len(out)
    <3>1. PICK j \in 1 .. i - 1 : out[j] = d
      BY <1>1, <2>1 DEF Sorted
    <3>2. o[j] = d
      BY <1>1, <1>3, <2>1, <3>1
    <3>3. QED
      BY <3>2
  <2>2. CASE i = Len(out) + 1
    <3>1. d \in Range(out)
      BY <1>1, <2>2
    <3>2. PICK j \in DOMAIN out : out[j] = d
      BY <3>1 DEF Range
    <3>3. j \in 1 .. Len(out)
      OBVIOUS
    <3>4. j \in 1 .. i - 1
      BY <1>3, <2>2, <3>3
    <3>5. o[j] = d
      BY <1>1, <3>2, <3>3
    <3>6. QED
      BY <3>4, <3>5
  <2>3. QED
    BY <1>1, <1>3, <2>1, <2>2
<1>6. Sorted(deps, o)
  BY <1>4, <1>5 DEF Sorted
<1>7. QED
  BY <1>6 DEF o

\* So does visiting namespaces one after the other.
LEMMA VisitsInTurn ==
  ASSUME NEW deps, NEW path, VisitsWell(deps, path),
         NEW v \in Visits(DOMAIN deps), NEW s \in Seq(DOMAIN deps)
  PROVE  LET w == ForEach(Visit(deps)[path], v, s)
         IN  /\ After(deps, path, v, w)
             /\ w.ok => Range(s) \subseteq Range(w.out)
             /\ NoCircle(deps) /\ v.ok /\ (\A n \in Range(s) : Above(deps, path, n)) => w.ok
<1> DEFINE f == Visit(deps)[path]
           Clear == NoCircle(deps) /\ v.ok /\ (\A n \in Range(s) : Above(deps, path, n))
           Well(i, w) == /\ After(deps, path, v, w)
                         /\ w.ok => \A j \in 1 .. i : s[j] \in Range(w.out)
                         /\ Clear => w.ok
           I == [i \in 0 .. Len(s) |-> {w \in Visits(DOMAIN deps) : Well(i, w)}]
<1>1. Len(s) \in Nat
  OBVIOUS
<1>2. v \in I[0]
  <2>1. After(deps, path, v, v)
    BY DEF After
  <2>2. 1 .. 0 = {}
    OBVIOUS
  <2>3. Well(0, v)
    BY <2>1, <2>2
  <2> HIDE DEF Well
  <2>4. QED
    BY <1>1, <2>3
<1>3. ASSUME NEW i \in 1 .. Len(s), NEW w \in I[i - 1] PROVE f[<<w, s[i]>>] \in I[i]
  <2> DEFINE x == f[<<w, s[i]>>]
  <2>1. i - 1 \in 0 .. Len(s) /\ i \in 0 .. Len(s)
    OBVIOUS
  <2>2. w \in Visits(DOMAIN deps) /\ Well(i - 1, w)
    BY <2>1
  <2>3. s[i] \in DOMAIN deps /\ s[i] \in Range(s)
    BY DEF Range
  <2>4. Visited(deps, path, w, s[i], x)
    BY <2>2, <2>3 DEF VisitsWell
  <2> HIDE DEF x, f
  <2>5. After(deps, path, w, x)
    BY <2>4 DEF Visited
  <2>6. After(deps, path, v, x)
    BY <2>2, <2>5, AfterComposes
  <2>7. ASSUME x.ok, NEW j \in 1 .. i PROVE s[j] \in Range(x.out)
    <3>1. CASE j = i
      BY <2>4, <2>7, <3>1 DEF Visited
    <3>2. CASE j # i
      <4>1. j \in 1 .. i - 1
        BY <3>2
      <4>2. w.ok /\ Range(w.out) \subseteq Range(x.out)
        BY <2>5, <2>7 DEF After
      <4>3. QED
        BY <2>2, <4>1, <4>2
    <3>3. QED
      BY <3>1, <3>2
  <2>8. ASSUME Clear PROVE x.ok
    <3>1. w.ok
      BY <2>2, <2>8
    <3>2. QED
      BY <2>3, <2>4, <2>8, <3>1 DEF Visited
  <2>9. x \in Visits(DOMAIN deps)
    BY <2>6 DEF After
  <2>10. Well(i, x)
    BY <2>6, <2>7, <2>8
  <2> HIDE DEF Well
  <2>11. QED
    BY <2>1, <2>9, <2>10 DEF x, f
<1> HIDE DEF f, I
<1>4. ForEach(f, v, s) \in I[Len(s)]
  BY <1>1, <1>2, <1>3, ForEachKeeps
<1>5. Well(Len(s), ForEach(f, v, s))
  <2> HIDE DEF Well
  <2>1. QED
    BY <1>1, <1>4 DEF I
<1>6. ASSUME NEW w, Well(Len(s), w)
      PROVE  w.ok => Range(s) \subseteq Range(w.out)
  BY <1>6 DEF Range
<1>7. QED
  BY <1>5, <1>6 DEF f

\* A visit does what it should where the visits further up do.
LEMMA VisitStepsWell ==
  ASSUME NEW deps, Graph(deps), NEW path \in SUBSET DOMAIN deps,
         \A n \in DOMAIN deps \ path : VisitsWell(deps, path \cup {n})
  PROVE  VisitsWell(deps, path)
<1> SUFFICES ASSUME NEW v \in Visits(DOMAIN deps), NEW n \in DOMAIN deps
             PROVE  Visited(deps, path, v, n, Visit(deps)[path][<<v, n>>])
  BY DEF VisitsWell
<1> DEFINE up == path \cup {n}
           w == Visit(deps)[path][<<v, n>>]
           d == ForEach(Visit(deps)[up], v, deps[n])
<1>1. w = IF n \in Range(v.out) THEN v
          ELSE IF n \in path THEN [v EXCEPT !.ok = FALSE]
          ELSE [d EXCEPT !.out = Append(@, n)]
  <2>1. Visit(deps)[path] = VisitOne(deps, Visit(deps), path)
    BY VisitStep DEF Graph
  <2>2. <<v, n>> \in Visits(DOMAIN deps) \X DOMAIN deps
    OBVIOUS
  <2> HIDE DEF Visits
  <2>3. QED
    BY <2>1, <2>2 DEF VisitOne
<1> HIDE DEF w, d
<1>2. v.ok \in BOOLEAN /\ v.out \in Seq(DOMAIN deps) /\ v = [ok |-> v.ok, out |-> v.out]
  BY DEF Visits
<1>3. CASE n \in Range(v.out)
  <2>1. w = v
    BY <1>1, <1>3
  <2>2. After(deps, path, v, v)
    BY DEF After
  <2>3. QED
    BY <1>3, <2>1, <2>2 DEF Visited, w
<1>4. CASE n \notin Range(v.out) /\ n \in path
  <2>1. w = [ok |-> FALSE, out |-> v.out]
    BY <1>1, <1>2, <1>4
  <2>2. w.ok = FALSE /\ w.out = v.out /\ w \in Visits(DOMAIN deps)
    BY <1>2, <2>1 DEF Visits
  <2>3. After(deps, path, v, w)
    BY <2>2 DEF After
  <2>4. NoCircle(deps) => ~Above(deps, path, n)
    BY <1>4 DEF NoCircle, Above
  <2>5. QED
    BY <2>2, <2>3, <2>4 DEF Visited, w
<1>5. CASE n \notin Range(v.out) /\ n \notin path
  <2>1. VisitsWell(deps, up) /\ deps[n] \in Seq(DOMAIN deps)
    BY <1>5 DEF Graph
  <2>2. /\ After(deps, up, v, d)
        /\ d.ok => Range(deps[n]) \subseteq Range(d.out)
        /\ NoCircle(deps) /\ v.ok /\ (\A m \in Range(deps[n]) : Above(deps, up, m)) => d.ok
    <3> HIDE DEF up
    <3>1. QED
      BY <2>1, VisitsInTurn DEF d
  <2>3. /\ d.ok \in BOOLEAN /\ d.out \in Seq(DOMAIN deps)
        /\ d = [ok |-> d.ok, out |-> d.out]
    BY <2>2 DEF After, Visits
  <2>4. w = [ok |-> d.ok, out |-> Append(d.out, n)]
    BY <1>1, <1>5, <2>3
  <2>5. w.ok = d.ok /\ w.out = Append(d.out, n) /\ w \in Visits(DOMAIN deps)
    BY <2>3, <2>4 DEF Visits
  <2>6. Range(w.out) = Range(d.out) \cup {n}
    BY <2>3, <2>5 DEF Range
  <2>7. n \notin Range(d.out)
    BY <1>5, <2>2 DEF After
  <2>8. After(deps, path, v, w)
    <3>1. w.ok => v.ok
      BY <2>2, <2>5 DEF After
    <3>2. Range(v.out) \subseteq Range(w.out)
      BY <2>2, <2>6 DEF After
    <3>3. Range(w.out) \cap path \subseteq Range(v.out)
      BY <1>5, <2>2, <2>6 DEF After
    <3>4. ASSUME w.ok, Sorted(deps, v.out) PROVE Sorted(deps, w.out)
      <4>1. Sorted(deps, d.out) /\ Range(deps[n]) \subseteq Range(d.out)
        BY <2>2, <2>5, <3>4 DEF After
      <4>2. QED
        BY <2>3, <2>5, <2>7, <4>1, SortedAppend
    <3>5. QED
      BY <2>5, <3>1, <3>2, <3>3, <3>4 DEF After
  <2>9. ASSUME Above(deps, path, n), NEW m \in Range(deps[n]) PROVE Above(deps, up, m)
    <3>1. ASSUME NEW p \in up PROVE m \in Beyond(deps, p)
      <4>1. CASE p = n
        BY <4>1, BeyondIsClosed
      <4>2. CASE p \in path
        <5>1. n \in Beyond(deps, p) /\ p \in DOMAIN deps
          BY <2>9, <4>2 DEF Above
        <5>2. QED
          BY <5>1, BeyondIsClosed
      <4>3. QED
        BY <4>1, <4>2
    <3>2. QED
      BY <3>1 DEF Above
  <2>10. QED
    BY <2>2, <2>5, <2>6, <2>8, <2>9 DEF Visited, w
<1>6. QED
  BY <1>3, <1>4, <1>5 DEF w

\* Every visit does what it should.
LEMMA VisitsAllWell ==
  ASSUME NEW deps, Graph(deps), NEW path \in SUBSET DOMAIN deps
  PROVE  VisitsWell(deps, path)
<1> DEFINE nodes == DOMAIN deps
           T == {p \in SUBSET nodes : VisitsWell(deps, p)}
<1>1. IsFiniteSet(nodes)
  BY DEF Graph
<1>2. ASSUME NEW p \in SUBSET nodes, \A n \in nodes \ p : p \cup {n} \in T PROVE p \in T
  BY <1>2, VisitStepsWell
<1> HIDE DEF T, nodes
<1>3. SUBSET nodes \subseteq T
  BY <1>1, <1>2, FromTheTop
<1>4. QED
  BY <1>3 DEF T, nodes

\* Where all the namespaces are sorted none reaches itself: what comes before one is closed.
LEMMA SortedHasNoCircle ==
  ASSUME NEW deps, Graph(deps), NEW out \in Seq(DOMAIN deps), Sorted(deps, out),
         Range(out) = DOMAIN deps
  PROVE  NoCircle(deps)
<1> SUFFICES ASSUME NEW n \in DOMAIN deps, n \in Beyond(deps, n) PROVE FALSE
  BY DEF NoCircle
<1>1. PICK i \in 1 .. Len(out) : out[i] = n
  BY DEF Range
<1> DEFINE Before == {out[j] : j \in 1 .. i - 1}
<1>2. Len(out) \in Nat /\ \A j \in 1 .. Len(out) : out[j] \in DOMAIN deps
  OBVIOUS
<1>3. Before \in SUBSET DOMAIN deps
  BY <1>2
<1>4. Range(deps[n]) \subseteq Before
  BY <1>1 DEF Sorted
<1>5. ASSUME NEW m \in Before, NEW d \in Range(deps[m]) PROVE d \in Before
  <2>1. PICK j \in 1 .. i - 1 : out[j] = m
    OBVIOUS
  <2>2. j \in 1 .. Len(out)
    BY <1>2
  <2>3. PICK k \in 1 .. j - 1 : out[k] = d
    BY <2>1, <2>2 DEF Sorted
  <2>4. k \in 1 .. i - 1
    BY <1>2
  <2>5. QED
    BY <2>3, <2>4
<1>6. n \notin Before
  <2>1. ASSUME NEW j \in 1 .. i - 1 PROVE out[j] # n
    <3>1. j \in 1 .. Len(out) /\ j # i
      BY <1>2
    <3>2. QED
      BY <1>1, <3>1 DEF Sorted
  <2>2. QED
    BY <2>1
<1>7. /\ DOMAIN EdgesOf(deps) = DOMAIN deps
      /\ \A m \in DOMAIN deps : EdgesOf(deps)[m] = Range(deps[m])
  BY DEF EdgesOf
<1>8. Closed(EdgesOf(deps), Before)
  <2> HIDE DEF Before
  <2>1. QED
    BY <1>3, <1>5, <1>7 DEF Closed
<1>9. Range(deps[n]) \in SUBSET DOMAIN EdgesOf(deps)
  BY <1>3, <1>4, <1>7
<1>10. Beyond(deps, n) \subseteq Before
  <2> HIDE DEF Before
  <2>1. QED
    BY <1>3, <1>4, <1>7, <1>8, <1>9, ReachedIsClosed DEF Beyond
<1>11. QED
  BY <1>6, <1>10

\* Whatever the order its sets are iterated in, the search succeeds if and only if no
\* namespace reaches itself, and then has each once, after all that it uses (topo_sort).
THEOREM SearchSorts ==
  ASSUME NEW deps, Graph(deps), NEW names \in Seq(DOMAIN deps), Range(names) = DOMAIN deps
  PROVE  LET order == TopoSort(names, deps)
         IN  /\ order \in Visits(DOMAIN deps)
             /\ order.ok <=> NoCircle(deps)
             /\ order.ok => Range(order.out) = DOMAIN deps /\ Sorted(deps, order.out)
<1> DEFINE start == [ok |-> TRUE, out |-> <<>>]
           w == ForEach(Visit(deps)[{}], start, names)
<1>1. start \in Visits(DOMAIN deps)
  BY DEF Visits
<1>2. Sorted(deps, start.out)
  BY DEF Sorted
<1>3. VisitsWell(deps, {})
  BY VisitsAllWell
<1>4. \A n \in Range(names) : Above(deps, {}, n)
  BY DEF Above
<1> HIDE DEF start
<1>5. /\ After(deps, {}, start, w)
      /\ w.ok => Range(names) \subseteq Range(w.out)
      /\ NoCircle(deps) /\ start.ok => w.ok
  BY <1>1, <1>3, <1>4, VisitsInTurn
<1>6. TopoSort(names, deps) = w
  BY DEF TopoSort, start
<1> HIDE DEF w
<1>7. w \in Visits(DOMAIN deps) /\ w.out \in Seq(DOMAIN deps)
  BY <1>5 DEF After, Visits
<1>8. w.ok => Range(w.out) = DOMAIN deps /\ Sorted(deps, w.out)
  <2>1. Range(w.out) \subseteq DOMAIN deps
    BY <1>7 DEF Range
  <2>2. QED
    BY <1>2, <1>5, <2>1 DEF After
<1>9. w.ok => NoCircle(deps)
  BY <1>7, <1>8, SortedHasNoCircle
<1>10. NoCircle(deps) => w.ok
  BY <1>5 DEF start
<1>11. QED
  BY <1>6, <1>7, <1>8, <1>9, <1>10
--------------------------------------------------------------------------------
(* The order a project is compiled in (compute_transitive). *)

\* What a finite set is iterated as has its elements and no others.
LEMMA IteratesAll ==
  ASSUME NEW S, IsFiniteSet(S)
  PROVE  SetToSeq(S) \in Seq(S) /\ Range(SetToSeq(S)) = S
<1> DEFINE n == Cardinality(S)
           f == SetToSeq(S)
<1>1. n \in Nat /\ ExistsBijection(1 .. n, S)
  BY FS_CardinalityType
<1>2. \E g \in [1 .. n -> S] : IsInjective(g)
  BY <1>1 DEF ExistsBijection, Bijection, Injection
<1>3. f \in [1 .. n -> S] /\ IsInjective(f)
  BY <1>2 DEF SetToSeq
<1> HIDE DEF f
<1>4. f \in Injection(1 .. n, S)
  BY <1>3 DEF Injection
<1>5. Cardinality(1 .. n) = Cardinality(S)
  <2>1. 1 \in Int /\ n \in Int
    BY <1>1
  <2>2. Cardinality(1 .. n) = IF 1 > n THEN 0 ELSE n - 1 + 1
    BY <2>1, FS_Interval
  <2> HIDE DEF n
  <2>3. Cardinality(1 .. n) = n
    BY <1>1, <2>2
  <2>4. QED
    BY <2>3 DEF n
<1>6. f \in Surjection(1 .. n, S)
  BY <1>4, <1>5, FS_Injection
<1>7. f \in Seq(S)
  BY <1>1, <1>3
<1>8. Range(f) = S
  BY <1>3, <1>6 DEF Range, Surjection
<1>9. QED
  BY <1>7, <1>8 DEF f

\* Within a closed set, what is reached is the same with the other namespaces left out.
LEMMA ReachedWithin ==
  ASSUME NEW edges, NEW K \in SUBSET DOMAIN edges, \A n \in K : edges[n] \subseteq K,
         NEW from \in SUBSET K
  PROVE  Reached([n \in K |-> edges[n]], from) = Reached(edges, from)
<1> DEFINE e == [n \in K |-> edges[n]]
<1>1. DOMAIN e = K /\ \A n \in K : e[n] = edges[n]
  OBVIOUS
<1> HIDE DEF e
<1>2. Closed(edges, K)
  BY DEF Closed
<1>3. \A S \in SUBSET K : Closed(e, S) <=> Closed(edges, S)
  BY <1>1 DEF Closed
<1>4. \A S \in SUBSET DOMAIN edges : Closed(edges, S) => Closed(edges, S \cap K)
  BY <1>2 DEF Closed
<1>5. ASSUME NEW n \in Reached(e, from) PROVE n \in Reached(edges, from)
  <2>1. SUFFICES ASSUME NEW S \in SUBSET DOMAIN edges, from \subseteq S, Closed(edges, S)
                 PROVE  n \in S
    BY <1>1, <1>5 DEF Reached
  <2>2. S \cap K \in SUBSET DOMAIN e /\ from \subseteq S \cap K /\ Closed(e, S \cap K)
    BY <1>1, <1>3, <1>4, <2>1
  <2>3. QED
    BY <2>2 DEF Reached
<1>6. ASSUME NEW n \in Reached(edges, from) PROVE n \in Reached(e, from)
  <2>1. n \in K
    BY <1>2 DEF Reached
  <2>2. ASSUME NEW S \in SUBSET K, from \subseteq S, Closed(e, S) PROVE n \in S
    <3>1. S \in SUBSET DOMAIN edges /\ Closed(edges, S)
      BY <1>3, <2>2
    <3>2. QED
      BY <2>2, <3>1 DEF Reached
  <2>3. QED
    BY <1>1, <2>1, <2>2 DEF Reached
<1>7. QED
  BY <1>5, <1>6 DEF e

\* What the compiler refuses: a path that names nothing, a namespace that does not exist,
\* and a namespace that reaches itself.
NamesSomething(units) == \A ns \in DOMAIN units : \A u \in Range(units[ns].uses) : ValidUse(u)
Exist(units, needed) == \A n \in needed : Edges(units)[n] \subseteq DOMAIN units
NoneReachesItself(units, needed) ==
    \A n \in needed : n \notin Reached(Edges(units), Edges(units)[n])

\* The compiler orders the namespaces reached from the entry if and only if every path
\* names something, all that they use exists, and none reaches itself; then each comes
\* once, before all that it uses (compute_transitive and topo_sort).
THEOREM ImportersComeFirst ==
  ASSUME NEW units, IsFiniteSet(DOMAIN units), NEW entry \in DOMAIN units
  PROVE  LET r == ComputeTransitive(units, entry)
             needed == Reached(Edges(units), {entry})
         IN  /\ r.ok <=> /\ NamesSomething(units)
                         /\ Exist(units, needed)
                         /\ NoneReachesItself(units, needed)
             /\ r.ok => /\ Range(r.out) = needed
                        /\ IsInjective(r.out)
                        /\ \A i, j \in DOMAIN r.out :
                              r.out[j] \in Edges(units)[r.out[i]] => i < j
<1> DEFINE edges == Edges(units)
           needed == Reached(edges, {entry})
           deps == [n \in needed |-> SetToSeq(edges[n])]
           order == TopoSort(SetToSeq(needed), deps)
           r == ComputeTransitive(units, entry)
<1>1. DOMAIN edges = DOMAIN units
  BY DEF Edges
<1> HIDE DEF edges, needed
<1>2. /\ needed \in SUBSET DOMAIN units
      /\ Closed(edges, needed)
      /\ Needed(edges, {entry}) = needed
  BY <1>1, ReachedIsClosed, NeededIsReached DEF needed
<1>3. r = IF ~NamesSomething(units) \/ ~Exist(units, needed) THEN [ok |-> FALSE, out |-> <<>>]
          ELSE [ok |-> order.ok, out |-> Reverse(order.out)]
  BY <1>2 DEF ComputeTransitive, NamesSomething, Exist, edges
<1> HIDE DEF r
<1>4. CASE ~NamesSomething(units) \/ ~Exist(units, needed)
  BY <1>3, <1>4 DEF edges, needed, r
<1>5. CASE NamesSomething(units) /\ Exist(units, needed)
  <2>1. IsFiniteSet(needed)
    BY <1>2, FS_Subset
  <2>2. ASSUME NEW n \in needed
        PROVE  edges[n] \subseteq needed /\ IsFiniteSet(edges[n])
    <3>1. edges[n] \subseteq needed
      BY <1>1, <1>2, <1>5 DEF Closed, Exist, edges
    <3>2. QED
      BY <2>1, <3>1, FS_Subset
  <2>3. DOMAIN deps = needed /\ \A n \in needed : deps[n] = SetToSeq(edges[n])
    OBVIOUS
  <2> HIDE DEF deps
  <2>4. ASSUME NEW n \in needed PROVE deps[n] \in Seq(needed) /\ Range(deps[n]) = edges[n]
    BY <2>2, <2>3, IteratesAll
  <2>5. Graph(deps)
    BY <2>1, <2>3, <2>4 DEF Graph
  <2>6. SetToSeq(needed) \in Seq(DOMAIN deps) /\ Range(SetToSeq(needed)) = DOMAIN deps
    BY <2>1, <2>3, IteratesAll
  <2>7. /\ order \in Visits(DOMAIN deps)
        /\ order.ok <=> NoCircle(deps)
        /\ order.ok => Range(order.out) = DOMAIN deps /\ Sorted(deps, order.out)
    BY <2>5, <2>6, SearchSorts
  <2>8. NoCircle(deps) <=> NoneReachesItself(units, needed)
    <3>1. EdgesOf(deps) = [n \in needed |-> edges[n]]
      BY <2>3, <2>4 DEF EdgesOf
    <3>2. ASSUME NEW n \in needed PROVE Beyond(deps, n) = Reached(edges, edges[n])
      <4>1. Beyond(deps, n) = Reached([m \in needed |-> edges[m]], edges[n])
        BY <2>4, <3>1 DEF Beyond
      <4>2. needed \in SUBSET DOMAIN edges /\ edges[n] \in SUBSET needed
        BY <1>1, <1>2, <2>2
      <4>3. \A m \in needed : edges[m] \subseteq needed
        BY <2>2
      <4>4. QED
        BY <4>1, <4>2, <4>3, ReachedWithin
    <3>3. QED
      BY <2>3, <3>2 DEF NoCircle, NoneReachesItself, edges
  <2> HIDE DEF order
  <2>9. r.ok = order.ok /\ r.out = Reverse(order.out)
    BY <1>3, <1>5
  <2>10. ASSUME r.ok
         PROVE  /\ Range(r.out) = needed
                /\ IsInjective(r.out)
                /\ \A i, j \in DOMAIN r.out : r.out[j] \in edges[r.out[i]] => i < j
    <3> DEFINE o == order.out
               n == Len(o)
    <3>1. o \in Seq(needed) /\ Range(o) = needed /\ Sorted(deps, o)
      BY <2>3, <2>7, <2>9, <2>10 DEF Visits
    <3> HIDE DEF o
    <3>2. n \in Nat /\ DOMAIN o = 1 .. n
      BY <3>1
    <3> HIDE DEF n
    <3>3. DOMAIN r.out = 1 .. n /\ \A i \in 1 .. n : r.out[i] = o[n - i + 1]
      BY <2>9 DEF Reverse, o, n
    <3>4. \A i \in 1 .. n : n - i + 1 \in 1 .. n /\ n - (n - i + 1) + 1 = i
      BY <3>2
    <3>5. Range(r.out) = needed
      <4>1. ASSUME NEW i \in 1 .. n PROVE \E j \in 1 .. n : r.out[j] = o[i]
        <5>1. n - i + 1 \in 1 .. n /\ r.out[n - i + 1] = o[n - (n - i + 1) + 1]
          BY <3>3, <3>4
        <5>2. r.out[n - i + 1] = o[i]
          BY <3>4, <5>1
        <5>3. QED
          BY <5>1, <5>2
      <4>2. ASSUME NEW x \in Range(o) PROVE x \in Range(r.out)
        <5>1. PICK i \in 1 .. n : o[i] = x
          BY <3>2 DEF Range
        <5>2. QED
          BY <3>3, <4>1, <5>1 DEF Range
      <4>3. ASSUME NEW i \in 1 .. n PROVE r.out[i] \in Range(o)
        <5>1. n - i + 1 \in DOMAIN o /\ r.out[i] = o[n - i + 1]
          BY <3>2, <3>3, <3>4
        <5>2. QED
          BY <5>1 DEF Range
      <4>4. QED
        BY <3>1, <3>3, <4>2, <4>3 DEF Range
    <3>6. ASSUME NEW i \in 1 .. n, NEW j \in 1 .. n, r.out[i] = r.out[j] PROVE i = j
      <4> DEFINE k == n - i + 1
                 l == n - j + 1
      <4>1. k \in 1 .. n /\ l \in 1 .. n /\ o[k] = o[l]
        BY <3>3, <3>4, <3>6
      <4> HIDE DEF k, l
      <4>2. k = l
        BY <3>1, <4>1 DEF Sorted, n
      <4>3. QED
        BY <3>2, <4>2 DEF k, l
    <3>7. ASSUME NEW i \in 1 .. n, NEW j \in 1 .. n, r.out[j] \in edges[r.out[i]] PROVE i < j
      <4> DEFINE k == n - i + 1
                 l == n - j + 1
      <4>1. k \in 1 .. n /\ l \in 1 .. n /\ r.out[i] = o[k] /\ r.out[j] = o[l]
        BY <3>3, <3>4
      <4>2. o[k] \in needed
        BY <3>1, <3>2, <4>1
      <4>3. o[l] \in Range(deps[o[k]])
        BY <2>4, <3>7, <4>1, <4>2
      <4> HIDE DEF k, l
      <4>4. PICK m \in 1 .. k - 1 : o[m] = o[l]
        BY <3>1, <4>1, <4>3 DEF Sorted, n
      <4>5. m \in 1 .. n /\ m < k
        BY <3>2, <4>1
      <4>6. m = l
        BY <3>1, <4>1, <4>4, <4>5 DEF Sorted, n
      <4>7. QED
        BY <3>2, <4>5, <4>6 DEF k, l
    <3>8. QED
      BY <3>3, <3>5, <3>6, <3>7 DEF IsInjective
  <2>11. QED
    BY <1>5, <2>7, <2>8, <2>9, <2>10 DEF edges, needed, r
<1>6. QED
  BY <1>4, <1>5

\* A project of one namespace, and so every project that parses, compiles only if it uses
\* nothing: its own name is the only one that exists, and to use it is a circle.
THEOREM AloneUsesNothing ==
  ASSUME NEW units, NEW entry, DOMAIN units = {entry},
         NEW Uses, units[entry].uses \in Seq(Uses)
  PROVE  ComputeTransitive(units, entry).ok <=> units[entry].uses = <<>>
<1> DEFINE edges == Edges(units)
           uses == units[entry].uses
           needed == Reached(edges, {entry})
<1>1. DOMAIN edges = {entry} /\ edges[entry] = {UseTarget(u) : u \in Range(uses)}
  BY DEF Edges
<1>2. IsFiniteSet(DOMAIN units)
  BY FS_Singleton
<1>3. ComputeTransitive(units, entry).ok <=>
          NamesSomething(units) /\ Exist(units, needed) /\ NoneReachesItself(units, needed)
  BY <1>2, ImportersComeFirst
<1>4. needed = {entry}
  BY <1>1, ReachedIsClosed
<1>5. ASSUME uses = <<>>
      PROVE  NamesSomething(units) /\ Exist(units, needed) /\ NoneReachesItself(units, needed)
  <2>1. Range(uses) = {}
    BY <1>5 DEF Range
  <2>2. edges[entry] = {}
    BY <1>1, <2>1
  <2>3. Reached(edges, {}) = {}
    BY ReachedIsClosed DEF Closed
  <2>4. QED
    BY <1>4, <2>1, <2>2, <2>3 DEF NamesSomething, Exist, NoneReachesItself
<1>6. ASSUME Exist(units, needed), NoneReachesItself(units, needed) PROVE uses = <<>>
  <2>1. SUFFICES ASSUME uses # <<>> PROVE FALSE
    OBVIOUS
  <2>2. uses[1] \in Range(uses)
    BY <2>1 DEF Range
  <2>3. UseTarget(uses[1]) \in edges[entry]
    BY <1>1, <2>2
  <2>4. edges[entry] \subseteq {entry}
    BY <1>4, <1>6 DEF Exist
  <2>5. edges[entry] = {entry}
    BY <2>3, <2>4
  <2>6. entry \in Reached(edges, edges[entry])
    BY <1>4, <2>5
  <2>7. QED
    BY <1>4, <1>6, <2>6 DEF NoneReachesItself
<1>7. QED
  BY <1>3, <1>5, <1>6
--------------------------------------------------------------------------------
(* What the names of a namespace mean (build_alias_map). *)

\* What BuildAliasMap has of the first n uses.
Imports(maps, v, s, n, g) ==
    g = [i \in 0 .. n |-> IF i = 0 THEN v ELSE Import(maps, g[i - 1], s[i])]

\* The function BuildAliasMap goes by exists.
LEMMA ImportsExist ==
  ASSUME NEW maps, NEW v, NEW s, NEW n \in Nat
  PROVE  \E g : Imports(maps, v, s, n, g)
<1> DEFINE S == {k \in 0 .. n : \E g : Imports(maps, v, s, k, g)}
<1>1. 0 \in S
  <2> DEFINE g == [i \in 0 .. 0 |-> v]
  <2>1. Imports(maps, v, s, 0, g)
    BY DEF Imports
  <2>2. QED
    BY <2>1
<1>2. ASSUME NEW k \in 0 .. n - 1, k \in S PROVE k + 1 \in S
  <2>1. PICK g : Imports(maps, v, s, k, g)
    BY <1>2
  <2> DEFINE e == Import(maps, g[k], s[k + 1])
             h == [i \in 0 .. k + 1 |-> IF i = k + 1 THEN e ELSE g[i]]
  <2>2. ASSUME NEW i \in 0 .. k + 1
        PROVE  h[i] = IF i = 0 THEN v ELSE Import(maps, h[i - 1], s[i])
    <3>1. CASE i = k + 1
      <4>1. i # 0 /\ i - 1 = k /\ h[i - 1] = g[k] /\ h[i] = e
        BY <3>1
      <4>2. QED
        BY <3>1, <4>1
    <3>2. CASE i # k + 1
      <4>1. i \in 0 .. k /\ h[i] = g[i]
        BY <3>2
      <4>2. g[i] = IF i = 0 THEN v ELSE Import(maps, g[i - 1], s[i])
        BY <2>1, <4>1 DEF Imports
      <4>3. i # 0 => h[i - 1] = g[i - 1]
        BY <4>1
      <4> HIDE DEF h
      <4>4. QED
        BY <4>1, <4>2, <4>3
    <3>3. QED
      BY <3>1, <3>2
  <2> HIDE DEF e
  <2>3. h = [i \in 0 .. k + 1 |-> h[i]]
    OBVIOUS
  <2> HIDE DEF h
  <2>4. Imports(maps, v, s, k + 1, h)
    BY <2>2, <2>3 DEF Imports
  <2>5. QED
    BY <2>4
<1> HIDE DEF S
<1>3. n \in S
  BY <1>1, <1>2, CountUp
<1>4. QED
  BY <1>3 DEF S

\* What the names mean by their declarations and the first n uses, as pairs.
Meanings(maps, ns, uses, n) ==
    {<<x, maps[ns][x]>> : x \in DOMAIN maps[ns]} \cup
    UNION {{<<x, maps[UseTarget(uses[i])][x]>> : x \in Imported(maps, uses[i])} : i \in 1 .. n}
\* Whether each of these uses names what is there, and no name means two things.
Clear(maps, ns, uses, n) ==
    /\ \A i \in 1 .. n : /\ UseTarget(uses[i]) \in DOMAIN maps
                         /\ Imported(maps, uses[i]) \subseteq DOMAIN maps[UseTarget(uses[i])]
    /\ \A p, q \in Meanings(maps, ns, uses, n) : p[1] = q[1] => p[2] = q[2]
\* An alias map that is right for the first n uses.
Aliases(maps, ns, uses, n, a) ==
    /\ a = [ok |-> a.ok, al |-> a.al] /\ a.ok \in BOOLEAN
    /\ a.ok <=> Clear(maps, ns, uses, n)
    /\ a.ok => /\ a.al = [x \in DOMAIN a.al |-> a.al[x]]
               /\ {<<x, a.al[x]>> : x \in DOMAIN a.al} = Meanings(maps, ns, uses, n)

\* One more use keeps the map right.
LEMMA ImportStepsWell ==
  ASSUME NEW maps, NEW ns, NEW uses, NEW n \in Nat \ {0}, NEW a,
         Aliases(maps, ns, uses, n - 1, a)
  PROVE  Aliases(maps, ns, uses, n, Import(maps, a, uses[n]))
<1> DEFINE u == uses[n]
           from == maps[UseTarget(u)]
           new == Imported(maps, u)
           M == Meanings(maps, ns, uses, n - 1)
           N == {<<x, from[x]>> : x \in new}
           b == Import(maps, a, u)
           Bad == \/ UseTarget(u) \notin DOMAIN maps
                  \/ \E x \in new :
                        x \notin DOMAIN from \/ (x \in DOMAIN a.al /\ a.al[x] # from[x])
           al == [x \in DOMAIN a.al \cup new |->
                    IF x \in DOMAIN a.al THEN a.al[x] ELSE from[x]]
<1>1. 1 .. n = (1 .. n - 1) \cup {n}
  OBVIOUS
<1>2. Meanings(maps, ns, uses, n) = M \cup N
  BY <1>1 DEF Meanings
<1>3. b = IF Bad THEN [ok |-> FALSE, al |-> a.al] ELSE [ok |-> a.ok, al |-> al]
  <2> DEFINE no == FALSE
  <2>1. b = IF Bad THEN [a EXCEPT !.ok = no] ELSE [a EXCEPT !.al = al]
    BY DEF Import
  <2> HIDE DEF Bad, al, b, no
  <2>2. a = [ok |-> a.ok, al |-> a.al]
    BY DEF Aliases
  <2>3. [a EXCEPT !.ok = no] = [ok |-> no, al |-> a.al]
    BY <2>2
  <2>4. [a EXCEPT !.al = al] = [ok |-> a.ok, al |-> al]
    BY <2>2
  <2>5. b = IF Bad THEN [ok |-> no, al |-> a.al] ELSE [ok |-> a.ok, al |-> al]
    BY <2>1, <2>3, <2>4
  <2>6. QED
    BY <2>5 DEF no
<1>4. Clear(maps, ns, uses, n) =>
          /\ Clear(maps, ns, uses, n - 1) /\ UseTarget(u) \in DOMAIN maps
          /\ new \subseteq DOMAIN from
          /\ \A p \in M : \A q \in N : p[1] = q[1] => p[2] = q[2]
  BY <1>1, <1>2 DEF Clear
<1> HIDE DEF b, M
<1>5. ASSUME Clear(maps, ns, uses, n) PROVE ~Bad /\ a.ok
  <2>1. a.ok /\ {<<x, a.al[x]>> : x \in DOMAIN a.al} = M
    BY <1>4, <1>5 DEF Aliases, M
  <2>2. ASSUME NEW x \in new, x \in DOMAIN a.al PROVE a.al[x] = from[x]
    <3>1. <<x, a.al[x]>> \in M /\ <<x, from[x]>> \in N
      BY <2>1, <2>2
    <3> HIDE DEF N, from, new
    <3>2. QED
      BY <1>4, <1>5, <3>1
  <2>3. QED
    BY <1>4, <1>5, <2>1, <2>2
<1>6. ASSUME ~Bad, a.ok
      PROVE  /\ Clear(maps, ns, uses, n)
             /\ {<<x, al[x]>> : x \in DOMAIN al} = Meanings(maps, ns, uses, n)
  <2>1. Clear(maps, ns, uses, n - 1) /\ {<<x, a.al[x]>> : x \in DOMAIN a.al} = M
    BY <1>6 DEF Aliases, M
  <2>2. \A x \in new : x \in DOMAIN from /\ (x \in DOMAIN a.al => a.al[x] = from[x])
    BY <1>6
  <2>3. UseTarget(u) \in DOMAIN maps
    BY <1>6
  <2> HIDE DEF from, new
  <2>4. {<<x, al[x]>> : x \in DOMAIN al} = M \cup N
    <3>1. \A x \in DOMAIN a.al : al[x] = a.al[x]
      OBVIOUS
    <3>2. \A x \in new : al[x] = from[x]
      BY <2>2
    <3>3. DOMAIN al = DOMAIN a.al \cup new
      OBVIOUS
    <3> HIDE DEF al
    <3>4. QED
      BY <2>1, <3>1, <3>2, <3>3
  <2>5. \A p, q \in {<<x, al[x]>> : x \in DOMAIN al} : p[1] = q[1] => p[2] = q[2]
    <3> HIDE DEF al
    <3>1. QED
      OBVIOUS
  <2>6. \A i \in 1 .. n : /\ UseTarget(uses[i]) \in DOMAIN maps
                         /\ Imported(maps, uses[i]) \subseteq DOMAIN maps[UseTarget(uses[i])]
    BY <1>1, <2>1, <2>2, <2>3 DEF Clear, from, new
  <2> HIDE DEF al
  <2>7. QED
    BY <1>2, <2>4, <2>5, <2>6 DEF Clear
<1> HIDE DEF Bad
<1>7. CASE Bad
  <2>1. b = [ok |-> FALSE, al |-> a.al]
    BY <1>3, <1>7
  <2>2. b = [ok |-> b.ok, al |-> b.al] /\ b.ok = FALSE
    BY <2>1
  <2>3. QED
    BY <1>5, <1>7, <2>2 DEF Aliases, b
<1>8. CASE ~Bad
  <2>1. b = [ok |-> a.ok, al |-> al] /\ a.ok \in BOOLEAN
    BY <1>3, <1>8 DEF Aliases
  <2>2. al = [x \in DOMAIN al |-> al[x]]
    OBVIOUS
  <2> HIDE DEF al
  <2>3. b = [ok |-> b.ok, al |-> b.al] /\ b.ok = a.ok /\ b.al = al
    BY <2>1
  <2>4. QED
    BY <1>5, <1>6, <1>8, <2>1, <2>2, <2>3 DEF Aliases, b
<1>9. QED
  BY <1>7, <1>8

\* The names of a namespace get exactly the meanings its declarations and its uses give
\* them; the compiler refuses a use of what is not there, and a name that would mean two
\* things, and nothing else (build_alias_map).
THEOREM NamesMeanOneThing ==
  ASSUME NEW units, NEW ns, NEW maps, maps[ns] = [x \in DOMAIN maps[ns] |-> maps[ns][x]],
         Len(units[ns].uses) \in Nat
  PROVE  Aliases(maps, ns, units[ns].uses, Len(units[ns].uses), BuildAliasMap(ns, units, maps))
<1> DEFINE uses == units[ns].uses
           n == Len(uses)
           v == [ok |-> TRUE, al |-> maps[ns]]
           g == CHOOSE h : Imports(maps, v, uses, n, h)
<1>1. BuildAliasMap(ns, units, maps) = g[n]
  BY DEF BuildAliasMap, Fold, Imports
<1>2. Imports(maps, v, uses, n, g)
  BY ImportsExist
<1> HIDE DEF g
<1> DEFINE S == {i \in 0 .. n : Aliases(maps, ns, uses, i, g[i])}
<1>3. 0 \in S
  <2>1. g[0] = v
    BY <1>2 DEF Imports
  <2>2. Meanings(maps, ns, uses, 0) = {<<x, maps[ns][x]>> : x \in DOMAIN maps[ns]}
    BY DEF Meanings
  <2>3. Clear(maps, ns, uses, 0)
    BY <2>2 DEF Clear
  <2>4. v.ok = TRUE /\ v.al = maps[ns] /\ v = [ok |-> v.ok, al |-> v.al]
    OBVIOUS
  <2> HIDE DEF v
  <2>5. Aliases(maps, ns, uses, 0, v)
    BY <2>2, <2>3, <2>4 DEF Aliases
  <2>6. QED
    BY <2>1, <2>5
<1>4. ASSUME NEW i \in 0 .. n - 1, i \in S PROVE i + 1 \in S
  <2>1. i + 1 \in 0 .. n /\ i + 1 # 0 /\ (i + 1) - 1 = i /\ i + 1 \in Nat \ {0}
    OBVIOUS
  <2>2. g[i + 1] = Import(maps, g[i], uses[i + 1])
    BY <1>2, <2>1 DEF Imports
  <2>3. Aliases(maps, ns, uses, (i + 1) - 1, g[i])
    BY <1>4, <2>1
  <2>4. Aliases(maps, ns, uses, i + 1, g[i + 1])
    BY <2>1, <2>2, <2>3, ImportStepsWell, SMTT(30)
  <2>5. QED
    BY <2>1, <2>4
<1> HIDE DEF S
<1>5. n \in S
  BY <1>3, <1>4, CountUp
<1>6. QED
  BY <1>1, <1>5 DEF S
--------------------------------------------------------------------------------
(* What the files of a namespace declare and use (extract_namespace_units). *)

\* What a namespace may declare and use, each out of S.
Units(S) == [decls : Seq(S), uses : Seq(S)]

\* A unit uses something once a use is put into it.
LEMMA PutKeeps ==
  ASSUME NEW S, NEW unit \in Units(S), NEW d \in S
  PROVE  /\ Put(unit, d) \in Units(S)
         /\ Put(unit, d).uses = <<>> <=> unit.uses = <<>> /\ d.k # "use"
<1>1. /\ unit.decls \in Seq(S) /\ unit.uses \in Seq(S)
      /\ unit = [decls |-> unit.decls, uses |-> unit.uses]
  BY DEF Units
<1>2. CASE d.k = "use"
  <2>1. Put(unit, d) = [decls |-> unit.decls, uses |-> Append(unit.uses, d)]
    BY <1>1, <1>2 DEF Put
  <2>2. ASSUME NEW q \in Seq(S) PROVE Append(q, d) \in Seq(S) /\ Append(q, d) # <<>>
    <3>1. Len(Append(q, d)) = Len(q) + 1 /\ Len(q) \in Nat
      OBVIOUS
    <3>2. Append(q, d) \in Seq(S)
      OBVIOUS
    <3>3. Append(q, d) # <<>>
      BY <3>1
    <3>4. QED
      BY <3>2, <3>3
  <2>3. QED
    BY <1>1, <1>2, <2>1, <2>2 DEF Units
<1>3. CASE d.k # "use"
  <2>1. Put(unit, d) = [decls |-> Append(unit.decls, d), uses |-> unit.uses]
    BY <1>1, <1>3 DEF Put
  <2>2. Append(unit.decls, d) \in Seq(S)
    BY <1>1
  <2>3. QED
    BY <1>1, <1>3, <2>1, <2>2 DEF Units
<1>4. QED
  BY <1>2, <1>3

\* What has been put into a unit of the first n declarations of s.
Puts(unit, s, n, g) == g = [i \in 0 .. n |-> IF i = 0 THEN unit ELSE Put(g[i - 1], s[i])]

\* The function PutFile goes by exists: Put is a function on the units.
LEMMA PutsExist ==
  ASSUME NEW S, NEW unit \in Units(S), NEW s \in Seq(S)
  PROVE  \E g : Puts(unit, s, Len(s), g)
<1> DEFINE n == Len(s)
           f == [p \in Units(S) \X S |-> Put(p[1], p[2])]
<1>1. n \in Nat /\ \A i \in 1 .. n : s[i] \in S
  OBVIOUS
<1>2. \A w \in Units(S) : \A d \in S : f[<<w, d>>] = Put(w, d) /\ f[<<w, d>>] \in Units(S)
  BY PutKeeps
<1> HIDE DEF n, f
<1>3. PICK g : Through(f, unit, s, n, g)
  BY <1>1, ThroughExists
<1> DEFINE T == {i \in 0 .. n : g[i] \in Units(S)}
<1>4. \A i \in 0 .. n : g[i] = IF i = 0 THEN unit ELSE f[<<g[i - 1], s[i]>>]
  BY <1>3 DEF Through
<1>5. 0 \in T
  <2>1. 0 \in 0 .. n
    BY <1>1
  <2>2. g[0] = unit
    BY <1>4, <2>1
  <2>3. QED
    BY <2>1, <2>2
<1>6. ASSUME NEW i \in 0 .. n - 1, i \in T PROVE i + 1 \in T
  <2>1. i + 1 \in 0 .. n /\ i + 1 # 0 /\ (i + 1) - 1 = i /\ i + 1 \in 1 .. n
    BY <1>1
  <2>2. g[i + 1] = f[<<g[i], s[i + 1]>>]
    BY <1>4, <2>1
  <2>3. QED
    BY <1>1, <1>2, <1>6, <2>1, <2>2
<1>7. ASSUME NEW k \in 0 .. n PROVE k \in T
  <2>1. k \in Nat /\ \A i \in 0 .. k - 1 : i \in 0 .. n - 1
    BY <1>1
  <2> HIDE DEF T
  <2>2. QED
    BY <1>5, <1>6, <2>1, CountUp
<1>8. ASSUME NEW i \in 0 .. n PROVE g[i] = IF i = 0 THEN unit ELSE Put(g[i - 1], s[i])
  <2>1. CASE i = 0
    BY <1>4, <2>1
  <2>2. CASE i # 0
    <3>1. i - 1 \in 0 .. n /\ i \in 1 .. n
      BY <1>1, <2>2
    <3>2. g[i - 1] \in Units(S) /\ s[i] \in S
      BY <1>1, <1>7, <3>1
    <3>3. QED
      BY <1>2, <1>4, <2>2, <3>2
  <2>3. QED
    BY <2>1, <2>2
<1>9. g = [i \in 0 .. n |-> g[i]]
  BY <1>3 DEF Through
<1>10. Puts(unit, s, n, g)
  BY <1>8, <1>9 DEF Puts
<1>11. QED
  BY <1>10 DEF n

\* A file adds uses if and only if one of its declarations is one.
LEMMA FileKeeps ==
  ASSUME NEW S, NEW unit \in Units(S), NEW s \in Seq(S)
  PROVE  /\ Fold(Put, unit, s) \in Units(S)
         /\ Fold(Put, unit, s).uses = <<>> <=>
               unit.uses = <<>> /\ \A j \in 1 .. Len(s) : s[j].k # "use"
<1> DEFINE n == Len(s)
           g == CHOOSE h : Puts(unit, s, n, h)
           Right(i) == /\ g[i] \in Units(S)
                       /\ g[i].uses = <<>> <=>
                             unit.uses = <<>> /\ \A j \in 1 .. i : s[j].k # "use"
           T == {i \in 0 .. n : Right(i)}
<1>1. Fold(Put, unit, s) = g[n]
  BY DEF Fold, Puts
<1>2. Puts(unit, s, n, g)
  BY PutsExist
<1>3. n \in Nat /\ \A i \in 1 .. n : s[i] \in S
  OBVIOUS
<1> HIDE DEF g, n
<1>4. 0 \in T
  BY <1>2, <1>3 DEF Puts
<1>5. ASSUME NEW i \in 0 .. n - 1, i \in T PROVE i + 1 \in T
  <2>1. i + 1 \in 0 .. n /\ i + 1 # 0 /\ (i + 1) - 1 = i /\ i + 1 \in 1 .. n
    BY <1>3
  <2>2. g[i + 1] = Put(g[i], s[i + 1])
    BY <1>2, <2>1 DEF Puts
  <2>3. s[i + 1] \in S /\ g[i] \in Units(S)
    BY <1>3, <1>5, <2>1
  <2>4. /\ g[i + 1] \in Units(S)
        /\ g[i + 1].uses = <<>> <=> g[i].uses = <<>> /\ s[i + 1].k # "use"
    <3> DEFINE w == g[i]
               d == s[i + 1]
    <3>1. w \in Units(S) /\ d \in S
      BY <2>3
    <3> HIDE DEF w, d
    <3>2. Put(w, d) \in Units(S) /\ (Put(w, d).uses = <<>> <=> w.uses = <<>> /\ d.k # "use")
      BY <3>1, PutKeeps
    <3>3. QED
      BY <2>2, <3>2 DEF w, d
  <2>5. 1 .. i + 1 = (1 .. i) \cup {i + 1}
    BY <1>3
  <2>6. QED
    BY <1>5, <2>1, <2>4, <2>5
<1>6. n \in T
  <2> HIDE DEF T
  <2>1. QED
    BY <1>3, <1>4, <1>5, CountUp
<1>7. QED
  BY <1>1, <1>6 DEF n

\* What has been put into a unit of the first n files.
Filed(ns, unit, fs, n, g) ==
    g = [i \in 0 .. n |-> IF i = 0 THEN unit ELSE PutFile(ns, g[i - 1], fs[i])]

\* No declaration of s is a use.
NoUseIn(s) == \A j \in 1 .. Len(s) : s[j].k # "use"

\* A file of the namespace adds what it declares, any other nothing.
LEMMA PutFileKeeps ==
  ASSUME NEW ns, NEW S, NEW unit \in Units(S), NEW f, f.decls \in Seq(S)
  PROVE  /\ PutFile(ns, unit, f) \in Units(S)
         /\ PutFile(ns, unit, f).uses = <<>> <=>
               unit.uses = <<>> /\ (f.ns = <<ns>> => NoUseIn(f.decls))
<1>1. CASE f.ns = <<ns>>
  <2>1. PutFile(ns, unit, f) = Fold(Put, unit, f.decls)
    BY <1>1 DEF PutFile
  <2>2. QED
    BY <1>1, <2>1, FileKeeps DEF NoUseIn
<1>2. CASE f.ns # <<ns>>
  BY <1>2 DEF PutFile
<1>3. QED
  BY <1>1, <1>2

\* The function ExtractNamespaceUnits goes by exists.
LEMMA FiledExists ==
  ASSUME NEW ns, NEW S, NEW unit \in Units(S), NEW Files, \A f \in Files : f.decls \in Seq(S),
         NEW fs \in Seq(Files)
  PROVE  \E g : Filed(ns, unit, fs, Len(fs), g)
<1> DEFINE n == Len(fs)
           h == [p \in Units(S) \X Files |-> PutFile(ns, p[1], p[2])]
<1>1. n \in Nat /\ \A i \in 1 .. n : fs[i] \in Files
  OBVIOUS
<1>2. \A w \in Units(S) : \A f \in Files :
          h[<<w, f>>] = PutFile(ns, w, f) /\ h[<<w, f>>] \in Units(S)
  BY PutFileKeeps
<1> HIDE DEF n, h
<1>3. PICK g : Through(h, unit, fs, n, g)
  BY <1>1, ThroughExists
<1> DEFINE T == {i \in 0 .. n : g[i] \in Units(S)}
<1>4. \A i \in 0 .. n : g[i] = IF i = 0 THEN unit ELSE h[<<g[i - 1], fs[i]>>]
  BY <1>3 DEF Through
<1>5. 0 \in T
  <2>1. 0 \in 0 .. n
    BY <1>1
  <2>2. g[0] = unit
    BY <1>4, <2>1
  <2>3. QED
    BY <2>1, <2>2
<1>6. ASSUME NEW i \in 0 .. n - 1, i \in T PROVE i + 1 \in T
  <2>1. i + 1 \in 0 .. n /\ i + 1 # 0 /\ (i + 1) - 1 = i /\ i + 1 \in 1 .. n
    BY <1>1
  <2>2. g[i + 1] = h[<<g[i], fs[i + 1]>>]
    BY <1>4, <2>1
  <2>3. QED
    BY <1>1, <1>2, <1>6, <2>1, <2>2
<1>7. ASSUME NEW k \in 0 .. n PROVE k \in T
  <2>1. k \in Nat /\ \A i \in 0 .. k - 1 : i \in 0 .. n - 1
    BY <1>1
  <2> HIDE DEF T
  <2>2. QED
    BY <1>5, <1>6, <2>1, CountUp
<1>8. ASSUME NEW i \in 0 .. n PROVE g[i] = IF i = 0 THEN unit ELSE PutFile(ns, g[i - 1], fs[i])
  <2>1. CASE i = 0
    BY <1>4, <2>1
  <2>2. CASE i # 0
    <3>1. i - 1 \in 0 .. n /\ i \in 1 .. n
      BY <1>1, <2>2
    <3>2. g[i - 1] \in Units(S) /\ fs[i] \in Files
      BY <1>1, <1>7, <3>1
    <3>3. QED
      BY <1>2, <1>4, <2>2, <3>2
  <2>3. QED
    BY <2>1, <2>2
<1>9. g = [i \in 0 .. n |-> g[i]]
  BY <1>3 DEF Through
<1>10. Filed(ns, unit, fs, n, g)
  BY <1>8, <1>9 DEF Filed
<1>11. QED
  BY <1>10 DEF n

\* A namespace uses something if and only if one of its files does.
LEMMA FilesKeep ==
  ASSUME NEW ns, NEW S, NEW Files, \A f \in Files : f.decls \in Seq(S), NEW fs \in Seq(Files)
  PROVE  /\ UnitOf(fs, ns) \in Units(S)
         /\ UnitOf(fs, ns).uses = <<>> <=>
               \A j \in 1 .. Len(fs) : fs[j].ns = <<ns>> => NoUseIn(fs[j].decls)
<1> DEFINE n == Len(fs)
           unit == NoUnit
           g == CHOOSE h : Filed(ns, unit, fs, n, h)
           None(j) == fs[j].ns = <<ns>> => NoUseIn(fs[j].decls)
           Right(i) == /\ g[i] \in Units(S)
                       /\ g[i].uses = <<>> <=> \A j \in 1 .. i : None(j)
           T == {i \in 0 .. n : Right(i)}
<1>1. UnitOf(fs, ns) = g[n]
  BY DEF UnitOf, Fold, Filed
<1>2. unit \in Units(S) /\ unit.uses = <<>>
  BY DEF Units, NoUnit
<1> HIDE DEF unit
<1>3. Filed(ns, unit, fs, n, g)
  BY <1>2, FiledExists
<1>4. n \in Nat /\ \A i \in 1 .. n : fs[i] \in Files
  OBVIOUS
<1> HIDE DEF g, n
<1>5. 0 \in T
  BY <1>2, <1>3, <1>4 DEF Filed
<1>6. ASSUME NEW i \in 0 .. n - 1, i \in T PROVE i + 1 \in T
  <2>1. i + 1 \in 0 .. n /\ i + 1 # 0 /\ (i + 1) - 1 = i /\ i + 1 \in 1 .. n
    BY <1>4
  <2>2. g[i + 1] = PutFile(ns, g[i], fs[i + 1])
    BY <1>3, <2>1 DEF Filed
  <2>3. fs[i + 1].decls \in Seq(S) /\ g[i] \in Units(S)
    BY <1>4, <1>6, <2>1
  <2>4. /\ g[i + 1] \in Units(S)
        /\ g[i + 1].uses = <<>> <=> g[i].uses = <<>> /\ None(i + 1)
    <3> DEFINE w == g[i]
               f == fs[i + 1]
    <3>1. w \in Units(S) /\ f.decls \in Seq(S)
      BY <2>3
    <3> HIDE DEF w, f
    <3>2. /\ PutFile(ns, w, f) \in Units(S)
          /\ PutFile(ns, w, f).uses = <<>> <=>
                w.uses = <<>> /\ (f.ns = <<ns>> => NoUseIn(f.decls))
      BY <3>1, PutFileKeeps
    <3>3. QED
      BY <2>2, <3>2 DEF w, f
  <2>5. 1 .. i + 1 = (1 .. i) \cup {i + 1}
    BY <1>4
  <2> HIDE DEF None
  <2>6. QED
    BY <1>6, <2>1, <2>4, <2>5
<1>7. n \in T
  <2> HIDE DEF T
  <2>1. QED
    BY <1>4, <1>5, <1>6, CountUp
<1>8. QED
  BY <1>1, <1>7 DEF n

\* A project whose files are all of one namespace, as those that parse are all of `main`,
\* gets past the order of its namespaces if and only if none of its files uses anything:
\* no project that is put together has a `use` (extract_namespace_units,
\* compute_transitive).
THEOREM OneNamespaceUsesNothing ==
  ASSUME NEW Decls, NEW Files, \A f \in Files : f.decls \in Seq(Decls),
         NEW files \in Seq(Files), files # <<>>,
         NEW ns, \A i \in DOMAIN files : files[i].ns = <<ns>>
  PROVE  ComputeTransitive(ExtractNamespaceUnits(files), ns).ok <=>
             \A i \in DOMAIN files : \A j \in DOMAIN files[i].decls :
                 files[i].decls[j].k # "use"
<1> DEFINE units == ExtractNamespaceUnits(files)
<1>1. \A f \in Range(files) : f.ns = <<ns>>
  BY DEF Range
<1>2. files[1] \in Range(files)
  BY DEF Range
<1>3. Namespaces(files) = {ns}
  <2>1. \A f \in Range(files) : f.ns # <<>> /\ f.ns[1] = ns
    BY <1>1
  <2>2. QED
    BY <1>2, <2>1 DEF Namespaces
<1>4. DOMAIN units = {ns} /\ units[ns] = UnitOf(files, ns)
  BY <1>3 DEF ExtractNamespaceUnits
<1> HIDE DEF units
<1>5. /\ units[ns] \in Units(Decls)
      /\ units[ns].uses = <<>> <=>
            \A i \in 1 .. Len(files) : files[i].ns = <<ns>> => NoUseIn(files[i].decls)
  <2> DEFINE unit == UnitOf(files, ns)
  <2>1. \A f \in Files : f.decls \in Seq(Decls)
    OBVIOUS
  <2>2. /\ unit \in Units(Decls)
        /\ unit.uses = <<>> <=>
              \A i \in 1 .. Len(files) : files[i].ns = <<ns>> => NoUseIn(files[i].decls)
    BY <2>1, FilesKeep, Zenon
  <2> HIDE DEF unit
  <2>3. QED
    BY <1>4, <2>2 DEF unit
<1>6. units[ns].uses \in Seq(Decls)
  BY <1>5 DEF Units
<1>7. ComputeTransitive(units, ns).ok <=> units[ns].uses = <<>>
  BY <1>4, <1>6, AloneUsesNothing
<1>8. ASSUME NEW i \in 1 .. Len(files)
      PROVE  NoUseIn(files[i].decls) <=>
                 \A j \in DOMAIN files[i].decls : files[i].decls[j].k # "use"
  <2>1. files[i].decls \in Seq(Decls)
    OBVIOUS
  <2>2. DOMAIN files[i].decls = 1 .. Len(files[i].decls)
    BY <2>1
  <2>3. QED
    BY <2>2 DEF NoUseIn
<1>9. DOMAIN files = 1 .. Len(files)
  OBVIOUS
<1>10. units[ns].uses = <<>> <=> \A i \in 1 .. Len(files) : NoUseIn(files[i].decls)
  BY <1>5, <1>9
<1>11. QED
  BY <1>7, <1>8, <1>9, <1>10 DEF units
--------------------------------------------------------------------------------
(* The newtypes that types lead to (resolve_type). *)

\* Types are finite sequences of names, and only what is declared is a newtype.
IsEnv(env, Name) ==
    /\ IsFiniteSet(DOMAIN env.stands)
    /\ DOMAIN env.stands \subseteq env.declared
    /\ \A x \in DOMAIN env.stands : env.stands[x] \in Seq(Name)
Outcomes == {"ok", "unknown", "loops"}
\* The outcome of a name, where f is that of each newtype.
OfName(env, f, x) ==
    IF x \in env.plain THEN "ok"
    ELSE IF x \notin env.declared THEN "unknown"
    ELSE IF x \notin DOMAIN env.stands THEN "ok"
    ELSE f[x]

\* All names are ok, or there is a first that is not.
LEMMA FirstError ==
  ASSUME NEW env, NEW f, NEW Name, NEW names \in Seq(Name)
  PROVE  \/ /\ InTurn(env, f, names) = "ok"
            /\ \A x \in Range(names) : OfName(env, f, x) = "ok"
         \/ /\ InTurn(env, f, names) # "ok"
            /\ \E x \in Range(names) : OfName(env, f, x) = InTurn(env, f, names)
<1> DEFINE bad == {i \in DOMAIN names : OfName(env, f, names[i]) # "ok"}
<1>1. InTurn(env, f, names) = IF bad = {} THEN "ok" ELSE OfName(env, f, names[Min(bad)])
  BY DEF InTurn, OfName
<1>2. CASE bad = {}
  BY <1>1, <1>2 DEF Range
<1>3. CASE bad # {}
  <2>1. bad \subseteq Nat
    OBVIOUS
  <2>2. \E i \in bad : \A j \in bad : i <= j
    <3> DEFINE R == OpToRel(<, Nat)
    <3>1. IsWellFoundedOn(R, Nat)
      BY NatLessThanWellFounded
    <3> HIDE DEF R, bad
    <3>2. PICK x \in bad : \A y \in bad : <<y, x>> \notin R
      BY <1>3, <2>1, <3>1, WFMin
    <3>3. \A y \in bad : ~(y < x)
      BY <2>1, <3>2 DEF OpToRel, R
    <3>4. QED
      BY <2>1, <3>3
  <2> HIDE DEF bad
  <2>3. Min(bad) \in bad
    BY <2>2 DEF Min
  <2>4. Min(bad) \in DOMAIN names /\ OfName(env, f, names[Min(bad)]) # "ok"
    BY <2>3 DEF bad
  <2>5. QED
    BY <1>1, <1>3, <2>4 DEF Range
<1>4. QED
  BY <1>2, <1>3

\* What following a newtype comes to, where those in seen are being followed already,
\* given what it comes to, f, where there is one more.
FollowOne(env, f, seen) ==
    [x \in DOMAIN env.stands |->
        IF x \in seen THEN "loops" ELSE InTurn(env, f[seen \cup {x}], env.stands[x])]
IsFollow(env, f, stacks) == \A seen \in stacks : f[seen] = FollowOne(env, f, seen)

\* It needs only what following comes to with one more.
LEMMA FollowOneLooksUp ==
  ASSUME NEW env, NEW seen, NEW f, NEW g,
         \A x \in DOMAIN env.stands \ seen : f[seen \cup {x}] = g[seen \cup {x}]
  PROVE  FollowOne(env, f, seen) = FollowOne(env, g, seen)
<1>1. ASSUME NEW x \in DOMAIN env.stands
      PROVE  (IF x \in seen THEN "loops" ELSE InTurn(env, f[seen \cup {x}], env.stands[x]))
             = (IF x \in seen THEN "loops" ELSE InTurn(env, g[seen \cup {x}], env.stands[x]))
  <2>1. CASE x \in seen
    BY <2>1
  <2>2. CASE x \notin seen
    <3>1. f[seen \cup {x}] = g[seen \cup {x}]
      BY <2>2
    <3>2. QED
      BY <3>1
  <2>3. QED
    BY <2>1, <2>2
<1>2. QED
  BY <1>1, Zenon DEF FollowOne

\* Where there are finitely many newtypes, Follow is what its definition says.
LEMMA FollowStep ==
  ASSUME NEW env, IsFiniteSet(DOMAIN env.stands), NEW seen \in SUBSET DOMAIN env.stands
  PROVE  Follow(env)[seen] = FollowOne(env, Follow(env), seen)
<1> DEFINE nodes == DOMAIN env.stands
           Is(f) == f = [p \in SUBSET nodes |-> FollowOne(env, f, p)]
           Near(k) == {p \in SUBSET nodes : Cardinality(nodes \ p) < k}
           S == {k \in Nat : \E f : IsFollow(env, f, Near(k))}
<1>1. Follow(env) = CHOOSE f : Is(f)
  BY DEF Follow, FollowOne
<1>2. ASSUME NEW p \in SUBSET nodes PROVE Cardinality(nodes \ p) \in Nat
  BY FS_Difference, FS_CardinalityType
<1>3. 0 \in S
  <2>1. Near(0) = {}
    BY <1>2
  <2>2. QED
    BY <2>1 DEF IsFollow
<1>4. ASSUME NEW k \in Nat, k \in S PROVE k + 1 \in S
  <2>1. PICK f : IsFollow(env, f, Near(k))
    BY <1>4
  <2> DEFINE g == [p \in SUBSET nodes |-> IF p \in Near(k) THEN f[p] ELSE FollowOne(env, f, p)]
  <2>2. ASSUME NEW p \in SUBSET nodes, Cardinality(nodes \ p) < k + 1
        PROVE  FollowOne(env, f, p) = FollowOne(env, g, p)
    <3>1. ASSUME NEW n \in nodes \ p PROVE f[p \cup {n}] = g[p \cup {n}]
      <4>1. /\ p \cup {n} \in SUBSET nodes
            /\ Cardinality(nodes \ p) \in Nat
            /\ Cardinality(nodes \ (p \cup {n})) = Cardinality(nodes \ p) - 1
        BY OneLess
      <4>2. Cardinality(nodes \ (p \cup {n})) < k
        BY <2>2, <4>1
      <4>3. QED
        BY <4>1, <4>2
    <3> HIDE DEF g
    <3>2. QED
      BY <3>1, FollowOneLooksUp
  <2>3. ASSUME NEW p \in Near(k + 1) PROVE g[p] = FollowOne(env, g, p)
    <3>1. g[p] = FollowOne(env, f, p)
      BY <2>1 DEF IsFollow
    <3> HIDE DEF g
    <3>2. QED
      BY <2>2, <3>1
  <2> HIDE DEF g
  <2>4. IsFollow(env, g, Near(k + 1))
    BY <2>3 DEF IsFollow
  <2>5. k + 1 \in Nat
    OBVIOUS
  <2> HIDE DEF Near
  <2>6. QED
    BY <2>4, <2>5
<1> DEFINE n == Cardinality(nodes) + 1
<1>5. Cardinality(nodes) \in Nat
  BY FS_CardinalityType
<1>6. ASSUME NEW p \in SUBSET nodes PROVE Cardinality(nodes \ p) < n
  <2>1. Cardinality(nodes \ p) <= Cardinality(nodes)
    BY FS_Subset
  <2>2. Cardinality(nodes \ p) \in Nat
    BY <1>2
  <2>3. QED
    BY <1>5, <2>1, <2>2
<1>7. Near(n) = SUBSET nodes
  BY <1>6
<1>8. n \in Nat
  BY <1>5
<1> HIDE DEF S, n
<1>9. n \in S
  BY <1>3, <1>4, <1>8, CountUp
<1> HIDE DEF Near
<1>10. PICK f : IsFollow(env, f, SUBSET nodes)
  BY <1>7, <1>9 DEF S
<1> DEFINE g == [p \in SUBSET nodes |-> f[p]]
<1>11. Is(g)
  <2>1. ASSUME NEW p \in SUBSET nodes PROVE g[p] = FollowOne(env, g, p)
    <3>1. ASSUME NEW m \in nodes \ p PROVE f[p \cup {m}] = g[p \cup {m}]
      OBVIOUS
    <3>2. g[p] = FollowOne(env, f, p)
      BY <1>10 DEF IsFollow
    <3> HIDE DEF g
    <3>3. QED
      BY <3>1, <3>2, FollowOneLooksUp
  <2>2. g = [p \in SUBSET nodes |-> g[p]]
    OBVIOUS
  <2> HIDE DEF g
  <2>3. QED
    BY <2>1, <2>2
<1> HIDE DEF g
<1>12. Is(Follow(env))
  <2> HIDE DEF Is
  <2>1. QED
    BY <1>1, <1>11
<1> DEFINE V == Follow(env)
<1>13. V = [p \in SUBSET nodes |-> FollowOne(env, V, p)]
  BY <1>12
<1> HIDE DEF V
<1>14. V[seen] = FollowOne(env, V, seen)
  BY <1>13
<1>15. QED
  BY <1>14 DEF V

\* The newtypes the type of a newtype names, other than by names that are plain; what it
\* stands for in the end.
Follows(env) ==
    [x \in DOMAIN env.stands |-> (Range(env.stands[x]) \ env.plain) \cap DOMAIN env.stands]
StandsFor(env, x) == Reached(Follows(env), Follows(env)[x])
Circular(env, x) == x \in StandsFor(env, x)
\* A name that nothing declares.
Unknown(env, names) == \E m \in Range(names) : m \notin env.plain \cup env.declared
\* All that x leads to is known, and none of it circular; and what following x may come
\* to, where those in seen are being followed.
Sound(env, x) ==
    \A y \in {x} \cup StandsFor(env, x) : ~Circular(env, y) /\ ~Unknown(env, env.stands[y])
Followed(env, seen, x, r) ==
    /\ r \in Outcomes
    /\ r = "ok" => Sound(env, x) /\ ({x} \cup StandsFor(env, x)) \cap seen = {}
    /\ r = "loops" => \/ ({x} \cup StandsFor(env, x)) \cap seen # {}
                      \/ \E y \in {x} \cup StandsFor(env, x) : Circular(env, y)
    /\ r = "unknown" =>
          \E y \in {x} \cup StandsFor(env, x) : Unknown(env, env.stands[y])
FollowsWell(env, seen) ==
    \A x \in DOMAIN env.stands : Followed(env, seen, x, Follow(env)[seen][x])

\* What some newtypes lead to is themselves and what each stands for.
LEMMA LeadsTo ==
  ASSUME NEW env, NEW from \in SUBSET DOMAIN env.stands
  PROVE  /\ Reached(Follows(env), from) \in SUBSET DOMAIN env.stands
         /\ Reached(Follows(env), from) = UNION {{n} \cup StandsFor(env, n) : n \in from}
<1> DEFINE D == DOMAIN env.stands
           E == Follows(env)
           R(n) == StandsFor(env, n)
           U == UNION {{n} \cup R(n) : n \in from}
           M == Reached(E, from)
<1>1. DOMAIN E = D /\ \A n \in D : E[n] \in SUBSET D
  BY DEF Follows
<1> HIDE DEF E
<1>2. ASSUME NEW n \in D
      PROVE  /\ R(n) \in SUBSET D /\ E[n] \subseteq R(n)
             /\ \A m \in R(n) : E[m] \subseteq R(n)
             /\ \A S \in SUBSET D : (E[n] \subseteq S /\ Closed(E, S)) => R(n) \subseteq S
  <2>1. /\ Reached(E, E[n]) \in SUBSET DOMAIN E
        /\ E[n] \subseteq Reached(E, E[n])
        /\ Closed(E, Reached(E, E[n]))
        /\ \A S \in SUBSET DOMAIN E :
               (E[n] \subseteq S /\ Closed(E, S)) => Reached(E, E[n]) \subseteq S
    BY <1>1, ReachedIsClosed
  <2>2. R(n) = Reached(E, E[n])
    BY DEF StandsFor, E
  <2> HIDE DEF R
  <2>3. QED
    BY <1>1, <2>1, <2>2 DEF Closed
<1> HIDE DEF R
<1>3. /\ M \in SUBSET D /\ from \subseteq M /\ Closed(E, M)
      /\ \A S \in SUBSET D : (from \subseteq S /\ Closed(E, S)) => M \subseteq S
  BY <1>1, ReachedIsClosed
<1> HIDE DEF M
<1>4. U \subseteq M
  <2>1. ASSUME NEW n \in from PROVE n \in M /\ R(n) \subseteq M
    <3>1. n \in D /\ n \in M
      BY <1>3
    <3>2. E[n] \subseteq M
      BY <1>1, <1>3, <3>1 DEF Closed
    <3>3. QED
      BY <1>2, <1>3, <3>1, <3>2
  <2>2. QED
    BY <2>1
<1>5. M \subseteq U
  <2>1. ASSUME NEW m \in U PROVE E[m] \subseteq U
    <3>1. PICK n \in from : m = n \/ m \in R(n)
      BY <2>1
    <3>2. E[m] \subseteq R(n)
      BY <1>1, <1>2, <3>1
    <3>3. QED
      BY <3>2
  <2>2. U \in SUBSET D /\ from \subseteq U
    BY <1>1, <1>2
  <2> HIDE DEF U
  <2>3. Closed(E, U)
    BY <2>1 DEF Closed
  <2>4. QED
    BY <1>3, <2>2, <2>3
<1>6. QED
  BY <1>3, <1>4, <1>5 DEF R, E, M

\* In particular what a newtype stands for is what its type names and what that stands for.
LEMMA StandsForStep ==
  ASSUME NEW env, NEW x \in DOMAIN env.stands
  PROVE  /\ Follows(env)[x] \in SUBSET DOMAIN env.stands
         /\ StandsFor(env, x) \in SUBSET DOMAIN env.stands
         /\ StandsFor(env, x) = UNION {{n} \cup StandsFor(env, n) : n \in Follows(env)[x]}
<1>1. Follows(env)[x] \in SUBSET DOMAIN env.stands
  BY DEF Follows
<1>2. QED
  BY <1>1, LeadsTo DEF StandsFor

\* How a name in the type of a newtype, or in any other, can come out.
LEMMA OutcomeOf ==
  ASSUME NEW env, NEW f, NEW m, DOMAIN env.stands \subseteq env.declared
  PROVE  \/ m \notin env.plain \cup env.declared /\ OfName(env, f, m) = "unknown"
         \/ /\ m \in env.plain \cup env.declared
            /\ m \notin (DOMAIN env.stands \ env.plain)
            /\ OfName(env, f, m) = "ok"
         \/ m \in (DOMAIN env.stands \ env.plain) /\ OfName(env, f, m) = f[m]
BY DEF OfName

\* Following a newtype comes to what it should, where it does so with one more.
LEMMA FollowsStepWell ==
  ASSUME NEW env, NEW Name, IsEnv(env, Name), NEW seen \in SUBSET DOMAIN env.stands,
         \A n \in DOMAIN env.stands \ seen : FollowsWell(env, seen \cup {n})
  PROVE  FollowsWell(env, seen)
<1> SUFFICES ASSUME NEW x \in DOMAIN env.stands
             PROVE  Followed(env, seen, x, Follow(env)[seen][x])
  BY DEF FollowsWell
<1> DEFINE D == DOMAIN env.stands
           f == Follow(env)[seen \cup {x}]
           r == Follow(env)[seen][x]
           E == Follows(env)[x]
           R(n) == StandsFor(env, n)
<1>1. r = IF x \in seen THEN "loops" ELSE InTurn(env, f, env.stands[x])
  <2> DEFINE F == Follow(env)
  <2>1. F[seen] = FollowOne(env, F, seen)
    BY FollowStep DEF IsEnv
  <2> HIDE DEF F
  <2>2. F[seen][x] = IF x \in seen THEN "loops"
                     ELSE InTurn(env, F[seen \cup {x}], env.stands[x])
    BY <2>1 DEF FollowOne
  <2>3. QED
    BY <2>2 DEF F
<1>2. CASE x \in seen
  BY <1>1, <1>2 DEF Followed, Outcomes
<1>3. CASE x \notin seen
  <2>1. \A n \in D : Followed(env, seen \cup {x}, n, f[n])
    BY <1>3 DEF FollowsWell
  <2>2. r = InTurn(env, f, env.stands[x])
    BY <1>1, <1>3
  <2> HIDE DEF f, r
  <2>3. R(x) = UNION {{n} \cup R(n) : n \in E} /\ E \in SUBSET D
    BY StandsForStep
  <2>4. E = (Range(env.stands[x]) \ env.plain) \cap D
    BY DEF Follows
  <2> HIDE DEF R, E
  <2>5. D \subseteq env.declared /\ env.stands[x] \in Seq(Name)
    BY DEF IsEnv
  <2>6. CASE r = "ok"
    <3>1. ASSUME NEW m \in Range(env.stands[x]) PROVE OfName(env, f, m) = "ok"
      BY <2>2, <2>5, <2>6, FirstError
    <3>2. ~Unknown(env, env.stands[x])
      BY <2>5, <3>1, OutcomeOf DEF Unknown
    <3>3. ASSUME NEW n \in E
          PROVE  Sound(env, n) /\ ({n} \cup R(n)) \cap (seen \cup {x}) = {}
      <4>1. f[n] = "ok"
        BY <2>4, <2>5, <3>1, OutcomeOf
      <4>2. QED
        BY <2>1, <2>3, <4>1 DEF Followed, R
    <3>4. x \notin R(x) /\ ({x} \cup R(x)) \cap seen = {}
      BY <1>3, <2>3, <3>3
    <3>5. ASSUME NEW y \in {x} \cup R(x)
          PROVE  ~Circular(env, y) /\ ~Unknown(env, env.stands[y])
      <4>1. CASE y = x
        BY <3>2, <3>4, <4>1 DEF Circular, R
      <4>2. CASE y \in R(x)
        <5>1. PICK n \in E : y \in {n} \cup R(n)
          BY <2>3, <4>2
        <5>2. QED
          BY <3>3, <5>1 DEF Sound, R
      <4>3. QED
        BY <4>1, <4>2
    <3>6. QED
      BY <2>6, <3>4, <3>5 DEF Followed, Sound, Outcomes, R, r
  <2>7. CASE r # "ok"
    <3>1. PICK m \in Range(env.stands[x]) : OfName(env, f, m) = r
      BY <2>2, <2>5, <2>7, FirstError
    <3>2. CASE m \notin env.plain \cup env.declared
      <4>1. r = "unknown"
        BY <2>5, <3>1, <3>2, OutcomeOf
      <4>2. Unknown(env, env.stands[x])
        BY <3>2 DEF Unknown
      <4>3. QED
        BY <4>1, <4>2 DEF Followed, Outcomes, r
    <3>3. CASE m \in env.plain \cup env.declared
      <4>1. m \in E /\ f[m] = r
        BY <2>4, <2>5, <2>7, <3>1, <3>3, OutcomeOf
      <4>2. Followed(env, seen \cup {x}, m, r)
        BY <2>1, <2>3, <4>1
      <4>3. m \in R(x) /\ R(m) \subseteq R(x)
        BY <2>3, <4>1
      <4>4. CASE r = "unknown"
        BY <4>2, <4>3, <4>4 DEF Followed, Outcomes, R, r
      <4>5. CASE r = "loops"
        <5>1. \/ ({m} \cup R(m)) \cap (seen \cup {x}) # {}
              \/ \E y \in {m} \cup R(m) : Circular(env, y)
          BY <4>2, <4>5 DEF Followed, R
        <5>2. \/ ({x} \cup R(x)) \cap seen # {}
              \/ \E y \in {x} \cup R(x) : Circular(env, y)
          <6>1. CASE \E y \in {m} \cup R(m) : Circular(env, y)
            BY <4>3, <6>1
          <6>2. CASE ({m} \cup R(m)) \cap seen # {}
            BY <4>3, <6>2
          <6>3. CASE x \in {m} \cup R(m)
            <7>1. Circular(env, x)
              BY <4>3, <6>3 DEF Circular, R
            <7>2. QED
              BY <7>1
          <6>4. QED
            BY <5>1, <6>1, <6>2, <6>3
        <5>3. QED
          BY <4>5, <5>2 DEF Followed, Outcomes, R, r
      <4>6. r \in Outcomes
        BY <4>2 DEF Followed
      <4>7. QED
        BY <2>7, <4>4, <4>5, <4>6 DEF Outcomes
    <3>4. QED
      BY <3>2, <3>3
  <2>8. QED
    BY <2>6, <2>7
<1>4. QED
  BY <1>2, <1>3

\* Following always comes to what it should.
LEMMA FollowsAllWell ==
  ASSUME NEW env, NEW Name, IsEnv(env, Name), NEW seen \in SUBSET DOMAIN env.stands
  PROVE  FollowsWell(env, seen)
<1> DEFINE nodes == DOMAIN env.stands
           T == {p \in SUBSET nodes : FollowsWell(env, p)}
<1>1. IsFiniteSet(nodes)
  BY DEF IsEnv
<1>2. ASSUME NEW p \in SUBSET nodes, \A n \in nodes \ p : p \cup {n} \in T PROVE p \in T
  BY <1>2, FollowsStepWell
<1> HIDE DEF T, nodes
<1>3. SUBSET nodes \subseteq T
  BY <1>1, <1>2, FromTheTop
<1>4. QED
  BY <1>3 DEF T, nodes

\* Types resolve if and only if every name they lead to is known and no newtype among
\* them stands for itself; else the resolver either reports a name that is not known, or
\* never ends because of a newtype that stands for itself (resolve_type).
THEOREM ResolutionEnds ==
  ASSUME NEW env, NEW Name, IsEnv(env, Name), NEW names \in Seq(Name)
  PROVE  LET r == ResolveNames(env, names)
             met == Reached(Follows(env),
                            (Range(names) \ env.plain) \cap DOMAIN env.stands)
         IN  /\ r \in Outcomes
             /\ r = "ok" <=> /\ ~Unknown(env, names)
                             /\ \A x \in met : /\ ~Unknown(env, env.stands[x])
                                              /\ ~Circular(env, x)
             /\ r = "loops" => \E x \in met : Circular(env, x)
             /\ r = "unknown" => \/ Unknown(env, names)
                                 \/ \E x \in met : Unknown(env, env.stands[x])
<1> DEFINE D == DOMAIN env.stands
           from == (Range(names) \ env.plain) \cap D
           met == Reached(Follows(env), from)
           f == Follow(env)[{}]
           r == ResolveNames(env, names)
           R(n) == StandsFor(env, n)
<1>1. \A n \in D : Followed(env, {}, n, f[n])
  BY FollowsAllWell DEF FollowsWell
<1>2. r = InTurn(env, f, names)
  BY DEF ResolveNames
<1> HIDE DEF f, r
<1>3. from \in SUBSET D
  OBVIOUS
<1>4. met = UNION {{n} \cup R(n) : n \in from}
  <2> HIDE DEF from
  <2>1. QED
    BY <1>3, LeadsTo
<1>5. D \subseteq env.declared
  BY DEF IsEnv
<1> DEFINE Bad == \/ Unknown(env, names)
                  \/ \E x \in met : Unknown(env, env.stands[x])
           Round == \E x \in met : Circular(env, x)
<1>6. CASE r = "ok"
  <2>1. \A m \in Range(names) : OfName(env, f, m) = "ok"
    BY <1>2, <1>6, FirstError
  <2>2. ~Unknown(env, names)
    BY <1>5, <2>1, OutcomeOf DEF Unknown
  <2>3. ASSUME NEW n \in from PROVE Sound(env, n)
    <3>1. f[n] = "ok"
      BY <1>5, <2>1, OutcomeOf
    <3>2. QED
      BY <1>1, <3>1 DEF Followed
  <2> HIDE DEF met, from
  <2>4. \A x \in met : ~Circular(env, x) /\ ~Unknown(env, env.stands[x])
    BY <1>4, <2>3 DEF Sound
  <2>5. QED
    BY <1>6, <2>2, <2>4 DEF Outcomes, met, from, r
<1>7. CASE r # "ok"
  <2>1. PICK m \in Range(names) : OfName(env, f, m) = r
    BY <1>2, <1>7, FirstError
  <2>2. (r = "unknown" /\ Bad) \/ (r = "loops" /\ Round)
    <3>1. CASE m \notin env.plain \cup env.declared
      <4>1. r = "unknown"
        BY <1>5, <2>1, <3>1, OutcomeOf
      <4>2. Unknown(env, names)
        BY <3>1 DEF Unknown
      <4>3. QED
        BY <4>1, <4>2
    <3>2. CASE m \in env.plain \cup env.declared
      <4>1. m \in from /\ f[m] = r
        BY <1>5, <1>7, <2>1, <3>2, OutcomeOf
      <4> HIDE DEF met, from
      <4>2. Followed(env, {}, m, r) /\ {m} \cup R(m) \subseteq met
        BY <1>1, <1>3, <1>4, <4>1
      <4>3. /\ r \in Outcomes
            /\ r = "unknown" => \E y \in {m} \cup R(m) : Unknown(env, env.stands[y])
            /\ r = "loops" => \E y \in {m} \cup R(m) : Circular(env, y)
        BY <4>2 DEF Followed
      <4>4. QED
        BY <1>7, <4>2, <4>3 DEF Outcomes
    <3>3. QED
      BY <3>1, <3>2
  <2>3. QED
    BY <1>7, <2>2 DEF Outcomes, r
<1>8. QED
  BY <1>6, <1>7

\* More plain names, such as the type parameters of a function, make a newtype stand for
\* no more.
LEMMA PlainStandsForLess ==
  ASSUME NEW env, NEW more, NEW x \in DOMAIN env.stands
  PROVE  StandsFor(Env(env.plain \cup more, env.declared, env.stands), x)
             \subseteq StandsFor(env, x)
<1> DEFINE D == DOMAIN env.stands
           E == Follows(env)
           E2 == Follows(Env(env.plain \cup more, env.declared, env.stands))
<1>1. DOMAIN E = D /\ DOMAIN E2 = D /\ \A n \in D : E2[n] \subseteq E[n] /\ E[n] \in SUBSET D
  BY DEF Follows, Env
<1> HIDE DEF E, E2
<1>2. /\ Reached(E, E[x]) \in SUBSET D /\ E[x] \subseteq Reached(E, E[x])
      /\ Closed(E, Reached(E, E[x]))
  BY <1>1, ReachedIsClosed
<1> DEFINE M == Reached(E, E[x])
<1> HIDE DEF M
<1>3. Closed(E2, M) /\ E2[x] \subseteq M /\ M \in SUBSET D
  BY <1>1, <1>2 DEF Closed, M
<1>4. E2[x] \in SUBSET DOMAIN E2
  BY <1>1
<1>5. Reached(E2, E2[x]) \subseteq M
  BY <1>1, <1>3, <1>4, ReachedIsClosed
<1>6. QED
  BY <1>5 DEF StandsFor, M, E, E2

\* The resolver never ends only if a newtype stands for itself, through any number of
\* others or within its own type, whatever type it resolves for a declaration with
\* whatever type parameters; and if it gets through the types of all newtypes none
\* does (resolve_type).
THEOREM LoopsOnlyOnCircles ==
  ASSUME NEW env, NEW Name, IsEnv(env, Name)
  PROVE  /\ \A more : \A names \in Seq(Name) :
               ResolveNames(Env(env.plain \cup more, env.declared, env.stands), names)
                   = "loops" => \E x \in DOMAIN env.stands : Circular(env, x)
         /\ (\A x \in DOMAIN env.stands : ResolveNames(env, env.stands[x]) = "ok")
                => \A x \in DOMAIN env.stands : ~Circular(env, x)
<1>1. ASSUME NEW more, NEW names \in Seq(Name),
             ResolveNames(Env(env.plain \cup more, env.declared, env.stands), names) = "loops"
      PROVE  \E x \in DOMAIN env.stands : Circular(env, x)
  <2> DEFINE e == Env(env.plain \cup more, env.declared, env.stands)
             from == (Range(names) \ e.plain) \cap DOMAIN e.stands
  <2>1. e.stands = env.stands /\ IsEnv(e, Name)
    BY DEF Env, IsEnv
  <2>2. \A x \in DOMAIN env.stands : StandsFor(e, x) \subseteq StandsFor(env, x)
    BY PlainStandsForLess
  <2>3. ResolveNames(e, names) = "loops"
    BY <1>1
  <2> HIDE DEF e
  <2>4. \E x \in Reached(Follows(e), from) : Circular(e, x)
    BY <2>1, <2>3, ResolutionEnds
  <2>5. Reached(Follows(e), from) \subseteq DOMAIN e.stands
    BY LeadsTo
  <2>6. QED
    BY <2>1, <2>2, <2>4, <2>5 DEF Circular
<1>2. ASSUME NEW x \in DOMAIN env.stands, ResolveNames(env, env.stands[x]) = "ok"
      PROVE  ~Circular(env, x)
  <2>1. env.stands[x] \in Seq(Name)
    BY DEF IsEnv
  <2>2. Follows(env)[x] = (Range(env.stands[x]) \ env.plain) \cap DOMAIN env.stands
    BY DEF Follows
  <2>3. \A y \in Reached(Follows(env), Follows(env)[x]) : ~Circular(env, y)
    BY <1>2, <2>1, <2>2, ResolutionEnds
  <2>4. QED
    BY <2>3 DEF Circular, StandsFor
<1>3. QED
  BY <1>1, <1>2
================================================================================
