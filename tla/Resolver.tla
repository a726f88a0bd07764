------------------------------- MODULE Resolver -------------------------------
(***************************************************************************)
(* Name resolution, src/src/resolver.rs.  The scopes a name is looked up in *)
(* are a chain: a sequence of sets of names, the root first.  A resolver is *)
(*    sc     the chain of the construct being resolved                      *)
(*    decls  the declarations of the module                                 *)
(*    ok     FALSE once an error was returned                               *)
(***************************************************************************)
EXTENDS Aliases

\* Names the compiler provides: internal_name, and the types of resolve_type.
InternalNames ==
    {"break", "continue", "Ok", "Err", "Some", "None", "chan", "print", "println", "printf",
     "fprint", "fprintln", "fprintf", "sprint", "sprintln", "sprintf", "scan", "scanf", "fscan",
     "fscanf", "sscan", "sscanf"}
BuiltinTypes ==
    {"Int8", "Int16", "Int32", "Int64", "Float16", "Float32", "Float64", "Bool", "Str", "Char",
     "Byte", "Option", "Result", "Buf", "Map", "Set", "Node", "Ref", "Array", "Chan", "chan",
     "ref", "Network", "Listener", "Socket"}

NotOk(r) == [r EXCEPT !.ok = FALSE]
EnterScope(r) == [r EXCEPT !.sc = Append(@, {})]
\* Back to the chain of the enclosing construct.
LeaveScope(r, inner) == [r EXCEPT !.ok = inner.ok]
Declare(r, x) ==
    IF x \in Last(r.sc) THEN NotOk(r)
    ELSE [r EXCEPT !.sc = Append(Front(@), Last(@) \cup {x})]
Lookup(r, x) == \E i \in DOMAIN r.sc : x \in r.sc[i]

\* ---- declarations ----------------------------------------------------------
\* The name a declaration puts in the root scope, if any.
RootName(d) ==
    CASE d.k \in {"fn", "struct", "enum", "newtype"} -> <<d.name>>
      [] d.k = "use" /\ d.segments # <<>> -> <<Last(d.segments)>>
      [] OTHER -> <<>>
\* Only the first declaration of a name counts; the module goes on after an error.
Declared(decls) == UNION {Range(RootName(d)) : d \in Range(decls)}
FirstOf(decls, x) == decls[Min({i \in DOMAIN decls : RootName(decls[i]) = <<x>>})]
Duplicates(decls) ==
    {i \in DOMAIN decls : RootName(decls[i]) # <<>>
        /\ \E j \in 1..(i - 1) : RootName(decls[j]) = RootName(decls[i])}

\* The names in a type in the order they are resolved.
\* Mutant: the arguments of a type are not looked at.
OwnName(ty) == <<ty.n>>
RECURSIVE NamesIn(_)
NamesIn(ty) == FlattenSeq([i \in DOMAIN ty.args |-> NamesIn(ty.args[i])]) \o <<ty.n>>
NewtypesOf(decls) == {x \in Declared(decls) : FirstOf(decls, x).k = "newtype"}
ResolveTypes(decls, tys, generics) ==
    ResolveNames(Env(BuiltinTypes \cup generics, Declared(decls),
                     [x \in NewtypesOf(decls) |-> NamesIn(FirstOf(decls, x).alias)]),
                 FlattenSeq([i \in DOMAIN tys |-> NamesIn(tys[i])]))

\* ---- bodies ----------------------------------------------------------------
\* A pattern with alternatives declares nothing.
RECURSIVE DeclarePattern(_, _)
DeclarePattern(r, p) ==
    CASE p.k = "var" -> Declare(r, p.x)
      [] p.k = "or" -> r
      [] OTHER -> Fold(LAMBDA a, q : Then(a, LAMBDA b : DeclarePattern(b, q)), r, p.ps)

RECURSIVE ResolveExpr(_, _), ResolveStmt(_, _), ResolveBlock(_, _)
ResolveExprs(r, es) ==
    Fold(LAMBDA a, e : Then(a, LAMBDA b : ResolveExpr(b, e)), r, es)
InNewScope(r, b) == LeaveScope(r, ResolveBlock(EnterScope(r), b))

\* The kinds not named here are not looked into.
ResolveExpr(r, e) ==
    CASE e.k = "id" -> IF e.x \in InternalNames \/ Lookup(r, e.x) THEN r ELSE NotOk(r)
      [] e.k = "block" -> InNewScope(r, e.b)
      [] e.k = "call" -> ResolveExprs(r, <<e.f>> \o e.kids)
      [] e.k = "field" -> ResolveExpr(r, e.base)
      [] e.k \in {"merge", "bin", "un", "array"} -> ResolveExprs(r, e.kids)
      [] OTHER -> r

\* A `let` is declared first, and its initializer resolved last.  Its type may be
\* named like anything in scope, but not like a type parameter of the function.
Locals(r) == UNION Range(Tail(r.sc))
ResolveAnnotation(decls, r, tys) ==
    IF ResolveTypes(decls, tys, Locals(r)) = "ok" THEN r ELSE NotOk(r)
ResolveStmt(r, s) ==
    CASE s.k = "let" -> Then(Declare(r, s.x), LAMBDA a :
             Then(ResolveAnnotation(r.decls, a, s.ty), LAMBDA b : ResolveExpr(b, s.e)))
      [] s.k = "expr" -> ResolveExpr(r, s.e)
      [] s.k = "ret" -> ResolveExprs(r, s.es)
      [] s.k = "conc" -> InNewScope(r, s.body)
      [] s.k = "if" ->
           LET else(a) == IF s.els = <<>> THEN a
                          ELSE IF s.els[1].k # "body" THEN ResolveStmt(a, s.els[1])
                          ELSE InNewScope(a, s.els[1])
               then(a) == Then(InNewScope(a, s.then), else)
           IN  Then(ResolveExpr(r, s.c), then)
      [] s.k = "loop" ->
           LET body(a) == LeaveScope(a, Then(DeclarePattern(EnterScope(a), s.pat),
                                             LAMBDA b : ResolveBlock(b, s.body)))
           IN  Then(ResolveExpr(r, s.e), body)
      [] OTHER -> r
ResolveBlock(r, b) ==
    ResolveExprs(Fold(LAMBDA a, s : Then(a, LAMBDA c : ResolveStmt(c, s)), r, b.ss), b.tr)

\* The types a declaration mentions, and the type parameters they may use.
TypesOf(d) ==
    CASE d.k = "fn" -> [i \in DOMAIN d.params |-> d.params[i].ty] \o d.ret
      [] d.k = "struct" -> [i \in DOMAIN d.fields |-> d.fields[i].ty]
      [] d.k = "enum" -> FlattenSeq([i \in DOMAIN d.variants |-> d.variants[i].tys])
      [] d.k = "newtype" -> <<d.alias>>
      [] OTHER -> <<>>
GenericsOf(d) == IF d.k \in {"fn", "struct", "enum"} THEN Range(d.generics) ELSE {}
\* A function's types are resolved before its parameters are declared.
ResolveFunction(decls, f) ==
    LET root == EnterScope([decls |-> decls, sc |-> <<Declared(decls)>>, ok |-> TRUE])
        params == Fold(LAMBDA a, p : Then(a, LAMBDA b : Declare(b, p.x)), root, f.params)
    IN  Then(params, LAMBDA b : ResolveBlock(b, f.body)).ok
ResolveDeclaration(decls, d) ==
    LET tys == ResolveTypes(decls, TypesOf(d), GenericsOf(d))
    IN  IF tys # "ok" THEN tys
        ELSE IF d.k = "fn" /\ ~ResolveFunction(decls, d) THEN "unresolved" ELSE "ok"

\* "loops" if any declaration's types do; else "ok" when there is no error at all.
ResolveModule(decls) ==
    LET results == {ResolveDeclaration(decls, d) : d \in Range(decls)}
    IN  IF "loops" \in results THEN "loops"
        ELSE IF Duplicates(decls) = {} /\ results \subseteq {"ok"} THEN "ok" ELSE "rejected"
================================================================================
