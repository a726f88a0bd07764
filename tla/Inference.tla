------------------------------- MODULE Inference -------------------------------
(***************************************************************************)
(* Type inference, src/src/type_inference.rs.  A checker is                *)
(*    next    the next type variable                                       *)
(*    sub     the substitution found so far                                *)
(*    rigid   the variables that stand for type parameters                 *)
(*    sc      the scopes, the globals first: a type scheme for each name   *)
(*    ret     the return type of the function being checked                *)
(*    fields  the types of the fields of each struct                       *)
(*    ok      FALSE once an error was returned: nothing runs after it      *)
(* Inferring gives Got(c, t): the checker, and a type.                     *)
(***************************************************************************)
EXTENDS Syntax

\* ---- types: enum InferType ---------------------------------------------------
Var(i) == [v |-> i]
App(n, args) == [n |-> n, args |-> args]
Con(n) == App(n, <<>>)
FnOf(params, ret) == App("->", Append(params, ret))
FixedArray(elem, len) == [n |-> "[]", len |-> len, args |-> <<elem>>]
IsVar(t) == "v" \in DOMAIN t
IsCon(t) == ~IsVar(t) /\ t.args = <<>>
Scheme(vars, t) == [vars |-> vars, t |-> t]
Mono(t) == Scheme({}, t)
Unit == Con("Unit")
Chan(elem) == App("Chan", <<elem>>)

Got(c, t) == [c |-> c, t |-> t]
Refuse(c) == [c EXCEPT !.ok = FALSE]

\* ---- the substitution --------------------------------------------------------
RECURSIVE Apply(_, _), FreeTypeVars(_), Replace(_, _), Unify(_, _, _)
Over(t, F(_)) == [t EXCEPT !.args = [i \in DOMAIN @ |-> F(@[i])]]
Apply(c, t) ==
    IF ~IsVar(t) THEN Over(t, LAMBDA a : Apply(c, a))
    ELSE IF t.v \in DOMAIN c.sub THEN Apply(c, c.sub[t.v]) ELSE t
FreeTypeVars(t) ==
    IF IsVar(t) THEN {t.v} ELSE UNION {FreeTypeVars(t.args[i]) : i \in DOMAIN t.args}

\* Ranks of the two chains of numeric types; a type widens along its own.
IntChain == <<"Int8", "Int16", "Int32", "Int64">>
FloatChain == <<"Float16", "Float32", "Float64">>
Rank(chain, n) == CHOOSE i \in DOMAIN chain : chain[i] = n
CanWidenTo(actual, expected) ==
    \E chain \in {IntChain, FloatChain} :
        {actual, expected} \subseteq Range(chain) /\ Rank(chain, actual) < Rank(chain, expected)

OccursIn(v, t) == v \in FreeTypeVars(t)
BindVar(c, x, t) ==
    IF t = x THEN c
    ELSE IF x.v \in c.rigid \/ OccursIn(x.v, t) THEN Refuse(c)
    ELSE [c EXCEPT !.sub = @ @@ (x.v :> t)]

\* The left type is what is expected.  An array of a fixed length is an array.
SameShape(l, r) ==
    /\ Len(l.args) = Len(r.args)
    /\ \/ l.n = r.n /\ (l.n = "[]" => l.len = r.len)
       \/ {l.n, r.n} = {"[]", "Array"}
Unify(c, left, right) ==
    LET l == Apply(c, left)
        r == Apply(c, right)
    IN  CASE ~c.ok -> c
          [] IsVar(l) -> BindVar(c, l, r)
          [] ~IsVar(l) /\ IsVar(r) -> BindVar(c, r, l)
          [] OTHER -> IF IsCon(l) /\ IsCon(r) /\ CanWidenTo(r.n, l.n) THEN c
                      ELSE IF ~SameShape(l, r) THEN Refuse(c)
                      ELSE Fold(LAMBDA a, i : Unify(a, l.args[i], r.args[i]), c,
                                    [i \in DOMAIN l.args |-> i])

FreshVar(c) == Got([c EXCEPT !.next = @ + 1], Var(c.next))

\* ---- schemes -----------------------------------------------------------------
Replace(map, t) ==
    IF ~IsVar(t) THEN Over(t, LAMBDA a : Replace(map, a))
    ELSE IF t.v \in DOMAIN map THEN Var(map[t.v]) ELSE t
Instantiate(c, s) ==
    LET vs == SetToSeq(s.vars)
        map == [v \in s.vars |-> c.next + (CHOOSE i \in DOMAIN vs : vs[i] = v)]
    IN  Got([c EXCEPT !.next = @ + Len(vs) + 1], Replace(map, s.t))
\* Every variable not bound by a scheme in scope, other than `exclude`'s, becomes
\* one of the scheme: those of monomorphic types in scope too.
Generalize(c, t0, exclude) ==
    LET t == Apply(c, t0)
        bound(s) == UNION {s[x].vars : x \in DOMAIN s \ exclude}
    IN  Scheme(FreeTypeVars(t) \ UNION {bound(s) : s \in Range(c.sc)}, t)

PushScope(c) == [c EXCEPT !.sc = Append(@, <<>>)]
PopScope(c) == [c EXCEPT !.sc = Front(@)]
SetIn(c, i, x, s) == [c EXCEPT !.sc[i] = (x :> s) @@ @]
SetGlobal(c, x, s) == SetIn(c, 1, x, s)
InsertLocal(c, x, s) == SetIn(c, Len(c.sc), x, s)
LookupName(c, x) ==
    LET at == {i \in DOMAIN c.sc : x \in DOMAIN c.sc[i]}
    IN  IF at = {} THEN FreshVar(Refuse(c)) ELSE Instantiate(c, c.sc[Max(at)][x])

\* `generics` maps the type parameters in scope to their variables.
RECURSIVE LowerType(_, _), BadType(_, _)
LowerType(generics, ty) ==
    IF ty.n \in DOMAIN generics THEN generics[ty.n]
    ELSE App(ty.n, [i \in DOMAIN ty.args |-> LowerType(generics, ty.args[i])])
BadType(generics, ty) ==
    IF ty.n \in DOMAIN generics THEN ty.args # <<>>
    ELSE \E i \in DOMAIN ty.args : BadType(generics, ty.args[i])
CheckTypes(c, generics, tys) ==
    IF \E i \in DOMAIN tys : BadType(generics, tys[i]) THEN Refuse(c) ELSE c
RigidVars(c, xs) ==
    [c |-> [c EXCEPT !.next = @ + Len(xs), !.rigid = @ \cup {c.next + i - 1 : i \in DOMAIN xs}],
     map |-> [x \in Range(xs) |-> Var(c.next + Max({i \in DOMAIN xs : xs[i] = x}) - 1)]]

\* ---- builtins ----------------------------------------------------------------
Result(t, e) == App("Result", <<t, e>>)
OptionOf(t) == App("Option", <<t>>)
\* The variables 0 and 1 are only those of these schemes.
Builtins ==
    LET t == Var(0)
        e == Var(1)
        ok == Scheme({0, 1}, FnOf(<<t>>, Result(t, e)))
        err == Scheme({0, 1}, FnOf(<<e>>, Result(t, e)))
        net(self, args, ret) == Mono(FnOf(<<Con(self)>> \o args, ret))
    IN  [Ok |-> ok, Err |-> err, Some |-> Scheme({0}, FnOf(<<t>>, OptionOf(t))),
         None |-> Scheme({0}, OptionOf(t)), __ty_result_ok |-> ok, __ty_result_err |-> err,
         __ty_buf_new |-> Mono(FnOf(<<>>, Con("Buf"))),
         __ty_buf_push_str |-> Mono(FnOf(<<Con("Buf"), Con("Str")>>, Unit)),
         __ty_buf_into_str |-> Mono(FnOf(<<Con("Buf")>>, Con("Str"))),
         __ty_method__Network__listen |->
             net("Network", <<Con("Str")>>, Result(Con("Listener"), Con("Int32"))),
         __ty_method__Listener__accept |->
             net("Listener", <<>>, Result(Con("Socket"), Con("Int32"))),
         __ty_method__Socket__consume |->
             net("Socket", <<App("Ref", <<Chan(Con("Int8"))>>)>>, Unit),
         __ty_method__Socket__close |-> net("Socket", <<>>, Unit)]
InnerFuncs ==
    {"break", "continue", "print", "println", "printf", "fprint", "fprintln", "fprintf",
     "sprint", "sprintln", "sprintf", "scan", "scanf", "fscan", "fscanf", "sscan", "sscanf"}

\* ---- patterns ----------------------------------------------------------------
LiteralTypes == Range(IntChain) \cup Range(FloatChain) \cup {"Byte", "Bool", "Str"}
LiteralType(c, ty) == Got(IF ty \in LiteralTypes THEN c ELSE Refuse(c), Con(ty))
\* The element type of an array; anything, if the type is not one.
ArrayElemType(c, t0) ==
    LET t == Apply(c, t0)
    IN  IF ~IsVar(t) /\ t.n \in {"[]", "Array"} /\ Len(t.args) = 1 THEN Got(c, t.args[1])
        ELSE FreshVar(c)
IsArray(c, t) == ArrayElemType(c, t).c = c
ResultVariantPayload(expected, variant) ==
    CASE IsVar(expected) -> expected
      [] ~IsVar(expected) /\ expected.n = "Result" /\ Len(expected.args) = 2 ->
             IF variant = "Ok" THEN expected.args[1]
             ELSE IF variant = "Err" THEN expected.args[2] ELSE expected
      [] OTHER -> IF expected.n = "Option" /\ Len(expected.args) = 1 /\ variant = "Some"
                  THEN expected.args[1] ELSE expected
RECURSIVE BindPatternType(_, _, _)
BindPatternType(c, p, expected) ==
    LET parts(a, t) == Fold(LAMBDA b, q : BindPatternType(b, q, t), a, p.ps)
    IN  CASE p.k = "wild" -> c
          [] p.k = "var" -> InsertLocal(c, p.x, Mono(Apply(c, expected)))
          [] p.k = "lit" -> LET l == LiteralType(c, p.ty) IN Unify(l.c, l.t, expected)
          [] p.k \in {"tuple", "array"} ->
                 LET elem == ArrayElemType(c, expected) IN parts(elem.c, elem.t)
          [] p.k = "variant" -> parts(c, ResultVariantPayload(expected, p.name))
          [] p.k = "or" -> parts(c, expected)

\* ---- expressions -------------------------------------------------------------
\* What an expression, a statement or a block does to the checker, and its type.
RECURSIVE Typed(_, _, _)
Infer(c, e) == Typed("expression", c, e)
CheckBlock(c, b) == Typed("block", c, b)
Having(r, F(_, _)) == F(r.c, r.t)

Comparisons == {"==", "!=", "<", ">", "<=", ">="}
\* The types of several, in a sequence.
InferAll(c, es) ==
    Fold(LAMBDA a, e : Having(Infer(a.c, e), LAMBDA b, t : Got(b, Append(a.t, t))), Got(c, <<>>), es)
Require(c, e, t) == Having(Infer(c, e), LAMBDA a, u : Unify(a, u, t))
RequireAll(c, es, t) == Fold(LAMBDA a, e : Require(a, e, t), c, es)

\* Two numbers give the wider; anything else must be Int32.
Arithmetic(c, l, r) ==
    LET int == Con("Int32")
        numeric == Range(IntChain) \cup Range(FloatChain)
    IN  IF IsCon(l) /\ IsCon(r) /\ {l.n, r.n} \subseteq numeric
        THEN CASE l = r \/ CanWidenTo(r.n, l.n) -> Got(c, l)
               [] l # r /\ CanWidenTo(l.n, r.n) -> Got(c, r)
               [] OTHER -> Got(Refuse(c), l)
        ELSE Got(Unify(Unify(c, l, int), r, int), int)
\* What calling a function of type `callee` gives.
CallType(c, callee, args) ==
    Having(FreshVar(c), LAMBDA a, ret : Got(Unify(a, callee, FnOf(args, ret)), ret))
BinaryType(c, op, l, r) ==
    CASE op = "=" -> Got(Unify(c, l, r), l)
      [] op = "|>" -> CallType(c, r, <<l>>)
      [] op \in Comparisons -> Got(Unify(c, l, r), Con("Bool"))
      [] OTHER -> Arithmetic(c, l, r)
InferBinary(c, e) ==
    Having(InferAll(c, e.kids), LAMBDA a, ts : BinaryType(a, e.op, ts[1], ts[2]))

\* A method is called with its receiver; one the checker knows, without.
NamedMethod(c, n, x, args) ==
    Having(LookupName(c, "__ty_method__" \o n \o "__" \o x), LAMBDA a, t : CallType(a, t, args))
FirstIs(c, ts, t) == IF ts = <<>> THEN c ELSE Unify(c, ts[1], t)
Referent(c, t) ==
    IF ~IsVar(t) /\ t.n = "Ref" /\ Len(t.args) = 1 THEN Apply(c, t.args[1]) ELSE t
MethodType(c, f, self, args) ==
    LET t == Referent(c, self)
        generic == ~IsVar(t) /\ t.n \notin {"->", "[]"} /\ t.args # <<>>
        of(n) == generic /\ t.n = n /\ Len(t.args) = 1
    IN  CASE (of("Array") /\ f.name = "push") \/ (of("Chan") /\ f.name = "send") ->
                 Got(FirstIs(c, Tail(args), t.args[1]), Unit)
          [] of("Chan") /\ f.name = "recv" -> Got(c, t.args[1])
          [] of("Chan") /\ f.name = "try_recv" -> Got(c, OptionOf(t.args[1]))
          [] OTHER ->
                 IF generic THEN NamedMethod(c, t.n, f.name, args)
                 ELSE IF IsCon(self) THEN NamedMethod(c, self.n, f.name, args)
                 ELSE Having(Infer(c, f), LAMBDA a, callee : CallType(a, callee, Tail(args)))
InferMethod(c, e) ==
    Having(Infer(c, e.f.base), LAMBDA a, base : Having(InferAll(a, e.kids), LAMBDA b, ts :
        MethodType(b, e.f, Apply(b, base), <<base>> \o ts)))

InferCall(c, e) ==
    CASE e.f.k = "field" -> InferMethod(c, e)
      [] e.f.k = "id" /\ e.f.x = "chan" ->
             Having(FreshVar(c), LAMBDA a, elem : Got(a, App("Ref", <<Chan(elem)>>)))
      [] e.f.k = "id" /\ e.f.x \in InnerFuncs -> Got(InferAll(c, e.kids).c, Unit)
      [] OTHER -> Having(Infer(c, e.f), LAMBDA a, callee :
             Having(InferAll(a, e.kids), LAMBDA b, ts : CallType(b, callee, ts)))

InferId(c, x) ==
    CASE x = "chan" -> Got(c, Con("Chan"))
      [] x \in InnerFuncs -> Got(c, Unit)
      [] OTHER -> LookupName(c, x)
\* What is not a field of a known struct may have any type.
FieldType(c, t, x) ==
    IF IsCon(t) /\ t.n \in DOMAIN c.fields /\ x \in DOMAIN c.fields[t.n]
    THEN Got(c, c.fields[t.n][x]) ELSE FreshVar(c)
InferField(c, e) == Having(Infer(c, e.base), LAMBDA a, t : FieldType(a, Apply(a, t), e.name))
ElementType(c, t) ==
    IF IsArray(c, t) THEN Got(c, OptionOf(ArrayElemType(c, t).t)) ELSE ArrayElemType(c, t)
InferIndex(c, e) ==
    Having(InferAll(c, e.kids), LAMBDA a, ts : ElementType(Unify(a, ts[2], Con("Int32")), ts[1]))
InferArray(c, e) ==
    Having(FreshVar(c), LAMBDA a, elem :
        Got(RequireAll(a, e.kids, elem), FixedArray(elem, Len(e.kids))))
\* The arms bind the scrutinee's type; each body must have the type `t`.
InferArms(c, scrutinee, arms, t) ==
    LET guarded(a, m) ==
          RequireAll(BindPatternType(PushScope(a), m.pat, scrutinee), m.guard, Con("Bool"))
    IN  Fold(LAMBDA a, m : PopScope(Require(guarded(a, m), m.body, t)), c, arms)
InferMatch(c, e) ==
    Having(Infer(c, e.e), LAMBDA a, s : Having(FreshVar(a), LAMBDA b, t :
        Got(InferArms(b, s, e.arms, t), t)))
InferIfLet(c, e) ==
    LET else(a, x, then) == Having(Infer(a, x), LAMBDA b, t : Unify(b, then, t))
    IN  Having(Infer(c, e.e), LAMBDA a, t :
          Having(CheckBlock(BindPatternType(PushScope(a), e.pat, t), e.then), LAMBDA b, then :
            Got(Fold(LAMBDA d, x : else(d, x, then), PopScope(b), e.els), then)))
\* e? is the first argument of a Result or an Option, or itself.
TryInnerType(c, t0) ==
    LET t == Apply(c, t0)
    IN  IF ~IsVar(t) /\ <<t.n, Len(t.args)>> \in {<<"Result", 2>>, <<"Option", 1>>}
        THEN t.args[1] ELSE t0

InferNode(c, e) ==
    CASE e.k = "lit" -> LiteralType(c, e.ty)
      [] e.k = "str" -> Got(c, Con("Str"))
      [] e.k = "un" -> LET t == Con(IF e.op = "-" THEN "Int32" ELSE "Bool")
                       IN  Got(Require(c, e.kids[1], t), t)
      [] e.k = "bin" -> InferBinary(c, e)
      [] e.k = "call" -> InferCall(c, e)
      [] e.k = "field" -> InferField(c, e)
      [] e.k = "index" -> InferIndex(c, e)
      [] e.k = "array" -> InferArray(c, e)
      [] e.k = "struct" -> Got(InferAll(c, e.kids).c, Con(e.name))
      [] e.k = "merge" -> FreshVar(InferAll(c, e.kids).c)
      [] e.k = "block" -> CheckBlock(c, e.b)
      [] e.k = "match" -> InferMatch(c, e)
      [] e.k = "try" -> Having(Infer(c, e.kids[1]), LAMBDA a, t : Got(a, TryInnerType(a, t)))
      [] e.k = "iflet" -> InferIfLet(c, e)
      [] e.k = "placeholder" -> FreshVar(c)
\* The type of a name is not yet the substitution's.
InferExpression(c, e) ==
    IF e.k = "id" THEN InferId(c, e.x)
    ELSE Having(InferNode(c, e), LAMBDA a, t : Got(a, Apply(a, t)))

\* ---- statements --------------------------------------------------------------
\* Mutant: the annotation is what is expected, as the comment wants.
AnnotatedWidening(c, tys, init) ==
    IF tys = <<>> THEN Got(c, init)
    ELSE LET ty == LowerType(<<>>, tys[1]) IN Got(Unify(CheckTypes(c, <<>>, tys), ty, init), ty)
\* With an annotation, it is the initializer's type that is expected.
Annotated(c, tys, init) ==
    IF tys = <<>> THEN Got(c, init)
    ELSE LET ty == LowerType(<<>>, tys[1]) IN Got(Unify(CheckTypes(c, <<>>, tys), init, ty), ty)
\* A `let mut` of an array forgets its length, and no `let mut` is polymorphic.
Grown(t) == IF ~IsVar(t) /\ t.n = "[]" THEN App("Array", t.args) ELSE t
\* Mutant: a `let mut` is generalized too.
BindLetPolymorphic(c, s, ty) == InsertLocal(c, s.x, Generalize(c, ty, {}))
BindLet(c, s, ty) ==
    InsertLocal(c, s.x, IF s.mut THEN Mono(Grown(Apply(c, ty))) ELSE Generalize(c, ty, {}))
CheckLet(c, s) ==
    Having(Infer(c, s.e), LAMBDA a, init :
        Having(Annotated(a, s.ty, init), LAMBDA b, ty : BindLet(b, s, ty)))
CheckFor(c, s) ==
    Having(Infer(c, s.e), LAMBDA a, it : Having(ArrayElemType(a, it), LAMBDA b, elem :
        PopScope(CheckBlock(BindPatternType(PushScope(b), s.pat, elem), s.body).c)))
CheckElse(c, x) == Typed(IF x.k = "body" THEN "block" ELSE "statement", c, x).c
CheckStatement(c, s) ==
    CASE s.k = "let" -> CheckLet(c, s)
      [] s.k = "expr" -> Infer(c, s.e).c
      [] s.k = "ret" -> IF s.es = <<>> THEN Unify(c, Unit, c.ret) ELSE Require(c, s.es[1], c.ret)
      [] s.k = "conc" -> CheckBlock(c, s.body).c
      [] s.k = "if" ->
             Fold(CheckElse, CheckBlock(Require(c, s.c, Con("Bool")), s.then).c, s.els)
      [] s.k = "match" -> Having(Infer(c, s.e), LAMBDA a, t : InferArms(a, t, s.arms, Unit))
      [] s.k = "loop" -> IF s.kind = "for" THEN CheckFor(c, s)
                         ELSE CheckBlock(Require(c, s.e, Con("Bool")), s.body).c
BlockType(c, b) ==
    Having(InferAll(Fold(LAMBDA a, s : Typed("statement", a, s).c, PushScope(c), b.ss), b.tr),
           LAMBDA a, ts : Got(PopScope(a), IF ts = <<>> THEN Unit ELSE Apply(PopScope(a), ts[1])))
Typed(what, c, x) ==
    CASE ~c.ok -> Got(c, Unit)
      [] c.ok /\ what = "block" -> BlockType(c, x)
      [] c.ok /\ what = "statement" -> Got(CheckStatement(c, x), Unit)
      [] OTHER -> InferExpression(c, x)

\* ---- functions ---------------------------------------------------------------
\* Without a return type, a function returns anything: a variable of its scheme.
LowerFunctionSignature(c, f) ==
    LET g == RigidVars(c, f.generics)
        params == [i \in DOMAIN f.params |-> f.params[i].ty]
        a == CheckTypes(g.c, g.map, params \o f.ret)
        ret == IF f.ret = <<>> THEN FreshVar(a) ELSE Got(a, LowerType(g.map, f.ret[1]))
        tys == [i \in DOMAIN params |-> LowerType(g.map, params[i])]
        t == FnOf(tys, ret.t)
    IN  [c |-> SetGlobal(ret.c, f.name, Generalize(ret.c, t, {})),
         params |-> tys, ret |-> ret.t, t |-> t]
CheckBody(sig, f) ==
    LET inside == Fold(LAMBDA a, i : InsertLocal(a, f.params[i].x, Mono(sig.params[i])),
                       PushScope([sig.c EXCEPT !.ret = sig.ret]), [i \in DOMAIN f.params |-> i])
        after(c, t) == IF f.body.tr = <<>> THEN PopScope(c) ELSE Unify(PopScope(c), t, sig.ret)
    IN  Having(CheckBlock(inside, f.body), after)
CheckFunction(c, f) ==
    LET sig == LowerFunctionSignature(c, f)
        known(a) == SetGlobal(a, f.name, Generalize(a, sig.t, {f.name}))
    IN  known(CheckBody(sig, f))

\* The fields of the structs, then the signatures, then the bodies.
CollectTypeInfo(c, d) ==
    LET g == RigidVars(c, d.generics)
        types == [i \in DOMAIN d.fields |-> d.fields[i].ty]
        last(x) == Max({i \in DOMAIN d.fields : d.fields[i].x = x})
        map == [x \in {p.x : p \in Range(d.fields)} |-> LowerType(g.map, types[last(x)])]
    IN  [CheckTypes(g.c, g.map, types) EXCEPT !.fields = (d.name :> map) @@ @]
Checker ==
    [next |-> 2, sub |-> <<>>, rigid |-> {}, sc |-> <<Builtins>>, ret |-> Unit,
     fields |-> <<>>, ok |-> TRUE]
CheckModule(decls) ==
    LET fs == SelectSeq(decls, LAMBDA d : d.k = "fn")
        info == Fold(CollectTypeInfo, Checker, SelectSeq(decls, LAMBDA d : d.k = "struct"))
        known == Fold(LAMBDA a, f : LowerFunctionSignature(a, f).c, info, fs)
    IN  Fold(CheckFunction, known, fs)
================================================================================
