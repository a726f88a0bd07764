-------------------------------- MODULE Desugar --------------------------------
(***************************************************************************)
(* Renaming and desugaring, src/src/desugar.rs.  Renaming gives every      *)
(* occurrence of a top-level name the name `al` maps it to.  Desugaring    *)
(* threads the counters [tmp, buf] of the names it makes up, and `ok`,     *)
(* which is FALSE once a hole of a string did not parse.                   *)
(***************************************************************************)
EXTENDS Grammar

\* ---- renaming ------------------------------------------------------------------
New(al, x) == IF x \in DOMAIN al THEN al[x] ELSE x
RECURSIVE RenameType(_, _), RenamePattern(_, _), RenameExpr(_, _), RenameStmt(_, _),
          RenameBlock(_, _)
RenameType(al, ty) == Ty(New(al, ty.n), [i \in DOMAIN ty.args |-> RenameType(al, ty.args[i])])
RenameTypes(al, tys) == [i \in DOMAIN tys |-> RenameType(al, tys[i])]
RenameFields(al, fs) == [i \in DOMAIN fs |-> [fs[i] EXCEPT !.ty = RenameType(al, @)]]

\* A name a pattern binds is kept.
RenamePattern(al, p) ==
    LET ps == [i \in DOMAIN p.ps |-> RenamePattern(al, p.ps[i])]
    IN  CASE p.k = "var" -> p
          [] p.k = "variant" -> PVariant(New(al, p.name), ps)
          [] OTHER -> [p EXCEPT !.ps = ps]

RenameAll(al, es) == [i \in DOMAIN es |-> RenameExpr(al, es[i])]
\* Mutant: guards are not renamed.
RenameBodies(al, arms) ==
    [i \in DOMAIN arms |-> Arm(RenamePattern(al, arms[i].pat), arms[i].guard,
                               RenameExpr(al, arms[i].body))]
RenameArms(al, arms) ==
    [i \in DOMAIN arms |-> Arm(RenamePattern(al, arms[i].pat), RenameAll(al, arms[i].guard),
                               RenameExpr(al, arms[i].body))]
RenameExpr(al, e) ==
    CASE e.k = "id" -> Id(New(al, e.x))
      [] e.k = "block" -> BlockE(RenameBlock(al, e.b))
      [] e.k = "field" -> [e EXCEPT !.base = RenameExpr(al, @)]
      [] e.k = "call" -> Call(RenameExpr(al, e.f), RenameAll(al, e.kids))
      [] e.k = "struct" -> [e EXCEPT !.name = New(al, @), !.kids = RenameAll(al, @)]
      [] e.k = "match" -> MatchE(RenameExpr(al, e.e), RenameArms(al, e.arms))
      [] e.k = "iflet" -> IfLet(RenamePattern(al, e.pat), RenameExpr(al, e.e),
                                RenameBlock(al, e.then), RenameAll(al, e.els))
      [] OTHER -> [e EXCEPT !.kids = RenameAll(al, @)]

\* Nor is the name a `let` binds renamed, but every use of it is.
RenameStmt(al, s) ==
    CASE s.k = "let" -> [s EXCEPT !.ty = RenameTypes(al, @), !.e = RenameExpr(al, @)]
      [] s.k = "expr" -> ExprS(RenameExpr(al, s.e))
      [] s.k = "ret" -> Ret(RenameAll(al, s.es))
      [] s.k = "conc" -> Conc(RenameBlock(al, s.body))
      [] s.k = "loop" -> Loop(s.kind, RenamePattern(al, s.pat), RenameExpr(al, s.e),
                              RenameBlock(al, s.body))
      [] s.k = "if" -> If(RenameExpr(al, s.c), RenameBlock(al, s.then),
             [i \in DOMAIN s.els |-> IF s.els[i].k = "body" THEN RenameBlock(al, s.els[i])
                                     ELSE RenameStmt(al, s.els[i])])
      [] s.k = "match" -> MatchS(RenameExpr(al, s.e), RenameArms(al, s.arms))
RenameBlock(al, b) ==
    Block([i \in DOMAIN b.ss |-> RenameStmt(al, b.ss[i])], RenameAll(al, b.tr))

\* A method is renamed like a function of its name.
RECURSIVE RenameDecl(_, _)
RenameMethods(al, ms) == [i \in DOMAIN ms |-> RenameDecl(al, ms[i])]
RenameDecl(al, d0) ==
    LET d == IF HasName(d0) THEN [d0 EXCEPT !.name = New(al, @)] ELSE d0
    IN  CASE d.k = "fn" -> [d EXCEPT !.params = RenameFields(al, @), !.ret = RenameTypes(al, @),
                                     !.body = RenameBlock(al, @)]
          [] d.k = "struct" -> [d EXCEPT !.fields = RenameFields(al, @)]
          [] d.k = "enum" -> [d EXCEPT !.variants =
                 [i \in DOMAIN @ |-> [@[i] EXCEPT !.tys = RenameTypes(al, @)]]]
          [] d.k = "newtype" -> [d EXCEPT !.alias = RenameType(al, @)]
          [] d.k = "interface" -> [d EXCEPT !.sigs = [i \in DOMAIN @ |->
                 [@[i] EXCEPT !.params = RenameFields(al, @), !.ret = RenameTypes(al, @)]]]
          [] d.k = "impl" -> [d EXCEPT !.trait = RenameType(al, @), !.type = RenameType(al, @),
                                       !.methods = RenameMethods(al, @)]
          [] d.k = "extension" -> [d EXCEPT !.type = RenameType(al, @),
                                            !.methods = RenameMethods(al, @)]
          [] OTHER -> d

\* ---- desugaring ------------------------------------------------------------------
Counters == [tmp |-> 0, buf |-> 0, ok |-> TRUE]
Out(c, v) == [c |-> c, v |-> v]
With(r, F(_, _)) == F(r.c, r.v)
RECURSIVE Desugar(_, _)
\* F on each of a sequence, in order.
Each(c, xs, F(_, _)) ==
    Fold(LAMBDA a, x : LET r == F(a.c, x) IN Out(r.c, Append(a.v, r.v)), Out(c, <<>>), xs)
DesugarAll(c, xs) == Each(c, xs, Desugar)

\* e? returns the error of the function it is in, or is the value.
TmpName(prefix, n) == prefix \o ToString(n)
Question(c, e) ==
    LET val == TmpName("__ty_ok", c.tmp)
        err == TmpName("__ty_err", c.tmp + 1)
        fail == Block(<<Ret(<<Call(Id("Err"), <<Id(err)>>)>>)>>, <<Placeholder>>)
    IN  Out([c EXCEPT !.tmp = @ + 2],
            MatchE(e, <<Arm(PVariant("Ok", <<PVar(val)>>), <<>>, Id(val)),
                        Arm(PVariant("Err", <<PVar(err)>>), <<>>, BlockE(fail))>>))

\* The left of a pipe is the first argument of its right.
PipeCall(l, r) ==
    IF r.k = "call" THEN Call(r.f, <<l>> \o r.kids) ELSE Call(r, <<l>>)

\* A string of several parts is built in a buffer; a lone hole stays in the text.
\* Holes are parsed here, and neither renamed nor desugared.
PartExpr(part) == IF part.hole THEN ParseExpressionOnly(part.toks) ELSE Parsed(Str(<<part>>), <<>>)
\* Mutant: the buffer is a `let mut`.
MutableBuffer(buf) == Let(TRUE, buf, <<>>, Call(Id("__ty_buf_new"), <<>>))
Buffer(buf) == Let(FALSE, buf, <<>>, Call(Id("__ty_buf_new"), <<>>))
Interpolated(c, values) ==
    LET buf == TmpName("__ty_buf", c.buf)
        push(r) == ExprS(Call(Id("__ty_buf_push_str"), <<Id(buf), r.v>>))
    IN  Out([c EXCEPT !.buf = @ + 1, !.ok = @ /\ \A r \in Range(values) : r.ok],
            BlockE(Block(<<Buffer(buf)>> \o [i \in DOMAIN values |-> push(values[i])],
                         <<Call(Id("__ty_buf_into_str"), <<Id(buf)>>)>>)))
Interpolation(c, parts) == Interpolated(c, [i \in DOMAIN parts |-> PartExpr(parts[i])])

DesugarArms(c, arms) ==
    Each(c, arms, LAMBDA a, arm :
        With(DesugarAll(a, arm.guard), LAMBDA b, guard :
            With(Desugar(b, arm.body), LAMBDA d, body : Out(d, Arm(arm.pat, guard, body)))))

\* In an expression, a statement or a block: all of its parts, in order.  The body of
\* a loop is desugared for the kind, which is not read, then for the statement: the
\* names it makes up are not the first ones.
Desugar(c, x) ==
    CASE x.k = "id" -> Out(c, x)
      [] x.k = "str" -> IF Len(x.parts) <= 1 THEN Out(c, x) ELSE Interpolation(c, x.parts)
      [] x.k \in {"let", "expr"} -> With(Desugar(c, x.e), LAMBDA d, e : Out(d, [x EXCEPT !.e = e]))
      [] x.k = "field" -> With(Desugar(c, x.base), LAMBDA d, e : Out(d, [x EXCEPT !.base = e]))
      [] x.k = "block" -> With(Desugar(c, x.b), LAMBDA d, b : Out(d, BlockE(b)))
      [] x.k = "conc" -> With(Desugar(c, x.body), LAMBDA d, b : Out(d, Conc(b)))
      [] x.k = "ret" -> With(DesugarAll(c, x.es), LAMBDA d, es : Out(d, Ret(es)))
      [] x.k = "call" -> With(Desugar(c, x.f), LAMBDA d, f :
             With(DesugarAll(d, x.kids), LAMBDA b, es : Out(b, Call(f, es))))
      [] x.k = "match" -> With(Desugar(c, x.e), LAMBDA d, e :
             With(DesugarArms(d, x.arms), LAMBDA b, arms : Out(b, MatchE(e, arms))))
      [] x.k = "iflet" -> With(Desugar(c, x.e), LAMBDA d, e :
             With(Desugar(d, x.then), LAMBDA b, then :
                With(DesugarAll(b, x.els), LAMBDA a, els : Out(a, IfLet(x.pat, e, then, els)))))
      [] x.k = "if" -> With(Desugar(c, x.c), LAMBDA d, e : With(Desugar(d, x.then), LAMBDA b, then :
             With(DesugarAll(b, x.els), LAMBDA a, els : Out(a, If(e, then, els)))))
      [] x.k = "loop" -> With(Desugar(c, x.e), LAMBDA d, e :
             With(Desugar(Desugar(d, x.body).c, x.body), LAMBDA b, body :
                Out(b, Loop(x.kind, x.pat, e, body))))
      [] x.k = "body" -> With(DesugarAll(c, x.ss), LAMBDA d, ss :
             With(DesugarAll(d, x.tr), LAMBDA b, tr : Out(b, Block(ss, tr))))
      [] OTHER -> With(DesugarAll(c, x.kids), LAMBDA d, es :
             CASE x.k = "try" -> Question(d, es[1])
               [] x.k = "bin" /\ x.op = "|>" -> Out(d, PipeCall(es[1], es[2]))
               [] OTHER -> Out(d, [x EXCEPT !.kids = es]))

\* A method is a function: only the bodies of functions change.
RECURSIVE DesugarDecl(_, _)
DesugarDecl(c, d) ==
    CASE d.k = "fn" -> With(Desugar(c, d.body), LAMBDA a, b : Out(a, [d EXCEPT !.body = b]))
      [] d.k \in {"impl", "extension"} ->
             With(Each(c, d.methods, DesugarDecl), LAMBDA a, ms : Out(a, [d EXCEPT !.methods = ms]))
      [] OTHER -> Out(c, d)
================================================================================
