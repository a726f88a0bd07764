-------------------------------- MODULE Grammar --------------------------------
(***************************************************************************)
(* The recursive-descent parser of src/src/parser.rs.  A parser takes the  *)
(* tokens left and gives [ok, v, ts]: a tree, and the tokens after it.     *)
(* Nothing is ever put back.                                               *)
(***************************************************************************)
EXTENDS Syntax

\* ---- tokens ------------------------------------------------------------------
T(t) == [t |-> t]
Name(x) == [t |-> "name", x |-> x]
Number(ty) == [t |-> "lit", ty |-> ty]
Text(parts) == [t |-> "str", parts |-> parts]
Recv == [t |-> "recv", x |-> "recv"]

Parsed(v, ts) == [ok |-> TRUE, v |-> v, ts |-> ts]
Error == [ok |-> FALSE, v |-> <<>>, ts |-> <<>>]
On(r, F(_, _)) == IF r.ok THEN F(r.v, r.ts) ELSE Error

Peek(ts) == IF ts = <<>> THEN "eof" ELSE Head(ts).t
Advance(ts) == IF ts = <<>> THEN <<>> ELSE Tail(ts)
Skip(ts, t) == IF Peek(ts) = t THEN Tail(ts) ELSE ts
Expect(ts, t, F(_)) == IF Peek(ts) = t THEN F(Tail(ts)) ELSE Error
Ident(ts, F(_, _)) == IF Peek(ts) = "name" THEN F(Head(ts).x, Tail(ts)) ELSE Error
NextIs(ts, x) == Peek(ts) = "name" /\ Head(ts).x = x
Upper(x) == \E i \in 1..26 : SubSeq("ABCDEFGHIJKLMNOPQRSTUVWXYZ", i, i) = SubSeq(x, 1, 1)

\* One phrase of the grammar, by its name: what the parsers below call each other by.
RECURSIVE Phrase(_, _)

\* ---- lists -------------------------------------------------------------------

RECURSIVE Items(_, _, _, _)
\* Items separated by commas, up to `close`; the last may be followed by a comma.
Items(ts, what, close, acc) ==
    IF Peek(ts) = close THEN Parsed(acc, Tail(ts))
    ELSE On(Phrase(what, ts), LAMBDA v, us :
           IF Peek(us) = "," THEN Items(Tail(us), what, close, Append(acc, v))
           ELSE Expect(us, close, LAMBDA vs : Parsed(Append(acc, v), vs)))
List(ts, what, close) == Items(ts, what, close, <<>>)
\* Between < and >: one item at least, and none after the last comma.
RECURSIVE Angled(_, _, _)
Angled(ts, what, acc) ==
    On(Phrase(what, ts), LAMBDA v, us :
        IF Peek(us) = "," THEN Angled(Tail(us), what, Append(acc, v))
        ELSE Expect(us, ">", LAMBDA vs : Parsed(Append(acc, v), vs)))
ParseGenerics(ts) == IF Peek(ts) = "<" THEN Angled(Tail(ts), "name", <<>>) ELSE Parsed(<<>>, ts)

\* ---- types -------------------------------------------------------------------
\* Any token closes a bracketed type.
ParseType(ts) ==
    CASE Peek(ts) = "[" -> On(Phrase("type", Tail(ts)), LAMBDA ty, us :
                               Parsed(Ty("Array", <<ty>>), Advance(us)))
      [] Peek(ts) = "&" \/ NextIs(ts, "ref") ->
             On(Phrase("type", Tail(ts)), LAMBDA ty, us : Parsed(Ty("Ref", <<ty>>), us))
      [] NextIs(ts, "chan") -> Expect(Tail(ts), "<", LAMBDA us :
             On(Phrase("type", us), LAMBDA ty, vs :
                Expect(vs, ">", LAMBDA ws : Parsed(Ty("Chan", <<ty>>), ws))))
      [] OTHER -> Ident(ts, LAMBDA n, us :
             IF Peek(us) = "<"
             THEN On(Angled(Tail(us), "type", <<>>), LAMBDA args, vs : Parsed(Ty(n, args), vs))
             ELSE Parsed(Ty(n, <<>>), us))

\* ---- patterns ------------------------------------------------------------------
NamedPattern(x, ts) ==
    CASE x = "_" -> Parsed(PWild, ts)
      [] x \in {"Ok", "Err", "Some"} /\ Peek(ts) = "(" ->
             On(Phrase("pattern", Tail(ts)), LAMBDA p, us :
                Expect(us, ")", LAMBDA vs : Parsed(PVariant(x, <<p>>), vs)))
      [] x = "None" -> Parsed(PVariant(x, <<>>), ts)
      [] OTHER -> Parsed(PVar(x), ts)
PatternAtom(ts) ==
    CASE Peek(ts) = "name" -> NamedPattern(Head(ts).x, Tail(ts))
      [] Peek(ts) = "lit" -> Parsed(PLit(Head(ts).ty), Tail(ts))
      [] Peek(ts) = "str" -> Parsed(PLit("Str"), Tail(ts))
      [] Peek(ts) = "[" -> On(List(Tail(ts), "pattern", "]"), LAMBDA ps, us :
                               Parsed(PNode("array", ps), us))
      [] Peek(ts) = "(" -> On(Phrase("pattern", Tail(ts)), LAMBDA p, us :
             IF Peek(us) = "," THEN On(Items(Tail(us), "pattern", ")", <<p>>), LAMBDA ps, vs :
                                          Parsed(PNode("tuple", ps), vs))
             ELSE Expect(us, ")", LAMBDA vs : Parsed(p, vs)))
      [] OTHER -> Error
RECURSIVE Alternatives(_, _)
Alternatives(p, ts) ==
    IF Peek(ts) # "|" THEN Parsed(p, ts)
    ELSE On(PatternAtom(Tail(ts)), LAMBDA q, us : Alternatives(PNode("or", <<p, q>>), us))
Pattern(ts) == On(PatternAtom(ts), Alternatives)

\* ---- blocks ----------------------------------------------------------------------
RECURSIVE Statements(_, _)
\* A statement always parses as one, so that no block has a trailing expression.
Statements(ts, acc) ==
    IF Peek(ts) = "}" THEN Parsed(Do(acc), Tail(ts))
    ELSE On(Phrase("statement", ts), LAMBDA s, us : Statements(us, Append(acc, s)))
ParseBlock(ts) == Expect(ts, "{", LAMBDA us : Statements(us, <<>>))

\* ---- expressions -------------------------------------------------------------------
Assignments == {"=", "+=", "-=", "*=", "/="}
\* The levels of binary operators, the loosest first.  The right operand of an
\* equality skips the level of the bitwise operators.
Levels == <<{"|>"}, {"==", "!="}, {"&", "|", "^"}, {"<", "<=", ">", ">="}, {"<<", ">>"},
            {"+", "-"}, {"*", "/", "%"}>>
\* Mutant: the right operand is read at the operator's own level.
RightAtSameLevel(n) == n
RightLevel(n) == IF n = 2 THEN 4 ELSE n + 1

RECURSIVE Binary(_, _), LeftAssociative(_, _, _)
Expression(ts) ==
    On(Binary(ts, 1), LAMBDA l, us :
        IF Peek(us) \notin Assignments THEN Parsed(l, us)
        ELSE On(Phrase("expr", Tail(us)), LAMBDA r, vs : Parsed(Bin(Peek(us), l, r), vs)))

LeftAssociative(l, ts, n) ==
    IF Peek(ts) \notin Levels[n] THEN Parsed(l, ts)
    ELSE On(Binary(Tail(ts), RightLevel(n)), LAMBDA r, us :
              LeftAssociative(Bin(Peek(ts), l, r), us, n))
Binary(ts, n) ==
    IF n > Len(Levels) THEN Phrase("unary", ts)
    ELSE On(Binary(ts, n + 1), LAMBDA l, us : LeftAssociative(l, us, n))

RECURSIVE Postfix(_, _)
\* Field accesses, indices and calls.
Postfix(e, ts) ==
    CASE Peek(ts) = "." ->
             IF Peek(Tail(ts)) \in {"name", "recv"}
             THEN Postfix(Field(e, Head(Tail(ts)).x), Tail(Tail(ts))) ELSE Error
      [] Peek(ts) = "[" -> On(Phrase("expr", Tail(ts)), LAMBDA i, us :
             Expect(us, "]", LAMBDA vs : Postfix(Index(e, i), vs)))
      [] Peek(ts) = "(" -> On(List(Tail(ts), "expr", ")"), LAMBDA args, us :
             Postfix(Call(e, args), us))
      [] OTHER -> Parsed(e, ts)

\* Fields of a struct or a merge, after `kids` that come before them.
Inits(ts, kids, Made(_, _)) ==
    On(List(ts, "init", "}"), LAMBDA fs, us :
        Parsed(Made([i \in DOMAIN fs |-> fs[i].x], kids \o [i \in DOMAIN fs |-> fs[i].e]), us))
ParseStructInit(x, ts) == Inits(Tail(ts), <<>>, LAMBDA fields, es : StructInit(x, fields, es))
MergeExpression(ts) ==
    On(Phrase("expr", Tail(Tail(ts))), LAMBDA base, us : Inits(Skip(us, ","), <<base>>, Merge))

\* `chan<T>()` forgets T.
ParseChan(ts) ==
    On(Phrase("type", Tail(ts)), LAMBDA ty, us : Expect(us, ">", LAMBDA vs :
        Expect(vs, "(", LAMBDA ws : Expect(ws, ")", LAMBDA xs :
            Postfix(Call(Id("chan"), <<>>), xs)))))
NamedPrimary(x, ts) ==
    CASE Peek(ts) = "{" /\ Upper(x) -> ParseStructInit(x, ts)
      [] Peek(ts) = "<" /\ x = "chan" -> ParseChan(ts)
      [] OTHER -> Postfix(Id(x), ts)

RECURSIVE Arms(_, _)
Arms(ts, acc) ==
    IF Peek(ts) = "}" THEN Parsed(acc, Tail(ts))
    ELSE On(Phrase("pattern", ts), LAMBDA p, us :
           LET guard == IF Peek(us) # "if" THEN Parsed(<<>>, us)
                        ELSE On(Phrase("expr", Tail(us)), LAMBDA e, vs : Parsed(<<e>>, vs))
           IN  On(guard, LAMBDA g, vs : Expect(vs, "=>", LAMBDA ws :
                 On(Phrase("expr", ws), LAMBDA body, xs :
                    Arms(Skip(xs, ","), Append(acc, Arm(p, g, body)))))))
MatchExpression(ts) ==
    On(Phrase("expr", Tail(ts)), LAMBDA e, us : Expect(us, "{", LAMBDA vs :
        On(Arms(vs, <<>>), LAMBDA arms, ws : Parsed(MatchE(e, arms), ws))))

Primary(ts) ==
    CASE Peek(ts) = "lit" -> Postfix(Lit(Head(ts).ty), Tail(ts))
      [] Peek(ts) = "str" -> Postfix(Str(Head(ts).parts), Tail(ts))
      [] Peek(ts) = "name" -> NamedPrimary(Head(ts).x, Tail(ts))
      [] Peek(ts) = "match" -> Phrase("match", ts)
      [] Peek(ts) = "(" -> On(Phrase("expr", Tail(ts)), LAMBDA e, us :
                               Expect(us, ")", LAMBDA vs : Postfix(e, vs)))
      [] Peek(ts) = "[" -> On(List(Tail(ts), "expr", "]"), LAMBDA es, us : Postfix(Array(es), us))
      [] Peek(ts) = "{" -> IF Peek(Tail(ts)) = "..." THEN MergeExpression(ts)
                           ELSE On(Phrase("block", ts), LAMBDA b, us : Postfix(BlockE(b), us))
      [] OTHER -> Error

RECURSIVE Questions(_, _)
Questions(e, ts) == IF Peek(ts) = "?" THEN Questions(Try(e), Tail(ts)) ELSE Parsed(e, ts)
Unary(ts) ==
    IF Peek(ts) \in {"-", "!"}
    THEN On(Phrase("unary", Tail(ts)), LAMBDA e, us : Parsed(Un(Peek(ts), e), us))
    ELSE On(Primary(ts), Questions)

\* All of the input must be one expression.
ParseExpressionOnly(ts) ==
    On(Phrase("expr", ts), LAMBDA e, us : IF us = <<>> THEN Parsed(e, us) ELSE Error)

\* ---- statements --------------------------------------------------------------------
ParseLet(ts) ==
    Ident(Skip(ts, "mut"), LAMBDA x, us :
        LET ann == IF Peek(us) # ":" THEN Parsed(<<>>, us)
                   ELSE On(Phrase("type", Tail(us)), LAMBDA ty, vs : Parsed(<<ty>>, vs))
        IN  On(ann, LAMBDA ty, vs : Expect(vs, "=", LAMBDA ws :
              On(Phrase("expr", ws), LAMBDA e, xs :
                 Parsed(Let(Peek(ts) = "mut", x, ty, e), Skip(xs, ";"))))))
ParseReturn(ts) ==
    IF Peek(ts) \in {";", "}"} THEN Parsed(Ret(<<>>), Skip(ts, ";"))
    ELSE On(Phrase("expr", ts), LAMBDA e, us : Parsed(Ret(<<e>>), Skip(us, ";")))
ParseIfLet(ts) ==
    On(Phrase("pattern", ts), LAMBDA p, us : Expect(us, "=", LAMBDA vs :
        On(Phrase("expr", vs), LAMBDA e, ws : On(Phrase("block", ws), LAMBDA then, xs :
            IF Peek(xs) # "else" THEN Parsed(ExprS(IfLet(p, e, then, <<>>)), xs)
            ELSE On(Phrase("block", Tail(xs)), LAMBDA b, ys :
                      Parsed(ExprS(IfLet(p, e, then, <<BlockE(b)>>)), ys))))))
ParseIf(ts) ==
    On(Phrase("expr", ts), LAMBDA c, us : On(Phrase("block", us), LAMBDA then, vs :
        IF Peek(vs) # "else" THEN Parsed(If(c, then, <<>>), vs)
        ELSE On(Phrase(IF Peek(Tail(vs)) = "if" THEN "statement" ELSE "block", Tail(vs)),
                LAMBDA els, ws : Parsed(If(c, then, <<els>>), ws))))
ParseFor(ts) ==
    On(Phrase("pattern", ts), LAMBDA p, us : Expect(us, "in", LAMBDA vs :
        On(Phrase("expr", vs), LAMBDA it, ws : On(Phrase("block", ws), LAMBDA b, xs :
            Parsed(For(p, it, b), xs)))))
ParseWhile(ts) ==
    On(Phrase("expr", ts), LAMBDA c, us : On(Phrase("block", us), LAMBDA b, vs :
        Parsed(While(c, b), vs)))
\* A match is an expression statement only if a semicolon follows it.
ParseMatch(ts) ==
    On(Phrase("match", ts), LAMBDA m, us :
        IF Peek(us) = ";" THEN Parsed(ExprS(m), Tail(us)) ELSE Parsed(MatchS(m.e, m.arms), us))

\* A semicolon ends a statement, but need not.
Statement(ts) ==
    CASE Peek(ts) = "let" -> ParseLet(Tail(ts))
      [] Peek(ts) = "return" -> ParseReturn(Tail(ts))
      [] Peek(ts) = "conc" -> On(Phrase("block", Tail(ts)), LAMBDA b, us : Parsed(Conc(b), us))
      [] Peek(ts) = "if" -> IF Peek(Tail(ts)) = "let" THEN ParseIfLet(Tail(Tail(ts)))
                            ELSE ParseIf(Tail(ts))
      [] Peek(ts) = "for" -> ParseFor(Tail(ts))
      [] Peek(ts) = "while" -> ParseWhile(Tail(ts))
      [] Peek(ts) = "match" -> ParseMatch(ts)
      [] OTHER -> On(Phrase("expr", ts), LAMBDA e, us : Parsed(ExprS(e), Skip(us, ";")))

\* ---- declarations --------------------------------------------------------------------
\* A parameter `self` of a method needs no type: `self` holds the type extended.
RECURSIVE Params(_, _, _), Methods(_, _, _), Variants(_, _), Signatures(_, _), Path(_, _)
Params(ts, self, acc) ==
    LET param == IF NextIs(ts, "self") /\ Peek(Tail(ts)) # ":" /\ self # <<>>
                 THEN Parsed(Param("self", self[1]), Tail(ts)) ELSE Phrase("field", ts)
    IN  IF Peek(ts) = ")" THEN Parsed(acc, Tail(ts))
        ELSE On(param, LAMBDA p, us :
               IF Peek(us) = "," THEN Params(Tail(us), self, Append(acc, p))
               ELSE Expect(us, ")", LAMBDA vs : Parsed(Append(acc, p), vs)))
ReturnType(ts) ==
    IF Peek(ts) # "->" THEN Parsed(<<>>, ts)
    ELSE On(Phrase("type", Tail(ts)), LAMBDA ty, us : Parsed(<<ty>>, us))
\* Name, generics, parameters and return type: a function without a body.
Signature(ts, self) ==
    Ident(ts, LAMBDA x, us : On(ParseGenerics(us), LAMBDA g, vs : Expect(vs, "(", LAMBDA ws :
        On(Params(ws, self, <<>>), LAMBDA ps, xs : On(ReturnType(xs), LAMBDA ret, ys :
            Parsed(Fn(x, g, ps, ret, Do(<<>>)), ys))))))

\* Whatever token it starts with, `fn` or not, is skipped.
FunctionDecl(ts, self) ==
    On(Signature(Advance(ts), self), LAMBDA f, us : On(Phrase("block", us), LAMBDA b, vs :
        Parsed([f EXCEPT !.body = b], vs)))
StructDecl(ts) ==
    Ident(ts, LAMBDA x, us : On(ParseGenerics(us), LAMBDA g, vs : Expect(vs, "{", LAMBDA ws :
        On(List(ws, "field", "}"), LAMBDA fs, xs : Parsed(StructD(x, g, fs), xs)))))
\* Variants are not separated.
Variants(ts, acc) ==
    IF Peek(ts) = "}" THEN Parsed(acc, Tail(ts))
    ELSE Ident(ts, LAMBDA x, us :
           LET payload == CASE Peek(us) = "(" -> List(Tail(us), "type", ")")
                            [] Peek(us) = "{" -> On(List(Tail(us), "field", "}"), LAMBDA fs, vs :
                                   Parsed([i \in DOMAIN fs |-> fs[i].ty], vs))
                            [] OTHER -> Parsed(<<>>, us)
           IN  On(payload, LAMBDA tys, vs : Variants(vs, Append(acc, [x |-> x, tys |-> tys]))))
EnumDecl(ts) ==
    Ident(ts, LAMBDA x, us : On(ParseGenerics(us), LAMBDA g, vs : Expect(vs, "{", LAMBDA ws :
        On(Variants(ws, <<>>), LAMBDA variants, xs : Parsed(EnumD(x, g, variants), xs)))))
NewtypeDecl(ts) ==
    Ident(ts, LAMBDA x, us : Expect(us, "=", LAMBDA vs :
        On(Phrase("type", vs), LAMBDA ty, ws : Parsed(Newtype(x, ty), Skip(ws, ";")))))
Signatures(ts, acc) ==
    IF Peek(ts) = "}" THEN Parsed(acc, Tail(ts))
    ELSE Expect(ts, "fn", LAMBDA us :
           On(Signature(us, <<>>), LAMBDA f, vs : Signatures(vs, Append(acc, f))))
InterfaceDecl(ts) ==
    Ident(ts, LAMBDA x, us : On(ParseGenerics(us), LAMBDA g, vs : Expect(vs, "{", LAMBDA ws :
        On(Signatures(ws, <<>>), LAMBDA sigs, xs : Parsed(Interface(x, g, sigs), xs)))))

Methods(ts, self, acc) ==
    IF Peek(ts) = "}" THEN Parsed(acc, Tail(ts))
    ELSE On(FunctionDecl(ts, self), LAMBDA f, us : Methods(us, self, Append(acc, f)))
ExtendDecl(ts) ==
    On(Phrase("type", ts), LAMBDA ty, us : Expect(us, "{", LAMBDA vs :
        On(Methods(vs, <<ty>>, <<>>), LAMBDA ms, ws : Parsed(Extension(ty, ms), ws))))
\* Without `for`, an extension.
ImplDecl(ts) ==
    On(Phrase("type", ts), LAMBDA first, us :
        IF Peek(us) # "for" THEN ExtendDecl(ts)
        ELSE On(Phrase("type", Tail(us)), LAMBDA ty, vs : On(ParseGenerics(vs), LAMBDA g, ws :
               Expect(ws, "{", LAMBDA xs : On(Methods(xs, <<ty>>, <<>>), LAMBDA ms, ys :
                   Parsed(Impl(first, ty, ms), ys))))))

Path(ts, acc) ==
    IF Peek(ts) = "*" THEN Parsed(Use(acc, TRUE), Tail(ts))
    ELSE Ident(ts, LAMBDA x, us : IF Peek(us) = "::" THEN Path(Tail(us), Append(acc, x))
                                  ELSE Parsed(Use(Append(acc, x), FALSE), us))

Declaration(ts) ==
    CASE Peek(ts) = "fn" -> FunctionDecl(ts, <<>>)
      [] Peek(ts) = "struct" -> StructDecl(Tail(ts))
      [] Peek(ts) = "enum" -> EnumDecl(Tail(ts))
      [] Peek(ts) = "newtype" -> NewtypeDecl(Tail(ts))
      [] Peek(ts) = "interface" -> InterfaceDecl(Tail(ts))
      [] Peek(ts) = "impl" -> ImplDecl(Tail(ts))
      [] Peek(ts) = "extend" -> ExtendDecl(Tail(ts))
      [] Peek(ts) = "use" -> On(Path(Tail(ts), <<>>), LAMBDA u, us :
                                 Expect(us, ";", LAMBDA vs : Parsed(u, vs)))
      [] OTHER -> Error

\* "name", "field" and "init" are items of lists: a name, with its type or its value.
Phrase(what, ts) ==
    CASE what = "name" -> Ident(ts, Parsed)
      [] what = "type" -> ParseType(ts)
      [] what = "pattern" -> Pattern(ts)
      [] what = "expr" -> Expression(ts)
      [] what = "unary" -> Unary(ts)
      [] what = "match" -> MatchExpression(ts)
      [] what = "block" -> ParseBlock(ts)
      [] what = "statement" -> Statement(ts)
      [] what = "declaration" -> Declaration(ts)
      [] what \in {"field", "init"} -> Ident(ts, LAMBDA x, us : Expect(us, ":", LAMBDA vs :
             On(Phrase(IF what = "field" THEN "type" ELSE "expr", vs), LAMBDA v, ws :
                Parsed(IF what = "field" THEN Param(x, v) ELSE [x |-> x, e |-> v], ws))))

\* The only namespace a file may name is `main`.
RECURSIVE Declarations(_, _)
Declarations(ts, acc) ==
    IF ts = <<>> THEN Parsed(acc, ts)
    ELSE On(Phrase("declaration", ts), LAMBDA d, us : Declarations(us, Append(acc, d)))
NamespacePath(ts) ==
    Ident(ts, LAMBDA x, us : IF x = "main" /\ Peek(us) # "::" THEN Parsed(<<x>>, us) ELSE Error)
ParseModule(ts) ==
    On(IF Peek(ts) = "namespace" THEN NamespacePath(Tail(ts)) ELSE Parsed(<<>>, ts),
       LAMBDA ns, us : On(Declarations(us, <<>>), LAMBDA ds, vs : Parsed(File(ns, ds), vs)))
================================================================================
