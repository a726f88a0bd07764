-------------------------------- MODULE Printer --------------------------------
(***************************************************************************)
(* The reference the parser is compared with: a tree written as tokens,    *)
(* with the fewest parentheses.  A pipe binds loosest and a `?` tightest,   *)
(* as src/llm/spec.md:1463 has it; the operators between them are in the    *)
(* order of their levels and associate to the left.                        *)
(***************************************************************************)
EXTENDS Compiler

Between(seqs, sep) ==
    Fold(LAMBDA a, i : a \o (IF i = 1 THEN <<>> ELSE sep) \o seqs[i], <<>>,
             [i \in DOMAIN seqs |-> i])
Commas(seqs) == Between(seqs, <<T(",")>>)
Mapped(xs, F(_)) == [i \in DOMAIN xs |-> F(xs[i])]
Maybe(xs, before, F(_)) == IF xs = <<>> THEN <<>> ELSE <<T(before)>> \o F(xs[1])

RECURSIVE PrintType(_), PrintPattern(_), PrintNode(_)
PrintType(ty) ==
    CASE ty.n = "Array" -> <<T("[")>> \o PrintType(ty.args[1]) \o <<T("]")>>
      [] ty.n = "Ref" -> <<Name("ref")>> \o PrintType(ty.args[1])
      [] ty.n = "Chan" -> <<Name("chan"), T("<")>> \o PrintType(ty.args[1]) \o <<T(">")>>
      [] OTHER -> <<Name(ty.n)>> \o (IF ty.args = <<>> THEN <<>> ELSE
                      <<T("<")>> \o Commas(Mapped(ty.args, PrintType)) \o <<T(">")>>)

PrintPattern(p) ==
    LET parts == Commas(Mapped(p.ps, PrintPattern))
    IN  CASE p.k = "wild" -> <<Name("_")>>
          [] p.k = "var" -> <<Name(p.x)>>
          [] p.k = "lit" -> <<Number(p.ty)>>
          [] p.k = "variant" -> <<Name(p.name)>> \o
                 (IF p.ps = <<>> THEN <<>> ELSE <<T("(")>> \o parts \o <<T(")")>>)
          [] p.k = "tuple" -> <<T("(")>> \o parts \o <<T(")")>>
          [] p.k = "array" -> <<T("[")>> \o parts \o <<T("]")>>
          [] p.k = "or" -> Between(Mapped(p.ps, PrintPattern), <<T("|")>>)

Precedence(op) ==
    CASE op \in Assignments -> 0
      [] op = "|>" -> 1
      [] op \in {"==", "!="} -> 2
      [] op \in {"&", "|", "^"} -> 3
      [] op \in {"<", "<=", ">", ">="} -> 4
      [] op \in {"<<", ">>"} -> 5
      [] op \in {"+", "-"} -> 6
      [] op \in {"*", "/", "%"} -> 7
Tightness(e) ==
    CASE e.k = "bin" -> Precedence(e.op)
      [] e.k = "un" -> 8
      [] e.k = "try" -> 9
      [] OTHER -> 10
At(e, n) == IF Tightness(e) >= n THEN PrintNode(e)
            ELSE <<T("(")>> \o PrintNode(e) \o <<T(")")>>
PrintAll(es) == Commas(Mapped(es, PrintNode))
PrintInits(fields, es) ==
    Commas([i \in DOMAIN fields |-> <<Name(fields[i]), T(":")>> \o PrintNode(es[i])])
PrintArm(a) ==
    PrintPattern(a.pat) \o Maybe(a.guard, "if", PrintNode) \o <<T("=>")>> \o PrintNode(a.body)
        \o <<T(",")>>
PrintMatch(e, arms) ==
    <<T("match")>> \o PrintNode(e) \o <<T("{")>> \o FlattenSeq(Mapped(arms, PrintArm)) \o <<T("}")>>

\* An expression, a statement or a block.
PrintNode(e) ==
    CASE e.k = "lit" -> <<Number(e.ty)>>
      [] e.k = "str" -> <<Text(e.parts)>>
      [] e.k = "id" -> <<Name(e.x)>>
      [] e.k = "bin" -> LET n == Precedence(e.op)
                        IN  At(e.kids[1], IF n = 0 THEN 1 ELSE n) \o <<T(e.op)>>
                              \o At(e.kids[2], IF n = 0 THEN 0 ELSE n + 1)
      [] e.k = "un" -> <<T(e.op)>> \o At(e.kids[1], 8)
      [] e.k = "try" -> At(e.kids[1], 9) \o <<T("?")>>
      [] e.k = "field" -> At(e.base, 10) \o <<T("."), Name(e.name)>>
      [] e.k = "index" -> At(e.kids[1], 10) \o <<T("[")>> \o PrintNode(e.kids[2]) \o <<T("]")>>
      [] e.k = "call" ->
           IF e.f = Id("chan")      \* its type is lost
           THEN <<Name("chan"), T("<"), Name("Bool"), T(">"), T("("), T(")")>>
           ELSE At(e.f, 10) \o <<T("(")>> \o PrintAll(e.kids) \o <<T(")")>>
      [] e.k = "array" -> <<T("[")>> \o PrintAll(e.kids) \o <<T("]")>>
      [] e.k = "struct" -> <<Name(e.name), T("{")>> \o PrintInits(e.fields, e.kids) \o <<T("}")>>
      [] e.k = "merge" -> <<T("{"), T("...")>> \o PrintNode(Head(e.kids)) \o <<T(",")>>
                            \o PrintInits(e.fields, Tail(e.kids)) \o <<T("}")>>
      [] e.k = "block" -> PrintNode(e.b)
      [] e.k = "match" -> PrintMatch(e.e, e.arms)
      [] e.k = "iflet" -> <<T("if"), T("let")>> \o PrintPattern(e.pat) \o <<T("=")>>
                            \o PrintNode(e.e) \o PrintNode(e.then) \o Maybe(e.els, "else", PrintNode)
      [] e.k = "let" -> <<T("let")>> \o (IF e.mut THEN <<T("mut")>> ELSE <<>>) \o <<Name(e.x)>>
                          \o Maybe(e.ty, ":", PrintType) \o <<T("=")>> \o PrintNode(e.e) \o <<T(";")>>
      [] e.k = "expr" -> PrintNode(e.e) \o (IF e.e.k = "iflet" THEN <<>> ELSE <<T(";")>>)
      [] e.k = "ret" -> <<T("return")>> \o FlattenSeq(Mapped(e.es, PrintNode)) \o <<T(";")>>
      [] e.k = "conc" -> <<T("conc")>> \o PrintNode(e.body)
      [] e.k = "if" -> <<T("if")>> \o PrintNode(e.c) \o PrintNode(e.then)
                         \o Maybe(e.els, "else", PrintNode)
      [] e.k = "loop" ->
           (IF e.kind = "while" THEN <<T("while")>>
            ELSE <<T("for")>> \o PrintPattern(e.pat) \o <<T("in")>>)
             \o PrintNode(e.e) \o PrintNode(e.body)
      [] e.k = "body" -> <<T("{")>> \o FlattenSeq(Mapped(e.ss, PrintNode)) \o <<T("}")>>

PrintField(p) == <<Name(p.x), T(":")>> \o PrintType(p.ty)
PrintFields(ps) == Commas(Mapped(ps, PrintField))
PrintGenerics(g) ==
    IF g = <<>> THEN <<>> ELSE <<T("<")>> \o Commas(Mapped(g, LAMBDA x : <<Name(x)>>)) \o <<T(">")>>
PrintHead(f) ==
    <<T("fn"), Name(f.name)>> \o PrintGenerics(f.generics) \o <<T("(")>> \o PrintFields(f.params)
        \o <<T(")")>> \o Maybe(f.ret, "->", PrintType)
PrintFn(f) == PrintHead(f) \o PrintNode(f.body)
Braced(ts) == <<T("{")>> \o ts \o <<T("}")>>
PrintVariant(v) ==
    <<Name(v.x)>> \o (IF v.tys = <<>> THEN <<>>
                      ELSE <<T("(")>> \o Commas(Mapped(v.tys, PrintType)) \o <<T(")")>>)
PrintDecl(d) ==
    CASE d.k = "fn" -> PrintFn(d)
      [] d.k = "struct" -> <<T("struct"), Name(d.name)>> \o PrintGenerics(d.generics)
                             \o Braced(PrintFields(d.fields))
      [] d.k = "enum" -> <<T("enum"), Name(d.name)>> \o PrintGenerics(d.generics)
                           \o Braced(FlattenSeq(Mapped(d.variants, PrintVariant)))
      [] d.k = "newtype" -> <<T("newtype"), Name(d.name), T("=")>> \o PrintType(d.alias) \o <<T(";")>>
      [] d.k = "interface" -> <<T("interface"), Name(d.name)>> \o PrintGenerics(d.generics)
                                \o Braced(FlattenSeq(Mapped(d.sigs, PrintHead)))
      [] d.k = "impl" -> <<T("impl")>> \o PrintType(d.trait) \o <<T("for")>> \o PrintType(d.type)
                           \o Braced(FlattenSeq(Mapped(d.methods, PrintFn)))
      [] d.k = "extension" -> <<T("extend")>> \o PrintType(d.type)
                                \o Braced(FlattenSeq(Mapped(d.methods, PrintFn)))
      [] d.k = "use" -> <<T("use")>> \o Between(Mapped(d.segments, LAMBDA x : <<Name(x)>>), <<T("::")>>)
                          \o (IF ~d.wildcard THEN <<>>
                              ELSE (IF d.segments = <<>> THEN <<>> ELSE <<T("::")>>) \o <<T("*")>>)
                          \o <<T(";")>>
PrintFile(f) ==
    (IF f.ns = <<>> THEN <<>> ELSE <<T("namespace"), Name(f.ns[1])>>)
        \o FlattenSeq(Mapped(f.decls, PrintDecl))
================================================================================
