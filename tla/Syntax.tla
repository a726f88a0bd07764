-------------------------------- MODULE Syntax --------------------------------
(***************************************************************************)
(* The syntax trees of src/src/ast.rs that the compiler's passes share,    *)
(* without spans and node ids.  Sub-expressions a pass only walks through  *)
(* are kept in one sequence, `kids`; an optional child is a sequence of    *)
(* length 0 or 1.                                                          *)
(***************************************************************************)
EXTENDS Naturals, Sequences, FiniteSets, SequencesExt, FiniteSetsExt, TLC

\* F from a, over the elements of s in order.
Fold(F(_, _), a, s) ==
    LET upTo[i \in 0..Len(s)] == IF i = 0 THEN a ELSE F(upTo[i - 1], s[i]) IN upTo[Len(s)]

\* Nothing is done after an error.
Then(s, F(_)) == IF s.ok THEN F(s) ELSE s

\* ---- types: struct TypeKind ------------------------------------------------
Ty(n, args) == [n |-> n, args |-> args]

\* ---- expressions: enum ExpressionKind ------------------------------------
Node(k, kids) == [k |-> k, kids |-> kids]
\* A literal is its type: the one its suffix stands for.
Lit(ty) == [k |-> "lit", ty |-> ty, kids |-> <<>>]
\* A string is a sequence of parts: a hole holds tokens, a text none.
Str(parts) == [k |-> "str", parts |-> parts, kids |-> <<>>]
TextPart == [hole |-> FALSE, toks |-> <<>>]
HolePart(toks) == [hole |-> TRUE, toks |-> toks]
Id(x) == [k |-> "id", x |-> x]
\* Operators are written as in the source; pipes are binary operators.
Bin(op, l, r) == [k |-> "bin", op |-> op, kids |-> <<l, r>>]
Un(op, e) == [k |-> "un", op |-> op, kids |-> <<e>>]
Call(f, args) == [k |-> "call", f |-> f, kids |-> args]
Field(base, name) == [k |-> "field", base |-> base, name |-> name]
Index(base, i) == Node("index", <<base, i>>)
Array(es) == Node("array", es)
StructInit(name, fields, es) == [k |-> "struct", name |-> name, fields |-> fields, kids |-> es]
\* The first kid is the base.
Merge(fields, es) == [k |-> "merge", fields |-> fields, kids |-> es]
Try(e) == Node("try", <<e>>)
Placeholder == Node("placeholder", <<>>)
BlockE(b) == [k |-> "block", b |-> b]
MatchE(e, arms) == [k |-> "match", e |-> e, arms |-> arms]
IfLet(pat, e, then, els) ==
    [k |-> "iflet", pat |-> pat, e |-> e, then |-> then, els |-> els]

\* ---- patterns: enum PatternKind ------------------------------------------
\* "wild", "tuple", "array" and "or" patterns.
PNode(k, ps) == [k |-> k, ps |-> ps]
PWild == PNode("wild", <<>>)
PVar(x) == [k |-> "var", x |-> x]
PLit(ty) == [k |-> "lit", ty |-> ty, ps |-> <<>>]
PVariant(name, ps) == [k |-> "variant", name |-> name, ps |-> ps]
Arm(pat, guard, body) == [pat |-> pat, guard |-> guard, body |-> body]

\* ---- statements: enum StatementKind --------------------------------------
Let(mut, x, ty, e) == [k |-> "let", mut |-> mut, x |-> x, ty |-> ty, e |-> e]
ExprS(e) == [k |-> "expr", e |-> e]
Ret(es) == [k |-> "ret", es |-> es]
\* els: <<>>, <<a block>> or <<an if statement>>.
If(c, then, els) == [k |-> "if", c |-> c, then |-> then, els |-> els]
\* The parser stores a loop's body twice, in the kind and in the statement, and
\* every pass but the first reads the second.
Loop(kind, pat, e, body) ==
    [k |-> "loop", kind |-> kind, pat |-> pat, e |-> e, body |-> body]
While(c, body) == Loop("while", PWild, c, body)
For(pat, it, body) == Loop("for", pat, it, body)
Conc(body) == [k |-> "conc", body |-> body]
MatchS(e, arms) == [k |-> "match", e |-> e, arms |-> arms]

\* A block: its statements and its trailing expression, if any.
Block(ss, tr) == [k |-> "body", ss |-> ss, tr |-> tr]
Do(ss) == Block(ss, <<>>)

\* ---- declarations: enum DeclarationKind ------------------------------------
Param(x, ty) == [x |-> x, ty |-> ty]
Fn(name, generics, params, ret, body) ==
    [k |-> "fn", name |-> name, generics |-> generics, params |-> params, ret |-> ret,
     body |-> body]
StructD(name, generics, fields) ==
    [k |-> "struct", name |-> name, generics |-> generics, fields |-> fields]
\* A variant is its name and the types of its payload.
EnumD(name, generics, variants) ==
    [k |-> "enum", name |-> name, generics |-> generics, variants |-> variants]
Newtype(name, alias) == [k |-> "newtype", name |-> name, alias |-> alias]
Interface(name, generics, sigs) ==
    [k |-> "interface", name |-> name, generics |-> generics, sigs |-> sigs]
Impl(trait, type, methods) == [k |-> "impl", trait |-> trait, type |-> type, methods |-> methods]
Extension(type, methods) == [k |-> "extension", type |-> type, methods |-> methods]
Use(segments, wildcard) == [k |-> "use", segments |-> segments, wildcard |-> wildcard]
HasName(d) == d.k \in {"fn", "struct", "enum", "newtype", "interface"}

\* A file: the namespace it names, if any, and its declarations.
File(ns, decls) == [ns |-> ns, decls |-> decls]
================================================================================
