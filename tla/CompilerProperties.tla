-------------------------- MODULE CompilerProperties --------------------------
(***************************************************************************)
(* What the compiler's passes promise together.  A property that speaks of *)
(* the source reads the parsed files, which ParsesBack relates to their    *)
(* tokens.                                                                 *)
(***************************************************************************)
EXTENDS Printer

Reached(phases) == phase \in phases
Checked == Reached({"checked", "analyzed", "built"})
Built == phase = "built"

\* ---- trees ---------------------------------------------------------------------
ArmExprs(arms) == FlattenSeq(Mapped(arms, LAMBDA a : Append(a.guard, a.body)))
SubExprs(e) ==
    CASE e.k = "field" -> <<e.base>>
      [] e.k = "call" -> <<e.f>> \o e.kids
      [] e.k \in {"match", "iflet"} -> <<e.e>> \o (IF e.k = "match" THEN ArmExprs(e.arms) ELSE e.els)
      [] e.k \in {"id", "block"} -> <<>>
      [] OTHER -> e.kids
SubBlocks(e) == CASE e.k = "block" -> <<e.b>> [] e.k = "iflet" -> <<e.then>> [] OTHER -> <<>>
ExprsOf(s) ==
    CASE s.k \in {"let", "expr", "loop"} -> <<s.e>>
      [] s.k = "match" -> <<s.e>> \o ArmExprs(s.arms)
      [] s.k = "ret" -> s.es
      [] s.k = "if" -> <<s.c>>
      [] s.k = "conc" -> <<>>
\* The blocks and statements directly in a statement.
Parts(s) ==
    CASE s.k = "if" -> <<s.then>> \o s.els
      [] s.k \in {"loop", "conc"} -> <<s.body>>
      [] OTHER -> <<>>

\* Every expression, and every statement, below one.
RECURSIVE AllExprs(_), AllStmts(_), Inside(_)
AllExprs(e) ==
    {e} \cup UNION {AllExprs(x) : x \in Range(SubExprs(e))}
        \cup UNION {Inside(b).es : b \in Range(SubBlocks(e))}
AllStmts(e) ==
    UNION {AllStmts(x) : x \in Range(SubExprs(e))} \cup UNION {Inside(b).ss : b \in Range(SubBlocks(e))}
\* x: a block or a statement.
Inside(x) ==
    LET es == IF x.k = "body" THEN x.tr ELSE ExprsOf(x)
        parts == IF x.k = "body" THEN x.ss ELSE Parts(x)
        below == {Inside(p) : p \in Range(parts)}
    IN  [es |-> UNION ({AllExprs(e) : e \in Range(es)} \cup {r.es : r \in below}),
         ss |-> UNION ({AllStmts(e) : e \in Range(es)} \cup {r.ss : r \in below})
                  \cup (IF x.k = "body" THEN {} ELSE {x})]

FunctionsIn(ds) ==
    UNION {CASE d.k = "fn" -> {d} [] d.k \in {"impl", "extension"} -> Range(d.methods)
             [] OTHER -> {} : d \in Range(ds)}
Source == UNION {Range(f.decls) : f \in Range(files)}
SourceFns == FunctionsIn(SetToSeq(Source))
SourceExprs == UNION {Inside(f.body).es : f \in SourceFns}
SourceStmts == UNION {Inside(f.body).ss : f \in SourceFns}
Holed(e) == e.k = "str" /\ Len(e.parts) > 1

\* ---- the parser ----------------------------------------------------------------
Kinds(ts) == {ts[i].t : i \in DOMAIN ts}
\* A bitwise operator cannot stand in the right operand of an equality.
Refusable(ts) ==
    \/ Kinds(ts) \cap {"==", "!="} # {} /\ Kinds(ts) \cap {"&", "|", "^"} # {}
    \/ Peek(ts) = "namespace" /\ Tail(ts)[1] # Name("main")
\* A file the parser accepts, printed with the fewest parentheses, is that file: the
\* parser groups every operator as its precedence says.  It accepts every file
\* printed, except one with a bitwise operator in an equality's right operand, or
\* another namespace than `main` (parse_module and all it calls).
ParsesBack ==
    phase # "source" =>
        IF files = <<>> THEN \E ts \in Range(src.files) : Refusable(ts)
        ELSE \A i \in DOMAIN files : PrintFile(files[i]) = src.files[i]

\* ---- the project ---------------------------------------------------------------
\* No project that uses another file's names gets past the driver: the only
\* namespace is `main`, and importing from it is a cycle (compute_transitive).
OneNamespace == Reached({"assembled"}) => \A d \in Source : d.k # "use"

\* The names free in a tree, given those bound around it.
RECURSIVE FreeE(_, _), FreeS(_, _), FreeB(_, _)
FreeEs(es, bound) == UNION {FreeE(es[i], bound) : i \in DOMAIN es}
FreeArms(arms, bound) ==
    UNION {FreeEs(Append(arms[i].guard, arms[i].body), bound \cup Binders(arms[i].pat)) :
               i \in DOMAIN arms}
FreeE(e, bound) ==
    CASE e.k = "id" -> {e.x} \ bound
      [] e.k = "match" -> FreeE(e.e, bound) \cup FreeArms(e.arms, bound)
      [] e.k = "iflet" -> FreeE(e.e, bound) \cup FreeB(e.then, bound \cup Binders(e.pat))
                            \cup FreeEs(e.els, bound)
      [] e.k = "block" -> FreeB(e.b, bound)
      [] e.k = "struct" -> {e.name} \cup FreeEs(e.kids, bound)
      [] OTHER -> FreeEs(SubExprs(e), bound)
FreeS(s, bound) ==
    CASE s.k = "match" -> FreeE(s.e, bound) \cup FreeArms(s.arms, bound)
      [] s.k = "loop" -> FreeE(s.e, bound) \cup FreeB(s.body, bound \cup Binders(s.pat))
      [] OTHER -> FreeEs(ExprsOf(s), bound) \cup
                  UNION {IF p.k = "body" THEN FreeB(p, bound) ELSE FreeS(p, bound) :
                             p \in Range(Parts(s))}
FreeB(b, bound) ==
    LET one(a, s) == [free |-> a.free \cup FreeS(s, a.bound),
                      bound |-> IF s.k = "let" THEN a.bound \cup {s.x} ELSE a.bound]
        all == Fold(one, [free |-> {}, bound |-> bound], b.ss)
    IN  all.free \cup FreeEs(b.tr, all.bound)
FreeIn(fs) == UNION {FreeB(f.body, {p.x : p \in Range(f.params)}) : f \in fs} \ InternalNames
BoundIn(ss) ==
    UNION {CASE s.k = "let" -> {s.x} [] s.k = "loop" -> Binders(s.pat) [] OTHER -> {} : s \in ss}
PatternsOf(e) == CASE e.k = "match" -> {a.pat : a \in Range(e.arms)} [] e.k = "iflet" -> {e.pat}
                   [] OTHER -> {}
LocalsOf(fs) ==
    UNION {{p.x : p \in Range(f.params)} \cup BoundIn(Inside(f.body).ss) \cup
           UNION {Binders(p) : p \in UNION {PatternsOf(e) :
                                   e \in Inside(f.body).es \cup Inside(f.body).ss}} : f \in fs}
TopNames == {d.name : d \in {d \in Source : HasName(d)}}
\* When no local has the name of a declaration and no string has holes, renaming
\* gives the free names of the bodies, and only those, their mangled names, and
\* desugaring leaves no name without its binder (rename_expression,
\* desugar_expression).
NamesKeepTheirMeaning ==
    (Reached({"assembled"}) /\ LocalsOf(SourceFns) \cap TopNames = {}
        /\ \A e \in SourceExprs : ~Holed(e)) =>
        FreeIn(FunctionsIn(decls)) =
            {IF x \in TopNames THEN Mangle("main", x) ELSE x : x \in FreeIn(SourceFns)}

MadeUp(x) == Len(x) > 4 /\ SubSeq(x, 1, 4) = "__ty"
MadeUpBinders(f) ==
    LET in == Inside(f.body)
    IN  [lets |-> {s \in in.ss : s.k = "let" /\ MadeUp(s.x)},
         pats |-> {p \in UNION {PatternsOf(e) : e \in in.es \cup in.ss} :
                       \E x \in Binders(p) : MadeUp(x)}]
NamesBound(f) == {s.x : s \in MadeUpBinders(f).lets} \cup UNION {Binders(p) : p \in MadeUpBinders(f).pats}
\* A name desugaring makes up for a `?` or for the buffer of a string is bound once
\* in the whole project, however these are nested (next_tmp_name).
MadeUpNamesOnce ==
    Reached({"assembled"}) =>
        \A f \in FunctionsIn(decls) :
            /\ Cardinality(NamesBound(f)) = Cardinality(MadeUpBinders(f).lets) +
                                            Cardinality(MadeUpBinders(f).pats)
            /\ \A g \in FunctionsIn(decls) \ {f} : NamesBound(f) \cap NamesBound(g) = {}

\* ---- names and types -------------------------------------------------------------
Newtypes == {d \in Source : d.k = "newtype"}
RECURSIVE Mentioned(_)
Mentioned(ty) == {ty.n} \cup UNION {Mentioned(ty.args[i]) : i \in DOMAIN ty.args}
RECURSIVE Within(_)
Within(names) ==
    LET more == names \cup UNION {Mentioned(d.alias) : d \in {d \in Newtypes : d.name \in names}}
    IN  IF more = names THEN names ELSE Within(more)
Cyclic == \E d \in Newtypes : d.name \in Within(Mentioned(d.alias))
\* Name resolution never ends on a newtype that stands for itself, through any
\* number of others or as an argument of its own alias, and only then (resolve_type).
LoopsOnlyOnCycles ==
    /\ phase = "loops" => Cyclic
    /\ Reached({"resolved"}) => ~Cyclic

Fits(narrow, wide) == narrow = wide \/ CanWidenTo(narrow, wide)
SourceNamed(x) == {f \in SourceFns : f.name = x}
\* Where a value is given to an annotated `let` or returned, the annotation must be
\* the same or narrower than a literal's type; where it is an argument, the
\* parameter's must be the same or wider.  (The comment at
\* src/src/type_inference.rs:1250-1253 wants the second everywhere.)
NumbersConvertOneWay ==
    Checked =>
        /\ \A s \in SourceStmts :
              (s.k = "let" /\ s.ty # <<>> /\ s.e.k = "lit") => Fits(s.ty[1].n, s.e.ty)
        /\ \A f \in SourceFns : \A s \in Inside(f.body).ss :
              (s.k = "ret" /\ s.es # <<>> /\ f.ret # <<>>) =>
                  (s.es[1].k = "lit" => Fits(f.ret[1].n, s.es[1].ty))
        /\ \A e \in SourceExprs : e.k = "call" /\ e.f.k = "id" =>
              \A f \in SourceNamed(e.f.x) : \A i \in DOMAIN e.kids :
                  (e.kids[i].k = "lit" /\ f.generics = <<>>) =>
                      Fits(e.kids[i].ty, f.params[i].ty.n)

Sent(f, x) ==
    {e.kids[1].ty : e \in {e \in Inside(f.body).es : e.k = "call" /\ e.f.k = "field"
        /\ e.f.base = Id(x) /\ e.f.name = "send" /\ e.kids[1].k = "lit"}}
SharedChannels(f) ==
    {s.x : s \in {s \in Inside(f.body).ss : s.k = "let" /\ s.mut /\ s.e = Call(Id("chan"), <<>>)}}
\* A channel bound by `let mut` carries values of one type, or numbers of one chain.
\* (Bound by `let` its element type is generalized, and it carries anything.)
ChannelsCarryOneType ==
    Checked =>
        \A f \in SourceFns : \A x \in SharedChannels(f) :
            \A t, u \in Sent(f, x) : Fits(t, u) \/ Fits(u, t)

\* A string with a hole is never compiled: the buffer it is built in is not a name
\* the resolver knows, and where the resolver does not look the buffer, which is not
\* `mut`, is consumed twice.  src/llm/spec.md:150 promises such strings.
InterpolationNeverBuilds == Built => \A e \in SourceExprs : ~Holed(e)

\* ---- ownership -------------------------------------------------------------------
\* What the analysis does not count: what a loop or a conc block takes.
TakesApart(f) ==
    \E s \in Inside(f.body).ss : s.k = "conc" \/ (s.k = "loop" /\
        {p.x : p \in Range(f.params)} \cap BodyIds(s.body) # {})
Plain(f) == ~TakesApart(f)
\* In a function that compiles, no path consumes a binding twice; conc blocks, and
\* loops that use a parameter, are left out (consume_identifier and the branches'
\* consistency checks).
MovedOnce ==
    Built => \A f \in Range(Functions) : Plain(f) => \A s \in Executions(f) : s.twice = {}
NoMatchExpr(f) == \A e \in Inside(f.body).es : e.k # "match"
\* On every path that falls off its end, a plain function has left exactly the
\* bindings recorded to drop with its body (record_drops).  Match expressions are
\* left out: what one arm moves counts as moved by the others.
DropsWhatIsLeft ==
    Built => \A i \in DOMAIN Functions : Plain(Functions[i]) /\ NoMatchExpr(Functions[i]) =>
        \A s \in {s \in Executions(Functions[i]) : ~s.done} :
            {d.x : d \in live[i].drops[Len(live[i].drops) - 1].drops} =
            {x \in DOMAIN s.env[2] : s.env[2][x] = "live"}

\* ---- emitted code ------------------------------------------------------------------
Terminates(i) == i.op \in {"br", "ret", "unreachable"}
Closed(code) ==
    /\ code # <<>> => Terminates(Last(code))
    /\ \A i \in 2..Len(code) : code[i].op = "label" => Terminates(code[i - 1])
ElseIf(f) ==
    \E s \in Inside(f.body).ss : s.k = "if" /\ s.els # <<>> /\ s.els[1].k # "body"
Returns(f) == \E s \in Inside(f.body).ss : s.k = "ret"
EndsInReturn(f) == f.body.ss # <<>> /\ Last(f.body.ss).k = "ret"
\* In the code of a function without `else if`, which returns at its end or nowhere,
\* every block ends in a terminator and control never falls into a label (emit_if,
\* emit_loop, emit_match_expression).  The others' last block may be left open.
BlocksTerminate ==
    Built => \A i \in DOMAIN Functions :
        LET f == Functions[i]
        IN  (~ElseIf(f) /\ (Returns(f) => EndsInReturn(f))) => Closed(out.fns[i])

Codes == Range(out.fns) \cup {c.code : c \in Range(out.concs)}
Successors(code, i) ==
    IF code[i].op = "br" THEN {j \in DOMAIN code : code[j].op = "label" /\ code[j].n \in code[i].to}
    ELSE IF Terminates(code[i]) \/ i = Len(code) THEN {} ELSE {i + 1}
RECURSIVE Reach(_, _, _)
\* What is reached from R without executing the alloca of slot n.
Reach(code, n, R) ==
    LET more == R \cup UNION {Successors(code, i) : i \in {j \in R : code[j] # Alloca(n)}}
    IN  IF more = R THEN R ELSE Reach(code, n, more)
Dominated(code) ==
    \A i \in DOMAIN code : code[i].op = "use" => i \notin Reach(code, code[i].n, {1})
\* The names bound in f, one for each time they are.
RECURSIVE BindsE(_), BindsX(_)
BindsArms(arms) ==
    FlattenSeq(Mapped(arms, LAMBDA a : SetToSeq(Binders(a.pat)) \o BindsE(a.body)))
BindsE(e) ==
    CASE e.k = "match" -> BindsE(e.e) \o BindsArms(e.arms)
      [] e.k = "iflet" -> SetToSeq(Binders(e.pat)) \o BindsX(e.then)
                            \o FlattenSeq(Mapped(e.els, BindsE))
      [] e.k = "block" -> BindsX(e.b)
      [] OTHER -> FlattenSeq(Mapped(SubExprs(e), BindsE))
BindsX(x) ==
    CASE x.k = "body" -> FlattenSeq(Mapped(x.ss, BindsX)) \o FlattenSeq(Mapped(x.tr, BindsE))
      [] x.k = "match" -> BindsE(x.e) \o BindsArms(x.arms)
      [] OTHER -> (CASE x.k = "let" -> <<x.x>> [] x.k = "loop" -> SetToSeq(Binders(x.pat))
                     [] OTHER -> <<>>)
                  \o FlattenSeq(Mapped(ExprsOf(x), BindsE)) \o FlattenSeq(Mapped(Parts(x), BindsX))
Shadows(f) ==
    LET all == BindsX(f.body) \o [i \in DOMAIN f.params |-> f.params[i].x]
    IN  Cardinality(Range(all)) # Len(all)
CapturesAll(f) ==
    \A s \in Inside(f.body).ss : s.k = "conc" =>
        FreeB(s.body, {}) \cap LocalsOf({f}) \subseteq CollectCapturedVars(s.body)
\* Where no function binds a name twice, and every conc block's names are captured,
\* every read of a slot comes after the slot's allocation on every path, in functions
\* and in trampolines alike (emit_let, bind_pattern_value, emit_stmt).
SlotsDominate ==
    (Built /\ \A f \in Range(Functions) : ~Shadows(f) /\ CapturesAll(f)) =>
        \A c \in Codes : Dominated(c)
\* The emitter never reads a name that has no slot: each use the resolver or the
\* checker accepted is of a local, and a conc block's were captured
\* (collect_captured_vars).
NamesHaveSlots ==
    Built => \A c \in Codes : \A i \in DOMAIN c : c[i].op # "undefined"

\* The emitted `main` calls the project's function `main`, unless a function or a
\* method before it has a name that ends like its mangled one (lower_module).
EndsLikeMain(d) ==
    \/ d.k = "fn" /\ EndsWith(Mangle("main", d.name), "__main")
    \/ d.k \in {"impl", "extension"} /\ \E m \in Range(d.methods) : EndsWith("__" \o m.name, "__main")
EntryIsMain ==
    Built => LET ds == FlattenSeq(Mapped(files, LAMBDA f : f.decls))
                 ends == {i \in DOMAIN ds : EndsLikeMain(ds[i])}
             IN  IF ends = {} THEN out.entry = <<>>
                 ELSE ds[Min(ends)].k = "fn" /\ ds[Min(ends)].name = "main" =>
                          out.entry = <<"main__main">>
================================================================================
