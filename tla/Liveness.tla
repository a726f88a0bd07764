------------------------------- MODULE Liveness -------------------------------
(***************************************************************************)
(* The liveness analysis of src/src/liveness.rs: which `let` bindings a    *)
(* function consumes, and which are left to drop.  An analyzer is          *)
(*    stk    the stack of live sets, innermost last                        *)
(*    drops  the bindings recorded as dropped, by the block they belong to *)
(*    ok     FALSE once an error was returned: nothing runs after it (`?`) *)
(***************************************************************************)
EXTENDS Syntax

\* ---- live sets -----------------------------------------------------------
EmptySet == [b |-> <<>>, mut |-> {}, shared |-> {}]
InSet(s, x) == x \in DOMAIN s.b \cup s.mut \cup s.shared
Fresh(stk) == [stk |-> stk, drops |-> <<>>, ok |-> TRUE]
Fail(st) == [st EXCEPT !.ok = FALSE]

\* A `let` or parameter of a type `ref T` is shared, whether `mut` or not.
Kind(mut, tys) ==
    CASE tys # <<>> /\ tys[1].n = "Ref" -> "ref"
      [] mut -> "mut"
      [] OTHER -> "linear"
Insert(s, x, origin, kind) ==
    CASE kind = "ref" -> [s EXCEPT !.shared = @ \cup {x}]
      [] kind = "mut" -> [s EXCEPT !.mut = @ \cup {x}]
      [] OTHER ->
          [s EXCEPT !.b = [y \in DOMAIN @ \cup {x} |->
              IF y = x THEN [consumed |-> FALSE, origin |-> origin] ELSE @[y]]]

InsertBinding(st, x, origin, kind) ==
    IF InSet(Last(st.stk), x) THEN Fail(st)
    ELSE [st EXCEPT !.stk = Append(Front(@), Insert(Last(@), x, origin, kind))]

\* Only bindings are tracked: consuming a mutable or shared name does nothing.
Consume(st, i, x) ==
    IF x \in st.stk[i].mut \cup st.stk[i].shared THEN st
    ELSE IF st.stk[i].b[x].consumed THEN Fail(st)
    ELSE [st EXCEPT !.stk[i].b[x].consumed = TRUE]

Holders(stk, x) == {i \in DOMAIN stk : InSet(stk[i], x)}
ConsumeIdentifier(st, x) ==
    IF Holders(st.stk, x) = {} THEN Fail(st)
    ELSE Consume(st, Max(Holders(st.stk, x)), x)

Unconsumed(s) == {x \in DOMAIN s.b : ~s.b[x].consumed}
Push(st) == [st EXCEPT !.stk = Append(@, EmptySet)]
Pop(st) == [st EXCEPT !.stk = Front(@)]

\* What is recorded for a block: its unconsumed bindings, each with the flag
\* that makes the emitter free it.
RecordDrops(st, id, s) ==
    [st EXCEPT !.drops =
        Append(@, [id |-> id,
                   drops |-> {[x |-> x, heap |-> x \in s.mut] : x \in Unconsumed(s)}])]

\* ---- patterns ------------------------------------------------------------
RECURSIVE Binders(_)
Binders(p) == IF p.k = "var" THEN {p.x} ELSE UNION {Binders(p.ps[i]) : i \in DOMAIN p.ps}

\* A name bound outside makes the pattern a value pattern.
NewBinders(stk, p) == {x \in Binders(p) : Holders(Front(stk), x) = {}}
InsertPatternBindings(st, p) ==
    FoldSet(LAMBDA x, a : IF a.ok THEN InsertBinding(a, x, "match binding", "linear") ELSE a,
            st, NewBinders(st.stk, p))

\* ---- where branches meet -------------------------------------------------
Changed(base, after, i, x) ==
    IF x \in DOMAIN after[i].b THEN after[i].b[x].consumed ELSE base[i].b[x].consumed

EnsureBranchConsistency(base, a, b) ==
    /\ Len(base) = Len(a) /\ Len(base) = Len(b)
    /\ \A i \in DOMAIN base : \A x \in DOMAIN base[i].b :
          Changed(base, a, i, x) = Changed(base, b, i, x)

\* Mutant: only the depth of the stack is compared.
EnsureLoopDepth(base, after) == Len(base) = Len(after)
\* A parameter may be consumed in a loop ("it's a copy"), anything else may not.
EnsureLoopBodyConsistency(base, after) ==
    /\ Len(base) = Len(after)
    /\ \A i \in DOMAIN base : \A x \in DOMAIN base[i].b :
          \/ base[i].b[x].origin = "parameter"
          \/ base[i].b[x].consumed
          \/ ~Changed(base, after, i, x)
          \/ \E s \in Range(base) : x \in s.shared

\* Mutant: what the branches consumed is forgotten after them.
MergeNothing(st, merged) == st
MergeBranchResult(st, merged) ==
    IF Len(merged) # Len(st.stk) THEN st
    ELSE [st EXCEPT !.stk = [i \in DOMAIN @ |->
        [@[i] EXCEPT !.b = [x \in DOMAIN @ |->
            IF x \in DOMAIN merged[i].b
            THEN [@[x] EXCEPT !.consumed = merged[i].b[x].consumed] ELSE @[x]]]]]

\* ---- what a conc block captures -------------------------------------------
\* Walks with [free, bound]: a binding made anywhere in the walk stays bound,
\* and the kinds not named here are not looked into.
RECURSIVE FreeInExpr(_, _), FreeInStmt(_, _), FreeInBlock(_, _)
FreeInExpr(a, e) ==
    CASE e.k = "id" -> IF e.x \in a.bound THEN a ELSE [a EXCEPT !.free = @ \cup {e.x}]
      [] e.k = "bin" -> Fold(FreeInExpr, a, e.kids)
      [] e.k = "field" -> FreeInExpr(a, e.base)
      [] e.k = "call" -> Fold(FreeInExpr, FreeInExpr(a, e.f), e.kids)
      [] e.k = "match" -> Fold(LAMBDA c, arm : FreeInExpr(c, arm.body),
                                   FreeInExpr(a, e.e), e.arms)
      [] e.k = "block" -> FreeInBlock(a, e.b)
      [] OTHER -> a
FreeInStmt(a, s) ==
    CASE s.k = "let" -> LET c == FreeInExpr(a, s.e) IN [c EXCEPT !.bound = @ \cup {s.x}]
      [] s.k = "expr" -> FreeInExpr(a, s.e)
      [] s.k = "ret" -> Fold(FreeInExpr, a, s.es)
      [] s.k \in {"loop", "conc"} -> FreeInBlock(a, s.body)
      [] OTHER -> a
FreeInBlock(a, b) == Fold(FreeInExpr, Fold(FreeInStmt, a, b.ss), b.tr)

CollectFreeIdentifiers(stk, b) ==
    {x \in FreeInBlock([free |-> {}, bound |-> {}], b).free : Holders(stk, x) # {}}

\* ---- the analysis ----------------------------------------------------------
\* `how`: "analyze" and "consume" are what analyze_expression and
\* consume_identifiers_in_expression do with an expression; "run" is a statement.
RECURSIVE Walk(_, _, _)
WalkAll(st, xs, how) ==
    Fold(LAMBDA a, x : Then(a, LAMBDA b : Walk(b, x, how)), st, xs)

AnalyzeStatements(st, b) == WalkAll(WalkAll(Push(st), b.ss, "run"), b.tr, "analyze")
AnalyzeBlockNoDrops(st, b) == Pop(AnalyzeStatements(st, b))
AnalyzeBlock(st, b) ==
    LET dropped(a) == Pop(RecordDrops(a, b, Last(a.stk))) IN dropped(AnalyzeStatements(st, b))

\* A branch runs in an analyzer of its own, which starts from a copy of the stack.
RunBranchBlock(stk, b) == AnalyzeBlockNoDrops(Fresh(stk), b)
RunBranchStmt(stk, s) == Walk(Fresh(stk), s, "run")
RunBranchExpr(stk, e) == Walk(Fresh(stk), e, "analyze")
InArm(st, arm, how) ==
    Then(InsertPatternBindings(Push(st), arm.pat), LAMBDA bound :
        Pop(WalkAll(bound, Append(arm.guard, arm.body), how)))
RunBranchMatchArm(stk, arm) == InArm(Fresh(stk), arm, "analyze")

Join(st, branches) ==
    IF \E r \in Range(branches) : ~r.ok THEN Fail(st)
    ELSE IF branches = <<>> THEN st
    ELSE IF \E r \in Range(branches) :
               ~EnsureBranchConsistency(st.stk, branches[1].stk, r.stk) THEN Fail(st)
    ELSE MergeBranchResult(st, branches[1].stk)

\* An `else` is a block, an `if` statement or, of an `if let`, an expression.
RunElse(stk, els) ==
    CASE els = <<>> -> Fresh(stk)
      [] els # <<>> /\ els[1].k = "body" -> RunBranchBlock(stk, els[1])
      [] els # <<>> /\ els[1].k = "if" -> RunBranchStmt(stk, els[1])
      [] OTHER -> RunBranchExpr(stk, els[1])

WalkCallee(st, f, how) ==
    CASE f.k # "id" -> Walk(st, f, how)
      [] f.k = "id" /\ Holders(st.stk, f.x) # {} -> ConsumeIdentifier(st, f.x)
      [] OTHER -> st

\* The arms of a match expression run in the analyzer itself, each after the others.
WalkExpression(st, e, how) ==
    CASE e.k = "id" -> IF how = "consume" THEN ConsumeIdentifier(st, e.x) ELSE st
      [] e.k = "block" -> IF how = "consume" THEN AnalyzeBlockNoDrops(st, e.b)
                          ELSE AnalyzeBlock(st, e.b)
      [] e.k = "call" -> Then(WalkCallee(st, e.f, how), LAMBDA a : WalkAll(a, e.kids, how))
      [] e.k = "field" -> IF e.base.k = "id" THEN st ELSE Walk(st, e.base, how)
      [] e.k = "match" -> Fold(LAMBDA a, arm : Then(a, LAMBDA b : InArm(b, arm, how)),
                               Walk(st, e.e, how), e.arms)
      [] e.k = "iflet" -> Then(Walk(st, e.e, how), LAMBDA a :
             Join(a, <<RunBranchBlock(a.stk, e.then), RunElse(a.stk, e.els)>>))
      [] e.k = "array" -> st
      [] OTHER -> WalkAll(st, e.kids, how)

AnalyzeLet(st, s) ==
    Then(Walk(st, s.e, "consume"), LAMBDA a :
        InsertBinding(a, s.x, "let binding", Kind(s.mut, s.ty)))
AnalyzeIf(st, s) ==
    Then(Walk(st, s.c, "analyze"), LAMBDA a :
        Join(a, <<RunBranchBlock(a.stk, s.then), RunElse(a.stk, s.els)>>))
AnalyzeMatch(st, s) ==
    Then(Walk(st, s.e, "analyze"), LAMBDA a :
        Join(a, [i \in DOMAIN s.arms |-> RunBranchMatchArm(a.stk, s.arms[i])]))

\* The captures are consumed, with any error ignored; then the body is analyzed
\* alone, with the captures as shared names.
ConsumeCaptures(st, captures) ==
    LET take(x, a) == IF ConsumeIdentifier(a, x).ok THEN ConsumeIdentifier(a, x) ELSE a
    IN  FoldSet(take, st, captures)
AnalyzeCaptured(st, body, captures) ==
    IF AnalyzeBlockNoDrops(Fresh(<<[EmptySet EXCEPT !.shared = captures]>>), body).ok
    THEN ConsumeCaptures(st, captures) ELSE Fail(st)
AnalyzeConc(st, body) == AnalyzeCaptured(st, body, CollectFreeIdentifiers(st.stk, body))

\* After a loop: `before` is the stack its body is compared with.
AfterLoop(st, before, body) ==
    IF ~body.ok \/ ~EnsureLoopBodyConsistency(before, body.stk) THEN Fail(st)
    ELSE MergeBranchResult(st, body.stk)
\* The body of a `for` is analyzed twice: in place, and from the stack before
\* the iterator with the loop variable in a scope of its own.
ForBody(st, s) ==
    LET var(a) == IF s.pat.k = "var" THEN InsertBinding(a, s.pat.x, "for loop", "linear") ELSE a
    IN  Pop(AnalyzeBlockNoDrops(var(Push(st)), s.body))
AnalyzeFor(st, s) ==
    Then(Walk(st, s.e, "analyze"), LAMBDA it :
        Then(ForBody(it, s), LAMBDA once : AfterLoop(once, st.stk, ForBody(Fresh(st.stk), s))))
AnalyzeLoop(st, s) ==
    Then(IF s.kind = "while" THEN Walk(st, s.e, "analyze") ELSE st, LAMBDA a :
        AfterLoop(a, st.stk, RunBranchBlock(st.stk, s.body)))

AnalyzeStatement(st, s) ==
    CASE s.k = "let" -> AnalyzeLet(st, s)
      [] s.k = "expr" -> Walk(st, s.e, "consume")
      [] s.k = "ret" -> WalkAll(st, s.es, "consume")
      [] s.k = "if" -> AnalyzeIf(st, s)
      [] s.k = "conc" -> AnalyzeConc(st, s.body)
      [] s.k = "loop" -> IF s.kind = "for" THEN AnalyzeFor(st, s) ELSE AnalyzeLoop(st, s)
      [] s.k = "match" -> AnalyzeMatch(st, s)
Walk(st, x, how) == IF how = "run" THEN AnalyzeStatement(st, x) ELSE WalkExpression(st, x, how)

\* A function: its parameters are in a live set of their own, around the body's.
\* A parameter given twice is an error, but the body is analyzed all the same.
BindParameters(params) ==
    Fold(LAMBDA a, p : Then(a, LAMBDA b :
             InsertBinding(b, p.x, "parameter", Kind(FALSE, <<p.ty>>))), Push(Fresh(<<>>)), params)
AnalyzeFunction(f) ==
    LET params == BindParameters(f.params)
        done(a) == [RecordDrops(a, f, Last(a.stk)) EXCEPT !.ok = @ /\ params.ok]
    IN  done(AnalyzeBlock([params EXCEPT !.ok = TRUE], f.body))
================================================================================
