------------------------------- MODULE Emission -------------------------------
(***************************************************************************)
(* What src/src/codegen.rs emits for a function: its control flow, which   *)
(* slot each name denotes, and what a conc block captures.  Values and     *)
(* types are left out.  An emitter is                                      *)
(*    code   the instructions of the function being emitted                *)
(*    loc    the slot of each name in `locals`                             *)
(*    muts   `mutable_vars`: the names declared with `let mut`             *)
(*    next   the next slot or label                                        *)
(*    fns    the trampolines of the conc blocks emitted so far             *)
(*    drops  what liveness recorded                                        *)
(*    term   the last statement emitted was a terminator                   *)
(***************************************************************************)
EXTENDS Syntax

Label(n) == [op |-> "label", n |-> n]
Br(to) == [op |-> "br", to |-> to]
RetI(val) == [op |-> "ret", val |-> val]
Unreachable == [op |-> "unreachable"]
Alloca(n) == [op |-> "alloca", n |-> n]
Load(n) == [op |-> "use", n |-> n]
Free(n) == [op |-> "free", n |-> n]
Undefined(x) == [op |-> "undefined", x |-> x]
Op == [op |-> "op"]

Emit(em, is) == [em EXCEPT !.code = @ \o is]
Term(em, t) == [em EXCEPT !.term = t]
Scoped(em, inner) == [inner EXCEPT !.loc = em.loc]

\* A new slot for x.
Bind(em, x) ==
    [Emit(em, <<Alloca(em.next)>>) EXCEPT
        !.loc = [y \in DOMAIN @ \cup {x} |-> IF y = x THEN em.next ELSE @[y]],
        !.next = @ + 1]
UseName(em, x) ==
    Emit(em, IF x \in DOMAIN em.loc THEN <<Load(em.loc[x])>> ELSE <<Undefined(x)>>)

\* ---- what a conc block captures --------------------------------------------
\* Every identifier of a statement, in the kinds the visitor knows.
RECURSIVE ExprIds(_), StmtIds(_)
AllIds(es) == UNION {ExprIds(es[i]) : i \in DOMAIN es}
BodyIds(b) == UNION {StmtIds(b.ss[i]) : i \in DOMAIN b.ss}
ArmIds(arms) == UNION {AllIds(arms[i].guard \o <<arms[i].body>>) : i \in DOMAIN arms}
ExprIds(e) ==
    CASE e.k = "id" -> {e.x}
      [] e.k = "field" -> ExprIds(e.base)
      [] e.k = "call" -> ExprIds(e.f) \cup AllIds(e.kids)
      [] e.k = "match" -> ExprIds(e.e) \cup ArmIds(e.arms)
      [] e.k = "iflet" -> ExprIds(e.e) \cup BodyIds(e.then) \cup AllIds(e.then.tr)
                                       \cup AllIds(e.els)
      [] e.k = "block" -> BodyIds(e.b) \cup AllIds(e.b.tr)
      [] e.k = "array" -> {}
      [] OTHER -> AllIds(e.kids)
StmtIds(s) ==
    CASE s.k \in {"let", "expr"} -> ExprIds(s.e)
      [] s.k = "ret" -> AllIds(s.es)
      [] s.k = "match" -> ExprIds(s.e) \cup ArmIds(s.arms)
      [] s.k = "if" -> ExprIds(s.c) \cup BodyIds(s.then) \cup
                       (IF s.els = <<>> THEN {}
                        ELSE IF s.els[1].k # "body" THEN StmtIds(s.els[1]) ELSE BodyIds(s.els[1]))
      [] s.k \in {"loop", "conc"} -> BodyIds(s.body)

\* A name a `let` of the block has already bound is not captured.
CollectCapturedVars(b) ==
    LET visit(a, s) ==
          [cap |-> a.cap \cup (StmtIds(s) \ a.def),
           def |-> a.def \cup (IF s.k = "let" THEN {s.x} ELSE {})]
        body == Fold(visit, [cap |-> {}, def |-> {}], b.ss)
    IN  body.cap \cup (AllIds(b.tr) \ body.def)

\* ---- patterns ----------------------------------------------------------------
RECURSIVE BindPattern(_, _)
BindPattern(em, p) ==
    CASE p.k = "var" -> IF p.x \in DOMAIN em.loc THEN em ELSE Bind(em, p.x)
      [] p.k = "or" -> BindPattern(em, p.ps[1])
      [] OTHER -> Fold(BindPattern, em, p.ps)

\* A name in scope is compared with; a new one, or a deeper pattern, is not read.
EmitPatternTest(em, p) ==
    IF p.k = "var" /\ p.x \in DOMAIN em.loc THEN Emit(UseName(em, p.x), <<Op>>)
    ELSE Emit(em, <<Op>>)

\* ---- expressions -------------------------------------------------------------
\* An expression, a statement, or a block without its trailing expression.
RECURSIVE EmitNode(_, _)
EmitAll(em, xs) == Fold(EmitNode, em, xs)
CloseWith(em, to) == IF em.term THEN em ELSE Emit(em, <<Br({to})>>)

\* A match is void if the bodies of its arms are, which is taken to be: they are blocks
\* without a trailing expression.  Every arm ends in a branch to the merge label,
\* whether its body returned or not.
VoidArms(arms) ==
    \A i \in DOMAIN arms : arms[i].body.k = "block" /\ arms[i].body.b.tr = <<>>
ArmGuard(em, guard, guarded, following) ==
    IF guard = <<>> THEN em
    ELSE Emit(EmitAll(em, guard), <<Br({guarded, following}), Label(guarded)>>)
EmitArm(em, arm, merge) ==
    LET body == em.next   guarded == em.next + 1   following == em.next + 2
        test == Emit(EmitPatternTest([em EXCEPT !.next = @ + 3], arm.pat),
                     <<Br({body, following}), Label(body)>>)
        bound == ArmGuard(BindPattern(test, arm.pat), arm.guard, guarded, following)
    IN  Scoped(em, Emit(EmitNode(bound, arm.body), <<Op, Br({merge}), Label(following)>>))
EmitArms(em, arms, merge) ==
    Emit(Fold(LAMBDA a, arm : EmitArm(a, arm, merge), em, arms),
         IF VoidArms(arms) THEN <<Unreachable, Label(merge)>> ELSE <<Op, Br({merge}), Label(merge)>>)
\* After the value, the labels of the first arm and of the merge.  Without arms, the
\* first is nowhere: what follows is the fallback.
MatchOn(val, arms) ==
    LET first == IF arms = <<>> THEN val.next + 2 ELSE val.next
    IN  EmitArms(Emit([val EXCEPT !.next = @ + 3], <<Br({val.next}), Label(first)>>),
                 arms, val.next + 1)
EmitMatch(em, e, arms) == MatchOn(EmitNode(em, e), arms)

IfLetOn(val, e) ==
    LET then == val.next   els == val.next + 1   merge == val.next + 2
        bound == BindPattern(Emit([val EXCEPT !.next = @ + 3], <<Br({then, els}), Label(then)>>),
                             e.pat)
        close(body) == IF body.term THEN body ELSE Emit(EmitAll(body, e.then.tr), <<Br({merge})>>)
        other(end) == EmitAll(Emit(Scoped(val, end), <<Label(els)>>), e.els)
    IN  Emit(other(close(EmitNode(bound, e.then))), <<Br({merge}), Label(merge)>>)
EmitIfLet(em, e) == IfLetOn(EmitPatternTest(EmitNode(em, e.e), e.pat), e)

EmitExpr(em, e) ==
    CASE e.k \in {"lit", "str", "placeholder"} -> em
      [] e.k = "id" -> UseName(em, e.x)
      [] e.k = "block" -> Scoped(em, EmitAll(EmitNode(em, e.b), e.b.tr))
      [] e.k = "field" -> Emit(EmitNode(em, e.base), <<Op>>)
      [] e.k = "call" -> Emit(EmitAll(IF e.f.k = "field" THEN EmitNode(em, e.f.base) ELSE em,
                                      e.kids), <<Op>>)
      [] e.k = "iflet" -> EmitIfLet(em, e)
      [] OTHER -> Emit(EmitAll(em, e.kids), <<Op>>)

\* ---- statements --------------------------------------------------------------
EmitLet(em, s) ==
    Bind([EmitNode(em, s.e) EXCEPT !.muts = IF s.mut THEN @ \cup {s.x} ELSE @], s.x)

\* Mutant: an `if` without `else` leaves its else label open.
EmitElseOpen(em, els, merge) ==
    IF els = <<>> THEN em
    ELSE IF els[1].k = "body" THEN CloseWith(EmitNode(em, els[1]), merge) ELSE EmitNode(em, els[1])
\* An `if` after `else` emits no branch to the outer merge label.
EmitElse(em, els, merge) ==
    CASE els = <<>> -> CloseWith(em, merge)
      [] els # <<>> /\ els[1].k = "body" -> CloseWith(EmitNode(em, els[1]), merge)
      [] OTHER -> EmitNode(em, els[1])
EndIf(em, merge, bothEnd) ==
    Term(Emit(em, IF bothEnd THEN <<Label(merge), Unreachable>> ELSE <<Label(merge)>>), bothEnd)
IfBranches(then, els, label, merge) ==
    LET end(b) == EndIf(b, merge, then.term /\ b.term)
    IN  end(EmitElse(Term(Emit(CloseWith(then, merge), <<Label(label)>>), FALSE), els, merge))
IfOn(cond, s) ==
    LET then == cond.next   els == cond.next + 1   merge == cond.next + 2
        start == Emit([cond EXCEPT !.next = @ + 3], <<Br({then, els}), Label(then)>>)
    IN  IfBranches(EmitNode(start, s.then), s.els, els, merge)
EmitIf(em, s) == IfOn(EmitNode(em, s.c), s)

\* `for` binds its variable when that is a name, and no other part of its pattern.
LoopOn(iter, s) ==
    LET start == iter.next   body == iter.next + 1   end == iter.next + 2
        open == Emit([iter EXCEPT !.next = @ + 3], <<Br({start}), Label(start)>>)
        test == IF s.kind = "while" THEN EmitNode(open, s.e) ELSE Emit(open, <<Op>>)
        var(em) == IF s.kind = "for" /\ s.pat.k = "var" THEN Bind(em, s.pat.x) ELSE em
        turn == EmitNode(var(Emit(test, <<Br({body, end}), Label(body)>>)), s.body)
    IN  Term(Emit(CloseWith(turn, start), <<Label(end)>>), FALSE)
EmitLoop(em, s) == LoopOn(IF s.kind = "for" THEN EmitNode(em, s.e) ELSE em, s)

\* Mutant: only mutable names are captured.
CapturedMutable(em, body) == CollectCapturedVars(body) \cap em.muts
\* The body of a conc block becomes a function of its own, a trampoline.  What it
\* captures of the parent's names is put in a closure: a copy, or the address of
\* the slot for a name in `muts`.
Captured(em, body) == CollectCapturedVars(body) \cap DOMAIN em.loc
FillClosure(em, captured) == FoldSet(LAMBDA x, a : UseName(a, x), em, captured)
\* Mutant: the trampoline's slots are not allocated.
UnpackUnallocated(em, captured) ==
    FoldSet(LAMBDA x, a : [Bind(a, x) EXCEPT !.code = a.code], em, captured)
UnpackClosure(em, captured) == FoldSet(LAMBDA x, a : Bind(a, x), em, captured)
Apart(em) == [em EXCEPT !.code = <<>>, !.loc = <<>>, !.muts = {}]
Trampoline(start, body) == Emit(EmitNode(start, body), <<RetI(FALSE)>>)
Spawn(em, tramp, captured) ==
    Emit([tramp EXCEPT !.code = em.code, !.loc = em.loc, !.muts = em.muts,
                       !.fns = Append(@, [code |-> tramp.code, cap |-> captured,
                                          ptr |-> captured \cap em.muts])],
         <<Op>>)

\* With no capture the trampoline gets the names of the parent, slots and all.
EmitUncaptured(em, body) ==
    Spawn(em, Trampoline([Apart(em) EXCEPT !.loc = em.loc], body), {})
EmitClosure(em, body, captured) ==
    LET filled == FillClosure(em, captured)
    IN  Spawn(filled, Trampoline(UnpackClosure(Apart(filled), captured), body), captured)
EmitConc(em, body, captured) ==
    IF captured = {} THEN EmitUncaptured(em, body) ELSE EmitClosure(em, body, captured)

StatementKinds == {"ret", "let", "expr", "if", "loop", "conc", "match"}
EmitStmt(em, s) ==
    CASE s.k = "ret" -> Term(Emit(EmitAll(em, s.es), <<RetI(s.es # <<>>)>>), TRUE)
      [] s.k = "let" -> Term(EmitLet(em, s), FALSE)
      [] s.k = "expr" -> Term(EmitNode(em, s.e), FALSE)
      [] s.k = "if" -> EmitIf(em, s)
      [] s.k = "match" -> Term(EmitMatch(em, s.e, s.arms), FALSE)
      [] s.k = "loop" -> EmitLoop(em, s)
      [] s.k = "conc" -> Term(EmitConc(em, s.body, Captured(em, s.body)), FALSE)

\* Nothing follows a terminator; otherwise what dies with the block is freed, if
\* liveness marked it as allocated on the heap.
EmitSlabFree(em, x) == IF x \in DOMAIN em.loc THEN Emit(em, <<Free(em.loc[x])>>) ELSE em
EmitDrops(em, b) ==
    LET drops == UNION {r.drops : r \in {r \in Range(em.drops) : r.id = b}}
    IN  FoldSet(LAMBDA x, a : EmitSlabFree(a, x), em, {d.x : d \in {d \in drops : d.heap}})
EmitBlockStmts(em, b) ==
    LET run == Fold(LAMBDA a, s : IF a.term THEN a ELSE EmitNode(a, s), Term(em, FALSE), b.ss)
    IN  IF run.term THEN run ELSE EmitDrops(run, b)
EmitNode(em, x) ==
    CASE x.k = "body" -> EmitBlockStmts(em, x)
      [] x.k \in StatementKinds -> EmitStmt(em, x)
      [] OTHER -> EmitExpr(em, x)

\* ---- functions ---------------------------------------------------------------
\* `mutable_vars` is not cleared between functions.
EmitParams(em, f) ==
    Fold(LAMBDA a, p : Bind(a, p.x), [em EXCEPT !.code = <<>>, !.loc = <<>>], f.params)

\* The end of the body: its trailing expression, or a return if there is none at all.
EndBody(em, f) ==
    CASE em.term -> em
      [] ~em.term /\ f.body.tr # <<>> -> Emit(EmitAll(em, f.body.tr), <<RetI(TRUE)>>)
      [] ~em.term /\ f.body.tr = <<>> ->
             IF \E i \in DOMAIN em.code : em.code[i].op = "ret" THEN em
             ELSE Emit(em, <<RetI(f.ret # <<>>)>>)
EndCode(em, f) ==
    IF em.code # <<>> /\ Last(em.code).op = "label" THEN Emit(em, <<RetI(f.ret # <<>>)>>) ELSE em
EmitFunction(em, f) == EndCode(EndBody(EmitNode(EmitParams(em, f), f.body), f), f)

EndsWith(x, suffix) ==
    Len(x) >= Len(suffix) /\ SubSeq(x, Len(x) - Len(suffix) + 1, Len(x)) = suffix
\* Mutant: the last such function is called.
UserMainLast(fs) ==
    LET at == {i \in DOMAIN fs : EndsWith(fs[i].name, "__main")}
    IN  IF at = {} THEN <<>> ELSE <<fs[Max(at)].name>>
\* The function the emitted `main` calls: the first whose name ends so, if any.
UserMain(fs) ==
    LET at == {i \in DOMAIN fs : EndsWith(fs[i].name, "__main")}
    IN  IF at = {} THEN <<>> ELSE <<fs[Min(at)].name>>

\* The functions of a module, in order; then the trampolines; then `main`.
EmitFunctions(em, fs) ==
    LET add(a, b) == [em |-> b, fns |-> Append(a.fns, b.code)]
    IN  Fold(LAMBDA a, f : add(a, EmitFunction(a.em, f)), [em |-> em, fns |-> <<>>], fs)
LowerModule(decls, drops) ==
    LET start == [code |-> <<>>, loc |-> <<>>, muts |-> {}, next |-> 0, fns |-> <<>>,
                  drops |-> drops, term |-> FALSE]
        fs == SelectSeq(decls, LAMBDA d : d.k = "fn")
        all(a) == [fns |-> a.fns, concs |-> a.em.fns, entry |-> UserMain(fs)]
    IN  all(EmitFunctions(start, fs))
================================================================================
