------------------------------- MODULE Ownership -------------------------------
(***************************************************************************)
(* What the liveness analysis promises, stated without it: the executions  *)
(* of a function, as sets of states.  A state is                           *)
(*    env    the scopes, innermost last: each name is "live", "moved", or  *)
(*           "free" (a mutable or shared name, which is not tracked)        *)
(*    twice  the names moved when they were moved already                  *)
(*    done   the function has returned                                     *)
(* A branch is either of its arms and a loop runs zero, one or two times:   *)
(* a third time moves nothing that the second did not.                     *)
(***************************************************************************)
EXTENDS Emission, Liveness

Has(s, x) == \E i \in DOMAIN s.env : x \in DOMAIN s.env[i]
Where(s, x) == Max({i \in DOMAIN s.env : x \in DOMAIN s.env[i]})
StateOf(s, x) == s.env[Where(s, x)][x]
Tracked(mut, tys) == IF Kind(mut, tys) = "linear" THEN "live" ELSE "free"

Step(S, F(_)) == {IF s.done THEN s ELSE F(s) : s \in S}
Move(s, x) ==
    IF ~Has(s, x) \/ StateOf(s, x) = "free" THEN s
    ELSE IF StateOf(s, x) = "moved" THEN [s EXCEPT !.twice = @ \cup {x}]
    ELSE [s EXCEPT !.env[Where(s, x)][x] = "moved"]
Introduce(s, xs, st) ==
    [s EXCEPT !.env = Append(Front(@),
        [y \in DOMAIN Last(@) \cup xs |-> IF y \in xs THEN st ELSE Last(@)[y]])]
Enter(S) == {[s EXCEPT !.env = Append(@, <<>>)] : s \in S}
Leave(S) == {[s EXCEPT !.env = Front(@)] : s \in S}

RECURSIVE NamesOf(_)
NamesOf(p) == IF p.k = "var" THEN {p.x} ELSE UNION {NamesOf(p.ps[i]) : i \in DOMAIN p.ps}
Matched(S, p) == Step(S, LAMBDA s : Introduce(s, {x \in NamesOf(p) : ~Has(s, x)}, "live"))

RECURSIVE Eval(_, _, _), Exec(_, _), ExecBody(_, _)
EvalAll(S, es, take) == Fold(LAMBDA T, e : Eval(T, e, take), S, es)
ExecBlock(S, b) == Leave(ExecBody(Enter(S), b))

\* `take`: the names of e are moved, but for the receiver of a field.
Eval(S, e, take) ==
    CASE e.k = "id" -> IF take THEN Step(S, LAMBDA s : Move(s, e.x)) ELSE S
      [] e.k = "block" -> ExecBlock(S, e.b)
      [] e.k = "call" -> EvalAll(IF e.f.k = "id" THEN Step(S, LAMBDA s : Move(s, e.f.x))
                                 ELSE Eval(S, e.f, take), e.kids, take)
      [] e.k = "field" -> IF e.base.k = "id" THEN S ELSE Eval(S, e.base, take)
      [] e.k = "match" ->
           LET T == Eval(S, e.e, take)
               arm(a) == Leave(EvalAll(Matched(Enter(T), a.pat), a.guard \o <<a.body>>, take))
           IN  UNION {arm(e.arms[i]) : i \in DOMAIN e.arms}
      [] e.k = "iflet" -> LET T == Eval(S, e.e, take)
                          IN  ExecBlock(T, e.then) \cup EvalAll(T, e.els, FALSE)
      [] OTHER -> EvalAll(S, e.kids, take)

\* The coroutine of a conc block owns what it captures.
Spawned(s, b) ==
    LET cap == {x \in CollectCapturedVars(b) : Has(s, x)}
        own == [s EXCEPT !.env = <<[x \in cap |-> IF StateOf(s, x) = "free" THEN "free"
                                                  ELSE "live"]>>]
        run == ExecBlock({own}, b)
        after == FoldSet(LAMBDA x, t : Move(t, x), s, cap)
    IN  [after EXCEPT !.twice = @ \cup UNION {r.twice : r \in run}]

Exec(S, st) ==
    CASE st.k = "let" -> Step(Eval(S, st.e, TRUE),
                              LAMBDA s : Introduce(s, {st.x}, Tracked(st.mut, st.ty)))
      [] st.k = "expr" -> Eval(S, st.e, TRUE)
      [] st.k = "ret" -> Step(EvalAll(S, st.es, TRUE), LAMBDA s : [s EXCEPT !.done = TRUE])
      [] st.k = "if" ->
           LET T == Eval(S, st.c, FALSE)
           IN  ExecBlock(T, st.then) \cup
               (IF st.els = <<>> THEN T
                ELSE IF st.els[1].k # "body" THEN Exec(T, st.els[1]) ELSE ExecBlock(T, st.els[1]))
      [] st.k = "match" ->
           LET T == Eval(S, st.e, FALSE)
               arm(a) == Leave(EvalAll(Matched(Enter(T), a.pat), a.guard \o <<a.body>>, FALSE))
           IN  UNION {arm(st.arms[i]) : i \in DOMAIN st.arms}
      [] st.k = "loop" ->
           LET T == Eval(S, st.e, FALSE)
               var(s) == IF st.pat.k = "var" THEN Introduce(s, {st.pat.x}, "live") ELSE s
               body(U) == Leave(ExecBlock(Step(Enter(U), var), st.body))
               turn(U) == IF st.kind = "while" THEN Eval(body(U), st.e, FALSE) ELSE body(U)
           IN  turn(turn(T)) \cup turn(T) \cup T
      [] st.k = "conc" -> Step(S, LAMBDA s : Spawned(s, st.body))
ExecBody(S, b) == EvalAll(Fold(Exec, S, b.ss), b.tr, FALSE)

\* The states at the end of f, with the scope of its parameters and of its body.
Executions(f) ==
    LET start == [env |-> <<[x \in {f.params[i].x : i \in DOMAIN f.params} |->
                               Tracked(FALSE, <<f.params[Max({i \in DOMAIN f.params :
                                                              f.params[i].x = x})].ty>>)],
                            <<>>>>,
                  twice |-> {}, done |-> FALSE]
    IN  ExecBody({start}, f.body)
================================================================================
