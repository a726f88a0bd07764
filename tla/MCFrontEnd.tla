------------------------------ MODULE MCFrontEnd ------------------------------
EXTENDS CompilerProperties

\* ---- building blocks -------------------------------------------------------------
Bool == Ty("Bool", <<>>)
X == Id("x")
Y == Id("y")
P == Id("p")
True == Lit("Bool")
CallOf(f, e) == Call(Id(f), <<e>>)
LetX(e) == Let(FALSE, "x", <<>>, e)
Text1 == <<TextPart, HolePart(<<Name("t")>>)>>
Main == File(<<"main">>, <<>>)
FileOf(ds) == [Main EXCEPT !.decls = ds]
One(ds) == <<FileOf(ds)>>
Plain0(name, ss) == Fn(name, <<>>, <<>>, <<>>, Do(ss))
G == Fn("g", <<>>, <<Param("b", Bool)>>, <<Bool>>, Do(<<Ret(<<Id("b")>>)>>))

\* ---- control flow and ownership: bodies of f(p: Bool) -------------------------------
Simple ==
    {LetX(True), Let(TRUE, "x", <<>>, True), Let(FALSE, "y", <<>>, X), ExprS(X), ExprS(P), Ret(<<X>>),
     ExprS(CallOf("g", X)), ExprS(Bin("==", P, X)), ExprS(Bin("=", X, P)), ExprS(BlockE(Do(<<ExprS(X)>>))),
     ExprS(CallOf("g", CallOf("g", P)))}
Small == {ExprS(X), Ret(<<X>>), LetX(True), ExprS(P), Ret(<<True>>)}
Bodies(S) == {Do(<<s>>) : s \in S} \cup {Do(<<>>)}
Armed(b) ==
    {<<Arm(PVar("y"), <<>>, BlockE(b)), Arm(PVar("x"), <<X>>, BlockE(c))>> : c \in Bodies({ExprS(X)})}
Compound ==
    {If(P, a, <<>>) : a \in Bodies(Small)} \cup {If(P, a, <<b>>) : a, b \in Bodies(Small)}
    \cup {If(P, Do(<<>>), <<If(P, a, <<b>>)>>) : a \in Bodies(Small), b \in Bodies({Ret(<<X>>), ExprS(X)})}
    \cup {While(P, a) : a \in Bodies(Small)}
    \cup {For(PVar("y"), Id("as"), a) : a \in Bodies(Small \cup {ExprS(Y)})}
    \cup {Conc(a) : a \in Bodies(Small)} \cup {Conc(Do(<<a, ExprS(X)>>)) : a \in Small}
    \cup {Conc(Do(<<If(P, a, <<>>)>>)) : a \in Bodies(Small)}
    \cup {Conc(Do(<<While(P, Do(<<>>))>>)), Conc(Do(<<ExprS(Un("!", X))>>)),
          Conc(Do(<<ExprS(Array(<<X>>))>>))}
    \cup {MatchS(P, arms) : arms \in UNION {Armed(b) : b \in Bodies({ExprS(X), Ret(<<X>>)})}}
    \cup {Let(FALSE, "z", <<>>, MatchE(True, arms)) :
             arms \in UNION {Armed(b) : b \in Bodies({ExprS(X), Ret(<<X>>)})}}
    \cup {ExprS(IfLet(PVar("y"), True, a, e)) :
             a \in Bodies(Small \cup {ExprS(Y)}), e \in {<<>>, <<BlockE(Do(<<ExprS(X)>>))>>}}
Prefix == {LetX(True), Let(TRUE, "x", <<>>, True),
           Let(FALSE, "x", <<Ty("Ref", <<Ty("Chan", <<Bool>>)>>)>>, Call(Id("chan"), <<>>))}
Suffix == {<<>>, <<ExprS(X)>>, <<Ret(<<X>>)>>, <<Conc(Do(<<ExprS(X)>>))>>, <<ExprS(P)>>}
F(ret, ss) ==
    Fn("f", <<>>, <<Param("p", Bool), Param("as", Ty("Array", <<Bool>>))>>, ret, Do(ss))
Flows ==
    {One(<<F(<<Bool>>, <<a, b>> \o c), G>>) : a \in Prefix, b \in Simple \cup Compound, c \in Suffix}

\* ---- expressions: every operator under every other -----------------------------------
Operators == UNION Range(Levels) \cup {"=", "+="}
A == Id("a")
B == Id("b")
C == Id("c")
Nested ==
    {Bin(o, Bin(q, A, B), C) : o, q \in Operators} \cup {Bin(o, A, Bin(q, B, C)) : o, q \in Operators}
    \cup {Bin(o, Un("-", A), Try(B)) : o \in Operators} \cup {Un("-", Bin(o, A, B)) : o \in Operators}
    \cup {Try(Bin(o, A, B)) : o \in Operators} \cup {Field(Bin(o, A, B), "n") : o \in Operators}
    \cup {Call(Id("g"), <<Bin(o, A, B), C>>) : o \in Operators}
    \cup {Index(A, Bin(o, B, C)) : o \in Operators}
    \cup {Field(Try(A), "n"), Try(Try(A)), Un("!", Un("-", Try(A))), Index(Index(A, B), C),
          Call(Field(Call(A, <<>>), "m"), <<B>>), Array(<<A, Array(<<B, C>>)>>), Array(<<>>),
          StructInit("S", <<"n", "m">>, <<A, Bin("+", B, C)>>), Merge(<<"n">>, <<A, B>>),
          MatchE(A, <<Arm(PVariant("Some", <<PNode("tuple", <<PVar("x"), PWild>>)>>), <<X>>, B),
                      Arm(PNode("or", <<PVariant("None", <<>>), PLit("Int32")>>), <<>>, C)>>)}
Expressions == {One(<<Plain0("f", <<ExprS(e)>>)>>) : e \in Nested}

\* ---- types: literals where a type is expected ----------------------------------------
Numbers == {"Int8", "Int32", "Int64", "Float32", "Float64", "Bool", "Byte"}
T0(n) == Ty(n, <<>>)
Given(t, n) ==
    {<<Plain0("f", <<Let(FALSE, "x", <<T0(t)>>, Lit(n))>>)>>,
     <<Fn("f", <<>>, <<>>, <<T0(t)>>, Do(<<Ret(<<Lit(n)>>)>>))>>,
     <<Fn("h", <<>>, <<Param("v", T0(t))>>, <<>>, Do(<<>>)), Plain0("f", <<ExprS(CallOf("h", Lit(n)))>>)>>,
     <<Plain0("f", <<ExprS(CallOf("h", Lit(n)))>>), Fn("h", <<>>, <<Param("v", T0(t))>>, <<>>, Do(<<>>))>>,
     <<Fn("h", <<"T">>, <<Param("v", T0("T"))>>, <<T0("T")>>, Do(<<Ret(<<Id("v")>>)>>)),
       Plain0("f", <<Let(FALSE, "x", <<T0(t)>>, CallOf("h", Lit(n)))>>)>>,
     <<Plain0("f", <<ExprS(Bin("+", Lit(t), Lit(n)))>>)>>,
     <<Plain0("f", <<ExprS(Bin("=", Lit(t), Lit(n)))>>)>>,
     <<Plain0("f", <<Let(TRUE, "x", <<Ty("Array", <<T0(t)>>)>>, Array(<<Lit(n)>>)),
                     ExprS(Call(Field(X, "push"), <<Lit(t)>>))>>)>>,
     <<StructD("S", <<>>, <<Param("n", T0(t))>>),
       Plain0("f", <<LetX(StructInit("S", <<"n">>, <<Lit(n)>>)),
                     Let(FALSE, "y", <<T0(n)>>, Field(X, "n"))>>)>>}
Send(n) == ExprS(Call(Field(X, "send"), <<Lit(n)>>))
Channels(t, n) ==
    {<<Plain0("f", <<Let(m, "x", a, Call(Id("chan"), <<>>)), Send(t), Send(n)>>)>> :
        m \in BOOLEAN, a \in {<<>>, <<Ty("Ref", <<Ty("Chan", <<T0(t)>>)>>)>>}}
Types == {One(ds) : ds \in UNION {Given(t, n) \cup Channels(t, n) : t, n \in Numbers}}

\* ---- results, options and strings ------------------------------------------------------
Str0 == Ty("Str", <<>>)
ResultTy == Ty("Result", <<Bool, Str0>>)
Fallible(ss) ==
    Fn("f", <<>>, <<Param("r", ResultTy), Param("s", ResultTy), Param("t", Str0)>>, <<ResultTy>>, Do(ss))
R == Id("r")
Tries ==
    {<<LetX(Try(R)), Ret(<<CallOf("Ok", X)>>)>>,
     <<LetX(Try(R)), Let(FALSE, "y", <<>>, Try(Id("s"))), Ret(<<CallOf("Ok", Y)>>)>>,
     <<While(True, Do(<<LetX(Try(R))>>)), Ret(<<Id("s")>>)>>,
     <<ExprS(Bin("|>", Try(R), Call(Id("g"), <<>>))), Ret(<<Id("s")>>)>>,
     <<ExprS(Bin("|>", Try(R), Id("g"))), Ret(<<Id("s")>>)>>,
     <<ExprS(CallOf("g", Try(CallOf("k", Try(R))))), Ret(<<Id("s")>>)>>,
     <<ExprS(CallOf("print", Str(Text1))), Ret(<<R>>)>>,
     <<ExprS(BlockE(Do(<<ExprS(Str(Text1)), ExprS(Str(Text1))>>))), Ret(<<R>>)>>,
     <<MatchS(R, <<Arm(PVariant("Ok", <<PVar("x")>>), <<>>, BlockE(Do(<<ExprS(Str(Text1))>>))),
                   Arm(PVariant("Err", <<PWild>>), <<>>, BlockE(Do(<<ExprS(Str(Text1))>>)))>>), Ret(<<Id("s")>>)>>,
     <<MatchS(R, <<Arm(PVariant("Ok", <<PVar("g")>>), <<Id("g")>>, BlockE(Do(<<ExprS(Id("g"))>>)))>>),
       Ret(<<Id("s")>>)>>,
     <<MatchS(R, <<Arm(PVariant("Ok", <<PVar("x")>>), <<CallOf("g", X)>>, BlockE(Do(<<>>)))>>),
       Ret(<<Id("s")>>)>>,
     <<ExprS(IfLet(PVariant("Ok", <<PVar("x")>>), R, Do(<<ExprS(CallOf("g", True))>>), <<>>)), Ret(<<Id("s")>>)>>}
K == Fn("k", <<>>, <<Param("b", Bool)>>, <<ResultTy>>, Do(<<Ret(<<CallOf("Ok", Id("b"))>>)>>))
Again(ss) == [Fallible(ss) EXCEPT !.name = "again"]
Results == {One(<<Fallible(ss), G, K>>) : ss \in Tries} \cup {One(<<Fallible(ss), Again(ss), G, K>>) : ss \in Tries}

\* ---- declarations and files -------------------------------------------------------------
Ty1(n) == Ty(n, <<>>)
MainFn == Plain0("main", <<>>)
Method(x) == Extension(Ty1("S"), <<Fn(x, <<>>, <<Param("self", Ty1("S"))>>, <<>>, Do(<<>>))>>)
S0 == StructD("S", <<>>, <<Param("n", Bool)>>)
Pieces ==
    {MainFn, Plain0("my__main", <<>>), S0, Method("main"), Method("m"), Plain0("S", <<>>),
     EnumD("E", <<"T">>, <<[x |-> "One", tys |-> <<Ty1("T")>>], [x |-> "Two", tys |-> <<>>]>>),
     Newtype("N", Bool), Newtype("N", Ty1("M")), Newtype("M", Ty("Array", <<Ty1("N")>>)), Newtype("M", Ty1("S")),
     Newtype("M", Ty1("M")),
     Interface("I", <<>>, <<Fn("m", <<>>, <<Param("s", Ty1("S"))>>, <<>>, Do(<<>>))>>),
     Impl(Ty1("I"), Ty1("S"), <<Fn("m", <<>>, <<>>, <<>>, Do(<<>>))>>),
     Use(<<"main", "S">>, FALSE), Use(<<"main">>, TRUE), Use(<<"other", "S">>, FALSE), Use(<<"S">>, FALSE),
     Plain0("f", <<Let(FALSE, "main", <<>>, True), ExprS(Id("main"))>>),
     Plain0("f", <<LetX(StructInit("S", <<"n">>, <<True>>)), ExprS(Call(Field(X, "m"), <<>>))>>)}
Declarations3 == {One(<<a, b, c>>) : a, b, c \in Pieces}
Files ==
    {<<FileOf(<<a>>), b>> : a \in Pieces,
        b \in {FileOf(<<S0>>), FileOf(<<MainFn>>), File(<<>>, <<S0>>), File(<<"other">>, <<S0>>)}}

Trees == Flows \cup Expressions \cup Types \cup Results \cup Declarations3 \cup Files
\* Written as tokens; the first file is the entry.
MCProjects == {[files |-> Mapped(fs, PrintFile), entry |-> 1] : fs \in Trees}
================================================================================
