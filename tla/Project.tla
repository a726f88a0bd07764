-------------------------------- MODULE Project --------------------------------
(***************************************************************************)
(* Putting the files of a project together, src/src/driver.rs.  `errors`   *)
(* of the code are Rejected here.                                          *)
(***************************************************************************)
EXTENDS Desugar, Namespaces

Rejected == [ok |-> FALSE, decls |-> <<>>]

\* ---- declarations -------------------------------------------------------------------
MethodSymbol(ty, x) == "__ty_method__" \o ty.n \o "__" \o x
ExpandImplAndExtensionDecls(d) ==
    IF d.k \notin {"impl", "extension"} THEN <<d>>
    ELSE [i \in DOMAIN d.methods |-> [d.methods[i] EXCEPT !.name = MethodSymbol(d.type, @)]]

\* Mutant: the counters start again with every declaration.
CompileDeclAlone(a, d, al) ==
    With(DesugarDecl([Counters EXCEPT !.ok = a.c.ok], RenameDecl(al, d)), LAMBDA c, v :
        Out(c, a.v \o ExpandImplAndExtensionDecls(v)))
\* The counters of made-up names run through the whole project.
CompileDecl(a, d, al) ==
    With(DesugarDecl(a.c, RenameDecl(al, d)), LAMBDA c, v :
        Out(c, a.v \o ExpandImplAndExtensionDecls(v)))
CompileNamespace(a, decls, alias) ==
    IF alias.ok THEN Fold(LAMBDA b, d : CompileDecl(b, d, alias.al), a, decls)
    ELSE [a EXCEPT !.c.ok = FALSE]
CompileUnits(units, maps, order) ==
    Fold(LAMBDA a, ns : CompileNamespace(a, units[ns].decls, BuildAliasMap(ns, units, maps)),
         Out([Counters EXCEPT !.ok = order.ok], <<>>), order.out)

\* The files of the entry's directory, each parsed, the entry file among them.
CompileFiles(units, entry) ==
    CompileUnits(units, BuildNamespaceDeclMaps(units), ComputeTransitive(units, entry))
CompileProject(files, entry) ==
    LET units == ExtractNamespaceUnits(files)
    IN  IF \/ \E f \in Range(files) : f.ns = <<>>
           \/ \E ns \in DOMAIN units : HasDuplicate(units[ns].decls)
        THEN Rejected
        ELSE With(CompileFiles(units, files[entry].ns[1]), LAMBDA c, decls :
               IF c.ok THEN [ok |-> TRUE, decls |-> decls] ELSE Rejected)
================================================================================
