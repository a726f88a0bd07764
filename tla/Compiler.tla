------------------------------- MODULE Compiler -------------------------------
(***************************************************************************)
(* The compiler as src/src/main.rs runs it over a project: its files are   *)
(* parsed and put together, names are resolved, types are inferred,        *)
(* bindings are analyzed, and code is emitted.  A pass that fails ends the *)
(* compilation; a pass that never returns leaves it at "loops".            *)
(***************************************************************************)
EXTENDS Project, Resolver, Inference, Ownership

\* Projects: [files, entry], each file a sequence of tokens.
CONSTANT Projects
VARIABLES src, files, decls, phase, live, out
compilerVars == <<src, files, decls, phase, live, out>>

NoOutput == [fns |-> <<>>, concs |-> <<>>, entry |-> <<>>]
Init ==
    /\ src \in Projects
    /\ files = <<>> /\ decls = <<>> /\ phase = "source"
    /\ live = <<>> /\ out = NoOutput

\* compile_project: every file of the directory, or none.
Parse ==
    /\ phase = "source"
    /\ \E parsed \in {[i \in DOMAIN src.files |-> ParseModule(src.files[i])]} :
          IF \A i \in DOMAIN parsed : parsed[i].ok
          THEN files' = [i \in DOMAIN parsed |-> parsed[i].v] /\ phase' = "parsed"
          ELSE files' = <<>> /\ phase' = "rejected"
    /\ UNCHANGED <<src, decls, live, out>>

Assemble ==
    /\ phase = "parsed"
    /\ \E r \in {CompileProject(files, src.entry)} :
          decls' = r.decls /\ phase' = IF r.ok THEN "assembled" ELSE "rejected"
    /\ UNCHANGED <<src, files, live, out>>

Resolve ==
    /\ phase = "assembled"
    /\ \E r \in {ResolveModule(decls)} : phase' = IF r = "ok" THEN "resolved" ELSE r
    /\ UNCHANGED <<src, files, decls, live, out>>

Check ==
    /\ phase = "resolved"
    /\ phase' = IF CheckModule(decls).ok THEN "checked" ELSE "rejected"
    /\ UNCHANGED <<src, files, decls, live, out>>

Functions == SelectSeq(decls, LAMBDA d : d.k = "fn")
Analyze ==
    /\ phase = "checked"
    /\ live' = [i \in DOMAIN Functions |-> AnalyzeFunction(Functions[i])]
    /\ phase' = IF \A i \in DOMAIN live' : live'[i].ok THEN "analyzed" ELSE "rejected"
    /\ UNCHANGED <<src, files, decls, out>>

Lower ==
    /\ phase = "analyzed"
    /\ out' = LowerModule(decls, Fold(LAMBDA a, l : a \o l.drops, <<>>, live))
    /\ phase' = "built"
    /\ UNCHANGED <<src, files, decls, live>>

Next == Parse \/ Assemble \/ Resolve \/ Check \/ Analyze \/ Lower
Spec == Init /\ [][Next]_compilerVars
================================================================================
