-------------------------------- MODULE Aliases --------------------------------
(***************************************************************************)
(* The types a module mentions, as resolve_type of src/src/resolver.rs     *)
(* goes through them.  A type is the sequence of the names in it, in the   *)
(* order they are resolved: those of its arguments, then its own.  A name  *)
(* is looked up in                                                         *)
(*    plain     the names that need no declaration                         *)
(*    declared  the names in scope                                         *)
(*    stands    for each name of a newtype the type it stands for          *)
(***************************************************************************)
EXTENDS Syntax

Env(plain, declared, stands) == [plain |-> plain, declared |-> declared, stands |-> stands]

\* The first error there is among the names, and "ok" if there is none.  f: what comes of
\* following each newtype.
InTurn(env, f, names) ==
    LET outcome(x) == IF x \in env.plain THEN "ok"
                      ELSE IF x \notin env.declared THEN "unknown"
                      ELSE IF x \notin DOMAIN env.stands THEN "ok"
                      ELSE f[x]
        bad == {i \in DOMAIN names : outcome(names[i]) # "ok"}
    IN  IF bad = {} THEN "ok" ELSE outcome(names[Min(bad)])

\* A newtype is followed to the type it stands for.  Nothing in the code remembers the
\* newtypes being followed (seen): to meet one again is never to end.
Follow(env) ==
    LET follow[seen \in SUBSET DOMAIN env.stands] ==
          [x \in DOMAIN env.stands |->
              IF x \in seen THEN "loops"
              ELSE InTurn(env, follow[seen \cup {x}], env.stands[x])]
    IN  follow

\* "ok", "unknown" or "loops".
ResolveNames(env, names) == InTurn(env, Follow(env)[{}], names)
================================================================================
