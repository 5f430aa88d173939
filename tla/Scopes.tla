------------------------------- MODULE Scopes -------------------------------
(***************************************************************************)
(* The evaluator and what its programs mean, together: Dup, Compute and    *)
(* Expand of Evaluator are sexp_dup, Computed and Expansion of Intrinsics. *)
(***************************************************************************)
EXTENDS Evaluator, Meaning

\* The call tree gives symbols the scopes that a reader of the program sees: each sexp has the value that
\* it has when every call opens a scope for its arguments, let binds in the scope of the call around it,
\* and p-load evaluates the sexps of its file where it stands.  The program stops where that has no value,
\* the global symbols are the same, and of every stream, the program's source included, what has been
\* read is what those sexps read.  It speaks of programs that, within a sexp, bind a symbol again after its
\* removal, and do not look at what a macro returns that is called with an empty slice.
ScopesAgree ==
  calls = <<>> \/ aborted =>
    LET n     == Len(results)
        run   == Run(IF aborted THEN n + 1 ELSE n, Initially(program))
        meant == [i \in DOMAIN run.vals |-> sexp_dup(run.vals[i])]
        left  == run.env.streams
    IN  IF aborted THEN meant = Append(results, Abort)
                   ELSE /\ meant = results
                        /\ run.env.scopes[1] = nodes[Root].symboltable
                        /\ run.env.in_stream = in_stream
                        /\ left = (0 :> <<>>) @@ streams
=============================================================================
