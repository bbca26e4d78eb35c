----------------------------- MODULE ErrorFormat ----------------------------
(***************************************************************************)
(* How Go errors become the errors a client reads: error.go, and           *)
(* combineErrors of server_websocket.go.  An error is about some failure.  *)
(* It extends if the innermost Go error has extensions (an ExtendedError   *)
(* of graphql-go), and shows them if they made it into what is sent.  Its  *)
(* shape is its Go type: raw for any other error, located for              *)
(* *gqlerrors.Error, formatted for FormattedError, whose original error is *)
(* the inner shape.                                                        *)
(***************************************************************************)
EXTENDS FiniteSets

GoError(about, extends, shape) ==
    [about |-> about, extends |-> extends, shape |-> shape, inner |-> shape, shows |-> FALSE]

\* graphql-go: only a located error passes its original's extensions on.
GqlFormat(err) ==
    IF err.shape = "formatted" THEN err
    ELSE [err EXCEPT !.shape = "formatted", !.inner = err.shape,
                     !.shows = err.shape = "located" /\ err.extends]

wrapExtendedError(err) == IF err.extends THEN [err EXCEPT !.shape = "located"] ELSE err

OriginalError(err) ==
    IF err.shape = "formatted" THEN [err EXCEPT !.shape = err.inner, !.shows = FALSE] ELSE err

FormatError_Unwrapped(err) == GqlFormat(OriginalError(err))

\* What was formatted is formatted anew, from its original error.
FormatError(err) ==
    LET original == OriginalError(err) IN
    IF original.shape = "located" THEN GqlFormat(original)
                                  ELSE GqlFormat(wrapExtendedError(original))

\* One error with all of errs in its extensions; a single one stays alone.
combineErrors(errs) ==
    IF Cardinality(errs) = 1 THEN errs ELSE {FormatError(e) : e \in errs}
=============================================================================
