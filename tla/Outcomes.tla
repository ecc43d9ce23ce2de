------------------------------ MODULE Outcomes ------------------------------
(***************************************************************************)
(* Outcomes of the functions of the back ends.  A method is an operator from *)
(* an object to the set of its outcomes [ok, t]: a call of the library may   *)
(* fail, and an assertion that fails returns an error.  Handles are counted  *)
(* twice: `fields' are the handle fields and variables that are not NULL,    *)
(* `live' the number of handles that the library has given out and not got   *)
(* back.  `lost' counts the handles that a function forgets, `stale' the     *)
(* handles given back without being held: the field is not cleared and will  *)
(* be freed again, or was never set.  `fault' says that a call of the        *)
(* library failed.                                                           *)
(***************************************************************************)
EXTENDS Integers, Sequences, FiniteSets, SequencesExt

\* The builds of the library: OpenSSL before and since 3.0, and five others.
OpenSSL == {"openssl1", "openssl3"}
Backends == OpenSSL \cup {"nss", "gnutls", "gcrypt", "mscrypto", "mscng"}

Ok(t) == {[ok |-> TRUE, t |-> t]}
Err(t) == {[ok |-> FALSE, t |-> t]}

\* A call of the library failed, and so does the function that made it.
Fault(t) == Err([t EXCEPT !.fault = TRUE])

\* The next call of a function, made when the one before it succeeded.
Then(outcomes, Next(_)) ==
    UNION {IF o.ok THEN Next(o.t) ELSE {o} : o \in outcomes}

\* An error path that cleans up before it returns.
OnError(outcomes, Clean(_)) ==
    {IF o.ok THEN o ELSE [o EXCEPT !.t = Clean(o.t)] : o \in outcomes}

\* A function that begins with assertions.
Check(t, cond, outcomes) == IF cond THEN outcomes ELSE Err(t)

\* A call of the library that may fail and keeps nothing.
Call(t) == Ok(t) \cup Fault(t)

\* A call of the library that stores a new handle in a field of the context.
Acquire(t, field) ==
    Ok([t EXCEPT !.ctx.fields = @ \cup {field}, !.live = @ + 1]) \cup Fault(t)

AcquireAll(t, fields) ==
    FoldLeft(LAMBDA outs, f : Then(outs, LAMBDA u : Acquire(u, f)), Ok(t), fields)

\* Freeing the handles of the fields that are set, and clearing the fields.
Free(t, fields) ==
    [t EXCEPT !.ctx.fields = @ \ fields,
              !.live = @ - Cardinality(t.ctx.fields \cap fields)]

\* Handles of local variables, freed on every path out of a function.
Release(outcomes, locals) == {[o EXCEPT !.t = Free(o.t, locals)] : o \in outcomes}

\* Handles that a function returns without freeing.
Lose(t, fields) ==
    [t EXCEPT !.ctx.fields = @ \ fields,
              !.lost = @ + Cardinality(t.ctx.fields \cap fields)]

\* A local variable that is freed before it was given a value.
FreeUnset(t) == [t EXCEPT !.live = @ - 1, !.stale = @ + 1]
=============================================================================
