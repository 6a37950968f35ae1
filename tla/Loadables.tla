----------------------------- MODULE Loadables ------------------------------
(***************************************************************************)
(* What the models that fetch something have in common: a value that is    *)
(* Loading, Ready or Err (src/models/common/loadable.rs), and the futures  *)
(* the runtime was given and that will each end in one message, in any     *)
(* order (src/runtime/effects.rs).                                         *)
(*                                                                         *)
(* Ready(r) is represented by r itself, Err(e) of any error by Failed.     *)
(***************************************************************************)
EXTENDS Naturals, FiniteSets

CONSTANTS
  None,       \* Option::None
  Loading,    \* Loadable::Loading
  Failed,     \* Loadable::Err
  Slots,      \* bound: so many futures are under way at a time
  Free        \* a slot without one

ASSUME LoadableAssumption ==
  None # Loading /\ None # Failed /\ Loading # Failed /\ Free \notin {None, Loading, Failed}

Option(S) == S \cup {None}
Loadable(R) == R \cup {Loading, Failed}

NoFlight == [s \in Slots |-> Free]

\* The futures there may be after one more, for a request, was spawned.
Sent(flight, request) ==
  {[flight EXCEPT ![s] = request] : s \in {t \in Slots : flight[t] = Free}}

\* The futures there may be after one more for each of some requests.
SentAll(flight, requests) ==
  LET free == {s \in Slots : flight[s] = Free} IN
  {[s \in Slots |-> IF \E r \in requests : at[r] = s
                      THEN CHOOSE r \in requests : at[r] = s ELSE flight[s]] :
     at \in {a \in [requests -> free] : \A q, r \in requests : a[q] = a[r] => q = r}}

\* The futures left after the one in slot s ended.
Ended(flight, s) == [flight EXCEPT ![s] = Free]

\* Whether a future for a request is under way.
UnderWay(flight, request) == \E s \in Slots : flight[s] = request
=============================================================================
