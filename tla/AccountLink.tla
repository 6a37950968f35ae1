---------------------------- MODULE AccountLink -----------------------------
(***************************************************************************)
(* Linking a device to an account (src/models/link.rs): a code is created, *)
(* shown, and read back until the account that entered it is known.        *)
(*                                                                         *)
(* Create requests carry nothing that tells one from another, so that the  *)
(* answer to an earlier one is taken for the current one; reads carry      *)
(* their code.                                                             *)
(***************************************************************************)
EXTENDS Loadables

CONSTANT Codes   \* bound: codes the API gives out

CreateRequest == [kind |-> "Create", code |-> None]
ReadRequest(c) == [kind |-> "Read", code |-> c]

Request == {CreateRequest} \cup {ReadRequest(c) : c \in Codes}

CodesAssumption ==
  Codes \cap {None, Loading, Failed} = {} /\ Free \notin Request

VARIABLES
  code,      \* link.code; a code that is Ready is the code
  data,      \* link.data; data that are Ready are the code they were read with
  calls,     \* requests under way
  given      \* history: the codes the API gave out

linkVars == <<code, data, calls, given>>

TypeOK ==
  /\ code \in Option(Loadable(Codes))
  /\ data \in Option(Loadable(Codes))
  /\ calls \in [Slots -> Request \cup {Free}]
  /\ given \subseteq Codes
-----------------------------------------------------------------------------
\* ActionLoad::Link
Load ==
  /\ code' = Loading /\ data' = None
  /\ calls' \in Sent(calls, CreateRequest)
  /\ UNCHANGED given

\* Changed: the code need not be there yet.
ReadData_Unguarded ==
  /\ code # None
  /\ data' = Loading
  /\ calls' \in Sent(calls, ReadRequest(code))
  /\ UNCHANGED <<code, given>>

\* ActionLink::ReadData
ReadData ==
  /\ code \in Codes
  /\ data' = Loading
  /\ calls' \in Sent(calls, ReadRequest(code))
  /\ UNCHANGED <<code, given>>

\* Action::Unload
Unload ==
  /\ code' = None /\ data' = None
  /\ UNCHANGED <<calls, given>>

\* Internal::LinkCodeResult, for a new code of the API's or an error.
LinkCodeResult(s, result) ==
  /\ calls[s] = CreateRequest
  /\ IF code = Loading THEN code' = result /\ data' = None ELSE UNCHANGED <<code, data>>
  /\ calls' = Ended(calls, s)
  /\ given' = given \cup ({result} \ {Failed})

\* Changed: the code of the request is not compared with the code shown.
LinkDataResult_AnyCode(s, result) ==
  /\ calls[s] \in {ReadRequest(c) : c \in Codes}
  /\ data' = IF data = Loading THEN result ELSE data
  /\ calls' = Ended(calls, s)
  /\ UNCHANGED <<code, given>>

\* Internal::LinkDataResult; an answer of another form is an error.
LinkDataResult(s, result) ==
  /\ calls[s] \in {ReadRequest(c) : c \in Codes}
  /\ data' = IF data = Loading /\ code = calls[s].code THEN result ELSE data
  /\ calls' = Ended(calls, s)
  /\ UNCHANGED <<code, given>>
-----------------------------------------------------------------------------
Init == code = None /\ data = None /\ calls = NoFlight /\ given = {}

Answer(s) ==
  \/ \E result \in (Codes \ given) \cup {Failed} : LinkCodeResult(s, result)
  \/ calls[s] # Free /\ \E result \in {calls[s].code, Failed} : LinkDataResult(s, result)

Next == Load \/ ReadData \/ Unload \/ \E s \in Slots : Answer(s)

Spec == Init /\ [][Next]_linkVars

\* Every future the runtime spawns ends, and its message is handled.
Fairness == \A s \in Slots : WF_linkVars(Answer(s))
-----------------------------------------------------------------------------
\* The data shown beside a code were read with that code, in whatever order the
\* answers to codes given up earlier arrive (link.rs:93).
DataIsOfCode == data \in Codes => data = code

\* A value that is Loading has a request under way that will replace it: no order
\* of loads, unloads and answers leaves a spinner that nothing ends.
LinkIsAnswered ==
  /\ code = Loading => UnderWay(calls, CreateRequest)
  /\ data = Loading => code \in Codes /\ UnderWay(calls, ReadRequest(code))

\* Linking does not stay under way for ever, however often it is begun again.
LinkEnds == (code = Loading ~> code # Loading) /\ (data = Loading ~> data # Loading)
=============================================================================
