----------------------------- MODULE DataExport -----------------------------
(***************************************************************************)
(* The export of an account's data (src/models/data_export.rs): one        *)
(* request at a time, whose answer and whose result belong to the session  *)
(* that asked for it.                                                      *)
(***************************************************************************)
EXTENDS Loadables

CONSTANT Keys   \* bound: auth keys the device uses, each for one session

Url(k) == [export |-> k]   \* the url of what was exported for a key

Export == [key : Keys, url : Loadable({Url(k) : k \in Keys})]

KeysAssumption ==
  /\ Keys \cap {None, Free} = {} /\ None \notin Export
  /\ \A k \in Keys : Url(k) \notin {Loading, Failed}

VARIABLES
  key,           \* ctx.profile.auth_key()
  export_url,    \* the key and the url
  exports,       \* requests under way, each by its key
  used           \* history: the keys that were signed in

exportVars == <<key, export_url, exports, used>>

TypeOK ==
  /\ key \in Option(Keys)
  /\ export_url \in Option(Export)
  /\ exports \in [Slots -> Keys \cup {Free}]
  /\ used \subseteq Keys
-----------------------------------------------------------------------------
\* ActionLoad::DataExport
Load ==
  /\ key # None
  /\ ~(export_url # None /\ export_url.url = Loading)
  /\ export_url' = [key |-> key, url |-> Loading]
  /\ exports' \in Sent(exports, key)
  /\ UNCHANGED <<key, used>>

\* Action::Unload
Unload ==
  /\ export_url' = None
  /\ UNCHANGED <<key, exports, used>>

\* Internal::DataExportResult
DataExportResult(s, result) ==
  /\ exports[s] # Free
  /\ export_url' = IF export_url = [key |-> exports[s], url |-> Loading]
                     THEN [export_url EXCEPT !.url = result]
                     ELSE export_url
  /\ exports' = Ended(exports, s)
  /\ UNCHANGED <<key, used>>

\* Internal::ProfileChanged, after Ctx signed in or out.
ProfileChanged(k) ==
  /\ k \notin used
  /\ key' = k
  /\ export_url' = IF export_url # None /\ export_url.key # k THEN None ELSE export_url
  /\ used' = used \cup ({k} \ {None})
  /\ UNCHANGED exports
-----------------------------------------------------------------------------
Init == key = None /\ export_url = None /\ exports = NoFlight /\ used = {}

Answer(s) == exports[s] # Free /\ \E result \in {Url(exports[s]), Failed} : DataExportResult(s, result)

Next == Load \/ Unload \/ (\E k \in Option(Keys) : ProfileChanged(k)) \/ \E s \in Slots : Answer(s)

Spec == Init /\ [][Next]_exportVars
-----------------------------------------------------------------------------
\* What is shown is the export of the account that is signed in, whenever the
\* answer comes and whoever signed in meanwhile: another one's url is a leak.
ExportOfSession ==
  export_url # None =>
    export_url.key = key /\ (export_url.url \notin {Loading, Failed} => export_url.url = Url(key))

\* An export that is Loading is one the API will still answer, so that Load, which
\* is ignored while it is Loading (data_export.rs:40), never stays ignored.
ExportIsAnswered == export_url # None /\ export_url.url = Loading => UnderWay(exports, export_url.key)
=============================================================================
