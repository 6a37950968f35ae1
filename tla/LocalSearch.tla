----------------------------- MODULE LocalSearch -----------------------------
(***************************************************************************)
(* The suggestions of the search box (src/models/local_search.rs): a feed  *)
(* of records that is fetched, filtered and indexed, and searched.         *)
(*                                                                         *)
(* A record is represented by itself; the ones without a name are in       *)
(* Nameless.  An index is the set of records it was built from.            *)
(***************************************************************************)
EXTENDS Loadables

CONSTANTS
  Feeds,      \* bound: sets of records that the feed may be answered with
  Nameless,   \* the records without a name
  Queries     \* bound: what is searched, each the set of records that match it

CONSTANT Feed   \* the request for the feed

FeedsAssumption == Feed # Free /\ \A f \in Feeds : f \ Nameless \notin {None, Loading, Failed}

VARIABLES
  current_records, latest_records, searcher, search_results,
  feeds        \* requests under way

searchVars == <<current_records, latest_records, searcher, search_results, feeds>>

Records == UNION Feeds

\* ActionLoad::LocalSearch: asked for again each time, the records stay.
Load ==
  /\ latest_records' = Loading
  /\ feeds' \in Sent(feeds, Feed)
  /\ UNCHANGED <<current_records, searcher, search_results>>

\* ActionSearch::Search, of a query that is no magnet link: the best max_results.
Search(query) ==
  /\ searcher # None
  /\ search_results' = searcher \cap query
  /\ UNCHANGED <<current_records, latest_records, searcher, feeds>>

\* An index is built when the records are others than before.
Indexed(records) == IF records # current_records THEN records ELSE searcher

\* Internal::LoadLocalSearchResult, whichever request it answers.
LoadLocalSearchResult(s, result) ==
  /\ feeds[s] # Free
  /\ IF result = Failed
       THEN latest_records' = Failed /\ UNCHANGED <<current_records, searcher>>
       ELSE LET records == result \ Nameless IN
            /\ latest_records' = records
            /\ current_records' = records /\ searcher' = Indexed(records)
  /\ feeds' = Ended(feeds, s)
  /\ UNCHANGED search_results

Init ==
  /\ current_records = {} /\ latest_records = None /\ searcher = None /\ search_results = {}
  /\ feeds = NoFlight

Next ==
  \/ Load
  \/ \E query \in Queries : Search(query)
  \/ \E s \in Slots, result \in Feeds \cup {Failed} : LoadLocalSearchResult(s, result)

Spec == Init /\ [][Next]_searchVars
-----------------------------------------------------------------------------
\* What is searched is what the last good answer had, with a name, also after a
\* later request failed (local_search.rs:253); it is indexed once there was any.
SearchIsOfRecords ==
  /\ searcher # None => searcher = current_records
  /\ searcher = None => current_records = {}
  /\ current_records \cap Nameless = {}
  /\ latest_records \notin {None, Loading, Failed} => latest_records = current_records

\* Records that are Loading will be answered.
RecordsAreAnswered == latest_records = Loading => UnderWay(feeds, Feed)
=============================================================================
