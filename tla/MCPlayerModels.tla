--------------------------- MODULE MCPlayerModels ---------------------------
(* A small instance of PlayerModels for TLC. *)
EXTENDS PlayerModels, Sequences, TLC

MCEpisodes == <<"e1", "e2">>
MCVideos == [t \in Titles |-> <<[id |-> "e1", season |-> 1], [id |-> "e2", season |-> 1]>>]
MCStates == {[track |-> "embedded", speed |-> TRUE]}

Symmetry == Permutations(Slots)

\* Streams of every kind, with and without what they need.
Of(kind, scheme, proxy) == [kind |-> kind, url |-> [scheme |-> scheme, hops |-> <<>>], proxy |-> proxy]
MCSources ==
  {Of("url", scheme, proxy) : scheme \in {"http", "ftp", "magnet"}, proxy \in BOOLEAN} \cup
  {Of("rar", "ftp", FALSE), Of("zip", "http", TRUE), Of("nzb", "ftp", FALSE),
   Of("torrent", "torrent", FALSE), Of("youtube", "youtube", FALSE), Of("frame", "http", FALSE),
   Of("external", "http", FALSE), [kind |-> "external", url |-> None, proxy |-> FALSE],
   [kind |-> "tar", url |-> None, proxy |-> FALSE]}

\* Videos with a stream of their own, or on YouTube; titles with and without them.
MCPlayable ==
  {[id |-> "v", youtube |-> FALSE, streams |-> <<Of("torrent", "torrent", FALSE)>>],
   [id |-> "y", youtube |-> TRUE, streams |-> <<>>]}
MCOpenable ==
  {[default |-> None, video |-> v, watching |-> TRUE] : v \in MCPlayable \cup {None}} \cup
  {[default |-> v, video |-> None, watching |-> FALSE] : v \in MCPlayable}

\* Screens of one title in the library and one that is not.
MCCollections == {<<"a">>, <<"b">>, <<"a", "b">>}
MCLists == [a |-> {"top", "new"}, b |-> {"top"}]
MCRows == <<[base |-> "a", list |-> "top"], [base |-> "b", list |-> "top"]>>
MCEntries ==
  "t" :> {None, [removed |-> FALSE, video |-> "v", progress |-> 1], [removed |-> FALSE, video |-> "v", progress |-> 0]} @@
  "u" :> {None}
MCMetaAnswers == {[links |-> <<"x", "y">>, inline |-> {}], [links |-> <<"y">>, inline |-> {"s"}]}
MCPages == {<<"t", "u">>, <<"u", "u", "t">>}

\* Add-ons of both protocols, one of another and one whose url ends with neither; ids of
\* each form, and of none.
Id(prefix, parts) == [prefix |-> prefix, parts |-> parts]
Ask(resource, id) == [resource |-> resource, type |-> "series", id |-> id, extra |-> <<>>]
Says(resources) ==
  [url |-> "a", types |-> {"series"}, prefixes |-> {"tt", "UC", "kitsu:"},
   resources |-> [i \in DOMAIN resources |-> [name |-> resources[i], full |-> FALSE]],
   catalogs |-> <<[id |-> Id("", <<"top">>), type |-> "series", extra |-> <<>>]>>]
SaysLegacy(methods, property, sorts) ==
  [methods |-> methods, types |-> <<"series">>, id_property |-> property, sorts |-> sorts]
MCDescriptors ==
  LET url(scheme, path, says) == [url |-> "a", scheme |-> scheme, path |-> path, says |-> says]
      all == Says(<<"meta", "stream", "subtitles">>)
  IN {url("http", "manifest", all), url("http", "other", all), url("ipfs", "manifest", all),
      url("http", "legacy", SaysLegacy({"meta.find", "meta.get", "subtitles.get"}, {"imdb_id", "kitsu"}, None)),
      url("http", "legacy", SaysLegacy({"stream.find", "meta.find"}, {"yt_id", "imdb_id", "kitsu"},
        <<[id |-> Id("", <<"new">>), types |-> <<"series">>], [id |-> Id("", <<"top">>), types |-> None]>>)),
      url("http", "legacy", SaysLegacy({"stream.find"}, None, None))}
MCIds ==
  {Id("tt", <<"tt1">>), Id("tt", <<"tt1", "1", "2">>), Id("tt", <<"tt1", "1", "258">>),
   Id("tt", <<"tt1", "1", "65537">>), Id("UC", <<"UC1">>), Id("UC", <<"UC1", "v">>),
   Id("kitsu:", <<"kitsu", "1">>), Id("kitsu:", <<"kitsu", "1", "v">>), Id("kitsu:", <<"kitsu", "1", "2", "3">>)}
MCNumerals == "1" :> 1 @@ "2" :> 2 @@ "258" :> 258 @@ "65537" :> 65537
MCPaths ==
  {Ask(resource, id) : resource \in {"meta", "stream"}, id \in MCIds} \cup
  {Ask("catalog", Id("", <<"top">>)), Ask("catalog", Id("", <<"new">>)), Ask("addon_catalog", Id("", <<"top">>)),
   [Ask("subtitles", Id("tt", <<"tt1">>)) EXCEPT !.extra =
      <<[name |-> "videoHash", value |-> "h"], [name |-> "videoSize", value |-> "many"]>>],
   [Ask("catalog", Id("", <<"top">>)) EXCEPT !.extra = <<[name |-> "skip", value |-> "2"]>>]}

List(elements) == [form |-> "list", items |-> elements]
MCVideo(id, season, episode, released) == [id |-> id, season |-> season, episode |-> episode, released |-> released]
MCSeries ==
  <<MCVideo("s", 0, 1, 5), MCVideo("f", None, None, None), MCVideo("b", 2, 1, 2), MCVideo("d", None, None, 4),
    MCVideo("a", 1, 2, 1), MCVideo("b", 1, 1, 1), MCVideo("c", None, None, 3)>>
MCShows == {MCSeries, SelectSeq(MCSeries, LAMBDA video : video.season = None)}
MCMeta == {[form |-> "meta", items |-> videos] : videos \in MCShows}
MCBodies ==
  {"meta" :> value : value \in MCMeta \cup {[form |-> "map", items |-> <<>>]}} \cup
  {name :> List(<<"x", "bad", "y">>) : name \in {"metas", "streams", "subtitles"}} \cup
  {"streams" :> [form |-> "null", items |-> <<>>], "metas" :> List(<<"x">>) @@ "streams" :> List(<<"y">>),
   "error" :> List(<<>>)}
MCReplies ==
  {"result" :> value : value \in MCMeta \cup {List(<<"x", "y">>), List(<<"x", "bad">>), List(<<>>)}} \cup
  {"error" :> List(<<>>)}
=============================================================================
