--------------------------- MODULE MCScreenModels ---------------------------
(* A small instance of ScreenModels for TLC. *)
EXTENDS ScreenModels, TLC

\* Titles: one whose video may be guessed or comes with its streams, one without.
Meta(default, videos, inline) == [default |-> default, videos |-> videos, inline |-> inline]
MCContents ==
  "t" :> {Meta(None, {"v"}, {"v"}), Meta("v", {"v"}, {})} @@ "u" :> {Meta(None, {}, {})}
MCCollections == {<<"a1", "a2">>, <<"a2">>}
MCLoads ==
  {[title |-> "t", video |-> None, guess |-> TRUE], [title |-> "t", video |-> "v", guess |-> FALSE],
   [title |-> "u", video |-> None, guess |-> FALSE]}
MCLastUsed == [t \in Titles |-> "a2"]

\* Add-ons: one whose catalogs have pages, or need a genre, and one without options.
Prop(name, required, options, limit) ==
  [name |-> name, required |-> required, options |-> options, limit |-> limit]
Manifest(base, types, lists) ==
  [url |-> base, types |-> types, resources |-> <<>>, prefixes |-> {}, catalogs |-> lists]
MCProfiles ==
  LET a == Manifest("a", {"movie", "series"},
             <<[id |-> "top", type |-> "movie",
                extra |-> <<Prop("skip", FALSE, <<>>, 1), Prop("genre", FALSE, <<"g">>, 1)>>],
               [id |-> "year", type |-> "series", extra |-> <<Prop("genre", TRUE, <<"g">>, 1)>>]>>)
      b == Manifest("b", {"movie"}, <<[id |-> "new", type |-> "movie", extra |-> <<>>]>>)
  IN {<<a>>, <<b, a>>}
MCTypeOrder == <<"movie", "series">>
MCBoards ==
  {[extra |-> <<>>, types |-> {"movie", "series"}],
   [extra |-> <<[name |-> "genre", value |-> "g"]>>, types |-> {"movie", "series"}]}

\* Items of the library, in versions that pass and fail each filter.
Version(t, removed, temp, offset, last, times, mtime) ==
  [type |-> t, removed |-> removed, temp |-> temp, time_offset |-> offset,
   last_watched |-> last, times_watched |-> times, ctime |-> 1, mtime |-> mtime]
MCIds == <<"a", "b", "c">>
MCVersions ==
  "a" :> {Version("movie", FALSE, FALSE, 1, 1, 0, 1), Version("movie", TRUE, TRUE, 1, 3, 1, 3),
          Version("movie", FALSE, FALSE, 0, 2, 1, 2)} @@
  "b" :> {Version("movie", FALSE, FALSE, 0, 2, 0, 2)} @@
  "c" :> {Version("series", FALSE, FALSE, 0, 1, 0, 1), Version("series", FALSE, FALSE, 0, 2, 0, 2),
          Version("series", TRUE, FALSE, 0, 1, 0, 3)}
MCAddonTypes == {<<{"movie"}, {"series"}>>, <<{"movie"}>>}

MCDates == {[year |-> 2024, month |-> 2, day |-> 3], [year |-> 2024, month |-> 12, day |-> 31]}
MCMonths == {[year |-> 2024, month |-> 2], [year |-> 2024, month |-> 12]}
MCPlans == {<<"r", "q">>}
MCAnswers ==
  {{[year |-> 2024, month |-> 2, day |-> 29], [year |-> 2023, month |-> 2, day |-> 28], None},
   {[year |-> 2024, month |-> 12, day |-> 31]}}

MCQueries == {{"r", "q"}, {"q"}}
MCFeeds == {{}, {"r", "n"}, {"q"}, {"r", "q"}}

Symmetry == Permutations(Slots) \cup Permutations(FewSlots)
=============================================================================
