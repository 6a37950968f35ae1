--------------------------- MODULE AddonTransport ---------------------------
(***************************************************************************)
(* How an add-on is asked for its manifest and its resources, and what is  *)
(* made of what it says (src/addon_transport, types/addon/response.rs,     *)
(* types/resource/meta_item.rs).  Its url tells the protocol: add-ons of   *)
(* the present one are asked by path, those of the legacy one by JSON-RPC, *)
(* which has other names for everything.  A behaviour is of one add-on.    *)
(*                                                                         *)
(* An id is [prefix, parts]: it is made of parts joined by colons, and     *)
(* begins with a prefix that manifests may have.  Urls, encodings and the  *)
(* JSON are left out: what they keep apart stays apart.                    *)
(***************************************************************************)
EXTENDS AddonRequests

CONSTANTS
  None, Failed,
  Descriptors,   \* add-ons: [url, scheme, path, says], says being their manifest
  Paths,         \* what they are asked for: [resource, type, id, extra]
  Numerals,      \* parts of ids and extra values that are numbers: [text -> number]
  Bodies,        \* responses of the present protocol: [key -> [form, items]]
  Replies,       \* ... and of the legacy one: [key -> [form, items]]
  MaxPaths       \* bound: resources asked for

VARIABLES
  addon,      \* the add-on
  manifest,   \* its manifest, as the profile has it
  requests,   \* [path -> what was sent for it]
  contents,   \* [path -> what became of the response]
  responses   \* history: the responses there were

transportVars == <<addon, manifest, requests, contents, responses>>

U16 == 2 ^ 16

Null == <<>>        \* of JSON
NoRequest == <<>>   \* an error, before anything is sent

\* Changed: the number is cut to eight bits.
Parsed_Narrow(text) ==
  IF text \in DOMAIN Numerals THEN Numerals[text] % (2 ^ 8) ELSE 1

\* parse::<u16>().unwrap_or(1)
Parsed(text) ==
  IF text \in DOMAIN Numerals /\ Numerals[text] < U16 THEN Numerals[text] ELSE 1

Put(f, x, value) == [y \in DOMAIN f \cup {x} |-> IF y = x THEN value ELSE f[y]]

FirstValue(extra, name) ==
  LET own == SelectSeq(extra, LAMBDA value : value.name = name)
  IN IF own = <<>> THEN None ELSE own[1].value

Legacy == addon.path = "legacy"
-----------------------------------------------------------------------------
\* query_from_id: IMDb, YouTube and other ids, each with the video if it has one.
QueryFromId(id) ==
  LET parts == id.parts IN
  CASE id.prefix = "tt" /\ Len(parts) = 3 ->
         [imdb_id |-> parts[1], season |-> Parsed(parts[2]), episode |-> Parsed(parts[3])]
    [] id.prefix = "tt" /\ Len(parts) # 3 -> [imdb_id |-> parts[1]]
    [] id.prefix = "UC" /\ Len(parts) = 2 -> [yt_id |-> parts[1], video_id |-> parts[2]]
    [] id.prefix = "UC" /\ Len(parts) # 2 -> [yt_id |-> parts[1]]
    [] id.prefix \notin {"tt", "UC"} /\ Len(parts) = 3 ->
         [field \in {parts[1], "video_id"} |-> IF field = "video_id" THEN parts[3] ELSE parts[2]]
    [] id.prefix \notin {"tt", "UC"} /\ Len(parts) = 2 -> [field \in {parts[1]} |-> parts[2]]
    [] OTHER -> Null

\* The extra values of a request for subtitles that say something of the file.
FileQuery(extra) ==
  LET told == {name \in {"videoHash", "videoSize", "videoFilename"} :
                 /\ FirstValue(extra, name) # None
                 /\ name = "videoSize" => FirstValue(extra, name) \in DOMAIN Numerals}
  IN [name \in told |-> FirstValue(extra, name)]

\* build_legacy_req
Find(path) ==
  LET genre == FirstValue(path.extra, "genre")
      skip == FirstValue(path.extra, "skip")
  IN [method |-> "meta.find",
      query |-> IF genre = None THEN [type |-> path.type] ELSE [type |-> path.type, genre |-> genre],
      sort |-> IF path.id.parts = <<"top">> THEN Null ELSE path.id.parts,
      skip |-> IF skip \in DOMAIN Numerals THEN Numerals[skip] ELSE 0]

LegacyRequest(path) ==
  CASE path.resource = "catalog" -> Find(path)
    [] path.resource = "meta" -> [method |-> "meta.get", query |-> QueryFromId(path.id)]
    [] path.resource = "stream" ->
         IF QueryFromId(path.id) = Null THEN NoRequest
         ELSE [method |-> "stream.find", query |-> Put(QueryFromId(path.id), "type", path.type)]
    [] path.resource = "subtitles" ->
         [method |-> "subtitles.find", query |-> Put(FileQuery(path.extra), "itemHash", path.id.parts)]
    [] OTHER -> NoRequest

\* AddonHTTPTransport::resource: a path of its own for each request.
HttpRequest(path) ==
  LET named == <<path.resource, path.type, path.id.parts>>
  IN IF path.extra = <<>> THEN named ELSE Append(named, path.extra)

\* AddonTransport::resource, before anything is sent.
Asking(path) ==
  IF addon.scheme # "http" THEN NoRequest
  ELSE IF Legacy THEN LegacyRequest(path)
  ELSE IF addon.path = "manifest" THEN HttpRequest(path)
  ELSE NoRequest
-----------------------------------------------------------------------------
\* LegacyManifest into Manifest.  [methods, types, id_property, sorts]: the last two
\* may be missing, and so may the types of a sort.
PrefixOf(property) ==
  CASE property = "imdb_id" -> "tt"
    [] property = "yt_id" -> "UC"
    [] OTHER -> property \o ":"

Top == [prefix |-> "", parts |-> <<"top">>]
Catalog(id, type) == [id |-> id, type |-> type, extra |-> <<>>]

LegacyCatalogs(m) ==
  IF "meta.find" \notin m.methods THEN <<>>
  ELSE IF m.sorts = None THEN [i \in DOMAIN m.types |-> Catalog(Top, m.types[i])]
  ELSE FlatMap(m.sorts, LAMBDA sort :
         LET types == IF sort.types = None THEN m.types ELSE sort.types
         IN [i \in DOMAIN types |-> Catalog(sort.id, types[i])])

Short(name) == [name |-> name, full |-> FALSE]

\* Changed: the methods are not looked at.
FromLegacy_AllMethods(m) ==
  [url |-> addon.url, types |-> ToSet(m.types),
   resources |-> <<Short("meta"), Short("stream"), Short("subtitles")>>,
   prefixes |-> IF m.id_property = None THEN {} ELSE {PrefixOf(p) : p \in m.id_property},
   catalogs |-> LegacyCatalogs(m)]

FromLegacy(m) ==
  [url |-> addon.url, types |-> ToSet(m.types),
   resources |->
     (IF "meta.get" \in m.methods THEN <<Short("meta")>> ELSE <<>>) \o
     (IF "stream.find" \in m.methods THEN <<Short("stream")>> ELSE <<>>) \o
     (IF "subtitles.get" \in m.methods THEN <<Short("subtitles")>> ELSE <<>>),
   prefixes |-> IF m.id_property = None THEN {} ELSE {PrefixOf(p) : p \in m.id_property},
   catalogs |-> LegacyCatalogs(m)]
-----------------------------------------------------------------------------
\* VideoUniqueVecAdapter: of the videos with one id, the first.
UniqueVideos(videos) ==
  LET first == {i \in DOMAIN videos : \A j \in 1 .. i - 1 : videos[j].id # videos[i].id}
  IN Kept(videos, first)

\* VideoSortedVecAdapter: by season and episode, the specials (season 0) last; then
\* the videos that have no season, by date, where only a series begins with the oldest.
Regular(video) == video.season # 0
Earlier(a, b, is_series) ==
  CASE a.season # None /\ b.season # None ->
         IF a.season = b.season THEN a.episode < b.episode
         ELSE Regular(a) /\ (Regular(b) => a.season < b.season)
    [] a.season # None /\ b.season = None -> TRUE
    [] a.season = None /\ b.season # None -> FALSE
    [] a.season = None /\ b.season = None ->
         IF a.released # None /\ b.released # None
           THEN IF is_series THEN a.released < b.released ELSE b.released < a.released
           ELSE a.released # None /\ b.released = None

\* SortedVec: stable.
SortedVideos(videos) ==
  LET is_series == \E i \in DOMAIN videos : videos[i].season # None
      before(j, i) ==
        \/ Earlier(videos[j], videos[i], is_series)
        \/ ~Earlier(videos[i], videos[j], is_series) /\ j < i
      places == DOMAIN videos
      at == Ranked(places, {pair \in places \X places : before(pair[1], pair[2])})
  IN [n \in DOMAIN at |-> videos[at[n]]]

\* MetaItem
MetaItem(videos) == SortedVideos(UniqueVideos(videos))
-----------------------------------------------------------------------------
ContentKeys == {"metas", "metasDetailed", "meta", "streams", "subtitles", "addons"}
Response(key, content) == [key |-> key, content |-> content]
NoResponse == Response(None, <<>>)   \* an error instead

\* Elements that cannot be read are left out of a list.
Readable(items) == Kept(items, {i \in DOMAIN items : items[i] # "bad"})

\* ResourceResponse::deserialize
Deserialized(body) ==
  LET key == CHOOSE k \in ContentKeys : k \in DOMAIN body
      value == body[key]
  IN CASE Cardinality(ContentKeys \cap DOMAIN body) # 1 -> NoResponse
       [] Cardinality(ContentKeys \cap DOMAIN body) = 1 /\ key = "meta" ->
            IF value.form = "meta" THEN Response(key, MetaItem(value.items)) ELSE NoResponse
       [] Cardinality(ContentKeys \cap DOMAIN body) = 1 /\ key # "meta" ->
            CASE value.form = "null" -> Response(key, <<>>)
              [] value.form = "list" -> Response(key, Readable(value.items))
              [] OTHER -> NoResponse

KeyOf(resource) ==
  CASE resource = "catalog" -> "metas" [] resource = "meta" -> "meta"
    [] resource = "stream" -> "streams" [] resource = "subtitles" -> "subtitles"
    [] resource = "addon_catalog" -> "addons"

\* JsonRPCResp and map_response: here one element that cannot be read spoils the list.
Mapped(body, resource) ==
  IF "result" \notin DOMAIN body THEN NoResponse
  ELSE IF resource = "meta"
    THEN IF body["result"].form = "meta" THEN Response("meta", MetaItem(body["result"].items)) ELSE NoResponse
    ELSE IF body["result"].form = "list" /\ "bad" \notin ToSet(body["result"].items)
           THEN Response(KeyOf(resource), body["result"].items) ELSE NoResponse

\* Changed: whatever came is taken.
Content_AnyKey(response, resource) ==
  IF response.content = <<>> /\ resource # "meta" THEN Failed
  ELSE response.content

\* resource_content_from_result and resource_vector_content_from_result: the models
\* take nothing but what they asked for, and no list without elements.
Content(response, resource) ==
  IF response.key # KeyOf(resource) THEN Failed
  ELSE IF response.content = <<>> /\ resource # "meta" THEN Failed
  ELSE response.content
-----------------------------------------------------------------------------
\* AddonTransport::manifest, and its answer, which may be an error.
Manifest ==
  /\ manifest = None
  /\ manifest' \in {IF addon.scheme # "http" THEN Failed
                    ELSE IF Legacy THEN FromLegacy(addon.says) ELSE addon.says, Failed}
  /\ UNCHANGED <<addon, requests, contents, responses>>

\* A model asks for a resource, one that the manifest offers or one a link names.
Resource(path) ==
  /\ path \notin DOMAIN requests /\ Cardinality(DOMAIN requests) < MaxPaths
  /\ requests' = Put(requests, path, Asking(path))
  /\ contents' = Put(contents, path, IF Asking(path) = NoRequest THEN Failed ELSE None)
  /\ UNCHANGED <<addon, manifest, responses>>

\* The response has come, or an error.
Read(body, resource) ==
  IF body = Failed THEN NoResponse ELSE IF Legacy THEN Mapped(body, resource) ELSE Deserialized(body)

ResourceRequestResult(path, body) ==
  /\ contents[path] = None
  /\ contents' = [contents EXCEPT ![path] = Content(Read(body, path.resource), path.resource)]
  /\ responses' = Put(responses, path, body)
  /\ UNCHANGED <<addon, manifest, requests>>

Init ==
  /\ addon \in Descriptors
  /\ manifest = None /\ requests = <<>> /\ contents = <<>> /\ responses = <<>>

Next ==
  \/ Manifest
  \/ \E path \in Paths : Resource(path)
  \/ \E path \in DOMAIN requests, body \in {Failed} \cup (IF Legacy THEN Replies ELSE Bodies) :
       ResourceRequestResult(path, body)

Spec == Init /\ [][Next]_transportVars
-----------------------------------------------------------------------------
\* A path is asked for by what it is made of, and its id is told by its parts; a number
\* is written in one way, and None is none.
Resources == {"catalog", "meta", "stream", "subtitles", "addon_catalog"}
PathsAssumption ==
  /\ \A p \in Paths :
       /\ p = [resource |-> p.resource, type |-> p.type, id |-> p.id, extra |-> p.extra]
       /\ p.resource \in Resources
       /\ p.id.parts \in Seq(ToSet(p.id.parts)) \ {<<>>}
       /\ \A q \in Paths : q.id.parts = p.id.parts => q.id = p.id
  /\ \A a, b \in DOMAIN Numerals : Numerals[a] = Numerals[b] => a = b
  /\ None \notin Int \cup ContentKeys

\* A url ends as those of one protocol, or as none.  The property that a legacy add-on
\* takes ids by is the first part of such an id, and the name of no other field.
PropertiesAssumption ==
  \A d \in Descriptors :
    /\ d.path \in {"manifest", "legacy", "other"}
    /\ d.path = "legacy" /\ d.says.id_property # None =>
         \A property \in d.says.id_property \ {"imdb_id", "yt_id"} :
           /\ PrefixOf(property) \notin {"tt", "UC"} /\ property \notin {"video_id", "type"}
           /\ \A p \in Paths :
                p.id.prefix = PrefixOf(property) => Len(p.id.parts) # 1 /\ p.id.parts[1] = property

\* Responses have lists, and the videos of a title numbers and dates.
Numbered(video) ==
  /\ video.season = None \/ (video.season \in Nat /\ video.episode \in Nat)
  /\ video.released = None \/ video.released \in Int
BodiesAssumption ==
  \A body \in Bodies \cup Replies : \A key \in DOMAIN body :
    LET items == body[key].items IN
    /\ items \in Seq(ToSet(items))
    /\ body[key].form = "meta" => \A video \in ToSet(items) : Numbered(video)

TypeOK ==
  /\ addon \in Descriptors
  /\ DOMAIN requests \subseteq Paths /\ DOMAIN contents = DOMAIN requests
  /\ DOMAIN responses \subseteq DOMAIN requests

Supported(path) == manifest \notin {None, Failed} /\ IsResourceSupported(manifest, path)

\* What a manifest offers can be asked for: its url tells the protocol, and an id that
\* has one of its prefixes says which title is meant under the name the add-on has for
\* it, by a method it has (legacy/mod.rs:161, legacy_manifest.rs:84).  An add-on may
\* have told of subtitles.get, and is asked by subtitles.find all the same.
TitleOf(id) == IF id.prefix \in {"tt", "UC"} THEN id.parts[1] ELSE id.parts[2]
OfferedIsAsked ==
  \A path \in DOMAIN requests :
    Supported(path) /\ addon.path # "other" /\ (Legacy => manifest.prefixes # {} /\ Len(path.id.parts) <= 3) =>
      /\ requests[path] # NoRequest
      /\ Legacy /\ path.resource # "subtitles" => requests[path].method \in addon.says.methods
      /\ Legacy /\ path.resource \in {"meta", "stream"} =>
           \E property \in addon.says.id_property :
             /\ PrefixOf(property) = path.id.prefix
             /\ property \in DOMAIN requests[path].query
             /\ requests[path].query[property] = TitleOf(path.id)

\* Ids of the form their prefix stands for: the title alone, or with a video of it; and
\* no prefix that is the name of another field.
Proper(id) ==
  CASE id.prefix = "tt" ->
         \/ Len(id.parts) = 1
         \/ Len(id.parts) = 3 /\ \A i \in {2, 3} : id.parts[i] \in DOMAIN Numerals /\ Numerals[id.parts[i]] < U16
    [] id.prefix = "UC" -> Len(id.parts) <= 2
    [] OTHER -> Len(id.parts) \in {2, 3} /\ id.parts[1] \notin {"imdb_id", "yt_id", "video_id", "type"}

\* No two things are asked for alike: not two episodes, nor an episode and its series,
\* nor a title's streams and its subtitles (legacy/mod.rs:266).
TellsApart ==
  \A p, q \in DOMAIN requests :
    /\ requests[p] # NoRequest /\ requests[q] # NoRequest
    /\ p # q /\ Legacy => <<p.resource, p.id>> # <<q.resource, q.id>>
    /\ Legacy => \A path \in {p, q} : path.resource \in {"meta", "stream"} => Proper(path.id)
    => p = q \/ requests[p] # requests[q]

\* A model shows what it asked for and nothing else of a response; and all of it, though
\* some elements cannot be read (response.rs:91) or it came with keys nobody knows.
ShowsTheResponse ==
  \A path \in DOMAIN responses :
    LET body == responses[path]
        key == IF Legacy THEN "result" ELSE KeyOf(path.resource)
        listed == body # Failed /\ key \in DOMAIN body /\ path.resource # "meta" /\ body[key].form = "list"
        good == IF listed THEN Readable(body[key].items) ELSE <<>>
    IN path.resource # "meta" =>
         /\ contents[path] # Failed => listed /\ good # <<>> /\ contents[path] = good
         /\ ~Legacy /\ listed /\ good # <<>> => contents[path] = good \/ Cardinality(ContentKeys \cap DOMAIN body) > 1

\* The videos of a title come in an order to watch them in: each once, the seasons one
\* after the other, the specials after them, and what has no season by its date
\* (meta_item.rs:347); episodes of one number stay in the order of the add-on.
VideosInOrder ==
  \A path \in DOMAIN responses :
    path.resource = "meta" /\ contents[path] # Failed =>
      LET videos == contents[path]
          all == responses[path][IF Legacy THEN "result" ELSE "meta"].items
      IN /\ {videos[i].id : i \in DOMAIN videos} = {all[i].id : i \in DOMAIN all}
         /\ \A i, j \in DOMAIN videos : i < j =>
              /\ videos[i].id # videos[j].id
              /\ videos[j].season # None =>
                   /\ videos[i].season # None
                   /\ Regular(videos[j]) => Regular(videos[i]) /\ videos[i].season <= videos[j].season
                   /\ videos[i].season = videos[j].season => videos[i].episode <= videos[j].episode
              /\ videos[j].season = None /\ videos[j].released # None /\ videos[i].season = None =>
                   /\ videos[i].released # None
                   /\ IF \E k \in DOMAIN videos : videos[k].season # None
                        THEN videos[i].released <= videos[j].released
                        ELSE videos[i].released >= videos[j].released
=============================================================================
