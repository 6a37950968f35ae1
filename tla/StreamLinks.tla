----------------------------- MODULE StreamLinks -----------------------------
(***************************************************************************)
(* Streams on their way to a player (types/resource/stream.rs): what the   *)
(* player makes of a stream with the streaming server there is, the links  *)
(* that carry a stream, a video or a title (deep_links), and what opens    *)
(* when such a link is followed.  The interface shows links and follows    *)
(* them later, when the server may be another or gone.                     *)
(***************************************************************************)
EXTENDS Naturals, Sequences, SequencesExt

CONSTANTS
  None, Failed,
  Servers,     \* urls of streaming servers
  Streams,     \* streams of the add-ons: [kind, url, proxy]
  Videos,      \* videos: [id, youtube, streams]
  Titles,      \* titles and library items: [default, video, watching]
  PlayerTypes, \* external players
  MaxHops      \* bound: services that a url shown goes through

VARIABLES
  streaming_server_url,  \* of the settings of the profile
  base_url,              \* of the model of the streaming server: whether it answers
  links,                 \* what the interface shows: links it has taken, and of what
  selected,              \* the stream loaded in the player
  stream                 \* what the player has converted it to

linkVars == <<streaming_server_url, base_url, links, selected, stream>>

\* A url is where the content is, and the services of streaming servers it goes
\* through on its way, the last one being the one that is asked.
Origin(scheme) == [scheme |-> scheme, hops |-> <<>>]
Via(server, service, url) == [url EXCEPT !.hops = Append(@, <<server, service>>)]
Scheme(url) == IF url.hops = <<>> THEN url.scheme ELSE "http"

Archives == {"rar", "zip", "zip7", "tgz", "tar"}
Services == Archives \cup {"nzb", "torrent", "youtube", "ftp", "proxy"}
Schemes == {"http", "ftp", "magnet", "torrent", "youtube"}
Url == [scheme : Schemes, hops : Seq(Servers \X Services)]

\* Changed: a torrent is recognised before a url, so that a converted one is converted again.
Kinds_TorrentFirst ==
  <<"torrent", "url", "youtube", "rar", "zip", "zip7", "tgz", "tar", "nzb", "frame", "external">>

\* The variants of a source in the order in which they are tried, and the key that
\* tells each; an external source has any of its keys.
Kinds ==
  <<"url", "youtube", "rar", "zip", "zip7", "tgz", "tar", "nzb", "torrent", "frame", "external">>
KeyOf ==
  [url |-> "url", youtube |-> "ytId", rar |-> "rarUrls", zip |-> "zipUrls", zip7 |-> "7zipUrls",
   tgz |-> "tgzUrls", tar |-> "tarUrls", nzb |-> "nzbUrl", torrent |-> "infoHash",
   frame |-> "playerFrameUrl", external |-> "externalUrl"]

\* A stream, what has its url besides its own key once it is converted, and the
\* urls of it; only archives and external sources may be without a url.  Posts are
\* those of newsgroups that name a server to have them from.
Option(values) == values \cup {None}
Source ==
  {s \in [kind : ToSet(Kinds), url : Option(Url), proxy : BOOLEAN] :
     s.url = None => s.kind \in Archives \cup {"external"}}
Served == [kind : {"youtube", "torrent"}, url : Url, proxy : BOOLEAN, played : Url]
Urls == [streaming : Option(Url), download : Option(Url), magnet : Option(Url)]
FromAddon == {s \in Source : s.url # None => s.url.hops = <<>>}

StreamsAssumption ==
  /\ Streams \subseteq FromAddon
  /\ \A v \in Videos : v.id # None /\ v.youtube \in BOOLEAN /\ v.streams \in Seq(FromAddon)
  /\ \A title \in Titles : title.default \in Option(Videos) /\ title.video \in Option(Videos)
MarksAssumption ==
  /\ None \notin Servers \cup {"title", Failed}
  /\ \A mark \in {None, Failed} :
       mark \notin Url \cup Source \cup Served
       /\ mark \notin [source : Source \cup Served, urls : Urls]

\* What is encoded in a link: the keys of the source with their values.  A converted
\* torrent or YouTube video has the url it is played from besides its own key.
Encode(s) ==
  LET own == KeyOf[s.kind]
      played == IF s.kind \in {"youtube", "torrent"} /\ "played" \in DOMAIN s THEN {"url"} ELSE {}
  IN [keys |-> [k \in {own} \cup played |-> IF k = own THEN s.url ELSE s.played], proxy |-> s.proxy]

\* The first variant whose key is there; the rest is ignored.
Decode(json) ==
  LET there == {i \in DOMAIN Kinds : KeyOf[Kinds[i]] \in DOMAIN json.keys}
      kind == Kinds[CHOOSE i \in there : \A j \in there : i <= j]
  IN [kind |-> kind, url |-> json.keys[KeyOf[kind]], proxy |-> json.proxy]

Youtube(video) == [kind |-> "youtube", url |-> Origin("youtube"), proxy |-> FALSE]

VideoStream(video) ==
  IF Len(video.streams) = 1 THEN video.streams[1]
  ELSE IF video.streams = <<>> /\ video.youtube THEN Youtube(video) ELSE None
-----------------------------------------------------------------------------
\* FTP goes through the server, and nowhere without one.
FtpUrl(server, url) ==
  IF Scheme(url) # "ftp" THEN url ELSE IF server = None THEN Failed ELSE Via(server, "ftp", url)

\* An archive or a newsgroup post is unpacked by the server; without a url it is an error.
ConvertPacked(s, server) ==
  IF server = None \/ s.url = None THEN Failed
  ELSE [kind |-> "url", url |-> Via(server, s.kind, FtpUrl(server, s.url)), proxy |-> s.proxy]

\* With headers to send or to set, the server is asked instead, if there is one.
ConvertUrl(s, server) ==
  LET url == FtpUrl(server, s.url) IN
  IF url = Failed THEN Failed
  ELSE [kind |-> "url", proxy |-> s.proxy,
        url |-> IF s.proxy /\ server # None THEN Via(server, "proxy", url) ELSE url]

\* A torrent or a YouTube video keeps what it is, besides where the server plays it.
ConvertServed(s, server) ==
  IF server = None THEN Failed
  ELSE [kind |-> s.kind, url |-> s.url, proxy |-> s.proxy, played |-> Via(server, s.kind, s.url)]

Convert(s, server) ==
  CASE s.kind \in Archives \cup {"nzb"} -> ConvertPacked(s, server)
    [] s.kind = "url" -> IF Scheme(s.url) = "magnet" THEN s ELSE ConvertUrl(s, server)
    [] s.kind \in {"youtube", "torrent"} -> ConvertServed(s, server)
    [] s.kind \in {"frame", "external"} -> s

\* The urls of a converted stream: where it is played from, if a player can, ...
StreamingUrl(c) ==
  CASE c.kind = "url" -> IF Scheme(c.url) = "magnet" THEN None ELSE c.url
    [] c.kind \in {"youtube", "torrent"} -> c.played
    [] c.kind \in {"frame", "external"} -> None

\* ... where it can be had from, ...
DownloadUrl(c, server) ==
  CASE c.kind = "torrent" -> IF server = None THEN None ELSE c.played
    [] c.kind \in {"url", "youtube", "frame", "external"} -> c.url

\* ... and its magnet link.
MagnetUrl(c) ==
  IF c.kind = "torrent" \/ (c.kind = "url" /\ Scheme(c.url) = "magnet")
  THEN [c.url EXCEPT !.scheme = "magnet"] ELSE None

UrlsOf(c, server) ==
  [streaming |-> StreamingUrl(c), download |-> DownloadUrl(c, server), magnet |-> MagnetUrl(c)]

\* What the external player chosen opens, on which platforms.
Platforms ==
  [choose |-> {"android"}, vlc |-> {"ios", "visionos", "android"}, mxplayer |-> {"android"},
   justplayer |-> {"android"}, outplayer |-> {"ios", "visionos"}, infuse |-> {"ios"},
   iina |-> {"macos"}, mpv |-> {"macos"}, moonplayer |-> {"visionos"},
   m3u |-> {"linux", "windows", "macos", "android", "ios"}]
OpenPlayer(url, type) ==
  IF url = None \/ type \notin DOMAIN Platforms THEN None
  ELSE [platforms |-> Platforms[type], url |-> url]

\* The links for players outside, of a stream that is converted already or not; and
\* the server they were made with, which is kept to speak of it.
ConvertedPlayerLink(c, server, type) ==
  LET urls == UrlsOf(c, server) IN
  [server |-> server, streaming |-> urls.streaming, download |-> urls.download,
   open |-> OpenPlayer(urls.streaming, type),
   web |-> IF c.kind = "external" THEN c.url ELSE None]
NoPlayerLink(server) ==
  [server |-> server, streaming |-> None, download |-> None, open |-> None, web |-> None]

\* The server is that of the settings, if the model of the server has one at all.
ServerOfLinks == IF base_url = None THEN None ELSE streaming_server_url
ExternalPlayerLink(s, type) ==
  LET c == Convert(s, ServerOfLinks) IN
  IF c = Failed THEN NoPlayerLink(ServerOfLinks) ELSE ConvertedPlayerLink(c, ServerOfLinks, type)
-----------------------------------------------------------------------------
\* Links of a stream: the player's, for the stream as it is encoded, and those outside.
StreamLinks(s, type) ==
  [of |-> "stream", what |-> s, page |-> None, streams |-> None, player |-> Encode(s),
   video |-> None, external |-> ExternalPlayerLink(s, type)]

\* Links of the stream that the player plays, which is converted.
PlayedLinks(type) ==
  [of |-> "played", what |-> stream.source, page |-> None, streams |-> None,
   player |-> Encode(stream.source), video |-> None,
   external |-> ConvertedPlayerLink(stream.source, base_url, type)]

\* Links of a video, which is played at once when its stream is known.
VideoLinks(v, type) ==
  LET s == VideoStream(v) IN
  [of |-> "video", what |-> s, page |-> "title", streams |-> v.id,
   player |-> IF s = None THEN None ELSE Encode(s), video |-> v.id,
   external |-> IF s = None THEN None ELSE ExternalPlayerLink(s, type)]

\* A title with a default video has no page of videos: its streams are shown at once.
PageOf(title) == IF title.default = None THEN "title" ELSE None

\* Links of a title: played at once if its default video is one of YouTube.
MetaItemLinks(title) ==
  LET v == title.default
      s == IF v # None /\ v.youtube THEN Youtube(v) ELSE None
  IN [of |-> "title", what |-> s, page |-> PageOf(title),
      streams |-> IF v = None THEN None ELSE v.id,
      player |-> IF s = None THEN None ELSE Encode(s),
      video |-> IF v = None THEN None ELSE v.id, external |-> None]

\* Links of a library item: the streams of the video being watched, and the stream
\* that was last played of the video it was left at, if the streams bucket has one.
LibraryItemLinks(title, last, type) ==
  [of |-> "item", what |-> last, page |-> PageOf(title),
   streams |-> IF title.watching /\ title.video # None THEN title.video.id
               ELSE IF title.default = None THEN None ELSE title.default.id,
   player |-> IF last = None THEN None ELSE Encode(last),
   video |-> IF last = None THEN None ELSE title.video.id, watching |-> title.watching,
   external |-> IF last = None THEN None ELSE ExternalPlayerLink(last, type)]
-----------------------------------------------------------------------------
\* The interface reads a view: the links it shows are made with the server of now.
Show(shown) == links' = shown /\ UNCHANGED <<streaming_server_url, base_url, selected, stream>>

ShowStream == \E s \in Streams, type \in PlayerTypes : Show(StreamLinks(s, type))
ShowVideo == \E v \in Videos, type \in PlayerTypes : Show(VideoLinks(v, type))
ShowTitle == \E title \in Titles : Show(MetaItemLinks(title))
ShowItem ==
  \E title \in Titles, type \in PlayerTypes, last \in Streams \cup {None} :
    (title.video = None => last = None) /\ Show(LibraryItemLinks(title, last, type))
ShowPlayed ==
  /\ stream \notin {None, Failed}
  /\ stream.urls.streaming # None => Len(stream.urls.streaming.hops) <= MaxHops
  /\ \E type \in PlayerTypes : Show(PlayedLinks(type))

\* A link is followed: the player loads the stream in it, and converts it with the
\* server of the settings, whether that answers or not.
OpenPlayerLink ==
  /\ links # None /\ links.player # None
  /\ selected' = Decode(links.player)
  /\ LET c == Convert(selected', streaming_server_url) IN
     stream' = IF c = Failed THEN Failed
               ELSE [source |-> c, urls |-> UrlsOf(c, streaming_server_url)]
  /\ UNCHANGED <<streaming_server_url, base_url, links>>

Unload ==
  /\ selected # None
  /\ selected' = None /\ stream' = None
  /\ UNCHANGED <<streaming_server_url, base_url, links>>

\* The settings are changed: the model of the server forgets the one it had.
ServerChanged ==
  /\ \E url \in Servers \ {streaming_server_url} : streaming_server_url' = url
  /\ base_url' = None
  /\ UNCHANGED <<links, selected, stream>>

\* The server answers, or stops to.
ServerAnswered ==
  /\ base_url' = IF base_url = None THEN streaming_server_url ELSE None
  /\ UNCHANGED <<streaming_server_url, links, selected, stream>>

Init ==
  /\ streaming_server_url \in Servers /\ base_url = None
  /\ links = None /\ selected = None /\ stream = None

Next ==
  \/ ShowStream \/ ShowVideo \/ ShowTitle \/ ShowItem \/ ShowPlayed
  \/ OpenPlayerLink \/ Unload \/ ServerChanged \/ ServerAnswered

Spec == Init /\ [][Next]_linkVars
-----------------------------------------------------------------------------
TypeOK ==
  /\ streaming_server_url \in Servers /\ base_url \in Servers \cup {None}
  /\ selected # None => selected.kind \in ToSet(Kinds)
  /\ (stream = None) <=> (selected = None)

Shown == links # None /\ links.of # "played" /\ links.what # None

\* A link that is followed plays the stream it was shown for, of whatever variant: none
\* is taken for another that comes before it (stream.rs:756).
LinkKeepsStream == Shown => Decode(links.player) = links.what

\* The links for players outside that are shown while the server does not answer send
\* nobody to it; and a stream that needs no server has one (mod.rs:92).
NeedsServer(s) ==
  \/ s.kind \in Archives \cup {"nzb", "torrent", "youtube"}
  \/ s.kind = "url" /\ s.url.scheme = "ftp"
OfflineLinksWork ==
  Shown /\ links.external # None /\ links.external.server = None
    => LET urls == {links.external.streaming, links.external.download, links.external.web} \ {None}
       IN /\ \A url \in urls : url.hops = <<>>
          /\ urls = {} => NeedsServer(links.what) \/ links.what.url = None

\* What the player itself shows a link for plays the same again, unless headers go with
\* it, which are then added twice (serialize_player.rs:146).
PlayedAgainIsTheSame ==
  links # None /\ links.of = "played" /\ ~links.what.proxy /\ selected = Decode(links.player)
    => stream.urls.streaming = links.external.streaming

\* Whatever is shown of a title leads somewhere, to its videos or at once to streams;
\* and the two links of a library item being watched go to the same video (mod.rs:336).
TitleLeadsSomewhere ==
  /\ links # None /\ links.of \in {"title", "item"} => links.page # None \/ links.streams # None
  /\ links # None /\ links.of = "item" /\ links.player # None /\ links.watching
       => links.streams = links.video
=============================================================================
