-------------------------- MODULE StreamingServer ---------------------------
(***************************************************************************)
(* What is known of the streaming server (src/models/streaming_server.rs): *)
(* its settings, network and device information, the devices it can play   *)
(* on, the torrent being created and the statistics of one, each fetched   *)
(* on its own and answered in any order, while the server's url, its       *)
(* settings and the account change.                                        *)
(*                                                                         *)
(* What a server sends is represented by the server's url: which server it *)
(* came from is what can go wrong.                                         *)
(***************************************************************************)
EXTENDS Loadables, Bags

CONSTANTS
  Urls,        \* streaming server urls
  Infos,       \* network_info and device_info, which are treated alike
  Torrents,    \* info hashes
  Keys,        \* auth keys
  MaxCalls     \* bound: requests under way

UrlsAssumption == Urls \cap {None, Loading, Failed} = {} /\ None \notin Keys \cup Torrents
InfosAssumption == Infos \cap {"settings", "devices", "set", "https", "create", "statistics"} = {}

Settings == [server : Urls, remote_https : BOOLEAN]
Torrent == [hash : Torrents, path : Loadable(Urls)]
Statistics == [server : Urls, of : Torrents]
Call ==
  [kind : {"settings", "devices", "set", "https", "create", "statistics"} \cup Infos,
   url : Urls, of : Torrents \cup {None}]

\* The marks are none of these.
MarksAssumption ==
  \A mark \in {None, Loading, Failed} :
    mark \notin Settings /\ mark \notin Torrent /\ mark \notin Statistics

VARIABLES
  key,                 \* ctx.profile.auth_key()
  url,                 \* selected.transport_url, and that of the profile's settings
  watched,             \* selected.statistics, by the torrent
  settings, base_url, remote_url, playback_devices, torrent, statistics,
  info,                \* network_info, device_info
  calls                \* the requests under way, a bag

serverVars ==
  <<key, url, watched, settings, base_url, remote_url, playback_devices, torrent, statistics, info, calls>>

TypeOK ==
  /\ key \in Option(Keys) /\ url \in Urls /\ watched \in Option(Torrents)
  /\ settings \in Loadable(Settings)
  /\ {base_url, remote_url} \subseteq Option(Urls)
  /\ playback_devices \in Loadable(Urls) /\ info \in [Infos -> Loadable(Urls)]
  /\ torrent \in Option(Torrent)
  /\ statistics \in Option(Loadable(Statistics))
  /\ IsABag(calls) /\ DOMAIN calls \subseteq Call
-----------------------------------------------------------------------------
To(kind, u) == [kind |-> kind, url |-> u, of |-> None]
About(kind, u, t) == [kind |-> kind, url |-> u, of |-> t]

\* get_settings, get_playback_devices, get_network_info, get_device_info
Probes(u) == SetToBag({To(kind, u) : kind \in {"settings", "devices"} \cup Infos})

Send(bag) == calls' = calls (+) bag /\ BagCardinality(calls') <= MaxCalls

AllLoading == settings' = Loading /\ info' = [i \in Infos |-> Loading]

\* update_remote_url: the address is asked for, or there is none.
RemoteUrl(s, more) ==
  IF s.remote_https /\ key # None
    THEN UNCHANGED remote_url /\ Send(SetToBag({To("https", url)}) (+) more)
    ELSE remote_url' = None /\ Send(more)

\* Reload.  The devices stay as they are: if they have failed they stay failed.
Reload ==
  /\ AllLoading /\ base_url' = None /\ remote_url' = None
  /\ Send(Probes(url))
  /\ UNCHANGED <<key, url, watched, playback_devices, torrent, statistics>>

\* UpdateSettings
UpdateSettings(remote_https) ==
  /\ settings \notin {Loading, Failed}
  /\ settings' = [settings EXCEPT !.remote_https = remote_https]
  /\ RemoteUrl(settings', SetToBag({To("set", url)}))
  /\ UNCHANGED <<key, url, watched, base_url, playback_devices, torrent, statistics, info>>

\* CreateTorrent, from a magnet link or a file; None is one that cannot be parsed.
CreateTorrent(t) ==
  /\ IF t = None THEN torrent' = None /\ UNCHANGED calls
     ELSE torrent' = [hash |-> t, path |-> Loading] /\ Send(SetToBag({About("create", url, t)}))
  /\ UNCHANGED <<key, url, watched, settings, base_url, remote_url, playback_devices, statistics, info>>

\* GetStatistics.  That the request is a different one is looked up when it has
\* already been taken, and never found: only the first shows as Loading.
GetStatistics(t) ==
  /\ watched' = t
  /\ statistics' = IF statistics = None THEN Loading ELSE statistics
  /\ Send(SetToBag({About("statistics", url, t)}))
  /\ UNCHANGED <<key, url, settings, base_url, remote_url, playback_devices, torrent, info>>

\* Internal::ProfileChanged, when the url in the settings is another one.
ChangeUrl(u) ==
  /\ u # url
  /\ url' = u /\ watched' = None
  /\ AllLoading
  /\ base_url' = None /\ remote_url' = None /\ torrent' = None /\ statistics' = None
  /\ Send(Probes(u))
  /\ UNCHANGED <<key, playback_devices>>

\* Another account, with the same url.
ChangeAccount(k) ==
  /\ key' = k
  /\ UNCHANGED <<url, watched, settings, base_url, remote_url, playback_devices, torrent, statistics, info, calls>>
-----------------------------------------------------------------------------
Ends(call) == call \in DOMAIN calls /\ calls' = calls (-) SetToBag({call})

\* The error arms of the results for the settings.
Offline ==
  /\ settings' = Failed /\ playback_devices' = Failed /\ info' = [i \in Infos |-> Failed]
  /\ base_url' = None /\ remote_url' = None /\ torrent' = None

\* StreamingServerSettingsResult
SettingsResult(u, ok, remote_https) ==
  LET call == To("settings", u) IN
  /\ call \in DOMAIN calls
  /\ \/ /\ u = url /\ settings = Loading /\ ok
        /\ settings' = [server |-> u, remote_https |-> remote_https]
        /\ base_url' = u
        /\ IF remote_https /\ key # None
             THEN /\ UNCHANGED remote_url
                  /\ calls' = (calls (-) SetToBag({call})) (+) SetToBag({To("https", url)})
             ELSE remote_url' = None /\ Ends(call)
        /\ UNCHANGED <<playback_devices, torrent, info>>
     \/ u = url /\ settings = Loading /\ ~ok /\ Offline /\ Ends(call)
     \/ /\ ~(u = url /\ settings = Loading) /\ Ends(call)
        /\ UNCHANGED <<settings, base_url, remote_url, playback_devices, torrent, info>>
  /\ UNCHANGED <<key, url, watched, statistics>>

\* Changed: an error leaves it Loading.
Taken_OkOnly(value, u, ok) == IF u = url /\ value = Loading /\ ok THEN u ELSE value

\* An answer of this server for what is still Loading.
Taken(value, u, ok) == IF u = url /\ value = Loading THEN (IF ok THEN u ELSE Failed) ELSE value

\* StreamingServerPlaybackDevicesResult
PlaybackDevicesResult(u, ok) ==
  /\ Ends(To("devices", u))
  /\ playback_devices' = Taken(playback_devices, u, ok)
  /\ UNCHANGED <<key, url, watched, settings, base_url, remote_url, torrent, statistics, info>>

\* StreamingServerNetworkInfoResult, StreamingServerDeviceInfoResult
InfoResult(i, u, ok) ==
  /\ Ends(To(i, u))
  /\ info' = [info EXCEPT ![i] = Taken(@, u, ok)]
  /\ UNCHANGED <<key, url, watched, settings, base_url, remote_url, playback_devices, torrent, statistics>>

\* StreamingServerUpdateSettingsResult, whatever the settings are by then.
UpdateSettingsResult(u, ok) ==
  /\ Ends(To("set", u))
  /\ IF u = url /\ ~ok THEN Offline
     ELSE UNCHANGED <<settings, base_url, remote_url, playback_devices, torrent, info>>
  /\ UNCHANGED <<key, url, watched, statistics>>

\* StreamingServerStatisticsResult; "none" is that of an engine that was destroyed.
StatisticsResult(u, t, answer) ==
  /\ Ends(About("statistics", u, t))
  /\ statistics' = IF u # url \/ t # watched \/ answer = "none" THEN statistics
                   ELSE IF answer = "ok" THEN [server |-> u, of |-> t] ELSE Failed
  /\ UNCHANGED <<key, url, watched, settings, base_url, remote_url, playback_devices, torrent, info>>

\* StreamingServerGetHTTPSResult
GetHTTPSResult(u, ok) ==
  /\ Ends(To("https", u))
  /\ remote_url' = IF u = url /\ ok THEN u ELSE remote_url
  /\ UNCHANGED <<key, url, watched, settings, base_url, playback_devices, torrent, statistics, info>>

\* StreamingServerCreateTorrentResult compares the info hash and not the url.
CreateTorrentResult(u, t, ok) ==
  /\ Ends(About("create", u, t))
  /\ torrent' = IF torrent = [hash |-> t, path |-> Loading]
                  THEN [torrent EXCEPT !.path = IF ok THEN u ELSE Failed] ELSE torrent
  /\ UNCHANGED <<key, url, watched, settings, base_url, remote_url, playback_devices, statistics, info>>
-----------------------------------------------------------------------------
\* StreamingServer::new
Init ==
  /\ key \in Option(Keys) /\ url \in Urls /\ watched = None
  /\ settings = Loading /\ playback_devices = Loading /\ info = [i \in Infos |-> Loading]
  /\ base_url = None /\ remote_url = None /\ torrent = None /\ statistics = None
  /\ calls = Probes(url)

Next ==
  \/ Reload
  \/ \E remote_https \in BOOLEAN : UpdateSettings(remote_https)
  \/ \E t \in Option(Torrents) : CreateTorrent(t)
  \/ \E t \in Torrents : GetStatistics(t)
  \/ \E u \in Urls : ChangeUrl(u)
  \/ \E k \in Option(Keys) : ChangeAccount(k)
  \/ \E u \in Urls, ok \in BOOLEAN :
       \/ \E remote_https \in BOOLEAN : SettingsResult(u, ok, remote_https)
       \/ \E i \in Infos : InfoResult(i, u, ok)
       \/ PlaybackDevicesResult(u, ok) \/ UpdateSettingsResult(u, ok) \/ GetHTTPSResult(u, ok)
       \/ \E t \in Torrents : CreateTorrentResult(u, t, ok)
  \/ \E u \in Urls, t \in Torrents, answer \in {"ok", "none", "failed"} : StatisticsResult(u, t, answer)

Spec == Init /\ [][Next]_serverVars
-----------------------------------------------------------------------------
\* What is shown of the server came from the server whose url is selected, however
\* late the one before it answers.  The devices and the torrent are not part of
\* this: their results are not, or not only, compared by url.
ShownIsOfServer ==
  /\ settings \in Settings => settings.server = url
  /\ \A i \in Infos : info[i] \in Urls => info[i] = url
  /\ base_url \in Option({url}) /\ remote_url \in Option({url})
  /\ statistics \in Option({Loading, Failed}) \/ statistics.server = url

\* Settings, devices, what is known of the server and the torrent: when Loading, they
\* will be answered by the server selected, after reloads, changes of the url and
\* answers that are dropped.  Statistics may stay Loading, with no request under way:
\* the answer for an engine that was destroyed is no news (streaming_server.rs:358).
ServerIsAnswered ==
  /\ settings = Loading => To("settings", url) \in DOMAIN calls
  /\ playback_devices = Loading => To("devices", url) \in DOMAIN calls
  /\ \A i \in Infos : info[i] = Loading => To(i, url) \in DOMAIN calls
  /\ torrent # None /\ torrent.path = Loading =>
       \E u \in Urls : About("create", u, torrent.hash) \in DOMAIN calls

\* A server that failed has failed as a whole: no answer that comes afterwards makes
\* one part of it look as if it were there.
OfflineTogether ==
  /\ settings = Failed => playback_devices = Failed /\ \A i \in Infos : info[i] = Failed
  /\ base_url = None <=> settings \in {Loading, Failed}
=============================================================================
