-------------------------- MODULE SchemaMigration ---------------------------
(***************************************************************************)
(* Bringing the storage of an older version up to the present one, before  *)
(* anything is read from it (src/runtime/env.rs): each version is reached  *)
(* by a write of what changes and then a write of the version.  Either may *)
(* fail, and the app may be closed after any of them and begin again.      *)
(*                                                                         *)
(* Settings are a function from names to values: "user" is a value that is *)
(* kept as it is.  interface_language and streaming_server_url stand for   *)
(* the thirteen settings the second version renames and keeps.             *)
(***************************************************************************)
EXTENDS Naturals

CONSTANTS
  None,     \* an empty slot
  Broken    \* a profile without an object of settings

SCHEMA_VERSION == 21

\* The versions whose migration begins with what is there: done half, it finds that gone.
Unrepeatable == {1, 2, 6}

SlotNames == {"profile", "recent", "library", "streams", "history", "dismissed", "urls"}

VARIABLES
  schema,     \* the slot of the version, 0 when it is empty
  storage,    \* the other slots
  at,         \* what the migration does next
  to,         \* the version it brings about
  began,      \* history: the version and the slots before the first migration
  torn        \* history: the versions it stopped half-way to, of those it cannot go to twice

migrationVars == <<schema, storage, at, to, began, torn>>

Phases == {"off", "wipe", "data", "version", "done", "failed"}

Null == "null"
True == "true"
False == "false"

\* Settings as version 1 wrote them, by whether videos open in another player.
OldSettings(external) ==
  [interface_language |-> "user", streaming_server_url |-> "user",
   play_in_external_player |-> IF external THEN True ELSE False]

Renamed ==
  [interface_language |-> "interfaceLanguage", streaming_server_url |-> "streamingServerUrl",
   play_in_external_player |-> "playInExternalPlayer"]

\* The settings a struct Settings is not read without; interfaceLanguage and
\* streamingServerUrl stand for those that version 2 renames.
Required ==
  {"interfaceLanguage", "streamingServerUrl", "seekTimeDuration", "audioPassthrough",
   "nextVideoNotificationDuration", "frameRateMatchingStrategy", "seekShortTimeDuration",
   "escExitFullscreen", "pauseOnMinimize", "surroundSound", "subtitlesOpacity", "serverInForeground",
   "sendCrashReports", "quitOnClose", "hideSpoilers", "gamepadSupport", "assSubtitlesStyling"}

Without(settings, names) == [n \in DOMAIN settings \ names |-> settings[n]]

\* Settings with some of them inserted anew.
Inserted(new, settings) ==
  [n \in DOMAIN new \cup DOMAIN settings |-> IF n \in DOMAIN new THEN new[n] ELSE settings[n]]

\* Changed: the setting of version 19 is forgotten.
Added_NoGamepad(version, settings) ==
  CASE version = 3 -> [streamingServerWarningDismissed |-> Null]
    [] version = 4 -> [seekTimeDuration |-> 20000]
    [] version = 5 -> [audioLanguage |-> "eng", audioPassthrough |-> False]
    [] version = 6 -> [playerType |-> "external", autoFrameRateMatching |-> False,
                       nextVideoNotificationDuration |-> 35000]
    [] version = 7 -> [frameRateMatchingStrategy |-> "FrameRateOnly"]
    [] version = 9 -> [seekShortTimeDuration |-> 3000, escExitFullscreen |-> True, pauseOnMinimize |-> False]
    [] version = 11 -> [surroundSound |-> False]
    [] version = 14 -> [subtitlesOpacity |-> 100]
    [] version = 16 -> [serverInForeground |-> False, sendCrashReports |-> True]
    [] version = 17 -> [quitOnClose |-> True]
    [] version = 18 -> [hideSpoilers |-> False]
    [] version = 20 -> [videoMode |-> Null]
    [] version = 21 -> [assSubtitlesStyling |-> False]
    [] OTHER -> <<>>

\* What the migration to a version inserts.
Added(version, settings) ==
  CASE version = 3 -> [streamingServerWarningDismissed |-> Null]
    [] version = 4 -> [seekTimeDuration |-> 20000]
    [] version = 5 -> [audioLanguage |-> "eng", audioPassthrough |-> False]
    [] version = 6 ->
         LET external == "playInExternalPlayer" \in DOMAIN settings /\ settings["playInExternalPlayer"] = True IN
         [playerType |-> IF external THEN "external" ELSE Null, autoFrameRateMatching |-> False,
          nextVideoNotificationDuration |-> 35000]
    [] version = 7 -> [frameRateMatchingStrategy |-> "FrameRateOnly"]
    [] version = 9 -> [seekShortTimeDuration |-> 3000, escExitFullscreen |-> True, pauseOnMinimize |-> False]
    [] version = 11 -> [surroundSound |-> False]
    [] version = 14 -> [subtitlesOpacity |-> 100]
    [] version = 16 -> [serverInForeground |-> False, sendCrashReports |-> True]
    [] version = 17 -> [quitOnClose |-> True]
    [] version = 18 -> [hideSpoilers |-> False]
    [] version = 19 -> [gamepadSupport |-> False]
    [] version = 20 -> [videoMode |-> Null]
    [] version = 21 -> [assSubtitlesStyling |-> False]
    [] OTHER -> <<>>

Removed(version) ==
  CASE version = 6 -> {"playInExternalPlayer"} [] version = 7 -> {"autoFrameRateMatching"} [] OTHER -> {}

\* The profile after a migration that rewrites it; one it cannot read is dropped.
\* Version 2 takes the settings only with all their old names, and version 13
\* changes the profile but not its settings.
Migrated(version, profile) ==
  IF profile \in {None, Broken} THEN (IF version = 13 THEN profile ELSE None)
  ELSE IF version = 2
    THEN IF DOMAIN Renamed \subseteq DOMAIN profile
           THEN Inserted([n \in {Renamed[o] : o \in DOMAIN Renamed} |->
                            profile[CHOOSE o \in DOMAIN Renamed : Renamed[o] = n]],
                         Without(profile, DOMAIN Renamed))
           ELSE None
    ELSE Inserted(Added(version, profile), Without(profile, Removed(version)))

\* The settings of a profile that some version wrote.
SettingsOf(version) ==
  IF version < 2 THEN DOMAIN Renamed
  ELSE {"interfaceLanguage", "streamingServerUrl"}
    \cup (IF version >= 3 THEN {"streamingServerWarningDismissed"} ELSE {})
    \cup (IF version >= 4 THEN {"seekTimeDuration"} ELSE {})
    \cup (IF version >= 5 THEN {"audioLanguage", "audioPassthrough"} ELSE {})
    \cup (IF version >= 6 THEN {"playerType", "nextVideoNotificationDuration"} ELSE {"playInExternalPlayer"})
    \cup (IF version = 6 THEN {"autoFrameRateMatching"} ELSE {})
    \cup (IF version >= 7 THEN {"frameRateMatchingStrategy"} ELSE {})
    \cup (IF version >= 9 THEN {"seekShortTimeDuration", "escExitFullscreen", "pauseOnMinimize"} ELSE {})
    \cup (IF version >= 11 THEN {"surroundSound"} ELSE {})
    \cup (IF version >= 14 THEN {"subtitlesOpacity"} ELSE {})
    \cup (IF version >= 16 THEN {"serverInForeground", "sendCrashReports"} ELSE {})
    \cup (IF version >= 17 THEN {"quitOnClose"} ELSE {})
    \cup (IF version >= 18 THEN {"hideSpoilers"} ELSE {})
    \cup (IF version >= 19 THEN {"gamepadSupport"} ELSE {})
    \cup (IF version >= 20 THEN {"videoMode"} ELSE {})
    \cup (IF version >= 21 THEN {"assSubtitlesStyling"} ELSE {})

\* The values that settings have.
Value == {"user", Null, True, False, "eng", "external", "FrameRateOnly"} \cup Nat

\* The profile that is broken is none of those.
ProfilesAssumption ==
  None # Broken /\ \A version \in 0 .. SCHEMA_VERSION : {None, Broken} \cap [SettingsOf(version) -> Value] = {}

\* The slot each of the other migrations empties.
Emptied(version) ==
  CASE version = 8 -> {"streams"} [] version = 10 -> {"history"} [] version = 12 -> {"dismissed"}
    [] version = 15 -> {"urls"} [] OTHER -> {}

After(version, slots) ==
  IF Emptied(version) # {} THEN [s \in SlotNames |-> IF s \in Emptied(version) THEN None ELSE slots[s]]
  ELSE [slots EXCEPT !["profile"] = Migrated(version, @)]

\* The slots after all migrations from a version to another, none interrupted.
Uninterrupted[version \in 0 .. SCHEMA_VERSION] ==
  IF version <= began.schema THEN began.slots
  ELSE IF version = 1 THEN [s \in SlotNames |-> IF s \in {"profile", "recent", "library"} THEN None ELSE began.slots[s]]
  ELSE After(version, Uninterrupted[version - 1])
-----------------------------------------------------------------------------
\* Changed: a version of the future is not refused.
Begin_AnyVersion ==
  /\ at = "off"
  /\ IF schema = SCHEMA_VERSION THEN at' = "done" /\ UNCHANGED to
     ELSE to' = schema + 1 /\ at' = IF schema = 0 THEN "wipe" ELSE "data"
  /\ UNCHANGED <<schema, storage, began, torn>>

\* migrate_storage_schema, begun with the version that is stored.
Begin ==
  /\ at = "off"
  /\ IF schema > SCHEMA_VERSION THEN at' = "failed" /\ UNCHANGED to
     ELSE IF schema = SCHEMA_VERSION THEN at' = "done" /\ UNCHANGED to
     ELSE to' = schema + 1 /\ at' = IF schema = 0 THEN "wipe" ELSE "data"
  /\ UNCHANGED <<schema, storage, began, torn>>

Wiped == \A s \in {"profile", "recent", "library"} : storage[s] = None

\* migrate_storage_schema_to_v1: its four writes are made together, in any order.
Wipe(slot) ==
  /\ at = "wipe"
  /\ \/ storage[slot] # None /\ storage' = [storage EXCEPT ![slot] = None] /\ UNCHANGED schema
     \/ schema = 0 /\ schema' = 1 /\ UNCHANGED storage
  /\ UNCHANGED <<at, to, began, torn>>

WipeEnds ==
  /\ at = "wipe" /\ schema = 1 /\ Wiped
  /\ at' = "data" /\ to' = 2
  /\ UNCHANGED <<schema, storage, began, torn>>

\* The first write of migrate_storage_schema_to_v2 and of those after it.
WriteData ==
  /\ at = "data"
  /\ storage' = After(to, storage)
  /\ at' = "version"
  /\ UNCHANGED <<schema, to, began, torn>>

\* Their second write.
WriteVersion ==
  /\ at = "version"
  /\ schema' = to
  /\ IF to = SCHEMA_VERSION THEN at' = "done" /\ UNCHANGED to ELSE at' = "data" /\ to' = to + 1
  /\ UNCHANGED <<storage, began, torn>>

\* A write fails, which ends the migration, or the app is closed.
Stop ==
  /\ at \notin {"off", "failed"}
  /\ at' \in IF at = "done" THEN {"off"} ELSE {"off", "failed"}
  /\ torn' = torn \cup IF at \in {"version", "wipe"} THEN {to} \cap Unrepeatable ELSE {}
  /\ UNCHANGED <<schema, storage, to, began>>

\* The app is opened anew after an error.
Reopen == at = "failed" /\ schema <= SCHEMA_VERSION /\ at' = "off" /\ UNCHANGED <<schema, storage, to, began, torn>>

\* Storage of some version: a profile it wrote, that none could read, or none.
Init ==
  /\ schema \in {0, 1, SCHEMA_VERSION + 1}
  /\ \E profile \in {None, Broken} \cup {OldSettings(e) : e \in BOOLEAN} :
       storage = [s \in SlotNames |-> IF s = "profile" THEN profile ELSE "old"]
  /\ at = "off" /\ to = 0 /\ torn = {}
  /\ began = [schema |-> schema, slots |-> storage]

Next ==
  \/ Begin \/ WipeEnds \/ WriteData \/ WriteVersion \/ Stop \/ Reopen
  \/ \E slot \in {"profile", "recent", "library"} : Wipe(slot)

Spec == Init /\ [][Next]_migrationVars

TypeOK ==
  /\ schema \in 0 .. SCHEMA_VERSION + 1 /\ to \in 0 .. SCHEMA_VERSION
  /\ DOMAIN storage = SlotNames /\ at \in Phases /\ torn \subseteq Unrepeatable
-----------------------------------------------------------------------------
\* A profile that came through the migration holds every setting that the present
\* version will not read a profile without (settings.rs:8), so that the app starts.
MigratedIsRead == at = "done" /\ storage["profile"] # None => Required \subseteq DOMAIN storage["profile"]

\* However often the migration is stopped and begun again, it ends with what one
\* that is not stopped ends with; unless it
\* was stopped half-way to version 1, 2 or 6.
StoppingChangesNothing == at = "done" /\ torn = {} => storage = Uninterrupted[SCHEMA_VERSION]
=============================================================================
