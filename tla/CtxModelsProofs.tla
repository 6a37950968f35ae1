--------------------------- MODULE CtxModelsProofs ---------------------------
(***************************************************************************)
(* Proofs about CtxModels for every value of its constants.                *)
(*                                                                         *)
(* Each part has an inductive invariant of its own, and a step of another  *)
(* part leaves its variables alone.                                        *)
(***************************************************************************)
EXTENDS CtxModels, WellFoundedInduction, FiniteSetTheorems, SequenceTheorems, TLAPS

(* Migration of the storage's schema *)

\* The profile is one that a version wrote, broken at most before version 2, or none.
Fits(profile, version) ==
  \/ profile = None
  \/ version < 2 /\ profile = Broken
  \/ profile \in [Schema!SettingsOf(version) -> Schema!Value]

\* The profile is of the version stored, or of the next when only that is to be written.
ProfileInv ==
  /\ storage = [s \in Schema!SlotNames |-> storage[s]]
  /\ schema \in 0 .. 22 /\ at \in Schema!Phases /\ to \in 0 .. 21 /\ torn \subseteq Schema!Unrepeatable
  /\ at = "data" => schema \in 1 .. 20 /\ to = schema + 1
  /\ at = "version" => schema \in 1 .. 20 /\ to = schema + 1
  /\ at = "wipe" => schema \in {0, 1} /\ to = 1
  /\ at = "done" => schema = 21
  /\ schema = 22 => at \in {"off", "failed"}
  /\ at = "version" => Fits(storage["profile"], to)
  /\ schema < 22 /\ at # "version" =>
       \/ Fits(storage["profile"], schema)
       \/ schema \in 1 .. 20 /\ Fits(storage["profile"], schema + 1)

\* Unless it was stopped half-way to a version it cannot go to twice, the storage is
\* what the migrations before the one under way make of that in the beginning, with or
\* without the slots of this one.
CleanInv ==
  /\ began.schema \in 0 .. schema
  /\ torn = {} =>
       /\ at = "wipe" =>
            /\ began.schema = 0
            /\ \A s \in Schema!SlotNames :
                 storage[s] = began.slots[s] \/ (s \in {"profile", "recent", "library"} /\ storage[s] = None)
       /\ at = "version" => storage = Schema!Uninterrupted[to]
       /\ at \in {"off", "failed", "data", "done"} /\ schema < 22 =>
            \/ storage = Schema!Uninterrupted[schema]
            \/ schema \in 2 .. 20 \ {5} /\ storage = Schema!Uninterrupted[schema + 1]

LEMMA InsertedIs ==
  ASSUME NEW new, NEW settings
  PROVE  /\ DOMAIN Schema!Inserted(new, settings) = DOMAIN new \cup DOMAIN settings
         /\ \A n \in DOMAIN new : Schema!Inserted(new, settings)[n] = new[n]
         /\ \A n \in DOMAIN settings \ DOMAIN new : Schema!Inserted(new, settings)[n] = settings[n]
BY DEF Schema!Inserted

\* What a migration does twice it need not have done once, if it removes nothing of
\* what it inserts.
LEMMA InsertedTwice ==
  ASSUME NEW new, NEW names, DOMAIN new \cap names = {}, NEW profile,
         NEW once, once = Schema!Inserted(new, Schema!Without(profile, names))
  PROVE  Schema!Inserted(new, Schema!Without(once, names)) = once
<1>1. DOMAIN once = DOMAIN new \cup (DOMAIN profile \ names)
  BY DEF Schema!Inserted, Schema!Without
<1>2. DOMAIN Schema!Without(once, names) = DOMAIN new \cup (DOMAIN profile \ names)
  BY <1>1 DEF Schema!Without
<1>3. \A n \in DOMAIN once : Schema!Without(once, names)[n] = once[n]
  BY <1>1, <1>2 DEF Schema!Without
<1>4. \A n \in DOMAIN new : once[n] = new[n]
  BY DEF Schema!Inserted
<1> DEFINE twice == Schema!Inserted(new, Schema!Without(once, names))
<1>5. twice = [n \in DOMAIN once |-> once[n]]
  BY <1>1, <1>2, <1>3, <1>4 DEF Schema!Inserted
<1>6. once = [n \in DOMAIN once |-> once[n]]
  BY DEF Schema!Inserted
<1> QED
  BY <1>5, <1>6

\* The settings that the migration to a version inserts.
NewSettings(version) ==
  (IF version = 3 THEN {"streamingServerWarningDismissed"} ELSE {})
    \cup (IF version = 4 THEN {"seekTimeDuration"} ELSE {})
    \cup (IF version = 5 THEN {"audioLanguage", "audioPassthrough"} ELSE {})
    \cup (IF version = 6 THEN {"playerType", "nextVideoNotificationDuration", "autoFrameRateMatching"} ELSE {})
    \cup (IF version = 7 THEN {"frameRateMatchingStrategy"} ELSE {})
    \cup (IF version = 9 THEN {"seekShortTimeDuration", "escExitFullscreen", "pauseOnMinimize"} ELSE {})
    \cup (IF version = 11 THEN {"surroundSound"} ELSE {})
    \cup (IF version = 14 THEN {"subtitlesOpacity"} ELSE {})
    \cup (IF version = 16 THEN {"serverInForeground", "sendCrashReports"} ELSE {})
    \cup (IF version = 17 THEN {"quitOnClose"} ELSE {})
    \cup (IF version = 18 THEN {"hideSpoilers"} ELSE {})
    \cup (IF version = 19 THEN {"gamepadSupport"} ELSE {})
    \cup (IF version = 20 THEN {"videoMode"} ELSE {})
    \cup (IF version = 21 THEN {"assSubtitlesStyling"} ELSE {})

LEMMA AddedIs ==
  ASSUME NEW version \in 3 .. 21, NEW profile
  PROVE  Schema!Added(version, profile) \in [NewSettings(version) -> Schema!Value]
<1> USE DEF Schema!Added, NewSettings, Schema!Value, Schema!Null, Schema!True, Schema!False
<1>3. CASE version = 3
  BY <1>3
<1>4. CASE version = 4
  BY <1>4
<1>5. CASE version = 5
  BY <1>5
<1>6. CASE version = 6
  BY <1>6
<1>7. CASE version = 7
  BY <1>7
<1>9. CASE version = 9
  BY <1>9
<1>11. CASE version = 11
  BY <1>11
<1>14. CASE version = 14
  BY <1>14
<1>16. CASE version = 16
  BY <1>16
<1>17. CASE version = 17
  BY <1>17
<1>18. CASE version = 18
  BY <1>18
<1>19. CASE version = 19
  BY <1>19
<1>20. CASE version = 20
  BY <1>20
<1>21. CASE version = 21
  BY <1>21
<1>22. CASE version \in {8, 10, 12, 13, 15}
  <2>1. Schema!Added(version, profile) = <<>>
    BY <1>22
  <2>2. NewSettings(version) = {}
    BY <1>22
  <2> HIDE DEF Schema!Added, NewSettings, Schema!Value
  <2> QED
    BY <2>1, <2>2
<1> HIDE DEF Schema!Added, NewSettings, Schema!Value
<1> QED
  BY <1>3, <1>4, <1>5, <1>6, <1>7, <1>9, <1>11,
     <1>14, <1>16, <1>17, <1>18, <1>19, <1>20, <1>21, <1>22

\* Without what it removes, the settings of the version before or those of the version
\* itself, with those inserted, are those of the version.
LEMMA SettingsNext ==
  ASSUME NEW version \in 3 .. 21
  PROVE  /\ NewSettings(version) \cap Schema!Removed(version) = {}
         /\ NewSettings(version) \cup (Schema!SettingsOf(version - 1) \ Schema!Removed(version))
              = Schema!SettingsOf(version)
         /\ NewSettings(version) \cup (Schema!SettingsOf(version) \ Schema!Removed(version))
              = Schema!SettingsOf(version)
<1>1. Schema!Removed(version) =
        IF version = 6 THEN {"playInExternalPlayer"} ELSE IF version = 7 THEN {"autoFrameRateMatching"} ELSE {}
  BY DEF Schema!Removed
<1>2. NewSettings(version) \cap Schema!Removed(version) = {}
  BY <1>1 DEF NewSettings
<1>3. NewSettings(version) \cup (Schema!SettingsOf(version - 1) \ Schema!Removed(version)) = Schema!SettingsOf(version)
  BY <1>1 DEF NewSettings, Schema!SettingsOf
<1>4. NewSettings(version) \cup (Schema!SettingsOf(version) \ Schema!Removed(version)) = Schema!SettingsOf(version)
  BY <1>1 DEF NewSettings, Schema!SettingsOf
<1> QED
  BY <1>2, <1>3, <1>4

\* No profile that is written is taken for a broken one.
LEMMA WrittenIsRead ==
  ASSUME NEW version \in 0 .. 21, NEW profile \in [Schema!SettingsOf(version) -> Schema!Value]
  PROVE  profile \notin {None, Broken}
BY SchemaAssumption DEF Schema!ProfilesAssumption, Schema!SCHEMA_VERSION

\* A migration makes of a profile of the version before, or of its own, one of its own.
LEMMA MigratedFits ==
  ASSUME NEW version \in 2 .. 21, NEW profile, Fits(profile, version - 1) \/ Fits(profile, version)
  PROVE  Fits(Schema!Migrated(version, profile), version)
<1> DEFINE result == Schema!Migrated(version, profile)
<1>1. CASE profile \in {None, Broken}
  <2>1. CASE version = 13
    <3>1. profile = None
      BY <1>1, <2>1, WrittenIsRead DEF Fits
    <3> QED
      BY <2>1, <3>1 DEF Schema!Migrated, Fits
  <2>2. CASE version # 13
    BY <1>1, <2>2 DEF Schema!Migrated, Fits
  <2> QED
    BY <2>1, <2>2
<1>2. CASE profile \notin {None, Broken} /\ version = 2
  <2>1. DOMAIN Schema!Renamed = {"interface_language", "streaming_server_url", "play_in_external_player"}
    BY DEF Schema!Renamed
  <2>2. CASE ~(DOMAIN Schema!Renamed \subseteq DOMAIN profile)
    BY <1>2, <2>2 DEF Schema!Migrated, Fits
  <2>3. CASE DOMAIN Schema!Renamed \subseteq DOMAIN profile
    <3>1. profile \in [DOMAIN Schema!Renamed -> Schema!Value]
      BY <1>2, <2>1, <2>3 DEF Fits, Schema!SettingsOf
    <3> DEFINE names == {Schema!Renamed[o] : o \in DOMAIN Schema!Renamed}
               renamed == [n \in names |-> profile[CHOOSE o \in DOMAIN Schema!Renamed : Schema!Renamed[o] = n]]
    <3>2. names = Schema!SettingsOf(2)
      BY <2>1 DEF Schema!Renamed, Schema!SettingsOf
    <3>3. renamed \in [names -> Schema!Value]
      <4> SUFFICES ASSUME NEW n \in names
                   PROVE  profile[CHOOSE o \in DOMAIN Schema!Renamed : Schema!Renamed[o] = n] \in Schema!Value
        OBVIOUS
      <4>1. \E o \in DOMAIN Schema!Renamed : Schema!Renamed[o] = n
        OBVIOUS
      <4> QED
        BY <3>1, <4>1
    <3>4. DOMAIN Schema!Without(profile, DOMAIN Schema!Renamed) = {}
      BY <3>1 DEF Schema!Without
    <3>5. result = Schema!Inserted(renamed, Schema!Without(profile, DOMAIN Schema!Renamed))
      BY <1>2, <2>3 DEF Schema!Migrated
    <3> HIDE DEF renamed, names
    <3>6. result \in [names -> Schema!Value]
      BY <3>3, <3>4, <3>5 DEF Schema!Inserted
    <3> QED
      BY <1>2, <3>2, <3>6 DEF Fits
  <2> QED
    BY <2>2, <2>3
<1>3. CASE profile \notin {None, Broken} /\ version # 2
  <2>1. profile \in [Schema!SettingsOf(version - 1) -> Schema!Value]
        \/ profile \in [Schema!SettingsOf(version) -> Schema!Value]
    BY <1>3 DEF Fits
  <2> DEFINE added == Schema!Added(version, profile)
             kept == Schema!Without(profile, Schema!Removed(version))
  <2>2. added \in [NewSettings(version) -> Schema!Value]
    BY <1>3, AddedIs
  <2>3. result = Schema!Inserted(added, kept)
    BY <1>3 DEF Schema!Migrated
  <2>4. kept \in [DOMAIN profile \ Schema!Removed(version) -> Schema!Value]
    BY <2>1 DEF Schema!Without
  <2> HIDE DEF added, kept
  <2>5. result \in [NewSettings(version) \cup (DOMAIN profile \ Schema!Removed(version)) -> Schema!Value]
    BY <2>2, <2>3, <2>4 DEF Schema!Inserted
  <2>6. NewSettings(version) \cup (DOMAIN profile \ Schema!Removed(version)) = Schema!SettingsOf(version)
    <3>1. CASE profile \in [Schema!SettingsOf(version - 1) -> Schema!Value]
      <4>1. DOMAIN profile = Schema!SettingsOf(version - 1)
        BY <3>1
      <4> QED
        BY <1>3, <4>1, SettingsNext
    <3>2. CASE profile \in [Schema!SettingsOf(version) -> Schema!Value]
      <4>1. DOMAIN profile = Schema!SettingsOf(version)
        BY <3>2
      <4> QED
        BY <1>3, <4>1, SettingsNext
    <3> QED
      BY <2>1, <3>1, <3>2
  <2> QED
    BY <2>5, <2>6 DEF Fits
<1> QED
  BY <1>1, <1>2, <1>3

\* Done twice, a migration other than those to versions 2 and 6 does nothing more.
LEMMA MigratedTwice ==
  ASSUME NEW version \in 3 .. 21, version # 6, NEW profile,
         NEW once, once = Schema!Migrated(version, profile), once # Broken
  PROVE  Schema!Migrated(version, once) = once
<1>1. CASE once = None
  BY <1>1 DEF Schema!Migrated
<1>2. CASE once # None
  <2>1. once \notin {None, Broken}
    BY <1>2
  <2>2. profile \notin {None, Broken}
    BY <2>1 DEF Schema!Migrated
  <2> DEFINE added == Schema!Added(version, profile)
             removed == Schema!Removed(version)
  <2>3. Schema!Added(version, once) = added
    BY DEF Schema!Added
  <2>4. DOMAIN added \cap removed = {}
    BY AddedIs, SettingsNext
  <2>5. once = Schema!Inserted(added, Schema!Without(profile, removed))
    BY <2>2 DEF Schema!Migrated
  <2>6. Schema!Migrated(version, once) = Schema!Inserted(added, Schema!Without(once, removed))
    BY <2>1, <2>3 DEF Schema!Migrated
  <2> HIDE DEF added, removed
  <2> QED
    BY <2>4, <2>5, <2>6, InsertedTwice
<1> QED
  BY <1>1, <1>2

\* What Uninterrupted says of a version, given what it says of the one before.
Step(version, before) ==
  IF version <= began.schema THEN began.slots
  ELSE IF version = 1
    THEN [s \in Schema!SlotNames |-> IF s \in {"profile", "recent", "library"} THEN None ELSE began.slots[s]]
  ELSE Schema!After(version, before)

LEMMA LeastOf ==
  ASSUME NEW S, S \subseteq Nat, S # {}
  PROVE  \E n \in S : \A m \in S : n <= m
<1>1. PICK n \in S : \A m \in S : ~(<<m, n>> \in OpToRel(<, Nat))
  BY NatLessThanWellFounded, WFMin
<1>2. \A m \in S : ~(m < n)
  BY <1>1 DEF OpToRel
<1> QED
  BY <1>2

\* There is such a function, so that Uninterrupted is one.
LEMMA UninterruptedIs ==
  ASSUME began.schema \in Nat
  PROVE  \A version \in 0 .. 21 : Schema!Uninterrupted[version] = Step(version, Schema!Uninterrupted[version - 1])
<1> DEFINE Good(n) == \E f : f = [version \in 0 .. n |-> Step(version, f[version - 1])]
           Bad == {n \in Nat : ~Good(n)}
<1>1. Good(0)
  <2> DEFINE f == [version \in 0 .. 0 |-> began.slots]
  <2>1. f = [version \in 0 .. 0 |-> Step(version, f[version - 1])]
    BY DEF Step
  <2> QED
    BY <2>1
<1>2. ASSUME NEW n \in Nat, Good(n)
      PROVE  Good(n + 1)
  <2>1. PICK f : f = [version \in 0 .. n |-> Step(version, f[version - 1])]
    BY <1>2
  <2> DEFINE g == [version \in 0 .. n + 1 |-> IF version = n + 1 THEN Step(n + 1, f[n]) ELSE f[version]]
  <2>2. ASSUME NEW version \in 0 .. n + 1
        PROVE  g[version] = Step(version, g[version - 1])
    <3>1. CASE version = n + 1
      <4>1. g[version] = Step(n + 1, f[n]) /\ g[version - 1] = f[n]
        BY <3>1
      <4> QED
        BY <3>1, <4>1
    <3>2. CASE version = 0
      <4>1. g[0] = f[0] /\ f[0] = Step(0, f[0 - 1])
        BY <2>1
      <4> QED
        BY <3>2, <4>1 DEF Step
    <3>3. CASE version \in 1 .. n
      <4>1. g[version] = f[version] /\ g[version - 1] = f[version - 1] /\ f[version] = Step(version, f[version - 1])
        BY <2>1, <3>3
      <4> QED
        BY <4>1
    <3> QED
      BY <3>1, <3>2, <3>3
  <2>3. g = [version \in 0 .. n + 1 |-> g[version]]
    OBVIOUS
  <2> HIDE DEF g
  <2>4. g = [version \in 0 .. n + 1 |-> Step(version, g[version - 1])]
    BY <2>2, <2>3
  <2> QED
    BY <2>4
<1> HIDE DEF Good
<1>3. Bad = {}
  <2> SUFFICES ASSUME Bad # {} PROVE FALSE
    OBVIOUS
  <2>1. PICK n \in Bad : \A m \in Bad : n <= m
    BY LeastOf
  <2>2. n \in Nat /\ ~Good(n)
    BY <2>1
  <2>3. n # 0 /\ n - 1 \in Nat /\ n - 1 + 1 = n
    BY <1>1, <2>2
  <2>4. Good(n - 1)
    BY <2>1, <2>3
  <2>5. Good(n - 1 + 1)
    BY <1>2, <2>3, <2>4
  <2> QED
    BY <2>2, <2>3, <2>5
<1>4. \E f : f = [version \in 0 .. 21 |-> Step(version, f[version - 1])]
  BY <1>3 DEF Good
<1>5. Schema!Uninterrupted = [version \in 0 .. 21 |-> Step(version, Schema!Uninterrupted[version - 1])]
  BY <1>4 DEF Schema!Uninterrupted, Schema!SCHEMA_VERSION, Step
<1> QED
  BY <1>5

LEMMA AfterTwice ==
  ASSUME NEW version \in 3 .. 21, version # 6, NEW before, NEW once, once = Schema!After(version, before),
         once = [s \in Schema!SlotNames |-> once[s]], once["profile"] # Broken
  PROVE  Schema!After(version, once) = once
<1>1. CASE Schema!Emptied(version) # {}
  BY <1>1 DEF Schema!After
<1>2. CASE Schema!Emptied(version) = {}
  <2>1. once = [before EXCEPT !["profile"] = Schema!Migrated(version, @)]
    BY <1>2 DEF Schema!After
  <2>2. DOMAIN once = Schema!SlotNames /\ "profile" \in Schema!SlotNames
    BY DEF Schema!SlotNames
  <2>3. once["profile"] = Schema!Migrated(version, before["profile"])
    BY <2>1, <2>2
  <2>4. Schema!Migrated(version, once["profile"]) = once["profile"]
    BY <2>3, MigratedTwice
  <2>5. Schema!After(version, once) = [once EXCEPT !["profile"] = once["profile"]]
    BY <1>2, <2>4 DEF Schema!After
  <2> QED
    BY <2>2, <2>5
<1> QED
  BY <1>1, <1>2

LEMMA AfterFits ==
  ASSUME NEW version \in 2 .. 21, NEW slots, slots = [s \in Schema!SlotNames |-> slots[s]],
         Fits(slots["profile"], version - 1) \/ Fits(slots["profile"], version)
  PROVE  /\ Fits(Schema!After(version, slots)["profile"], version)
         /\ Schema!After(version, slots) = [s \in Schema!SlotNames |-> Schema!After(version, slots)[s]]
<1> "profile" \in Schema!SlotNames
  BY DEF Schema!SlotNames
<1>1. CASE Schema!Emptied(version) # {}
  <2>1. version \in {8, 10, 12, 15} /\ "profile" \notin Schema!Emptied(version)
    BY <1>1 DEF Schema!Emptied
  <2>2. Schema!SettingsOf(version - 1) = Schema!SettingsOf(version)
    BY <2>1 DEF Schema!SettingsOf
  <2> QED
    BY <1>1, <2>1, <2>2 DEF Schema!After, Fits
<1>2. CASE Schema!Emptied(version) = {}
  <2>1. Schema!After(version, slots) = [slots EXCEPT !["profile"] = Schema!Migrated(version, @)]
    BY <1>2 DEF Schema!After
  <2>2. Schema!After(version, slots)["profile"] = Schema!Migrated(version, slots["profile"])
    BY <2>1
  <2> QED
    BY <2>1, <2>2, MigratedFits
<1> QED
  BY <1>1, <1>2
-----------------------------------------------------------------------------
LEMMA SchemaStart == Schema!Init => ProfileInv /\ CleanInv
<1> SUFFICES ASSUME Schema!Init PROVE ProfileInv /\ CleanInv
  OBVIOUS
<1>1. /\ schema \in {0, 1, 22} /\ at = "off" /\ to = 0 /\ torn = {}
      /\ began = [schema |-> schema, slots |-> storage]
  BY DEF Schema!Init, Schema!SCHEMA_VERSION
<1>2. PICK profile \in {None, Broken} \cup {Schema!OldSettings(e) : e \in BOOLEAN} :
        storage = [s \in Schema!SlotNames |-> IF s = "profile" THEN profile ELSE "old"]
  BY DEF Schema!Init
<1>3. ASSUME NEW e \in BOOLEAN
      PROVE  Schema!OldSettings(e) \in [Schema!SettingsOf(0) -> Schema!Value]
  BY DEF Schema!OldSettings, Schema!SettingsOf, Schema!Renamed, Schema!Value, Schema!True, Schema!False
<1>4. storage["profile"] = profile /\ storage = [s \in Schema!SlotNames |-> storage[s]]
  BY <1>2 DEF Schema!SlotNames
<1>5. schema < 22 => Schema!SettingsOf(schema) = Schema!SettingsOf(0)
  BY <1>1 DEF Schema!SettingsOf
<1>6. schema < 22 => Fits(profile, schema)
  BY <1>1, <1>3, <1>5 DEF Fits
<1>7. ProfileInv
  BY <1>1, <1>4, <1>6 DEF ProfileInv, Schema!Phases
<1>8. schema < 22 => Schema!Uninterrupted[schema] = storage
  BY <1>1, UninterruptedIs DEF Step
<1> QED
  BY <1>1, <1>7, <1>8 DEF CleanInv

LEMMA ProfileNext ==
  ASSUME ProfileInv, Schema!Next
  PROVE  ProfileInv'
<1> USE DEF ProfileInv, Schema!Phases, Schema!SCHEMA_VERSION
<1>1. CASE Schema!Begin
  BY <1>1 DEF Schema!Begin
<1>2. CASE Schema!WipeEnds
  BY <1>2 DEF Schema!WipeEnds
<1>3. CASE Schema!WriteData
  BY <1>3, AfterFits DEF Schema!WriteData
<1>4. CASE Schema!WriteVersion
  BY <1>4 DEF Schema!WriteVersion
<1>5. CASE Schema!Stop
  BY <1>5 DEF Schema!Stop
<1>6. CASE Schema!Reopen
  BY <1>6 DEF Schema!Reopen
<1>7. ASSUME NEW slot \in {"profile", "recent", "library"}, Schema!Wipe(slot)
      PROVE  ProfileInv'
  <2>1. Schema!SettingsOf(1) = Schema!SettingsOf(0)
    BY DEF Schema!SettingsOf
  <2>2. CASE storage' = [storage EXCEPT ![slot] = None] /\ UNCHANGED schema
    <3>1. storage'["profile"] \in {None, storage["profile"]}
      BY <2>2 DEF Schema!SlotNames
    <3> QED
      BY <1>7, <2>2, <3>1 DEF Schema!Wipe, Fits
  <2>3. CASE schema = 0 /\ schema' = 1 /\ UNCHANGED storage
    BY <1>7, <2>1, <2>3 DEF Schema!Wipe, Fits
  <2> QED
    BY <1>7, <2>2, <2>3 DEF Schema!Wipe
<1> QED
  BY <1>1, <1>2, <1>3, <1>4, <1>5, <1>6, <1>7 DEF Schema!Next

LEMMA CleanNext ==
  ASSUME ProfileInv, CleanInv, Schema!Next
  PROVE  CleanInv'
<1>0. began' = began /\ Schema!Uninterrupted' = Schema!Uninterrupted
  BY DEF Schema!Next, Schema!Begin, Schema!WipeEnds, Schema!WriteData, Schema!WriteVersion, Schema!Stop,
         Schema!Reopen, Schema!Wipe, Schema!Uninterrupted
<1>u. \A version \in 0 .. 21 : Schema!Uninterrupted[version] = Step(version, Schema!Uninterrupted[version - 1])
  BY UninterruptedIs DEF CleanInv
<1> HIDE DEF Schema!Uninterrupted
<1> USE DEF CleanInv, Schema!SCHEMA_VERSION
<1>1. CASE Schema!Begin
  <2>1. schema = 0 => Schema!Uninterrupted[0] = began.slots /\ began.schema = 0
    BY <1>u DEF Step, ProfileInv
  <2> QED
    BY <1>0, <1>1, <2>1 DEF Schema!Begin, ProfileInv
<1>2. CASE Schema!WipeEnds
  <2>1. torn = {} => storage = Schema!Uninterrupted[1]
    <3> SUFFICES ASSUME torn = {} PROVE storage = Step(1, Schema!Uninterrupted[0])
      BY <1>u
    <3>1. began.schema = 0 /\ \A s \in Schema!SlotNames :
            storage[s] = IF s \in {"profile", "recent", "library"} THEN None ELSE began.slots[s]
      BY <1>2 DEF Schema!WipeEnds, Schema!Wiped
    <3> QED
      BY <3>1 DEF Step, ProfileInv
  <2> QED
    BY <1>0, <1>2, <2>1 DEF Schema!WipeEnds, ProfileInv
<1>3. CASE Schema!WriteData
  <2>1. schema \in 1 .. 20 /\ to = schema + 1 /\ at = "data"
    BY <1>3 DEF Schema!WriteData, ProfileInv
  <2>2. Schema!Uninterrupted[to] = Schema!After(to, Schema!Uninterrupted[schema])
    BY <1>u, <2>1 DEF Step
  <2>3. ASSUME torn = {}
        PROVE  Schema!After(to, storage) = Schema!Uninterrupted[to]
    <3>1. CASE storage = Schema!Uninterrupted[schema]
      BY <2>2, <3>1
    <3>2. CASE schema \in 2 .. 20 \ {5} /\ storage = Schema!Uninterrupted[to]
      <4>1. storage["profile"] # Broken
        BY <2>1, <3>2, WrittenIsRead, SchemaAssumption DEF ProfileInv, Fits, Schema!ProfilesAssumption
      <4> QED
        BY <2>1, <2>2, <3>2, <4>1, AfterTwice DEF ProfileInv
    <3> QED
      BY <2>1, <2>3, <3>1, <3>2
  <2> QED
    BY <1>0, <1>3, <2>1, <2>3 DEF Schema!WriteData
<1>4. CASE Schema!WriteVersion
  BY <1>0, <1>4 DEF Schema!WriteVersion, ProfileInv
<1>5. CASE Schema!Stop
  <2>1. CASE at = "wipe"
    BY <1>0, <1>5, <2>1 DEF Schema!Stop, ProfileInv, Schema!Unrepeatable
  <2>2. CASE at = "version"
    <3>1. schema \in 1 .. 20 /\ to = schema + 1 /\ UNCHANGED <<schema, storage, began>> /\ at' \in {"off", "failed"}
      BY <1>5, <2>2 DEF Schema!Stop, ProfileInv
    <3>2. CASE to \in {2, 6}
      <4>1. to \in torn'
        BY <1>5, <2>2, <3>2 DEF Schema!Stop, Schema!Unrepeatable
      <4> QED
        BY <1>0, <3>1, <4>1
    <3>3. CASE to \notin {2, 6}
      <4>1. torn' = torn
        BY <1>5, <2>2, <3>1, <3>3 DEF Schema!Stop, Schema!Unrepeatable
      <4>2. schema \in 2 .. 20 \ {5}
        BY <3>1, <3>3
      <4> QED
        BY <1>0, <2>2, <3>1, <4>1, <4>2
    <3> QED
      BY <3>2, <3>3
  <2>3. CASE at \in {"data", "done"}
    BY <1>0, <1>5, <2>3 DEF Schema!Stop, ProfileInv
  <2> QED
    BY <1>5, <2>1, <2>2, <2>3 DEF Schema!Stop, ProfileInv, Schema!Phases
<1>6. CASE Schema!Reopen
  BY <1>0, <1>6 DEF Schema!Reopen, ProfileInv
<1>7. ASSUME NEW slot \in {"profile", "recent", "library"}, Schema!Wipe(slot)
      PROVE  CleanInv'
  BY <1>0, <1>7 DEF Schema!Wipe, ProfileInv
<1> QED
  BY <1>1, <1>2, <1>3, <1>4, <1>5, <1>6, <1>7 DEF Schema!Next
-----------------------------------------------------------------------------
LEMMA RequiredAre == Schema!Required \subseteq Schema!SettingsOf(21)
BY DEF Schema!Required, Schema!SettingsOf

LEMMA MigrationIs ==
  ASSUME ProfileInv, CleanInv
  PROVE  Schema!TypeOK /\ Schema!MigratedIsRead /\ Schema!StoppingChangesNothing
<1>1. Schema!TypeOK
  BY DEF ProfileInv, Schema!TypeOK, Schema!SCHEMA_VERSION
<1>2. Schema!MigratedIsRead
  BY RequiredAre DEF ProfileInv, Fits, Schema!MigratedIsRead
<1>3. Schema!StoppingChangesNothing
  BY DEF ProfileInv, CleanInv, Schema!StoppingChangesNothing, Schema!SCHEMA_VERSION
<1> QED
  BY <1>1, <1>2, <1>3

LEMMA MigrationRests ==
  ASSUME ProfileInv, CleanInv, UNCHANGED migrationVars
  PROVE  ProfileInv' /\ CleanInv'
<1>1. UNCHANGED <<schema, storage, at, to, began, torn>>
  BY DEF migrationVars
<1>2. Schema!Uninterrupted' = Schema!Uninterrupted
  BY <1>1 DEF Schema!Uninterrupted
<1>3. ProfileInv'
  BY <1>1 DEF ProfileInv
<1>4. CleanInv'
  BY <1>1, <1>2 DEF CleanInv
<1> QED
  BY <1>3, <1>4
-----------------------------------------------------------------------------
(* Futures *)

LEMMA SentAllIs ==
  ASSUME NEW before, NEW wanted, NEW next \in SentAll(before, wanted)
  PROVE  /\ next = [s \in Slots |-> next[s]]
         /\ \A s \in Slots : next[s] \in wanted \cup {before[s]}
         /\ \A s \in Slots : before[s] # Free => next[s] = before[s]
         /\ \A r \in wanted : UnderWay(next, r)
<1> DEFINE free == {s \in Slots : before[s] = Free}
<1>1. PICK place \in {a \in [wanted -> free] : \A q, r \in wanted : a[q] = a[r] => q = r} :
        next = [s \in Slots |-> IF \E r \in wanted : place[r] = s
                                  THEN CHOOSE r \in wanted : place[r] = s ELSE before[s]]
  BY DEF SentAll
<1>2. place \in [wanted -> free] /\ \A q, r \in wanted : place[q] = place[r] => q = r
  OBVIOUS
<1>3. ASSUME NEW s \in Slots
      PROVE  next[s] \in wanted \cup {before[s]} /\ (before[s] # Free => next[s] = before[s])
  BY <1>1, <1>2
<1>4. ASSUME NEW r \in wanted
      PROVE  next[place[r]] = r /\ place[r] \in Slots
  <2>1. place[r] \in Slots
    BY <1>2
  <2>2. (CHOOSE q \in wanted : place[q] = place[r]) = r
    BY <1>2
  <2> QED
    BY <1>1, <2>1, <2>2
<1> QED
  BY <1>1, <1>3, <1>4 DEF UnderWay
-----------------------------------------------------------------------------
(* Buckets *)

BucketType == [uid : Option(Users), items : SUBSET (Events \cup Searches \cup Urls \cup {DefaultUrl})]
WriteType == [slot : Buckets!SlotNames, value : BucketType]

\* No write after the i-th is of its slot.
IsLast(queue, i) == \A j \in DOMAIN queue : i < j => queue[j].slot # queue[i].slot

\* The last write that waits for a slot is of the bucket as it is.
QueueInv ==
  /\ writes \in Seq(WriteType)
  /\ \A i \in DOMAIN writes : IsLast(writes, i) => writes[i].value = buckets[writes[i].slot]

BucketsInv ==
  /\ Buckets!TypeOK /\ QueueInv /\ Buckets!BucketsAreSaved
  /\ buckets["dismissed_events"].items \subseteq Events
  /\ Buckets!DismissedIsNotShown /\ Buckets!EventsAreAnswered

LEMMA BucketsStart == Buckets!Init => BucketsInv
<1> SUFFICES ASSUME Buckets!Init PROVE BucketsInv
  OBVIOUS
<1>1. /\ uid = None /\ saved = buckets /\ writes = <<>> /\ broken = {} /\ asked = FALSE
      /\ modal = Loading /\ notification = Loading /\ requests = [s \in Slots |-> Free]
      /\ buckets = [slot \in Buckets!SlotNames |->
                      [uid |-> None, items |-> IF slot = "streaming_server_urls" THEN {DefaultUrl} ELSE {}]]
  BY DEF Buckets!Init, Buckets!NoFlight, Buckets!Bucket
<1>2. buckets \in [Buckets!SlotNames -> BucketType]
  BY <1>1 DEF BucketType, Option
<1>3. Buckets!TypeOK
  BY <1>1, <1>2 DEF Buckets!TypeOK, BucketType, Option, Buckets!Option, Buckets!Loadable
<1>4. QueueInv /\ Buckets!BucketsAreSaved
  BY <1>1 DEF QueueInv, Buckets!BucketsAreSaved, Buckets!SlotNames
<1>5. buckets["dismissed_events"].items = {}
  BY <1>1 DEF Buckets!SlotNames
<1> QED
  BY <1>1, <1>3, <1>4, <1>5 DEF BucketsInv, Buckets!DismissedIsNotShown, Buckets!EventsAreAnswered

\* Buckets change, each of those that do with a write after all that wait.
LEMMA PushedSaves ==
  ASSUME BucketsInv, NEW list \in Seq(WriteType), writes' = writes \o list,
         buckets' \in [Buckets!SlotNames -> BucketType], UNCHANGED <<saved, broken>>,
         DefaultUrl \in buckets'["streaming_server_urls"].items,
         \A i \in DOMAIN list : list[i].value = buckets'[list[i].slot],
         \A slot \in Buckets!SlotNames :
           buckets'[slot] # buckets[slot] => \E i \in DOMAIN list : list[i].slot = slot
  PROVE  QueueInv' /\ Buckets!BucketsAreSaved'
<1>1. writes \in Seq(WriteType) /\ writes' \in Seq(WriteType)
  BY DEF BucketsInv, QueueInv
<1>2. DOMAIN writes = 1 .. Len(writes) /\ DOMAIN list = 1 .. Len(list) /\ Len(writes) \in Nat /\ Len(list) \in Nat
      /\ DOMAIN writes' = 1 .. Len(writes) + Len(list)
  BY <1>1
<1>3. /\ \A i \in DOMAIN writes : writes'[i] = writes[i]
      /\ \A i \in DOMAIN list : writes'[Len(writes) + i] = list[i]
  BY <1>1, <1>2
<1>4. ASSUME NEW i \in DOMAIN writes', IsLast(writes', i)
      PROVE  writes'[i].value = buckets'[writes'[i].slot]
  <2>1. CASE i \in DOMAIN writes
    <3>1. IsLast(writes, i)
      BY <1>2, <1>3, <1>4, <2>1 DEF IsLast
    <3>2. writes[i] \in WriteType
      BY <1>1, <2>1
    <3>4. writes[i].slot \in Buckets!SlotNames
      BY <3>2 DEF WriteType
    <3>5. writes[i].value = buckets[writes[i].slot]
      BY <2>1, <3>1 DEF BucketsInv, QueueInv
    <3>3. \A k \in DOMAIN list : list[k].slot # writes[i].slot
      <4> SUFFICES ASSUME NEW k \in DOMAIN list PROVE list[k].slot # writes[i].slot
        OBVIOUS
      <4>1. Len(writes) + k \in DOMAIN writes' /\ i < Len(writes) + k
        BY <1>2, <2>1
      <4> QED
        BY <1>3, <1>4, <2>1, <4>1 DEF IsLast
    <3> QED
      BY <1>3, <2>1, <3>3, <3>4, <3>5
  <2>2. CASE i \notin DOMAIN writes
    <3>1. i - Len(writes) \in DOMAIN list /\ i = Len(writes) + (i - Len(writes))
      BY <1>2, <2>2
    <3> QED
      BY <1>3, <3>1
  <2> QED
    BY <2>1, <2>2
<1>5. ASSUME NEW slot \in Buckets!SlotNames, \A i \in DOMAIN writes' : writes'[i].slot # slot, slot \notin broken'
      PROVE  saved'[slot] = buckets'[slot]
  <2>1. \A i \in DOMAIN writes : writes[i].slot # slot
    BY <1>2, <1>3, <1>5
  <2>2. \A i \in DOMAIN list : list[i].slot # slot
    <3> SUFFICES ASSUME NEW i \in DOMAIN list PROVE list[i].slot # slot
      OBVIOUS
    <3>1. Len(writes) + i \in DOMAIN writes'
      BY <1>2
    <3> QED
      BY <1>3, <1>5, <3>1
  <2> QED
    BY <1>5, <2>1, <2>2 DEF BucketsInv, Buckets!BucketsAreSaved
<1> QED
  BY <1>1, <1>4, <1>5 DEF QueueInv, Buckets!BucketsAreSaved

\* One bucket changes.
LEMMA ChangeSaves ==
  ASSUME BucketsInv, NEW slot \in Buckets!SlotNames, NEW bucket \in BucketType, Buckets!Change(slot, bucket),
         UNCHANGED <<saved, broken>>, slot = "streaming_server_urls" => DefaultUrl \in bucket.items
  PROVE  /\ QueueInv' /\ Buckets!BucketsAreSaved'
         /\ buckets' \in [Buckets!SlotNames -> BucketType]
         /\ buckets'[slot] = bucket /\ \A other \in Buckets!SlotNames \ {slot} : buckets'[other] = buckets[other]
<1> DEFINE list == <<[slot |-> slot, value |-> bucket]>>
<1>1. buckets \in [Buckets!SlotNames -> BucketType]
  BY DEF BucketsInv, Buckets!TypeOK, BucketType, Option, Buckets!Option
<1>2. buckets' = [buckets EXCEPT ![slot] = bucket]
  BY DEF Buckets!Change
<1>3. /\ buckets' \in [Buckets!SlotNames -> BucketType] /\ buckets'[slot] = bucket
      /\ \A other \in Buckets!SlotNames \ {slot} : buckets'[other] = buckets[other]
  BY <1>1, <1>2
<1>4. list \in Seq(WriteType) /\ DOMAIN list = {1} /\ list[1] = [slot |-> slot, value |-> bucket]
  BY DEF WriteType
<1>5. writes' = writes \o list
  <2>1. writes' = Append(writes, [slot |-> slot, value |-> bucket])
    BY <1>3 DEF Buckets!Change, Buckets!Job
  <2>2. writes \in Seq(WriteType) /\ [slot |-> slot, value |-> bucket] \in WriteType
    BY DEF BucketsInv, QueueInv, WriteType
  <2> QED
    BY <2>1, <2>2
<1> HIDE DEF list
<1>6. DefaultUrl \in buckets'["streaming_server_urls"].items
  BY <1>3 DEF BucketsInv, Buckets!BucketsAreSaved, Buckets!SlotNames
<1>7. \A i \in DOMAIN list : list[i].value = buckets'[list[i].slot]
  BY <1>3, <1>4
<1>8. \A other \in Buckets!SlotNames :
        buckets'[other] # buckets[other] => \E i \in DOMAIN list : list[i].slot = other
  BY <1>3, <1>4
<1>9. list \in Seq(WriteType)
  BY <1>4
<1>10. QueueInv' /\ Buckets!BucketsAreSaved'
  BY <1>3, <1>5, <1>6, <1>7, <1>8, <1>9, PushedSaves
<1> QED
  BY <1>3, <1>10

LEMMA ShownIs ==
  ASSUME NEW event, NEW gone
  PROVE  /\ Buckets!Shown(event, gone) \in {event, None}
         /\ None \notin gone => Buckets!Shown(event, gone) \notin gone
BY DEF Buckets!Shown

\* What is neither the buckets nor their events.
LEMMA EventsKept ==
  ASSUME BucketsInv, UNCHANGED <<modal, notification, requests, asked>>,
         buckets'["dismissed_events"].items \in {{}, buckets["dismissed_events"].items}
  PROVE  /\ buckets'["dismissed_events"].items \subseteq Events
         /\ Buckets!DismissedIsNotShown' /\ Buckets!EventsAreAnswered'
<1>1. Buckets!EventsAreAnswered'
  BY DEF BucketsInv, Buckets!EventsAreAnswered, Buckets!UnderWay
<1>2. Buckets!DismissedIsNotShown'
  BY DEF BucketsInv, Buckets!DismissedIsNotShown
<1> QED
  BY <1>1, <1>2 DEF BucketsInv

\* The steps that change one bucket, other than that of the dismissed events.
LEMMA OneBucketSteps ==
  ASSUME BucketsInv, NEW slot \in {"search_history", "streaming_server_urls"}, NEW bucket \in BucketType,
         Buckets!Change(slot, bucket), slot = "streaming_server_urls" => DefaultUrl \in bucket.items,
         UNCHANGED <<uid, Buckets!events, saved, broken>>
  PROVE  BucketsInv'
<1>1. slot \in Buckets!SlotNames /\ slot # "dismissed_events" /\ "dismissed_events" \in Buckets!SlotNames
  BY DEF Buckets!SlotNames
<1>2. /\ QueueInv' /\ Buckets!BucketsAreSaved'
      /\ buckets' \in [Buckets!SlotNames -> BucketType]
      /\ buckets'["dismissed_events"] = buckets["dismissed_events"]
  BY <1>1, ChangeSaves
<1>3. UNCHANGED <<modal, notification, requests, asked>>
  BY DEF Buckets!events
<1>4. Buckets!TypeOK'
  BY <1>2, <1>3 DEF BucketsInv, Buckets!TypeOK, BucketType, Option, Buckets!Option
<1> QED
  BY <1>2, <1>3, <1>4, EventsKept DEF BucketsInv

LEMMA BucketTyped ==
  ASSUME BucketsInv, NEW slot \in Buckets!SlotNames, NEW items_,
         items_ \subseteq Events \cup Searches \cup Urls \cup {DefaultUrl}
  PROVE  /\ [buckets[slot] EXCEPT !.items = items_] \in BucketType
         /\ [buckets[slot] EXCEPT !.items = items_].items = items_
         /\ buckets[slot] \in BucketType
<1>1. buckets[slot] \in BucketType
  BY DEF BucketsInv, Buckets!TypeOK, BucketType, Option, Buckets!Option
<1> QED
  BY <1>1 DEF BucketType

LEMMA SearchAndUrlSteps ==
  ASSUME BucketsInv,
         \/ Buckets!ClearSearchHistory
         \/ \E query \in Searches : Buckets!CatalogsWithExtraSearch(query)
         \/ \E url \in Urls \cup {DefaultUrl} : Buckets!AddServerUrl(url) \/ Buckets!DeleteServerUrl(url)
  PROVE  BucketsInv'
<1> DEFINE history == buckets["search_history"].items
           urls == buckets["streaming_server_urls"].items
<1>1. {"search_history", "streaming_server_urls"} \subseteq Buckets!SlotNames
  BY DEF Buckets!SlotNames
<1>2. /\ history \subseteq Events \cup Searches \cup Urls \cup {DefaultUrl}
      /\ urls \subseteq Events \cup Searches \cup Urls \cup {DefaultUrl} /\ DefaultUrl \in urls
  BY <1>1, BucketTyped DEF BucketsInv, Buckets!BucketsAreSaved, BucketType
<1>3. ASSUME NEW slot \in {"search_history", "streaming_server_urls"}, NEW next,
             next \subseteq Events \cup Searches \cup Urls \cup {DefaultUrl},
             slot = "streaming_server_urls" => DefaultUrl \in next,
             Buckets!Change(slot, [buckets[slot] EXCEPT !.items = next]),
             UNCHANGED <<uid, Buckets!events, Buckets!storage>>
      PROVE  BucketsInv'
  <2>1. /\ [buckets[slot] EXCEPT !.items = next] \in BucketType
        /\ [buckets[slot] EXCEPT !.items = next].items = next
    BY <1>1, <1>3, BucketTyped
  <2>2. UNCHANGED <<uid, Buckets!events, saved, broken>>
    BY <1>3 DEF Buckets!storage
  <2> QED
    BY <1>3, <2>1, <2>2, OneBucketSteps
<1>4. CASE Buckets!ClearSearchHistory
  BY <1>3, <1>4 DEF Buckets!ClearSearchHistory
<1>5. CASE \E query \in Searches : Buckets!CatalogsWithExtraSearch(query)
  <2>1. PICK query \in Searches : Buckets!CatalogsWithExtraSearch(query)
    BY <1>5
  <2>2. [buckets["search_history"] EXCEPT !.items = @ \cup {query}]
          = [buckets["search_history"] EXCEPT !.items = history \cup {query}]
    OBVIOUS
  <2> QED
    BY <1>2, <1>3, <2>1, <2>2 DEF Buckets!CatalogsWithExtraSearch
<1>6. CASE \E url \in Urls \cup {DefaultUrl} : Buckets!AddServerUrl(url) \/ Buckets!DeleteServerUrl(url)
  <2>1. PICK url \in Urls \cup {DefaultUrl} : Buckets!AddServerUrl(url) \/ Buckets!DeleteServerUrl(url)
    BY <1>6
  <2>2. CASE Buckets!AddServerUrl(url)
    <3>1. Buckets!Change("streaming_server_urls", [buckets["streaming_server_urls"] EXCEPT !.items = urls \cup {url}])
          /\ UNCHANGED <<uid, Buckets!events, Buckets!storage>>
      BY <2>2 DEF Buckets!AddServerUrl
    <3> QED
      BY <1>2, <1>3, <3>1
  <2>3. CASE Buckets!DeleteServerUrl(url)
    <3>1. Buckets!Change("streaming_server_urls",
             [buckets["streaming_server_urls"] EXCEPT !.items = urls \ ({url} \ {DefaultUrl})])
          /\ UNCHANGED <<uid, Buckets!events, Buckets!storage>>
      BY <2>3 DEF Buckets!DeleteServerUrl
    <3>2. DefaultUrl \in urls \ ({url} \ {DefaultUrl})
      BY <1>2
    <3> QED
      BY <1>2, <1>3, <3>1, <3>2
  <2> QED
    BY <2>1, <2>2, <2>3
<1> QED
  BY <1>4, <1>5, <1>6

LEMMA DismissStep ==
  ASSUME BucketsInv, NEW event \in Events, Buckets!DismissEvent(event)
  PROVE  BucketsInv'
<1> DEFINE old == buckets["dismissed_events"]
           gone == old.items \cup {event}
           bucket == Buckets!Bucket(old.uid, gone)
<1>1. "dismissed_events" \in Buckets!SlotNames /\ "dismissed_events" # "streaming_server_urls"
  BY DEF Buckets!SlotNames
<1>2. /\ Buckets!Change("dismissed_events", bucket) /\ UNCHANGED <<uid, requests, asked, saved, broken>>
      /\ modal' = Buckets!Shown(modal, gone) /\ notification' = Buckets!Shown(notification, gone)
  BY DEF Buckets!DismissEvent, Buckets!storage
<1>3. old \in BucketType /\ gone \subseteq Events
  BY <1>1, BucketTyped DEF BucketsInv
<1>4. bucket \in BucketType /\ bucket.items = gone
  BY <1>3 DEF BucketType, Buckets!Bucket
<1>5. /\ QueueInv' /\ Buckets!BucketsAreSaved'
      /\ buckets' \in [Buckets!SlotNames -> BucketType]
      /\ buckets'["dismissed_events"] = bucket
  <2> HIDE DEF bucket
  <2> QED
    BY <1>1, <1>2, <1>4, ChangeSaves
<1>6. None \notin gone /\ {None, Loading, Failed} \cap Events = {}
  BY <1>3, BucketsAssumption DEF Buckets!EventsAssumption
<1>7. /\ modal' \in {modal, None} /\ modal' \notin gone
      /\ notification' \in {notification, None} /\ notification' \notin gone
  <2> HIDE DEF gone
  <2> QED
    BY <1>2, <1>6, ShownIs
<1>8. Buckets!TypeOK'
  <2>1. {modal', notification'} \subseteq Buckets!Loadable(Buckets!Option(Events))
    BY <1>7 DEF BucketsInv, Buckets!TypeOK, Buckets!Loadable, Buckets!Option
  <2> QED
    BY <1>2, <1>5, <2>1 DEF BucketsInv, Buckets!TypeOK, BucketType, Option, Buckets!Option
<1>9. Buckets!DismissedIsNotShown' /\ buckets'["dismissed_events"].items \subseteq Events
  <2>1. buckets'["dismissed_events"].items = gone
    BY <1>4, <1>5
  <2> HIDE DEF gone
  <2> QED
    BY <1>3, <1>7, <2>1 DEF Buckets!DismissedIsNotShown
<1>10. Buckets!EventsAreAnswered'
  BY <1>2, <1>7, LoadableAssumption DEF BucketsInv, Buckets!EventsAreAnswered, Buckets!UnderWay
<1> QED
  BY <1>5, <1>8, <1>9, <1>10 DEF BucketsInv

LEMMA QuietKeepsSaved ==
  ASSUME BucketsInv, UNCHANGED <<buckets, writes, saved, broken>>
  PROVE  QueueInv' /\ Buckets!BucketsAreSaved' /\ buckets'["dismissed_events"].items \subseteq Events
<1>1. QueueInv'
  BY DEF BucketsInv, QueueInv, IsLast
<1>2. Buckets!BucketsAreSaved'
  BY DEF BucketsInv, Buckets!BucketsAreSaved
<1> QED
  BY <1>1, <1>2 DEF BucketsInv

LEMMA EventSteps ==
  ASSUME BucketsInv,
         \/ Buckets!GetEvents
         \/ \E s \in Slots, result \in Option(Events) \cup {Failed} : Buckets!GetResult(s, result)
  PROVE  BucketsInv'
<1> DEFINE gone == buckets["dismissed_events"].items
<1>1. {None, Loading, Failed} \cap Events = {} /\ gone \subseteq Events
  BY BucketsAssumption DEF Buckets!EventsAssumption, BucketsInv
<1>2. CASE Buckets!GetEvents
  <2>1. /\ modal' = Loading /\ notification' = Loading /\ asked' = TRUE
        /\ UNCHANGED <<uid, buckets, writes, saved, broken>>
        /\ requests' \in SentAll(requests, {"GetModal", "GetNotification"})
    BY <1>2 DEF Buckets!GetEvents, Buckets!storage, SentAll, Buckets!SentAll
  <2>2. /\ requests' = [s \in Slots |-> requests'[s]]
        /\ \A s \in Slots : requests'[s] \in {"GetModal", "GetNotification"} \cup {requests[s]}
        /\ \A r \in {"GetModal", "GetNotification"} : UnderWay(requests', r)
    BY <2>1, SentAllIs
  <2>3. requests \in [Slots -> {"GetModal", "GetNotification", Free}]
    BY DEF BucketsInv, Buckets!TypeOK
  <2>4. \A s \in Slots : requests'[s] \in {"GetModal", "GetNotification", Free}
    BY <2>2, <2>3
  <2>5. requests' \in [Slots -> {"GetModal", "GetNotification", Free}]
    BY <2>2, <2>4
  <2>6. Buckets!TypeOK'
    BY <2>1, <2>5 DEF BucketsInv, Buckets!TypeOK, Buckets!Loadable, Buckets!Option
  <2>7. Buckets!DismissedIsNotShown'
    BY <1>1, <2>1 DEF Buckets!DismissedIsNotShown
  <2>8. Buckets!EventsAreAnswered'
    BY <2>2 DEF Buckets!EventsAreAnswered, Buckets!UnderWay, UnderWay
  <2> QED
    BY <2>1, <2>6, <2>7, <2>8, QuietKeepsSaved DEF BucketsInv
<1>3. CASE \E s \in Slots, result \in Option(Events) \cup {Failed} : Buckets!GetResult(s, result)
  <2>1. PICK s \in Slots, result \in Option(Events) \cup {Failed} : Buckets!GetResult(s, result)
    BY <1>3
  <2> DEFINE answer == Buckets!Shown(result, gone)
  <2>2. /\ requests' = [requests EXCEPT ![s] = Free]
        /\ UNCHANGED <<uid, buckets, asked, writes, saved, broken>>
        /\ IF requests[s] = "GetModal" THEN modal' = answer /\ UNCHANGED notification
                                       ELSE notification' = answer /\ UNCHANGED modal
    BY <2>1 DEF Buckets!GetResult, Buckets!storage, Buckets!Ended
  <2>3. answer \in Option(Events) \cup {Failed} /\ answer \notin gone /\ answer # Loading
    <3>1. result \in Option(Events) \cup {Failed}
      BY <2>1
    <3>2. result # Loading /\ None # Loading /\ None \in Option(Events)
      BY <1>1, <3>1, LoadableAssumption DEF Option
    <3>3. None \notin gone
      BY <1>1
    <3>4. answer \in {result, None} /\ answer \notin gone
      BY <3>3, ShownIs
    <3> HIDE DEF answer
    <3> QED
      BY <3>1, <3>2, <3>4
  <2> HIDE DEF answer
  <2>4. requests \in [Slots -> {"GetModal", "GetNotification", Free}]
    BY DEF BucketsInv, Buckets!TypeOK
  <2>5. requests' \in [Slots -> {"GetModal", "GetNotification", Free}]
    BY <2>2, <2>4
  <2>6. {modal', notification'} \subseteq Buckets!Loadable(Buckets!Option(Events))
    BY <2>2, <2>3 DEF BucketsInv, Buckets!TypeOK, Buckets!Loadable, Buckets!Option, Option
  <2>7. Buckets!TypeOK'
    BY <2>2, <2>5, <2>6 DEF BucketsInv, Buckets!TypeOK, Buckets!Option
  <2>8. Buckets!DismissedIsNotShown'
    BY <2>2, <2>3 DEF BucketsInv, Buckets!DismissedIsNotShown
  <2>9. Buckets!EventsAreAnswered'
    <3> SUFFICES ASSUME asked
                 PROVE  /\ modal' = Loading => Buckets!UnderWay(requests', "GetModal")
                        /\ notification' = Loading => Buckets!UnderWay(requests', "GetNotification")
      BY <2>2 DEF Buckets!EventsAreAnswered
    <3>1. ASSUME modal' = Loading PROVE Buckets!UnderWay(requests', "GetModal")
      <4>1. requests[s] # "GetModal" /\ modal = Loading
        BY <2>2, <2>3, <3>1
      <4>2. PICK t \in Slots : requests[t] = "GetModal"
        BY <4>1 DEF BucketsInv, Buckets!EventsAreAnswered, Buckets!UnderWay
      <4> QED
        BY <2>2, <2>4, <4>1, <4>2 DEF Buckets!UnderWay
    <3>2. ASSUME notification' = Loading PROVE Buckets!UnderWay(requests', "GetNotification")
      <4>1. requests[s] = "GetModal" /\ notification = Loading
        BY <2>2, <2>3, <3>2
      <4>2. PICK t \in Slots : requests[t] = "GetNotification"
        BY <4>1 DEF BucketsInv, Buckets!EventsAreAnswered, Buckets!UnderWay
      <4> QED
        BY <2>2, <2>4, <4>1, <4>2 DEF Buckets!UnderWay
    <3> QED
      BY <3>1, <3>2
  <2> QED
    BY <2>2, <2>7, <2>8, <2>9, QuietKeepsSaved DEF BucketsInv
<1> QED
  BY <1>2, <1>3

\* A session begins or ends: two buckets are new, each with a write.
LEMMA TwoBucketSteps ==
  ASSUME BucketsInv,
         NEW next, next \in [Buckets!SlotNames -> BucketType], buckets' = next,
         NEW one \in Buckets!SlotNames, NEW two \in Buckets!SlotNames,
         \A other \in Buckets!SlotNames \ {one, two} : next[other] = buckets[other],
         writes' = writes \o <<Buckets!Job(one, next), Buckets!Job(two, next)>>,
         DefaultUrl \in next["streaming_server_urls"].items,
         next["dismissed_events"].items \in {{}, buckets["dismissed_events"].items},
         uid' \in Option(Users), UNCHANGED <<Buckets!events, Buckets!storage>>
  PROVE  BucketsInv'
<1> DEFINE list == <<Buckets!Job(one, next), Buckets!Job(two, next)>>
<1>1. /\ list \in Seq(WriteType) /\ DOMAIN list = {1, 2}
      /\ list[1] = [slot |-> one, value |-> next[one]] /\ list[2] = [slot |-> two, value |-> next[two]]
  <2>1. next[one] \in BucketType /\ next[two] \in BucketType
    OBVIOUS
  <2>2. Buckets!Job(one, next) \in WriteType /\ Buckets!Job(two, next) \in WriteType
    BY <2>1 DEF Buckets!Job, WriteType
  <2> QED
    BY <2>2 DEF Buckets!Job
<1>2. writes' = writes \o list
  OBVIOUS
<1>3. UNCHANGED <<modal, notification, requests, asked, saved, broken>>
  BY DEF Buckets!events, Buckets!storage
<1> HIDE DEF list
<1>4. \A i \in DOMAIN list : list[i].value = buckets'[list[i].slot]
  BY <1>1
<1>5. \A slot \in Buckets!SlotNames :
        buckets'[slot] # buckets[slot] => \E i \in DOMAIN list : list[i].slot = slot
  BY <1>1
<1>6. QueueInv' /\ Buckets!BucketsAreSaved'
  BY <1>1, <1>2, <1>3, <1>4, <1>5, PushedSaves
<1>7. Buckets!TypeOK'
  BY <1>3 DEF BucketsInv, Buckets!TypeOK, BucketType, Option, Buckets!Option
<1> QED
  BY <1>3, <1>6, <1>7, EventsKept DEF BucketsInv

LEMMA AuthStep ==
  ASSUME BucketsInv, NEW user \in Users, Buckets!CtxAuthResult(user)
  PROVE  BucketsInv'
<1> DEFINE next == [buckets EXCEPT !["search_history"] = Buckets!Bucket(user, {}),
                                   !["streaming_server_urls"] = Buckets!Bucket(user, {DefaultUrl})]
<1>1. /\ uid' = user /\ buckets' = next
      /\ writes' = writes \o <<Buckets!Job("search_history", next), Buckets!Job("streaming_server_urls", next)>>
      /\ UNCHANGED <<Buckets!events, Buckets!storage>>
  BY DEF Buckets!CtxAuthResult
<1>2. buckets \in [Buckets!SlotNames -> BucketType]
  BY DEF BucketsInv, Buckets!TypeOK, BucketType, Option, Buckets!Option
<1>3. Buckets!Bucket(user, {}) \in BucketType /\ Buckets!Bucket(user, {DefaultUrl}) \in BucketType
  BY DEF Buckets!Bucket, BucketType, Option
<1>4. /\ next \in [Buckets!SlotNames -> BucketType]
      /\ next["streaming_server_urls"] = Buckets!Bucket(user, {DefaultUrl})
      /\ \A other \in Buckets!SlotNames \ {"search_history", "streaming_server_urls"} : next[other] = buckets[other]
  BY <1>2, <1>3 DEF Buckets!SlotNames
<1>5. {"search_history", "streaming_server_urls", "dismissed_events"} \subseteq Buckets!SlotNames
      /\ "dismissed_events" \notin {"search_history", "streaming_server_urls"} /\ uid' \in Option(Users)
  BY <1>1 DEF Buckets!SlotNames, Option
<1> HIDE DEF next
<1>6. DefaultUrl \in next["streaming_server_urls"].items
      /\ next["dismissed_events"].items \in {{}, buckets["dismissed_events"].items}
  BY <1>4, <1>5 DEF Buckets!Bucket
<1> QED
  BY <1>1, <1>4, <1>5, <1>6, TwoBucketSteps

LEMMA LogoutStep ==
  ASSUME BucketsInv, Buckets!Logout
  PROVE  BucketsInv'
<1> DEFINE next == [buckets EXCEPT !["search_history"] = Buckets!Bucket(None, {}),
                                   !["dismissed_events"] = Buckets!Bucket(None, {})]
<1>1. /\ uid' = None /\ buckets' = next
      /\ writes' = writes \o <<Buckets!Job("search_history", next), Buckets!Job("dismissed_events", next)>>
      /\ UNCHANGED <<Buckets!events, Buckets!storage>>
  BY DEF Buckets!Logout
<1>2. buckets \in [Buckets!SlotNames -> BucketType]
  BY DEF BucketsInv, Buckets!TypeOK, BucketType, Option, Buckets!Option
<1>3. Buckets!Bucket(None, {}) \in BucketType
  BY DEF Buckets!Bucket, BucketType, Option
<1>4. /\ next \in [Buckets!SlotNames -> BucketType]
      /\ next["dismissed_events"] = Buckets!Bucket(None, {})
      /\ \A other \in Buckets!SlotNames \ {"search_history", "dismissed_events"} : next[other] = buckets[other]
  BY <1>2, <1>3 DEF Buckets!SlotNames
<1>5. {"search_history", "streaming_server_urls", "dismissed_events"} \subseteq Buckets!SlotNames
      /\ "streaming_server_urls" \notin {"search_history", "dismissed_events"} /\ uid' \in Option(Users)
  BY <1>1 DEF Buckets!SlotNames, Option
<1> HIDE DEF next
<1>6. DefaultUrl \in next["streaming_server_urls"].items
      /\ next["dismissed_events"].items \in {{}, buckets["dismissed_events"].items}
  BY <1>4, <1>5 DEF Buckets!Bucket, BucketsInv, Buckets!BucketsAreSaved
<1> QED
  BY <1>1, <1>4, <1>5, <1>6, TwoBucketSteps

LEMMA WriteStep ==
  ASSUME BucketsInv, NEW ok \in BOOLEAN, Buckets!Write(ok)
  PROVE  BucketsInv'
<1> DEFINE job == writes[1]
<1>1. /\ writes # <<>> /\ writes' = Tail(writes)
      /\ saved' = IF ok THEN [saved EXCEPT ![job.slot] = job.value] ELSE saved
      /\ broken' = IF ok THEN broken \ {job.slot} ELSE broken \cup {job.slot}
      /\ UNCHANGED <<uid, buckets, modal, notification, requests, asked>>
  BY DEF Buckets!Write, Buckets!events
<1>2. /\ writes \in Seq(WriteType) /\ writes' \in Seq(WriteType) /\ 1 \in DOMAIN writes
      /\ Len(writes) \in Nat \ {0} /\ DOMAIN writes = 1 .. Len(writes) /\ DOMAIN writes' = 1 .. Len(writes) - 1
      /\ \A i \in DOMAIN writes' : writes'[i] = writes[i + 1] /\ i + 1 \in DOMAIN writes
  BY <1>1 DEF BucketsInv, QueueInv
<1>3. job \in WriteType
  BY <1>2
<1>4. job.slot \in Buckets!SlotNames /\ job.value \in BucketType
  BY <1>3 DEF WriteType
<1>5. /\ saved \in [Buckets!SlotNames -> BucketType] /\ broken \subseteq Buckets!SlotNames
  BY DEF BucketsInv, Buckets!TypeOK, BucketType, Option, Buckets!Option
<1> HIDE DEF job
<1>6. saved' \in [Buckets!SlotNames -> BucketType] /\ broken' \subseteq Buckets!SlotNames
  BY <1>1, <1>4, <1>5
<1>7. Buckets!TypeOK'
  BY <1>1, <1>6 DEF BucketsInv, Buckets!TypeOK, BucketType, Option, Buckets!Option
<1>8. ASSUME NEW i \in DOMAIN writes', IsLast(writes', i)
      PROVE  writes'[i].value = buckets'[writes'[i].slot]
  <2>1. IsLast(writes, i + 1)
    <3> SUFFICES ASSUME NEW j \in DOMAIN writes, i + 1 < j PROVE writes[j].slot # writes[i + 1].slot
      BY DEF IsLast
    <3>1. j - 1 \in DOMAIN writes' /\ i < j - 1 /\ writes'[j - 1] = writes[j] /\ writes'[i] = writes[i + 1]
      BY <1>2
    <3> QED
      BY <1>8, <3>1 DEF IsLast
  <2> QED
    BY <1>1, <1>2, <2>1 DEF BucketsInv, QueueInv
<1>9. ASSUME NEW slot \in Buckets!SlotNames, \A i \in DOMAIN writes' : writes'[i].slot # slot, slot \notin broken'
      PROVE  saved'[slot] = buckets'[slot]
  <2>1. \A j \in DOMAIN writes : j # 1 => writes[j].slot # slot
    <3> SUFFICES ASSUME NEW j \in DOMAIN writes, j # 1 PROVE writes[j].slot # slot
      OBVIOUS
    <3>1. j - 1 \in DOMAIN writes' /\ writes'[j - 1] = writes[j]
      BY <1>2
    <3> QED
      BY <1>9, <3>1
  <2>2. CASE job.slot = slot
    <3>1. ok
      BY <1>1, <1>9, <2>2
    <3>2. IsLast(writes, 1)
      BY <1>2, <2>1, <2>2 DEF IsLast, job
    <3>3. job.value = buckets[slot]
      BY <1>2, <2>2, <3>2 DEF BucketsInv, QueueInv, job
    <3> QED
      BY <1>1, <1>4, <1>5, <2>2, <3>1, <3>3
  <2>3. CASE job.slot # slot
    <3>1. \A i \in DOMAIN writes : writes[i].slot # slot
      BY <2>1, <2>3 DEF job
    <3>2. slot \notin broken /\ saved'[slot] = saved[slot]
      BY <1>1, <1>4, <1>5, <1>9, <2>3
    <3> QED
      BY <1>1, <3>1, <3>2 DEF BucketsInv, Buckets!BucketsAreSaved
  <2> QED
    BY <2>2, <2>3
<1>10. QueueInv'
  BY <1>2, <1>8 DEF QueueInv
<1>11. Buckets!BucketsAreSaved'
  BY <1>1, <1>9 DEF Buckets!BucketsAreSaved, BucketsInv
<1> QED
  BY <1>1, <1>7, <1>10, <1>11, EventsKept DEF BucketsInv

LEMMA BucketsNext == BucketsInv /\ Buckets!Next => BucketsInv'
<1> SUFFICES ASSUME BucketsInv, Buckets!Next PROVE BucketsInv'
  OBVIOUS
<1>1. CASE Buckets!GetEvents \/ Buckets!ClearSearchHistory \/ Buckets!Logout
  BY <1>1, EventSteps, SearchAndUrlSteps, LogoutStep
<1>2. CASE \E event \in Events : Buckets!DismissEvent(event)
  BY <1>2, DismissStep
<1>3. CASE \E s \in Slots, result \in Buckets!Option(Events) \cup {Failed} : Buckets!GetResult(s, result)
  BY <1>3, EventSteps DEF Option, Buckets!Option
<1>4. CASE (\E query \in Searches : Buckets!CatalogsWithExtraSearch(query))
           \/ \E url \in Urls \cup {DefaultUrl} : Buckets!AddServerUrl(url) \/ Buckets!DeleteServerUrl(url)
  BY <1>4, SearchAndUrlSteps
<1>5. CASE \E user \in Users : Buckets!CtxAuthResult(user)
  BY <1>5, AuthStep
<1>6. CASE \E ok \in BOOLEAN : Buckets!Write(ok)
  BY <1>6, WriteStep
<1> QED
  BY <1>1, <1>2, <1>3, <1>4, <1>5, <1>6 DEF Buckets!Next

LEMMA BucketsRest == BucketsInv /\ UNCHANGED bucketVars => BucketsInv'
<1> SUFFICES ASSUME BucketsInv, UNCHANGED bucketVars PROVE BucketsInv'
  OBVIOUS
<1>1. UNCHANGED <<uid, buckets, modal, notification, requests, asked, saved, writes, broken>>
  BY DEF bucketVars
<1>2. Buckets!TypeOK'
  BY <1>1 DEF BucketsInv, Buckets!TypeOK, Buckets!Option
<1> QED
  BY <1>1, <1>2, QuietKeepsSaved, EventsKept DEF BucketsInv
-----------------------------------------------------------------------------
(* Queues *)

LEMMA AppendedIs ==
  ASSUME NEW S, NEW queue \in Seq(S), NEW x
  PROVE  /\ DOMAIN queue = 1 .. Len(queue) /\ Len(queue) \in Nat
         /\ DOMAIN Append(queue, x) = 1 .. Len(queue) + 1
         /\ \A i \in DOMAIN queue : Append(queue, x)[i] = queue[i]
         /\ Append(queue, x)[Len(queue) + 1] = x
<1>1. queue \in Seq(S \cup {x}) /\ x \in S \cup {x}
  OBVIOUS
<1> QED
  BY <1>1

LEMMA JoinedIs ==
  ASSUME NEW S, NEW one \in Seq(S), NEW two \in Seq(S)
  PROVE  /\ DOMAIN one = 1 .. Len(one) /\ Len(one) \in Nat
         /\ DOMAIN two = 1 .. Len(two) /\ Len(two) \in Nat
         /\ one \o two \in Seq(S)
         /\ DOMAIN (one \o two) = 1 .. Len(one) + Len(two)
         /\ \A i \in DOMAIN one : (one \o two)[i] = one[i]
         /\ \A i \in DOMAIN two : (one \o two)[Len(one) + i] = two[i]
         /\ \A i \in DOMAIN (one \o two) : i \notin DOMAIN one => i - Len(one) \in DOMAIN two
OBVIOUS

LEMMA TailIs ==
  ASSUME NEW S, NEW queue \in Seq(S), queue # <<>>
  PROVE  /\ DOMAIN queue = 1 .. Len(queue) /\ Len(queue) \in Nat \ {0} /\ 1 \in DOMAIN queue
         /\ Head(queue) = queue[1] /\ Head(queue) \in S
         /\ Tail(queue) \in Seq(S)
         /\ DOMAIN Tail(queue) = 1 .. Len(queue) - 1
         /\ \A i \in DOMAIN Tail(queue) : Tail(queue)[i] = queue[i + 1]
         /\ \A i \in DOMAIN queue : i = 1 \/ i - 1 \in DOMAIN Tail(queue)
OBVIOUS

\* Something is in a queue.
Has(queue, x) == \E i \in DOMAIN queue : queue[i] = x

LEMMA HasInJoined ==
  ASSUME NEW S, NEW one \in Seq(S), NEW two \in Seq(S), NEW x
  PROVE  Has(one \o two, x) <=> Has(one, x) \/ Has(two, x)
<1>1. ASSUME Has(one, x) PROVE Has(one \o two, x)
  <2>1. PICK i \in DOMAIN one : one[i] = x
    BY <1>1 DEF Has
  <2>2. i \in DOMAIN (one \o two) /\ (one \o two)[i] = x
    BY <2>1, JoinedIs
  <2> QED
    BY <2>2 DEF Has
<1>2. ASSUME Has(two, x) PROVE Has(one \o two, x)
  <2>1. PICK i \in DOMAIN two : two[i] = x
    BY <1>2 DEF Has
  <2>2. Len(one) + i \in DOMAIN (one \o two) /\ (one \o two)[Len(one) + i] = x
    BY <2>1, JoinedIs
  <2> QED
    BY <2>2 DEF Has
<1>3. ASSUME Has(one \o two, x) PROVE Has(one, x) \/ Has(two, x)
  <2>1. PICK i \in DOMAIN (one \o two) : (one \o two)[i] = x
    BY <1>3 DEF Has
  <2>2. CASE i \in DOMAIN one
    BY <2>1, <2>2, JoinedIs DEF Has
  <2>3. CASE i \notin DOMAIN one
    <3>1. i - Len(one) \in DOMAIN two /\ i = Len(one) + (i - Len(one))
      BY <2>1, <2>3, JoinedIs
    <3>2. two[i - Len(one)] = x
      BY <2>1, <3>1, JoinedIs
    <3> QED
      BY <3>1, <3>2 DEF Has
  <2> QED
    BY <2>2, <2>3
<1> QED
  BY <1>1, <1>2, <1>3

LEMMA HasInAppended ==
  ASSUME NEW S, NEW queue \in Seq(S), NEW x, NEW y
  PROVE  Has(Append(queue, x), y) <=> Has(queue, y) \/ x = y
BY AppendedIs DEF Has

LEMMA HasInTail ==
  ASSUME NEW S, NEW queue \in Seq(S), queue # <<>>, NEW x
  PROVE  Has(queue, x) <=> Head(queue) = x \/ Has(Tail(queue), x)
<1>1. ASSUME Has(queue, x) PROVE Head(queue) = x \/ Has(Tail(queue), x)
  <2>1. PICK i \in DOMAIN queue : queue[i] = x
    BY <1>1 DEF Has
  <2>2. CASE i = 1
    BY <2>1, <2>2, TailIs
  <2>3. CASE i # 1
    <3>1. i - 1 \in DOMAIN Tail(queue) /\ Tail(queue)[i - 1] = x
      BY <2>1, <2>3, TailIs
    <3> QED
      BY <3>1 DEF Has
  <2> QED
    BY <2>2, <2>3
<1>2. ASSUME Has(Tail(queue), x) PROVE Has(queue, x)
  <2>1. PICK i \in DOMAIN Tail(queue) : Tail(queue)[i] = x
    BY <1>2 DEF Has
  <2>2. i + 1 \in DOMAIN queue /\ queue[i + 1] = x
    BY <2>1, TailIs
  <2> QED
    BY <2>2 DEF Has
<1>3. Head(queue) = x => Has(queue, x)
  BY TailIs DEF Has
<1> QED
  BY <1>1, <1>2, <1>3

\* Of those things in a queue that are of a kind: there is none, and the value of the last.
NoneOf(queue, P) == \A i \in DOMAIN queue : queue[i] \notin P
LastOf(queue, P, value) ==
  \E i \in DOMAIN queue :
    /\ queue[i] \in P /\ queue[i].value = value
    /\ \A j \in DOMAIN queue : i < j => queue[j] \notin P

LEMMA LastInJoined ==
  ASSUME NEW S, NEW one \in Seq(S), NEW two \in Seq(S), NEW P, NEW value
  PROVE  /\ NoneOf(one \o two, P) <=> NoneOf(one, P) /\ NoneOf(two, P)
         /\ LastOf(two, P, value) => LastOf(one \o two, P, value)
         /\ NoneOf(two, P) /\ LastOf(one, P, value) => LastOf(one \o two, P, value)
<1> DEFINE both == one \o two
<1>1. /\ DOMAIN one = 1 .. Len(one) /\ Len(one) \in Nat
      /\ DOMAIN two = 1 .. Len(two) /\ Len(two) \in Nat
      /\ DOMAIN both = 1 .. Len(one) + Len(two)
      /\ \A i \in DOMAIN one : both[i] = one[i]
      /\ \A i \in DOMAIN two : both[Len(one) + i] = two[i]
      /\ \A i \in DOMAIN both : i \notin DOMAIN one => i - Len(one) \in DOMAIN two
  OBVIOUS
<1> HIDE DEF both
<1>2. ASSUME NEW i \in DOMAIN both
      PROVE  \/ i \in DOMAIN one /\ both[i] = one[i]
             \/ i - Len(one) \in DOMAIN two /\ both[i] = two[i - Len(one)] /\ i \notin DOMAIN one
  <2>1. i \notin DOMAIN one => i - Len(one) \in DOMAIN two /\ i = Len(one) + (i - Len(one))
    BY <1>1
  <2> QED
    BY <1>1, <2>1
<1>3. /\ \A i \in DOMAIN one : i \in DOMAIN both
      /\ \A i \in DOMAIN two : Len(one) + i \in DOMAIN both /\ Len(one) + i \notin DOMAIN one
  BY <1>1
<1>4. NoneOf(both, P) => NoneOf(one, P) /\ NoneOf(two, P)
  <2> SUFFICES ASSUME NoneOf(both, P) PROVE NoneOf(one, P) /\ NoneOf(two, P)
    OBVIOUS
  <2>1. NoneOf(one, P)
    <3> SUFFICES ASSUME NEW i \in DOMAIN one PROVE one[i] \notin P
      BY DEF NoneOf
    <3>1. i \in DOMAIN both /\ both[i] = one[i]
      BY <1>1, <1>3
    <3> QED
      BY <3>1 DEF NoneOf
  <2>2. NoneOf(two, P)
    <3> SUFFICES ASSUME NEW i \in DOMAIN two PROVE two[i] \notin P
      BY DEF NoneOf
    <3>1. Len(one) + i \in DOMAIN both /\ both[Len(one) + i] = two[i]
      BY <1>1, <1>3
    <3> QED
      BY <3>1 DEF NoneOf
  <2> QED
    BY <2>1, <2>2
<1>5. NoneOf(one, P) /\ NoneOf(two, P) => NoneOf(both, P)
  <2> SUFFICES ASSUME NoneOf(one, P), NoneOf(two, P), NEW i \in DOMAIN both
               PROVE  both[i] \notin P
    BY DEF NoneOf
  <2>1. CASE i \in DOMAIN one /\ both[i] = one[i]
    BY <2>1 DEF NoneOf
  <2>2. CASE i - Len(one) \in DOMAIN two /\ both[i] = two[i - Len(one)]
    BY <2>2 DEF NoneOf
  <2> QED
    BY <1>2, <2>1, <2>2
<1>6. ASSUME LastOf(two, P, value) PROVE LastOf(both, P, value)
  <2>1. PICK i \in DOMAIN two :
          /\ two[i] \in P /\ two[i].value = value
          /\ \A j \in DOMAIN two : i < j => two[j] \notin P
    BY <1>6 DEF LastOf
  <2> DEFINE k == Len(one) + i
  <2>2. k \in DOMAIN both /\ both[k] = two[i]
    BY <1>1, <1>3
  <2>3. ASSUME NEW j \in DOMAIN both, k < j PROVE both[j] \notin P
    <3>1. j \notin DOMAIN one /\ i < j - Len(one)
      BY <1>1, <2>3
    <3>2. j - Len(one) \in DOMAIN two /\ both[j] = two[j - Len(one)]
      BY <1>2, <3>1
    <3> QED
      BY <2>1, <3>1, <3>2
  <2> HIDE DEF k
  <2> QED
    BY <2>1, <2>2, <2>3 DEF LastOf
<1>7. ASSUME NoneOf(two, P), LastOf(one, P, value) PROVE LastOf(both, P, value)
  <2>1. PICK i \in DOMAIN one :
          /\ one[i] \in P /\ one[i].value = value
          /\ \A j \in DOMAIN one : i < j => one[j] \notin P
    BY <1>7 DEF LastOf
  <2>2. i \in DOMAIN both /\ both[i] = one[i]
    BY <1>1, <1>3
  <2>3. ASSUME NEW j \in DOMAIN both, i < j PROVE both[j] \notin P
    <3>1. CASE j \in DOMAIN one /\ both[j] = one[j]
      BY <2>1, <2>3, <3>1
    <3>2. CASE j - Len(one) \in DOMAIN two /\ both[j] = two[j - Len(one)]
      BY <1>7, <3>2 DEF NoneOf
    <3> QED
      BY <1>2, <3>1, <3>2
  <2> QED
    BY <2>1, <2>2, <2>3 DEF LastOf
<1> QED
  BY <1>4, <1>5, <1>6, <1>7 DEF both

LEMMA LastInAppended ==
  ASSUME NEW S, NEW queue \in Seq(S), NEW x, NEW P, NEW value
  PROVE  /\ NoneOf(Append(queue, x), P) <=> NoneOf(queue, P) /\ x \notin P
         /\ x \in P /\ x.value = value => LastOf(Append(queue, x), P, value)
         /\ x \notin P /\ LastOf(queue, P, value) => LastOf(Append(queue, x), P, value)
<1> DEFINE next == Append(queue, x)
<1>1. /\ DOMAIN queue = 1 .. Len(queue) /\ Len(queue) \in Nat
      /\ DOMAIN next = 1 .. Len(queue) + 1
      /\ \A i \in DOMAIN queue : next[i] = queue[i]
      /\ next[Len(queue) + 1] = x
  BY AppendedIs
<1> HIDE DEF next
<1>2. NoneOf(next, P) <=> NoneOf(queue, P) /\ x \notin P
  BY <1>1 DEF NoneOf
<1>3. x \in P /\ x.value = value => LastOf(next, P, value)
  BY <1>1 DEF LastOf
<1>4. x \notin P /\ LastOf(queue, P, value) => LastOf(next, P, value)
  BY <1>1 DEF LastOf
<1> QED
  BY <1>2, <1>3, <1>4 DEF next

LEMMA LastInTail ==
  ASSUME NEW S, NEW queue \in Seq(S), queue # <<>>, NEW P, NEW value
  PROVE  /\ NoneOf(queue, P) <=> Head(queue) \notin P /\ NoneOf(Tail(queue), P)
         /\ LastOf(queue, P, value) =>
              \/ LastOf(Tail(queue), P, value)
              \/ NoneOf(Tail(queue), P) /\ Head(queue) \in P /\ Head(queue).value = value
<1> DEFINE rest == Tail(queue)
<1>1. /\ DOMAIN queue = 1 .. Len(queue) /\ Len(queue) \in Nat \ {0} /\ 1 \in DOMAIN queue
      /\ Head(queue) = queue[1]
      /\ DOMAIN rest = 1 .. Len(queue) - 1
      /\ \A i \in DOMAIN rest : rest[i] = queue[i + 1]
  BY TailIs
<1> HIDE DEF rest
<1>2. \A i \in DOMAIN queue : i # 1 => i - 1 \in DOMAIN rest /\ rest[i - 1] = queue[i]
  BY <1>1
<1>3. NoneOf(queue, P) => Head(queue) \notin P /\ NoneOf(rest, P)
  <2> SUFFICES ASSUME NoneOf(queue, P), NEW i \in DOMAIN rest PROVE rest[i] \notin P
    BY <1>1 DEF NoneOf
  <2>1. i + 1 \in DOMAIN queue /\ rest[i] = queue[i + 1]
    BY <1>1
  <2> QED
    BY <2>1 DEF NoneOf
<1>4. Head(queue) \notin P /\ NoneOf(rest, P) => NoneOf(queue, P)
  <2> SUFFICES ASSUME Head(queue) \notin P, NoneOf(rest, P), NEW i \in DOMAIN queue
               PROVE  queue[i] \notin P
    BY DEF NoneOf
  <2> QED
    BY <1>1, <1>2 DEF NoneOf
<1>5. ASSUME LastOf(queue, P, value)
      PROVE  \/ LastOf(rest, P, value)
             \/ NoneOf(rest, P) /\ Head(queue) \in P /\ Head(queue).value = value
  <2>1. PICK i \in DOMAIN queue :
          /\ queue[i] \in P /\ queue[i].value = value
          /\ \A j \in DOMAIN queue : i < j => queue[j] \notin P
    BY <1>5 DEF LastOf
  <2>2. CASE i = 1
    <3>1. ASSUME NEW j \in DOMAIN rest PROVE rest[j] \notin P
      <4>1. j + 1 \in DOMAIN queue /\ 1 < j + 1 /\ rest[j] = queue[j + 1]
        BY <1>1
      <4> QED
        BY <2>1, <2>2, <4>1
    <3> QED
      BY <1>1, <2>1, <2>2, <3>1 DEF NoneOf
  <2>3. CASE i # 1
    <3>1. i - 1 \in DOMAIN rest /\ rest[i - 1] = queue[i]
      BY <1>2, <2>3
    <3>2. ASSUME NEW j \in DOMAIN rest, i - 1 < j PROVE rest[j] \notin P
      <4>1. j + 1 \in DOMAIN queue /\ i < j + 1 /\ rest[j] = queue[j + 1]
        BY <1>1, <3>2
      <4> QED
        BY <2>1, <4>1
    <3> QED
      BY <2>1, <3>1, <3>2 DEF LastOf
  <2> QED
    BY <2>2, <2>3
<1> QED
  BY <1>3, <1>4, <1>5 DEF rest

\* Of a queue: a write of a slot, none in it, and the last one's value.
WritesTo(x, slot) == x.kind = "write" /\ x.slot = slot
NoWrite(queue, slot) == \A i \in DOMAIN queue : ~WritesTo(queue[i], slot)
LeavesIn(queue, slot, value) ==
  \E i \in DOMAIN queue :
    /\ WritesTo(queue[i], slot) /\ queue[i].value = value
    /\ \A j \in DOMAIN queue : i < j => ~WritesTo(queue[j], slot)

LEMMA WritesAre ==
  ASSUME NEW S, NEW queue \in Seq(S), NEW slot, NEW value
  PROVE  /\ NoWrite(queue, slot) <=> NoneOf(queue, {x \in S : WritesTo(x, slot)})
         /\ LeavesIn(queue, slot, value) <=> LastOf(queue, {x \in S : WritesTo(x, slot)}, value)
<1> DEFINE P == {x \in S : WritesTo(x, slot)}
<1>1. \A i \in DOMAIN queue : WritesTo(queue[i], slot) <=> queue[i] \in P
  OBVIOUS
<1> HIDE DEF P
<1>2. NoWrite(queue, slot) <=> NoneOf(queue, P)
  BY <1>1 DEF NoWrite, NoneOf
<1>3. LeavesIn(queue, slot, value) <=> LastOf(queue, P, value)
  BY <1>1 DEF LeavesIn, LastOf
<1> QED
  BY <1>2, <1>3 DEF P

LEMMA WritesInJoined ==
  ASSUME NEW S, NEW one \in Seq(S), NEW two \in Seq(S), NEW slot, NEW value
  PROVE  /\ NoWrite(one \o two, slot) <=> NoWrite(one, slot) /\ NoWrite(two, slot)
         /\ LeavesIn(two, slot, value) => LeavesIn(one \o two, slot, value)
         /\ NoWrite(two, slot) /\ LeavesIn(one, slot, value) => LeavesIn(one \o two, slot, value)
<1> DEFINE P == {x \in S : WritesTo(x, slot)}
<1>1. one \o two \in Seq(S)
  OBVIOUS
<1>2. /\ NoWrite(one \o two, slot) <=> NoneOf(one \o two, P)
      /\ LeavesIn(one \o two, slot, value) <=> LastOf(one \o two, P, value)
  BY <1>1, WritesAre
<1>3. /\ NoWrite(one, slot) <=> NoneOf(one, P)
      /\ LeavesIn(one, slot, value) <=> LastOf(one, P, value)
      /\ NoWrite(two, slot) <=> NoneOf(two, P)
      /\ LeavesIn(two, slot, value) <=> LastOf(two, P, value)
  BY WritesAre
<1> HIDE DEF P
<1> QED
  BY <1>2, <1>3, LastInJoined

LEMMA WritesInAppended ==
  ASSUME NEW S, NEW queue \in Seq(S), NEW x, NEW slot, NEW value
  PROVE  /\ NoWrite(Append(queue, x), slot) <=> NoWrite(queue, slot) /\ ~WritesTo(x, slot)
         /\ WritesTo(x, slot) /\ x.value = value => LeavesIn(Append(queue, x), slot, value)
         /\ ~WritesTo(x, slot) /\ LeavesIn(queue, slot, value) => LeavesIn(Append(queue, x), slot, value)
<1> DEFINE T == S \cup {x}
           P == {y \in T : WritesTo(y, slot)}
<1>1. queue \in Seq(T) /\ Append(queue, x) \in Seq(T)
  OBVIOUS
<1>2. x \in P <=> WritesTo(x, slot)
  OBVIOUS
<1> HIDE DEF T
<1>3. /\ NoWrite(queue, slot) <=> NoneOf(queue, P)
      /\ LeavesIn(queue, slot, value) <=> LastOf(queue, P, value)
      /\ NoWrite(Append(queue, x), slot) <=> NoneOf(Append(queue, x), P)
      /\ LeavesIn(Append(queue, x), slot, value) <=> LastOf(Append(queue, x), P, value)
  BY <1>1, WritesAre
<1> HIDE DEF P
<1> QED
  BY <1>1, <1>2, <1>3, LastInAppended

LEMMA WritesInTail ==
  ASSUME NEW S, NEW queue \in Seq(S), queue # <<>>, NEW slot, NEW value
  PROVE  /\ NoWrite(queue, slot) <=> ~WritesTo(Head(queue), slot) /\ NoWrite(Tail(queue), slot)
         /\ LeavesIn(queue, slot, value) =>
              \/ LeavesIn(Tail(queue), slot, value)
              \/ NoWrite(Tail(queue), slot) /\ WritesTo(Head(queue), slot) /\ Head(queue).value = value
<1> DEFINE P == {x \in S : WritesTo(x, slot)}
<1>1. Tail(queue) \in Seq(S) /\ (Head(queue) \in P <=> WritesTo(Head(queue), slot))
  BY TailIs
<1>2. /\ NoWrite(queue, slot) <=> NoneOf(queue, P)
      /\ LeavesIn(queue, slot, value) <=> LastOf(queue, P, value)
      /\ NoWrite(Tail(queue), slot) <=> NoneOf(Tail(queue), P)
      /\ LeavesIn(Tail(queue), slot, value) <=> LastOf(Tail(queue), P, value)
  BY <1>1, WritesAre
<1> HIDE DEF P
<1> QED
  BY <1>1, <1>2, LastInTail
-----------------------------------------------------------------------------
(* Web: what there is *)

FetchNames == {"DeleteSession", "PutItems", "Notifications"}
MsgNames ==
  FetchNames \cup
  {"Logout", "InternalLogout", "AddToLibrary", "RemoveFromLibrary", "PullNotifications",
   "DismissNotificationItem", "ProfileChanged", "NotificationsChanged"}

Msgs ==
  {Web!Msg(name, None) : name \in MsgNames} \cup {Web!Msg("UpdateSettings", settings) : settings \in 1 .. 2}
    \cup {Web!Msg("UpdateLibraryItem", item) : item \in Web!Items}
    \cup {Web!Msg("LibraryChanged", persisted) : persisted \in BOOLEAN}
SlotWrites ==
  {Web!Write("profile", profile) : profile \in Web!Profiles}
    \cup {Web!Write("library", item) : item \in Web!Items}
    \cup {Web!Write("notifications", news) : news \in BOOLEAN}
Fetches == {Web!Fetch(name) : name \in FetchNames}
EffectSet == Msgs \cup {Web!Event} \cup SlotWrites \cup Fetches

Models ==
  [profile : Web!Profiles, library : Web!Items, notifications : BOOLEAN,
   catalog : {"none", "loading", "ready"}, shelf : BOOLEAN, preview : BOOLEAN,
   pulled : SUBSET {"save", "tell"}]

\* The message that makes a slot be written.
Saving(slot) ==
  CASE slot = "profile" -> Web!Msg("ProfileChanged", None)
    [] slot = "library" -> Web!Msg("LibraryChanged", FALSE)
    [] slot = "notifications" -> Web!Msg("NotificationsChanged", None)

\* Nothing is written after a message among effects: all of them come from messages.
WritesFirst(queue) ==
  \A i, j \in DOMAIN queue : queue[i].kind = "msg" /\ i < j => queue[j].kind # "write"

\* What Ctx makes of a message.  What it has written is what it holds, ...
WritesWell(c) ==
  /\ WritesFirst(c.effects)
  /\ \A slot \in Web!SlotNames : NoWrite(c.effects, slot) \/ LeavesIn(c.effects, slot, c.model[slot])

\* ... a slot that it changes, or that the message is to have written, is written or about
\* to be, but for what a pull takes away, ...
SavesWell(msg, c) ==
  /\ \A slot \in Web!SlotNames :
       c.model[slot] # model[slot] \/ msg = Saving(slot) =>
         \/ Has(c.effects, Saving(slot)) \/ LeavesIn(c.effects, slot, c.model[slot])
         \/ slot = "notifications" /\ "save" \in c.model.pulled
  /\ "save" \in model.pulled /\ "save" \notin c.model.pulled =>
       /\ LeavesIn(c.effects, "notifications", c.model.notifications)
       /\ msg = Saving("notifications") /\ c.model.notifications = model.notifications

\* ... the two screens are left as they are, with a message when they are to change, ...
ShowsWell(c) ==
  /\ c.model.shelf = model.shelf /\ c.model.preview = model.preview
  /\ c.model.library # model.library =>
       \/ Has(c.effects, Web!Msg("LibraryChanged", TRUE))
       \/ Has(c.effects, Web!Msg("LibraryChanged", FALSE)) /\ Has(c.effects, Web!Msg("NotificationsChanged", None))
  /\ c.model.notifications # model.notifications =>
       Has(c.effects, Web!Msg("NotificationsChanged", None)) \/ "save" \in c.model.pulled

\* ... and what the interface sees of Ctx is announced.
TellsWell(c) ==
  c.changed # TRUE =>
    /\ "tell" \in model.pulled => "tell" \in c.model.pulled
    /\ c.model.profile = model.profile
    /\ c.model.notifications = model.notifications \/ "tell" \in c.model.pulled

HandlesWell(msg, c) ==
  /\ c.model \in Models /\ c.effects \in Seq(EffectSet)
  /\ WritesWell(c) /\ SavesWell(msg, c) /\ ShowsWell(c) /\ TellsWell(c)

LEMMA EffectsAre ==
  /\ \A name \in MsgNames : Web!Msg(name, None) \in EffectSet
  /\ \A settings \in 1 .. 2 : Web!Msg("UpdateSettings", settings) \in EffectSet
  /\ \A item \in Web!Items : Web!Msg("UpdateLibraryItem", item) \in EffectSet /\ Web!Write("library", item) \in EffectSet
  /\ \A persisted \in BOOLEAN : Web!Msg("LibraryChanged", persisted) \in EffectSet
  /\ \A profile \in Web!Profiles : Web!Write("profile", profile) \in EffectSet
  /\ \A news \in BOOLEAN : Web!Write("notifications", news) \in EffectSet
  /\ \A name \in FetchNames : Web!Fetch(name) \in EffectSet
  /\ Web!Event \in EffectSet
BY DEF EffectSet, Msgs, SlotWrites, Fetches

\* Lists of a few effects.
LEMMA ListOfNone ==
  ASSUME NEW slot
  PROVE  <<>> \in Seq(EffectSet) /\ WritesFirst(<<>>) /\ NoWrite(<<>>, slot)
BY DEF WritesFirst, NoWrite

LEMMA ListOfOne ==
  ASSUME NEW x \in EffectSet, NEW slot, NEW y
  PROVE  /\ <<x>> \in Seq(EffectSet) /\ WritesFirst(<<x>>)
         /\ NoWrite(<<x>>, slot) <=> ~WritesTo(x, slot)
         /\ WritesTo(x, slot) /\ x.value = y => LeavesIn(<<x>>, slot, y)
         /\ Has(<<x>>, y) <=> x = y
<1>1. <<x>> \in Seq(EffectSet) /\ DOMAIN <<x>> = {1} /\ <<x>>[1] = x
  OBVIOUS
<1> DEFINE list == <<x>>
<1> HIDE DEF list
<1>2. list \in Seq(EffectSet) /\ DOMAIN list = {1} /\ list[1] = x
  BY <1>1 DEF list
<1>3. WritesFirst(list)
  BY <1>2 DEF WritesFirst
<1>4. NoWrite(list, slot) <=> ~WritesTo(x, slot)
  BY <1>2 DEF NoWrite
<1>5. WritesTo(x, slot) /\ x.value = y => LeavesIn(list, slot, y)
  BY <1>2 DEF LeavesIn
<1>6. Has(list, y) <=> x = y
  BY <1>2 DEF Has
<1> QED
  BY <1>2, <1>3, <1>4, <1>5, <1>6 DEF list

\* One after another: no write comes after a message.
LEMMA FirstInJoined ==
  ASSUME NEW one \in Seq(EffectSet), NEW two \in Seq(EffectSet), WritesFirst(one), WritesFirst(two),
         \/ \A i \in DOMAIN one : one[i].kind # "msg"
         \/ \A i \in DOMAIN two : two[i].kind # "write"
  PROVE  WritesFirst(one \o two)
<1> DEFINE both == one \o two
<1>1. /\ DOMAIN one = 1 .. Len(one) /\ Len(one) \in Nat
      /\ DOMAIN two = 1 .. Len(two) /\ Len(two) \in Nat
      /\ DOMAIN both = 1 .. Len(one) + Len(two)
      /\ \A i \in DOMAIN one : both[i] = one[i]
      /\ \A i \in DOMAIN two : both[Len(one) + i] = two[i]
      /\ \A i \in DOMAIN both : i \notin DOMAIN one => i - Len(one) \in DOMAIN two
  OBVIOUS
<1> HIDE DEF both
<1>2. ASSUME NEW i \in DOMAIN both
      PROVE  \/ i \in DOMAIN one /\ both[i] = one[i]
             \/ i - Len(one) \in DOMAIN two /\ both[i] = two[i - Len(one)] /\ i \notin DOMAIN one
  <2>1. i \notin DOMAIN one => i - Len(one) \in DOMAIN two /\ i = Len(one) + (i - Len(one))
    BY <1>1
  <2> QED
    BY <1>1, <2>1
<1>3. ASSUME NEW i \in DOMAIN both, NEW j \in DOMAIN both, both[i].kind = "msg", i < j
      PROVE  both[j].kind # "write"
  <2>1. CASE i \in DOMAIN one /\ both[i] = one[i]
    <3>1. CASE j \in DOMAIN one /\ both[j] = one[j]
      BY <1>3, <2>1, <3>1 DEF WritesFirst
    <3>2. CASE j - Len(one) \in DOMAIN two /\ both[j] = two[j - Len(one)]
      BY <1>3, <2>1, <3>2
    <3> QED
      BY <1>2, <3>1, <3>2
  <2>2. CASE i - Len(one) \in DOMAIN two /\ both[i] = two[i - Len(one)] /\ i \notin DOMAIN one
    <3>1. j \notin DOMAIN one /\ i - Len(one) < j - Len(one)
      BY <1>1, <1>3, <2>2
    <3>2. j - Len(one) \in DOMAIN two /\ both[j] = two[j - Len(one)]
      BY <1>2, <3>1
    <3> QED
      BY <1>3, <2>2, <3>1, <3>2 DEF WritesFirst
  <2> QED
    BY <1>2, <2>1, <2>2
<1> QED
  BY <1>3 DEF WritesFirst, both

\* Without writes, the list is in order and writes no slot; one after another neither.
Unwritten(list) == list \in Seq(EffectSet) /\ \A i \in DOMAIN list : list[i].kind # "write"

LEMMA UnwrittenIs ==
  ASSUME NEW list, Unwritten(list), NEW slot
  PROVE  list \in Seq(EffectSet) /\ WritesFirst(list) /\ NoWrite(list, slot)
BY DEF Unwritten, WritesFirst, NoWrite, WritesTo

LEMMA UnwrittenJoined ==
  ASSUME NEW one, NEW two, Unwritten(one), Unwritten(two), NEW x
  PROVE  Unwritten(one \o two) /\ (Has(one \o two, x) <=> Has(one, x) \/ Has(two, x))
<1>1. one \in Seq(EffectSet) /\ two \in Seq(EffectSet)
  BY DEF Unwritten
<1>2. Has(one \o two, x) <=> Has(one, x) \/ Has(two, x)
  BY <1>1, HasInJoined
<1>3. ASSUME NEW i \in DOMAIN (one \o two) PROVE (one \o two)[i].kind # "write"
  <2>1. CASE i \in DOMAIN one
    BY <1>1, <2>1, JoinedIs DEF Unwritten
  <2>2. CASE i \notin DOMAIN one
    <3>1. i - Len(one) \in DOMAIN two /\ i = Len(one) + (i - Len(one))
      BY <1>1, <2>2, JoinedIs
    <3>2. (one \o two)[i] = two[i - Len(one)]
      BY <1>1, <3>1, JoinedIs
    <3> QED
      BY <3>1, <3>2 DEF Unwritten
  <2> QED
    BY <2>1, <2>2
<1> QED
  BY <1>1, <1>2, <1>3, JoinedIs DEF Unwritten

LEMMA UnwrittenLists ==
  /\ Unwritten(<<>>) /\ \A y : ~Has(<<>>, y)
  /\ \A x \in EffectSet : x.kind # "write" => Unwritten(<<x>>) /\ \A y : Has(<<x>>, y) <=> x = y
<1>1. Unwritten(<<>>) /\ \A y : ~Has(<<>>, y)
  BY DEF Unwritten, Has
<1>2. ASSUME NEW x \in EffectSet, x.kind # "write"
      PROVE  Unwritten(<<x>>) /\ \A y : Has(<<x>>, y) <=> x = y
  <2>1. <<x>> \in Seq(EffectSet) /\ DOMAIN <<x>> = {1} /\ <<x>>[1] = x
    OBVIOUS
  <2>2. \A y : Has(<<x>>, y) <=> x = y
    BY ListOfOne
  <2> QED
    BY <1>2, <2>1, <2>2 DEF Unwritten
<1> QED
  BY <1>1, <1>2

LEMMA UpdatesLibrary ==
  ASSUME model \in Models, NEW item \in Web!Items
  PROVE  HandlesWell(Web!Msg("UpdateLibraryItem", item), Web!UpdateLibraryItem(item))
<1> DEFINE c == Web!UpdateLibraryItem(item)
           msg == Web!Msg("UpdateLibraryItem", item)
<1>1. \A slot \in Web!SlotNames : msg # Saving(slot)
  BY DEF Web!Msg, Saving, Web!SlotNames
<1>2. CASE item = model.library
  <2>1. c.model = model /\ c.effects = <<>> /\ c.changed = FALSE
    BY <1>2 DEF Web!UpdateLibraryItem, Web!Quiet
  <2>2. WritesWell(c)
    BY <2>1, ListOfNone DEF WritesWell
  <2>3. SavesWell(msg, c) /\ ShowsWell(c) /\ TellsWell(c)
    BY <1>1, <2>1 DEF SavesWell, ShowsWell, TellsWell
  <2> QED
    BY <2>1, <2>2, <2>3, ListOfNone DEF HandlesWell
<1>3. CASE item # model.library
  <2> DEFINE next == [model EXCEPT !.library = item, !.pulled = @ \ {"tell"}]
             put == IF model.profile.user THEN <<Web!Fetch("PutItems")>> ELSE <<>>
             write == Web!Write("library", item)
             notice == Web!Msg("LibraryChanged", TRUE)
             list == put \o <<write, notice>>
  <2>1. c.model = next /\ c.effects = list /\ c.changed = TRUE
    BY <1>3 DEF Web!UpdateLibraryItem, Web!Changed
  <2>2. put \in {<<Web!Fetch("PutItems")>>, <<>>}
    OBVIOUS
  <2>3. /\ next \in Models /\ next.library = item /\ next.shelf = model.shelf /\ next.preview = model.preview
        /\ next.profile = model.profile /\ next.notifications = model.notifications
        /\ next.pulled = model.pulled \ {"tell"}
    BY DEF Models
  <2>4. write \in EffectSet /\ notice \in EffectSet /\ Web!Fetch("PutItems") \in EffectSet
    BY EffectsAre DEF FetchNames
  <2>5. /\ WritesTo(write, "library") /\ write.value = item /\ write.kind # "msg" /\ notice.kind # "write"
        /\ ~WritesTo(write, "profile") /\ ~WritesTo(write, "notifications")
        /\ \A slot \in Web!SlotNames : ~WritesTo(notice, slot)
        /\ Web!Fetch("PutItems").kind = "fetch"
    BY DEF WritesTo, Web!Write, Web!Msg, Web!Fetch
  <2> HIDE DEF write, notice
  <2> DEFINE two == <<write, notice>>
  <2>6. two \in Seq(EffectSet) /\ DOMAIN two = {1, 2} /\ two[1] = write /\ two[2] = notice
    BY <2>4
  <2> HIDE DEF two
  <2>7. /\ WritesFirst(two) /\ Has(two, notice) /\ LeavesIn(two, "library", item)
        /\ NoWrite(two, "profile") /\ NoWrite(two, "notifications")
    BY <2>5, <2>6 DEF WritesFirst, Has, LeavesIn, NoWrite, Web!SlotNames
  <2>8. Unwritten(put) /\ \A i \in DOMAIN put : put[i].kind # "msg"
    <3>1. Unwritten(<<Web!Fetch("PutItems")>>) /\ Unwritten(<<>>)
      BY <2>4, <2>5, UnwrittenLists
    <3>2. /\ \A i \in DOMAIN <<>> : <<>>[i].kind # "msg"
          /\ \A i \in DOMAIN <<Web!Fetch("PutItems")>> : <<Web!Fetch("PutItems")>>[i].kind # "msg"
      BY <2>5
    <3> HIDE DEF put
    <3> QED
      BY <2>2, <3>1, <3>2
  <2> HIDE DEF put
  <2>9. /\ list \in Seq(EffectSet) /\ WritesFirst(list) /\ Has(list, notice)
        /\ LeavesIn(list, "library", item) /\ NoWrite(list, "profile") /\ NoWrite(list, "notifications")
    <3>1. list = put \o two
      BY DEF two
    <3>2. put \in Seq(EffectSet) /\ WritesFirst(put) /\ \A slot : NoWrite(put, slot)
      BY <2>8, UnwrittenIs
    <3> HIDE DEF list
    <3> QED
      BY <2>6, <2>7, <2>8, <3>1, <3>2, JoinedIs, FirstInJoined, WritesInJoined, HasInJoined
  <2> HIDE DEF list, next
  <2>10. WritesWell(c)
    BY <2>1, <2>3, <2>9 DEF WritesWell, Web!SlotNames
  <2>11. SavesWell(msg, c)
    BY <1>1, <2>1, <2>3, <2>9 DEF SavesWell, Web!SlotNames
  <2>12. ShowsWell(c)
    BY <2>1, <2>3, <2>9 DEF ShowsWell, notice
  <2>13. TellsWell(c)
    BY <2>1 DEF TellsWell
  <2> QED
    BY <2>1, <2>3, <2>9, <2>10, <2>11, <2>12, <2>13 DEF HandlesWell
<1> QED
  BY <1>2, <1>3

LEMMA UnwrittenPair ==
  ASSUME NEW x \in EffectSet, NEW y \in EffectSet, x.kind # "write", y.kind # "write"
  PROVE  Unwritten(<<x, y>>) /\ Has(<<x, y>>, x) /\ Has(<<x, y>>, y)
<1> DEFINE list == <<x, y>>
<1>1. list \in Seq(EffectSet) /\ DOMAIN list = {1, 2} /\ list[1] = x /\ list[2] = y
  OBVIOUS
<1> HIDE DEF list
<1>2. Unwritten(list) /\ Has(list, x) /\ Has(list, y)
  BY <1>1 DEF Unwritten, Has
<1> QED
  BY <1>2 DEF list

LEMMA UnwrittenTriple ==
  ASSUME NEW x \in EffectSet, NEW y \in EffectSet, NEW z \in EffectSet,
         x.kind # "write", y.kind # "write", z.kind # "write"
  PROVE  Unwritten(<<x, y, z>>)
<1> DEFINE list == <<x, y, z>>
<1>1. list \in Seq(EffectSet) /\ DOMAIN list = {1, 2, 3} /\ list[1] = x /\ list[2] = y /\ list[3] = z
  OBVIOUS
<1> HIDE DEF list
<1>2. Unwritten(list)
  BY <1>1 DEF Unwritten
<1> QED
  BY <1>2 DEF list

LEMMA KindsAre ==
  /\ \A name, arg : Web!Msg(name, arg).kind = "msg" /\ Web!Msg(name, arg).name = name /\ Web!Msg(name, arg).arg = arg
  /\ \A name : Web!Fetch(name).kind = "fetch"
  /\ \A slot, value : Web!Write(slot, value).kind = "write" /\ Web!Write(slot, value).slot = slot
                      /\ Web!Write(slot, value).value = value
  /\ Web!Event.kind = "event"
BY DEF Web!Msg, Web!Fetch, Web!Write, Web!Event

\* A message that saves nothing, of which Ctx stays as it is.
LEMMA IdlesWell ==
  ASSUME model \in Models, NEW msg, NEW c, \A slot \in Web!SlotNames : msg # Saving(slot),
         c.model = model, Unwritten(c.effects)
  PROVE  HandlesWell(msg, c)
<1>1. c.effects \in Seq(EffectSet) /\ WritesFirst(c.effects) /\ \A slot : NoWrite(c.effects, slot)
  BY UnwrittenIs
<1>2. SavesWell(msg, c) /\ ShowsWell(c) /\ TellsWell(c)
  BY DEF SavesWell, ShowsWell, TellsWell
<1> QED
  BY <1>1, <1>2 DEF HandlesWell, WritesWell

LEMMA SavingIs ==
  ASSUME NEW slot \in Web!SlotNames
  PROVE  Saving(slot).name = IF slot = "profile" THEN "ProfileChanged"
                             ELSE IF slot = "library" THEN "LibraryChanged" ELSE "NotificationsChanged"
<1>1. CASE slot = "profile"
  BY <1>1, KindsAre DEF Saving
<1>2. CASE slot = "library"
  BY <1>2 DEF Saving, Web!Msg
<1>3. CASE slot = "notifications"
  BY <1>3, KindsAre DEF Saving
<1> QED
  BY <1>1, <1>2, <1>3 DEF Web!SlotNames

LEMMA SavesNothing ==
  ASSUME NEW name, NEW arg, name \notin {"ProfileChanged", "LibraryChanged", "NotificationsChanged"}
  PROVE  \A slot \in Web!SlotNames : Web!Msg(name, arg) # Saving(slot)
BY KindsAre, SavingIs

LEMMA UpdatesSettings ==
  ASSUME model \in Models, NEW settings \in 1 .. 2
  PROVE  HandlesWell(Web!Msg("UpdateSettings", settings), Web!UpdateSettings(settings))
<1> DEFINE c == Web!UpdateSettings(settings)
           msg == Web!Msg("UpdateSettings", settings)
<1>1. \A slot \in Web!SlotNames : msg # Saving(slot)
  BY SavesNothing
<1>2. CASE model.profile.settings = settings
  <2>1. c.model = model /\ c.effects = <<Web!Event>>
    BY <1>2 DEF Web!UpdateSettings, Web!Quiet
  <2>2. Unwritten(<<Web!Event>>)
    BY EffectsAre, KindsAre, UnwrittenLists
  <2> QED
    BY <1>1, <2>1, <2>2, IdlesWell
<1>3. CASE model.profile.settings # settings
  <2> DEFINE next == [[model EXCEPT !.profile.settings = settings] EXCEPT !.pulled = @ \ {"tell"}]
             notice == Web!Msg("ProfileChanged", None)
             list == <<Web!Event, notice>>
  <2>1. c.model = next /\ c.effects = list /\ c.changed = TRUE
    BY <1>3 DEF Web!UpdateSettings, Web!Changed
  <2>2. /\ next \in Models /\ next.library = model.library /\ next.shelf = model.shelf
        /\ next.preview = model.preview /\ next.notifications = model.notifications
        /\ next.pulled = model.pulled \ {"tell"}
    BY DEF Models, Web!Profiles
  <2>3. Unwritten(list) /\ Has(list, notice)
    BY EffectsAre, KindsAre, UnwrittenPair DEF MsgNames
  <2>4. list \in Seq(EffectSet) /\ WritesFirst(list) /\ \A slot : NoWrite(list, slot)
    BY <2>3, UnwrittenIs
  <2>5. notice = Saving("profile")
    BY DEF Saving
  <2> HIDE DEF next, list, notice
  <2>6. WritesWell(c)
    BY <2>1, <2>4 DEF WritesWell
  <2>7. SavesWell(msg, c)
    BY <1>1, <2>1, <2>2, <2>3, <2>5 DEF SavesWell, Web!SlotNames
  <2>8. ShowsWell(c) /\ TellsWell(c)
    BY <2>1, <2>2 DEF ShowsWell, TellsWell
  <2> QED
    BY <2>1, <2>2, <2>4, <2>6, <2>7, <2>8 DEF HandlesWell
<1> QED
  BY <1>2, <1>3

LEMMA AddsToLibrary ==
  ASSUME model \in Models
  PROVE  HandlesWell(Web!Msg("AddToLibrary", None), Web!AddToLibrary)
<1> DEFINE item == [model.library EXCEPT !.state = "saved"]
           list == <<Web!Msg("UpdateLibraryItem", item), Web!Event>>
<1>1. item \in Web!Items
  BY DEF Models, Web!Items
<1> HIDE DEF item
<1>2. Unwritten(list)
  BY <1>1, EffectsAre, KindsAre, UnwrittenPair
<1>3. Web!AddToLibrary.model = model /\ Web!AddToLibrary.effects = list
  BY DEF Web!AddToLibrary, Web!Quiet, item
<1> HIDE DEF list
<1> QED
  BY <1>2, <1>3, IdlesWell, SavesNothing

LEMMA RemovesFromLibrary ==
  ASSUME model \in Models
  PROVE  HandlesWell(Web!Msg("RemoveFromLibrary", None), Web!RemoveFromLibrary)
<1> DEFINE item == [model.library EXCEPT !.state = "removed"]
           list == <<Web!Msg("UpdateLibraryItem", item), Web!Msg("DismissNotificationItem", None), Web!Event>>
<1>1. item \in Web!Items
  BY DEF Models, Web!Items
<1> HIDE DEF item
<1>2. Unwritten(list) /\ Unwritten(<<Web!Event>>)
  BY <1>1, EffectsAre, KindsAre, UnwrittenTriple, UnwrittenLists DEF MsgNames
<1>3. Web!RemoveFromLibrary.model = model /\ Web!RemoveFromLibrary.effects \in {list, <<Web!Event>>}
  BY DEF Web!RemoveFromLibrary, Web!Quiet, item
<1> HIDE DEF list
<1> QED
  BY <1>2, <1>3, IdlesWell, SavesNothing

\* A message that has a slot written.
LEMMA WritesOneWell ==
  ASSUME model \in Models, NEW slot \in Web!SlotNames, NEW msg, msg = Saving(slot), NEW c,
         c.effects = <<Web!Write(slot, model[slot])>>, Web!Write(slot, model[slot]) \in EffectSet,
         c.changed = FALSE,
         \/ c.model = model
         \/ slot = "notifications" /\ c.model = [model EXCEPT !.pulled = @ \ {"save"}]
  PROVE  HandlesWell(msg, c)
<1> DEFINE write == Web!Write(slot, model[slot])
<1>1. /\ write.kind = "write" /\ WritesTo(write, slot) /\ write.value = model[slot]
      /\ \A other \in Web!SlotNames \ {slot} : ~WritesTo(write, other)
  BY KindsAre DEF WritesTo
<1>2. c.effects = <<write>> /\ write \in EffectSet
  OBVIOUS
<1> HIDE DEF write
<1>3. /\ c.effects \in Seq(EffectSet) /\ WritesFirst(c.effects) /\ LeavesIn(c.effects, slot, model[slot])
      /\ \A other \in Web!SlotNames \ {slot} : NoWrite(c.effects, other)
  <2>1. c.effects \in Seq(EffectSet) /\ WritesFirst(c.effects)
    BY <1>2, ListOfOne
  <2>2. LeavesIn(c.effects, slot, model[slot])
    <3> DEFINE value == model[slot]
    <3>1. write \in EffectSet /\ WritesTo(write, slot) /\ write.value = value
      BY <1>1, <1>2
    <3> HIDE DEF value
    <3>2. LeavesIn(<<write>>, slot, value)
      BY <3>1, ListOfOne
    <3> QED
      BY <1>2, <3>2 DEF value
  <2>3. ASSUME NEW other \in Web!SlotNames \ {slot} PROVE NoWrite(c.effects, other)
    BY <1>1, <1>2, ListOfOne
  <2> QED
    BY <2>1, <2>2, <2>3
<1>4. \A one, two \in Web!SlotNames : Saving(one) = Saving(two) => one = two
  BY SavingIs DEF Web!SlotNames
<1>5. /\ c.model \in Models /\ c.model.library = model.library /\ c.model.profile = model.profile
      /\ c.model.notifications = model.notifications
      /\ c.model.shelf = model.shelf /\ c.model.preview = model.preview
      /\ \/ c.model.pulled = model.pulled
         \/ slot = "notifications" /\ c.model.pulled = model.pulled \ {"save"}
  <2>1. CASE c.model = model
    BY <2>1
  <2>2. CASE slot = "notifications" /\ c.model = [model EXCEPT !.pulled = @ \ {"save"}]
    BY <2>2 DEF Models
  <2> QED
    BY <2>1, <2>2
<1>6. \A other \in Web!SlotNames : c.model[other] = model[other]
  BY <1>5 DEF Web!SlotNames
<1>7. WritesWell(c)
  BY <1>3, <1>6 DEF WritesWell
<1>8. SavesWell(msg, c)
  BY <1>3, <1>4, <1>5, <1>6 DEF SavesWell
<1>9. ShowsWell(c) /\ TellsWell(c)
  BY <1>5 DEF ShowsWell, TellsWell
<1> QED
  BY <1>3, <1>5, <1>7, <1>8, <1>9 DEF HandlesWell

LEMMA PullsWell ==
  ASSUME model \in Models
  PROVE  HandlesWell(Web!Msg("PullNotifications", None), Web!PullNotifications)
<1> DEFINE c == Web!PullNotifications
           msg == Web!Msg("PullNotifications", None)
           news == model.notifications /\ Web!Notifiable
           next == [model EXCEPT !.notifications = news,
                                 !.pulled = IF news = model.notifications THEN @ ELSE {"save", "tell"}]
           list == <<Web!Fetch("Notifications")>>
           asking == [next EXCEPT !.catalog = "loading"]
<1>1. \A slot \in Web!SlotNames : msg # Saving(slot)
  BY SavesNothing
<1>2. news \in BOOLEAN
  OBVIOUS
<1>3. \/ c.model = next /\ c.effects = <<>>
      \/ c.model = asking /\ c.effects = list
  BY DEF Web!PullNotifications, Web!Quiet
<1> HIDE DEF news
<1> DEFINE pulled == IF news = model.notifications THEN model.pulled ELSE {"save", "tell"}
<1>4. /\ {next, asking} \subseteq Models
      /\ \A m \in {next, asking} :
           /\ m.profile = model.profile /\ m.library = model.library
           /\ m.shelf = model.shelf /\ m.preview = model.preview /\ m.notifications = news
           /\ m.pulled = IF news = model.notifications THEN model.pulled ELSE {"save", "tell"}
  <2>1. pulled \in SUBSET {"save", "tell"}
    BY DEF Models
  <2>2. next = [model EXCEPT !.notifications = news, !.pulled = pulled]
    BY DEF Models
  <2> HIDE DEF pulled, next
  <2>3. /\ next \in Models /\ next.profile = model.profile /\ next.library = model.library
        /\ next.shelf = model.shelf /\ next.preview = model.preview /\ next.notifications = news
        /\ next.pulled = pulled
    BY <1>2, <2>1, <2>2 DEF Models
  <2>4. /\ asking \in Models /\ asking.profile = next.profile /\ asking.library = next.library
        /\ asking.shelf = next.shelf /\ asking.preview = next.preview
        /\ asking.notifications = next.notifications /\ asking.pulled = next.pulled
    BY <2>3 DEF Models
  <2> HIDE DEF asking
  <2>5. pulled = IF news = model.notifications THEN model.pulled ELSE {"save", "tell"}
    BY DEF pulled
  <2> QED
    BY <2>3, <2>4, <2>5
<1>5. Unwritten(list) /\ Unwritten(<<>>)
  BY EffectsAre, KindsAre, UnwrittenLists DEF FetchNames
<1> HIDE DEF next, list, asking
<1>6. /\ c.model \in Models /\ c.model.profile = model.profile /\ c.model.library = model.library
      /\ c.model.shelf = model.shelf /\ c.model.preview = model.preview
      /\ c.model.notifications = model.notifications \/ {"save", "tell"} \subseteq c.model.pulled
      /\ model.pulled \subseteq c.model.pulled
  <2>1. c.model \in {next, asking}
    BY <1>3
  <2>2. model.pulled \subseteq {"save", "tell"}
    BY DEF Models
  <2> HIDE DEF c
  <2> QED
    BY <1>4, <2>1, <2>2
<1>7. c.effects \in Seq(EffectSet) /\ WritesFirst(c.effects) /\ \A slot : NoWrite(c.effects, slot)
  BY <1>3, <1>5, UnwrittenIs
<1>8. SavesWell(msg, c)
  BY <1>1, <1>6 DEF SavesWell, Web!SlotNames
<1>9. ShowsWell(c) /\ TellsWell(c)
  BY <1>6 DEF ShowsWell, TellsWell
<1> QED
  BY <1>6, <1>7, <1>8, <1>9 DEF HandlesWell, WritesWell

\* Notifications change, with the message that has them saved.
LEMMA NotifiesWell ==
  ASSUME model \in Models, NEW msg, NEW c, NEW notice, notice = Web!Msg("NotificationsChanged", None),
         \A slot \in Web!SlotNames : msg # Saving(slot),
         c.model \in Models, c.changed = TRUE, Unwritten(c.effects),
         c.model.profile = model.profile, c.model.library = model.library,
         c.model.shelf = model.shelf, c.model.preview = model.preview,
         c.model.notifications = model.notifications \/ Has(c.effects, notice),
         c.model.pulled = model.pulled \ {"tell"}
  PROVE  HandlesWell(msg, c)
<1>1. c.effects \in Seq(EffectSet) /\ WritesFirst(c.effects) /\ \A slot : NoWrite(c.effects, slot)
  BY UnwrittenIs
<1>2. notice = Saving("notifications")
  BY DEF Saving
<1>3. SavesWell(msg, c)
  BY <1>2 DEF SavesWell, Web!SlotNames
<1>4. ShowsWell(c) /\ TellsWell(c)
  BY DEF ShowsWell, TellsWell
<1> QED
  BY <1>1, <1>3, <1>4 DEF HandlesWell, WritesWell

LEMMA DismissesWell ==
  ASSUME model \in Models
  PROVE  HandlesWell(Web!Msg("DismissNotificationItem", None), Web!DismissNotificationItem)
<1> DEFINE c == Web!DismissNotificationItem
           msg == Web!Msg("DismissNotificationItem", None)
           notice == Web!Msg("NotificationsChanged", None)
           marked == [model.library EXCEPT !.seen = TRUE]
           dated == IF model.library.state = "none" THEN <<>> ELSE <<Web!Msg("UpdateLibraryItem", marked)>>
           list == <<notice>> \o dated \o <<Web!Event>>
           next == [[model EXCEPT !.notifications = FALSE] EXCEPT !.pulled = @ \ {"tell"}]
<1>1. \A slot \in Web!SlotNames : msg # Saving(slot)
  BY SavesNothing
<1>2. CASE ~model.notifications
  <2>1. c.model = model /\ c.effects = <<>>
    BY <1>2 DEF Web!DismissNotificationItem, Web!Quiet
  <2> QED
    BY <1>1, <2>1, IdlesWell, UnwrittenLists
<1>3. CASE model.notifications
  <2>1. c.model = next /\ c.effects = list /\ c.changed = TRUE
    BY <1>3 DEF Web!DismissNotificationItem, Web!Changed
  <2>2. /\ next \in Models /\ next.profile = model.profile /\ next.library = model.library
        /\ next.shelf = model.shelf /\ next.preview = model.preview
        /\ next.pulled = model.pulled \ {"tell"}
    BY DEF Models
  <2>3. Unwritten(list) /\ Has(list, notice)
    <3>1. marked \in Web!Items
      BY DEF Models, Web!Items
    <3> HIDE DEF marked
    <3>2. /\ Unwritten(<<notice>>) /\ Has(<<notice>>, notice) /\ Unwritten(<<Web!Event>>) /\ Unwritten(<<>>)
          /\ Unwritten(<<Web!Msg("UpdateLibraryItem", marked)>>)
      BY <3>1, EffectsAre, KindsAre, UnwrittenLists DEF MsgNames
    <3>3. Unwritten(dated)
      BY <3>2
    <3> HIDE DEF dated, notice
    <3>4. Unwritten(<<notice>> \o dated) /\ Has(<<notice>> \o dated, notice)
      BY <3>2, <3>3, UnwrittenJoined
    <3> QED
      BY <3>2, <3>4, UnwrittenJoined
  <2> HIDE DEF next, list
  <2> QED
    BY <1>1, <2>1, <2>2, <2>3, NotifiesWell
<1> QED
  BY <1>2, <1>3

LEMMA AnswersWell ==
  ASSUME model \in Models
  PROVE  HandlesWell(Web!Msg("Notifications", None), Web!ResourceRequestResult)
<1> DEFINE c == Web!ResourceRequestResult
           msg == Web!Msg("Notifications", None)
           notice == Web!Msg("NotificationsChanged", None)
           news == Web!Notifiable
           list == IF model.notifications = news THEN <<>> ELSE <<notice>>
           next == [[model EXCEPT !.notifications = news, !.catalog = "ready"] EXCEPT !.pulled = @ \ {"tell"}]
<1>1. \A slot \in Web!SlotNames : msg # Saving(slot)
  BY SavesNothing
<1>2. CASE model.catalog # "loading"
  <2>1. c.model = model /\ c.effects = <<>>
    BY <1>2 DEF Web!ResourceRequestResult, Web!Quiet
  <2> QED
    BY <1>1, <2>1, IdlesWell, UnwrittenLists
<1>3. CASE model.catalog = "loading"
  <2>1. c.model = next /\ c.effects = list /\ c.changed = TRUE
    BY <1>3 DEF Web!ResourceRequestResult, Web!Changed
  <2>2. news \in BOOLEAN
    BY DEF Web!Notifiable
  <2> HIDE DEF news
  <2>3. /\ next \in Models /\ next.profile = model.profile /\ next.library = model.library
        /\ next.shelf = model.shelf /\ next.preview = model.preview
        /\ next.pulled = model.pulled \ {"tell"} /\ next.notifications = news
    BY <2>2 DEF Models
  <2>4. Unwritten(list) /\ (news = model.notifications \/ Has(list, notice))
    <3>1. Unwritten(<<notice>>) /\ Has(<<notice>>, notice) /\ Unwritten(<<>>)
      BY EffectsAre, KindsAre, UnwrittenLists DEF MsgNames
    <3> HIDE DEF notice
    <3> QED
      BY <3>1
  <2> HIDE DEF next, list
  <2> QED
    BY <1>1, <2>1, <2>3, <2>4, NotifiesWell
<1> QED
  BY <1>2, <1>3

LEMMA LeavesWell ==
  ASSUME model \in Models
  PROVE  HandlesWell(Web!Msg("InternalLogout", None), Web!Logout)
<1> DEFINE c == Web!Logout
           msg == Web!Msg("InternalLogout", None)
           profile == IF model.profile = Web!DefaultProfile THEN <<>> ELSE <<Web!Msg("ProfileChanged", None)>>
           shelf == IF model.library = Web!NoItem /\ ~model.profile.user THEN <<>> ELSE <<Web!Msg("LibraryChanged", FALSE)>>
           session == IF model.profile.user THEN <<Web!Fetch("DeleteSession")>> ELSE <<>>
           notice == Web!Msg("NotificationsChanged", None)
           list == <<Web!Event>> \o session \o profile \o shelf \o <<notice>>
           next == [[model EXCEPT !.profile = Web!DefaultProfile, !.library = Web!NoItem, !.notifications = FALSE,
                                  !.catalog = "none"] EXCEPT !.pulled = @ \ {"tell"}]
<1>1. \A slot \in Web!SlotNames : msg # Saving(slot)
  BY SavesNothing
<1>2. c.model = next /\ c.effects = list /\ c.changed = TRUE
  BY DEF Web!Logout, Web!Changed
<1>3. /\ next \in Models /\ next.profile = Web!DefaultProfile /\ next.library = Web!NoItem
      /\ next.shelf = model.shelf /\ next.preview = model.preview
      /\ next.pulled = model.pulled \ {"tell"}
  <2>1. Web!DefaultProfile \in Web!Profiles /\ Web!NoItem \in Web!Items
    BY DEF Web!DefaultProfile, Web!Profiles, Web!NoItem, Web!Items
  <2> QED
    BY <2>1 DEF Models
<1>4. /\ Unwritten(list) /\ Has(list, notice)
      /\ model.profile # Web!DefaultProfile => Has(list, Web!Msg("ProfileChanged", None))
      /\ model.library # Web!NoItem => Has(list, Web!Msg("LibraryChanged", FALSE))
  <2>1. /\ Unwritten(<<Web!Event>>) /\ Unwritten(<<>>) /\ Unwritten(<<Web!Fetch("DeleteSession")>>)
        /\ Unwritten(<<notice>>) /\ Has(<<notice>>, notice)
        /\ Unwritten(<<Web!Msg("ProfileChanged", None)>>)
        /\ Has(<<Web!Msg("ProfileChanged", None)>>, Web!Msg("ProfileChanged", None))
        /\ Unwritten(<<Web!Msg("LibraryChanged", FALSE)>>)
        /\ Has(<<Web!Msg("LibraryChanged", FALSE)>>, Web!Msg("LibraryChanged", FALSE))
    BY EffectsAre, KindsAre, UnwrittenLists DEF MsgNames, FetchNames
  <2>2. Unwritten(session)
    BY <2>1
  <2>3. Unwritten(profile) /\ (model.profile # Web!DefaultProfile => Has(profile, Web!Msg("ProfileChanged", None)))
    BY <2>1
  <2>4. Unwritten(shelf) /\ (model.library # Web!NoItem => Has(shelf, Web!Msg("LibraryChanged", FALSE)))
    BY <2>1
  <2> HIDE DEF session, profile, shelf, notice
  <2>5. Unwritten(<<Web!Event>> \o session)
    BY <2>1, <2>2, UnwrittenJoined
  <2>6. /\ Unwritten(<<Web!Event>> \o session \o profile)
        /\ \A x : Has(profile, x) => Has(<<Web!Event>> \o session \o profile, x)
    BY <2>3, <2>5, UnwrittenJoined
  <2>7. /\ Unwritten(<<Web!Event>> \o session \o profile \o shelf)
        /\ \A x : Has(profile, x) \/ Has(shelf, x) => Has(<<Web!Event>> \o session \o profile \o shelf, x)
    BY <2>4, <2>6, UnwrittenJoined
  <2>8. /\ Unwritten(list)
        /\ \A x : Has(profile, x) \/ Has(shelf, x) \/ Has(<<notice>>, x) => Has(list, x)
    BY <2>1, <2>7, UnwrittenJoined
  <2> HIDE DEF list
  <2> QED
    BY <2>1, <2>3, <2>4, <2>8
<1> HIDE DEF list, next
<1>5. c.effects \in Seq(EffectSet) /\ WritesFirst(c.effects) /\ \A slot : NoWrite(c.effects, slot)
  BY <1>2, <1>4, UnwrittenIs
<1>6. /\ Saving("profile") = Web!Msg("ProfileChanged", None) /\ Saving("library") = Web!Msg("LibraryChanged", FALSE)
      /\ Saving("notifications") = notice
  BY DEF Saving
<1>7. /\ next["profile"] = next.profile /\ next["library"] = next.library
      /\ model["profile"] = model.profile /\ model["library"] = model.library
  OBVIOUS
<1>8. SavesWell(msg, c)
  BY <1>1, <1>2, <1>3, <1>4, <1>6, <1>7 DEF SavesWell, Web!SlotNames
<1>9. ShowsWell(c) /\ TellsWell(c)
  BY <1>2, <1>3, <1>4 DEF ShowsWell, TellsWell
<1> QED
  BY <1>2, <1>3, <1>5, <1>8, <1>9 DEF HandlesWell, WritesWell

LEMMA CtxHandles ==
  ASSUME model \in Models, NEW msg \in Msgs
  PROVE  HandlesWell(msg, Web!UpdateCtx(msg))
<1>1. CASE \E settings \in 1 .. 2 : msg = Web!Msg("UpdateSettings", settings)
  <2>1. PICK settings \in 1 .. 2 : msg = Web!Msg("UpdateSettings", settings)
    BY <1>1
  <2>2. Web!UpdateCtx(msg) = Web!UpdateSettings(settings)
    BY <2>1, KindsAre DEF Web!UpdateCtx
  <2> QED
    BY <2>1, <2>2, UpdatesSettings
<1>2. CASE \E item \in Web!Items : msg = Web!Msg("UpdateLibraryItem", item)
  <2>1. PICK item \in Web!Items : msg = Web!Msg("UpdateLibraryItem", item)
    BY <1>2
  <2>2. Web!UpdateCtx(msg) = Web!UpdateLibraryItem(item)
    BY <2>1, KindsAre DEF Web!UpdateCtx
  <2> QED
    BY <2>1, <2>2, UpdatesLibrary
<1>3. CASE msg = Web!Msg("LibraryChanged", TRUE)
  <2>1. msg.name = "LibraryChanged" /\ msg.arg = TRUE
    BY <1>3 DEF Web!Msg
  <2>2. Web!UpdateCtx(msg) = Web!Quiet(<<>>)
    BY <2>1 DEF Web!UpdateCtx
  <2>3. \A slot \in Web!SlotNames : msg # Saving(slot)
    <3>1. msg # Web!Msg("LibraryChanged", FALSE)
      BY <2>1 DEF Web!Msg
    <3>2. msg # Web!Msg("ProfileChanged", None) /\ msg # Web!Msg("NotificationsChanged", None)
      BY <2>1, KindsAre
    <3> QED
      BY <3>1, <3>2 DEF Saving, Web!SlotNames
  <2> QED
    BY <2>2, <2>3, IdlesWell, UnwrittenLists DEF Web!Quiet
<1>4. CASE msg = Web!Msg("LibraryChanged", FALSE)
  <2>1. msg.name = "LibraryChanged" /\ msg.arg = FALSE
    BY <1>4 DEF Web!Msg
  <2>2. Web!UpdateCtx(msg) = Web!Quiet(<<Web!Write("library", model["library"])>>)
    BY <2>1 DEF Web!UpdateCtx
  <2>3. msg = Saving("library") /\ "library" \in Web!SlotNames
    BY <1>4 DEF Saving, Web!SlotNames
  <2>4. Web!Write("library", model["library"]) \in EffectSet
    BY EffectsAre DEF Models
  <2>5. /\ Web!UpdateCtx(msg).model = model /\ Web!UpdateCtx(msg).changed = FALSE
        /\ Web!UpdateCtx(msg).effects = <<Web!Write("library", model["library"])>>
    BY <2>2 DEF Web!Quiet
  <2> QED
    BY <2>3, <2>4, <2>5, WritesOneWell
<1>5. ASSUME NEW name \in MsgNames, msg = Web!Msg(name, None)
      PROVE  HandlesWell(msg, Web!UpdateCtx(msg))
  <2>1. msg.name = name
    BY <1>5, KindsAre
  <2>2. CASE name = "ProfileChanged"
    <3>1. Web!UpdateCtx(msg) = Web!Quiet(<<Web!Write("profile", model["profile"])>>)
      BY <2>1, <2>2 DEF Web!UpdateCtx
    <3>2. msg = Saving("profile") /\ "profile" \in Web!SlotNames
      BY <1>5, <2>2 DEF Saving, Web!SlotNames
    <3>3. Web!Write("profile", model["profile"]) \in EffectSet
      BY EffectsAre DEF Models
    <3>4. /\ Web!UpdateCtx(msg).model = model /\ Web!UpdateCtx(msg).changed = FALSE
          /\ Web!UpdateCtx(msg).effects = <<Web!Write("profile", model["profile"])>>
      BY <3>1 DEF Web!Quiet
    <3> QED
      BY <3>2, <3>3, <3>4, WritesOneWell
  <2>3. CASE name = "NotificationsChanged"
    <3>1. Web!UpdateCtx(msg) = [Web!Quiet(<<Web!Write("notifications", model["notifications"])>>)
                                 EXCEPT !.model.pulled = @ \ {"save"}]
      BY <2>1, <2>3 DEF Web!UpdateCtx
    <3>2. msg = Saving("notifications") /\ "notifications" \in Web!SlotNames
      BY <1>5, <2>3 DEF Saving, Web!SlotNames
    <3>3. Web!Write("notifications", model["notifications"]) \in EffectSet
      <4>1. model["notifications"] \in BOOLEAN
        BY DEF Models
      <4> QED
        BY <4>1, EffectsAre
    <3>4. /\ Web!UpdateCtx(msg).model = [model EXCEPT !.pulled = @ \ {"save"}]
          /\ Web!UpdateCtx(msg).changed = FALSE
          /\ Web!UpdateCtx(msg).effects = <<Web!Write("notifications", model["notifications"])>>
      BY <3>1 DEF Web!Quiet
    <3> QED
      BY <3>2, <3>3, <3>4, WritesOneWell
  <2>4. CASE name = "Logout"
    <3>1. Web!UpdateCtx(msg) = Web!Quiet(<<Web!Msg("InternalLogout", None)>>)
      BY <2>1, <2>4 DEF Web!UpdateCtx
    <3>2. Unwritten(<<Web!Msg("InternalLogout", None)>>)
      BY EffectsAre, KindsAre, UnwrittenLists DEF MsgNames
    <3> QED
      BY <1>5, <2>4, <3>1, <3>2, IdlesWell, SavesNothing DEF Web!Quiet
  <2>5. CASE name \in {"DeleteSession", "PutItems"}
    <3>1. Web!UpdateCtx(msg) = Web!Quiet(<<>>)
      BY <2>1, <2>5 DEF Web!UpdateCtx
    <3> QED
      BY <1>5, <2>5, <3>1, IdlesWell, SavesNothing, UnwrittenLists DEF Web!Quiet
  <2>6. CASE name = "InternalLogout"
    BY <1>5, <2>1, <2>6, LeavesWell DEF Web!UpdateCtx
  <2>7. CASE name = "AddToLibrary"
    BY <1>5, <2>1, <2>7, AddsToLibrary DEF Web!UpdateCtx
  <2>8. CASE name = "RemoveFromLibrary"
    BY <1>5, <2>1, <2>8, RemovesFromLibrary DEF Web!UpdateCtx
  <2>9. CASE name = "PullNotifications"
    BY <1>5, <2>1, <2>9, PullsWell DEF Web!UpdateCtx
  <2>10. CASE name = "DismissNotificationItem"
    BY <1>5, <2>1, <2>10, DismissesWell DEF Web!UpdateCtx
  <2>11. CASE name = "Notifications"
    BY <1>5, <2>1, <2>11, AnswersWell DEF Web!UpdateCtx
  <2> QED
    BY <2>2, <2>3, <2>4, <2>5, <2>6, <2>7, <2>8, <2>9, <2>10, <2>11 DEF MsgNames, FetchNames
<1> QED
  BY <1>1, <1>2, <1>3, <1>4, <1>5 DEF Msgs
-----------------------------------------------------------------------------
(* Web: what the runtime makes of a message *)

\* What the interface sees of a field, but for what nobody is told of.
Alike(m, next, f) ==
  \/ f = "ctx" /\ "tell" \in next.pulled
  \/ ~(f = "ctx" /\ "tell" \in m.pulled) /\ Web!View(m, f) = Web!View(next, f)

\* The update of all models does of Ctx what its own does, computes again the screen that
\* the message is for, and names the fields that changed.
UpdatesWell(msg, u) ==
  /\ u.model \in Models /\ u.effects \in Seq(EffectSet) /\ u.fields \subseteq Web!Fields
  /\ WritesWell(u) /\ SavesWell(msg, u)
  /\ \/ u.model.shelf = Web!Shelf(u.model)
     \/ Has(u.effects, Web!Msg("LibraryChanged", TRUE)) \/ Has(u.effects, Web!Msg("LibraryChanged", FALSE))
     \/ /\ u.model.shelf = model.shelf /\ Web!Shelf(u.model) = Web!Shelf(model)
        /\ \A persisted \in BOOLEAN : msg # Web!Msg("LibraryChanged", persisted)
  /\ \/ u.model.preview = Web!Preview(u.model) \/ "save" \in u.model.pulled
     \/ Has(u.effects, Web!Msg("LibraryChanged", TRUE)) \/ Has(u.effects, Web!Msg("NotificationsChanged", None))
     \/ /\ u.model.preview = model.preview /\ Web!Preview(u.model) = Web!Preview(model)
        /\ "save" \notin model.pulled
        /\ msg \notin {Web!Msg("LibraryChanged", TRUE), Web!Msg("NotificationsChanged", None)}
  /\ \A f \in Web!Fields : f \in u.fields \/ Alike(model, u.model, f)

LEMMA ModelUpdates ==
  ASSUME model \in Models, NEW msg \in Msgs
  PROVE  UpdatesWell(msg, Web!UpdateModel(msg))
<1> DEFINE c == Web!UpdateCtx(msg)
           u == Web!UpdateModel(msg)
           m == c.model
           shelf == IF msg.name = "LibraryChanged" THEN Web!Shelf(m) ELSE m.shelf
           again == msg.name = "NotificationsChanged" \/ (msg.name = "LibraryChanged" /\ msg.arg = TRUE)
           preview == IF again THEN Web!Preview(m) ELSE m.preview
           next == [m EXCEPT !.shelf = shelf, !.preview = preview]
<1>1. HandlesWell(msg, c)
  BY CtxHandles
<1>2. /\ u.model = next /\ u.effects = c.effects
      /\ u.fields = (IF c.changed THEN {"ctx"} ELSE {})
                      \cup (IF shelf = m.shelf THEN {} ELSE {"library"})
                      \cup (IF preview = m.preview THEN {} ELSE {"continue_watching_preview"})
  BY DEF Web!UpdateModel
<1>3. m \in Models
  BY <1>1 DEF HandlesWell
<1>4. shelf \in BOOLEAN /\ preview \in BOOLEAN
  <2>1. m.shelf \in BOOLEAN /\ m.preview \in BOOLEAN /\ m.notifications \in BOOLEAN
    BY <1>3 DEF Models
  <2>2. Web!Shelf(m) \in BOOLEAN /\ Web!Preview(m) \in BOOLEAN
    BY <2>1 DEF Web!Shelf, Web!Preview
  <2> QED
    BY <2>1, <2>2
<1>5. msg.name = "LibraryChanged" => msg.arg \in BOOLEAN /\ msg = Web!Msg("LibraryChanged", msg.arg)
  BY KindsAre DEF Msgs, MsgNames, FetchNames
<1>6. msg.name = "NotificationsChanged" => msg = Web!Msg("NotificationsChanged", None)
  BY KindsAre DEF Msgs, MsgNames, FetchNames
<1>7. /\ \A persisted \in BOOLEAN : msg = Web!Msg("LibraryChanged", persisted) => msg.name = "LibraryChanged" /\ msg.arg = persisted
      /\ msg = Web!Msg("NotificationsChanged", None) => msg.name = "NotificationsChanged"
  BY KindsAre
<1> HIDE DEF c, u
<1>8. /\ next \in Models /\ next.shelf = shelf /\ next.preview = preview /\ next.pulled = m.pulled
      /\ next.profile = m.profile /\ next.library = m.library /\ next.notifications = m.notifications
      /\ \A slot \in Web!SlotNames : next[slot] = m[slot]
  <2>0. m.profile \in Web!Profiles /\ m.library \in Web!Items
    BY <1>3 DEF Models
  <2> HIDE DEF shelf, preview
  <2>1. /\ next \in Models /\ next.shelf = shelf /\ next.preview = preview /\ next.pulled = m.pulled
        /\ next.profile = m.profile /\ next.library = m.library /\ next.notifications = m.notifications
    BY <1>3, <1>4 DEF Models
  <2> HIDE DEF next
  <2>2. \A slot \in Web!SlotNames : next[slot] = m[slot]
    BY <2>1 DEF Web!SlotNames
  <2> QED
    BY <2>1, <2>2
<1>9. Web!Shelf(next) = Web!Shelf(m) /\ Web!Preview(next) = Web!Preview(m)
  BY <1>8 DEF Web!Shelf, Web!Preview
<1> HIDE DEF next
<1>10. u.model \in Models /\ u.effects \in Seq(EffectSet) /\ u.fields \subseteq Web!Fields
  <2>1. c.effects \in Seq(EffectSet)
    BY <1>1 DEF HandlesWell
  <2>2. u.fields \subseteq Web!Fields
    BY <1>2 DEF Web!Fields
  <2> QED
    BY <1>2, <1>8, <2>1, <2>2
<1>11. WritesWell(u)
  BY <1>1, <1>2, <1>8 DEF HandlesWell, WritesWell
<1>12. SavesWell(msg, u)
  <2>1. SavesWell(msg, c)
    BY <1>1 DEF HandlesWell
  <2>2. next.notifications = m.notifications /\ next.pulled = m.pulled /\ \A slot \in Web!SlotNames : next[slot] = m[slot]
    BY <1>8
  <2> HIDE DEF m
  <2>3. m = c.model
    BY DEF m
  <2> QED
    BY <1>2, <2>1, <2>2, <2>3 DEF SavesWell
<1>13. ShowsWell(c) /\ TellsWell(c) /\ SavesWell(msg, c)
  BY <1>1 DEF HandlesWell
<1>14. \/ u.model.shelf = Web!Shelf(u.model)
       \/ Has(u.effects, Web!Msg("LibraryChanged", TRUE)) \/ Has(u.effects, Web!Msg("LibraryChanged", FALSE))
       \/ /\ u.model.shelf = model.shelf /\ Web!Shelf(u.model) = Web!Shelf(model)
          /\ \A persisted \in BOOLEAN : msg # Web!Msg("LibraryChanged", persisted)
  <2>1. CASE msg.name = "LibraryChanged"
    BY <1>2, <1>8, <1>9, <2>1
  <2>2. CASE msg.name # "LibraryChanged" /\ m.library = model.library
    <3>1. Web!Shelf(m) = Web!Shelf(model)
      BY <2>2 DEF Web!Shelf
    <3>2. m.shelf = model.shelf
      BY <1>13 DEF ShowsWell
    <3> QED
      BY <1>2, <1>7, <1>8, <1>9, <2>2, <3>1, <3>2
  <2>3. CASE m.library # model.library
    BY <1>2, <1>13, <2>3 DEF ShowsWell
  <2> QED
    BY <2>1, <2>2, <2>3
<1>15. \/ u.model.preview = Web!Preview(u.model) \/ "save" \in u.model.pulled
       \/ Has(u.effects, Web!Msg("LibraryChanged", TRUE)) \/ Has(u.effects, Web!Msg("NotificationsChanged", None))
       \/ /\ u.model.preview = model.preview /\ Web!Preview(u.model) = Web!Preview(model)
          /\ "save" \notin model.pulled
          /\ msg \notin {Web!Msg("LibraryChanged", TRUE), Web!Msg("NotificationsChanged", None)}
  <2>1. CASE again
    BY <1>2, <1>8, <1>9, <2>1
  <2>2. CASE ~again /\ m.library = model.library /\ m.notifications = model.notifications
    <3>1. Web!Preview(m) = Web!Preview(model)
      BY <2>2 DEF Web!Preview
    <3>2. m.preview = model.preview
      BY <1>13 DEF ShowsWell
    <3>3. msg \notin {Web!Msg("LibraryChanged", TRUE), Web!Msg("NotificationsChanged", None)}
      BY <1>7, <2>2
    <3>4. CASE "save" \in model.pulled
      <4>1. msg # Saving("notifications")
        BY <3>3 DEF Saving
      <4>2. "save" \in m.pulled
        BY <1>13, <3>4, <4>1 DEF SavesWell
      <4> QED
        BY <1>2, <1>8, <4>2
    <3> QED
      BY <1>2, <1>8, <1>9, <2>2, <3>1, <3>2, <3>3, <3>4
  <2>3. CASE m.library # model.library \/ m.notifications # model.notifications
    BY <1>2, <1>8, <1>13, <2>3 DEF ShowsWell
  <2> QED
    BY <2>1, <2>2, <2>3
<1>16. ASSUME NEW f \in Web!Fields, f \notin u.fields PROVE Alike(model, u.model, f)
  <2>1. CASE f = "ctx"
    <3>1. c.changed # TRUE
      BY <1>2, <1>16, <2>1
    <3>2. CASE "tell" \in m.pulled
      <4>1. "tell" \in u.model.pulled
        BY <1>2, <1>8, <3>2
      <4> QED
        BY <2>1, <4>1 DEF Alike
    <3>3. CASE "tell" \notin m.pulled
      <4>1. model.profile = m.profile /\ model.notifications = m.notifications /\ "tell" \notin model.pulled
        BY <1>13, <3>1, <3>3 DEF TellsWell
      <4>2. Web!View(model, f) = Web!View(u.model, f)
        BY <1>2, <1>8, <2>1, <4>1 DEF Web!View
      <4> QED
        BY <4>1, <4>2 DEF Alike
    <3> QED
      BY <3>2, <3>3
  <2>2. CASE f = "library"
    <3>1. shelf = m.shelf
      BY <1>2, <1>16, <2>2
    <3>2. m.shelf = model.shelf
      BY <1>13 DEF ShowsWell
    <3>3. Web!View(model, f) = Web!View(u.model, f)
      BY <1>2, <1>8, <2>2, <3>1, <3>2 DEF Web!View
    <3> QED
      BY <2>2, <3>3 DEF Alike
  <2>3. CASE f = "continue_watching_preview"
    <3>1. preview = m.preview
      BY <1>2, <1>16, <2>3
    <3>2. m.preview = model.preview
      BY <1>13 DEF ShowsWell
    <3>3. Web!View(model, f) = Web!View(u.model, f)
      BY <1>2, <1>8, <2>3, <3>1, <3>2 DEF Web!View
    <3> QED
      BY <2>3, <3>3 DEF Alike
  <2> QED
    BY <2>1, <2>2, <2>3 DEF Web!Fields
<1> QED
  BY <1>10, <1>11, <1>12, <1>14, <1>15, <1>16 DEF UpdatesWell, u

\* An action for Ctx alone is handled like one for all: no screen is for an action.
LEMMA FieldUpdates ==
  ASSUME model \in Models, NEW action \in Web!Actions
  PROVE  action \in Msgs /\ UpdatesWell(action, Web!UpdateModel(action)) /\ UpdatesWell(action, Web!UpdateField(action))
<1>1. action \in Msgs
  BY DEF Web!Actions, Msgs, MsgNames
<1>2. action.name \notin {"LibraryChanged", "NotificationsChanged"}
  BY KindsAre DEF Web!Actions
<1> DEFINE c == Web!UpdateCtx(action)
           u == Web!UpdateField(action)
<1>3. HandlesWell(action, c) /\ UpdatesWell(action, Web!UpdateModel(action))
  BY <1>1, CtxHandles, ModelUpdates
<1>4. Web!UpdateModel(action).model = c.model
  <2>1. Web!UpdateModel(action).model = [c.model EXCEPT !.shelf = c.model.shelf, !.preview = c.model.preview]
    BY <1>2 DEF Web!UpdateModel
  <2>2. c.model \in Models
    BY <1>3 DEF HandlesWell
  <2> HIDE DEF c
  <2> QED
    BY <2>1, <2>2 DEF Models
<1>5. Web!UpdateModel(action).effects = c.effects /\ Web!UpdateModel(action).fields = IF c.changed THEN {"ctx"} ELSE {}
  BY <1>2 DEF Web!UpdateModel
<1>6. u.model = c.model /\ u.effects = c.effects /\ u.fields = IF c.changed THEN {"ctx"} ELSE {}
  BY DEF Web!UpdateField
<1> DEFINE v == Web!UpdateModel(action)
<1>7. u.model = v.model /\ u.effects = v.effects /\ u.fields = v.fields
  BY <1>4, <1>5, <1>6
<1> HIDE DEF u, v, c
<1>8. UpdatesWell(action, v)
  BY <1>3 DEF v
<1>9. UpdatesWell(action, u)
  BY <1>7, <1>8 DEF UpdatesWell, WritesWell, SavesWell
<1> QED
  BY <1>1, <1>3, <1>9 DEF u
-----------------------------------------------------------------------------
(* Web: the invariant *)

\* What is announced, what the interface is shown, and what it asks.
WebNotices == [kind : {"state"}, fields : SUBSET Web!Fields]
NoticesOf(f) == {x \in WebNotices : f \in x.fields}
WebShows == [kind : {"view"}, field : Web!Fields, value : (Web!Profiles \X BOOLEAN) \cup BOOLEAN]
ShowsOf(f) == {x \in WebShows : x.field = f}
Question(f) == [kind |-> "get_state", field |-> f]

\* The calls and messages of an app whose start is over.
WebWork == SlotWrites \cup WebNotices \cup WebShows
WebRequests ==
  [kind : {"dispatch"}, action : Web!Actions, field : {"ctx", None}]
    \cup {Question(f) : f \in Web!Fields} \cup [kind : {"fetched"}, name : FetchNames]

WebTypes ==
  /\ runtime \in {"NotSet", "Loading", "Err", "Ready"}
  /\ model \in Models
  /\ effects \in Seq(EffectSet) /\ WritesFirst(effects)
  /\ channel \in Seq(WebNotices) /\ tasks \in Seq(SlotWrites \cup Fetches) /\ fetches \in Seq(FetchNames)
  /\ local_storage = [s \in Web!SlotNames \cup {"installation_id"} |-> local_storage[s]]
  /\ local_storage["profile"] \in Web!Profiles \cup {None} /\ local_storage["library"] \in Web!Items \cup {None}
  /\ ui = [f \in Web!Fields |-> ui[f]]
  /\ lost \subseteq Web!SlotNames \cup {"installation_id"}
  /\ runtime \in {"Err", "Ready"} => calls \in Seq(WebWork) /\ inbox \in Seq(WebRequests)

\* Before the runtime starts nothing is under way; while it does, the one question or answer
\* that the start waits for, and nothing else, so that no message is taken in its stead.
\* Once the id was written, or read back, it is the one in the storage.
Stored == local_storage["installation_id"] = installation
Asking(call) ==
  \/ call = [kind |-> "read_id"]
  \/ call = Web!Write("installation_id", installation)
  \/ call = [kind |-> "read_slots"] /\ Stored
Answering(message) ==
  \/ \E ok \in BOOLEAN : \E value : message = [kind |-> "id", ok |-> ok, value |-> value]
  \/ message = [kind |-> "id_written", ok |-> FALSE]
  \/ message = [kind |-> "id_written", ok |-> TRUE] /\ Stored
  \/ (\E ok \in BOOLEAN : message = [kind |-> "slots", ok |-> ok, value |-> local_storage]) /\ Stored

StartInv ==
  /\ runtime \in {"NotSet", "Loading"} =>
       effects = <<>> /\ channel = <<>> /\ tasks = <<>> /\ fetches = <<>>
  /\ runtime = "NotSet" => calls = <<>> /\ inbox = <<>>
  /\ runtime = "Loading" =>
       \/ inbox = <<>> /\ \E call : calls = <<call>> /\ Asking(call)
       \/ calls = <<>> /\ \E message : inbox = <<message>> /\ Answering(message)
  /\ runtime = "Ready" => Stored

\* The value the model has of a slot is the last on its way, or has arrived, or was lost;
\* effects not handled yet come after all that is under way, and are to have it written.
Reaches(slot) ==
  \/ LeavesIn(tasks, slot, model[slot])
  \/ /\ NoWrite(tasks, slot)
     /\ \/ LeavesIn(calls, slot, model[slot])
        \/ NoWrite(calls, slot) /\ (Web!ModelOf(local_storage)[slot] = model[slot] \/ slot \in lost)
SlotInv(slot) ==
  \/ slot = "notifications" /\ "save" \in model.pulled
  \/ Has(effects, Saving(slot)) \/ LeavesIn(effects, slot, model[slot])
  \/ NoWrite(effects, slot) /\ Reaches(slot)
SavedInv == runtime = "Ready" => \A slot \in Web!SlotNames : SlotInv(slot)

\* A screen is as Ctx has it, or the message that has it computed again is under way.
ShelfInv ==
  \/ model.shelf = Web!Shelf(model)
  \/ Has(effects, Web!Msg("LibraryChanged", TRUE)) \/ Has(effects, Web!Msg("LibraryChanged", FALSE))
PreviewInv ==
  \/ model.preview = Web!Preview(model) \/ "save" \in model.pulled
  \/ Has(effects, Web!Msg("LibraryChanged", TRUE)) \/ Has(effects, Web!Msg("NotificationsChanged", None))
ScreensInv == runtime = "Ready" => ShelfInv /\ PreviewInv

\* The interface shows a field as it is, or will be told.
FieldInv(f) ==
  \/ f = "ctx" /\ "tell" \in model.pulled
  \/ ~NoneOf(channel, NoticesOf(f)) \/ ~NoneOf(calls, NoticesOf(f)) \/ ~NoneOf(inbox, {Question(f)})
  \/ LastOf(calls, ShowsOf(f), Web!View(model, f))
  \/ NoneOf(calls, ShowsOf(f)) /\ ui[f] = Web!View(model, f)
UiInv == runtime = "Ready" => \A f \in Web!Fields : FieldInv(f)

WebInv == WebTypes /\ StartInv /\ SavedInv /\ ScreensInv /\ UiInv

LEMMA WebRests == ASSUME WebInv, UNCHANGED webVars PROVE WebInv'
<1> USE DEF webVars
<1>1. WebTypes'
  BY DEF WebInv, WebTypes
<1>2. StartInv'
  BY DEF WebInv, StartInv, Asking, Answering, Stored
<1>3. SavedInv'
  BY DEF WebInv, SavedInv, SlotInv, Reaches
<1>4. ScreensInv'
  BY DEF WebInv, ScreensInv, ShelfInv, PreviewInv
<1>5. UiInv'
  BY DEF WebInv, UiInv, FieldInv
<1> QED
  BY <1>1, <1>2, <1>3, <1>4, <1>5 DEF WebInv

\* What is read of a slot of the storage.
Read(slot, value) ==
  CASE slot = "profile" -> IF value = None THEN Web!DefaultProfile ELSE value
    [] slot = "library" -> IF value = None THEN Web!NoItem ELSE value
    [] slot = "notifications" -> value # None /\ value

LEMMA ModelFits ==
  ASSUME NEW slots, slots.profile \in Web!Profiles \cup {None}, slots.library \in Web!Items \cup {None}
  PROVE  /\ Web!ModelOf(slots) \in Models /\ Web!ModelOf(slots).pulled = {}
         /\ Web!ModelOf(slots).shelf = Web!Shelf(Web!ModelOf(slots))
         /\ Web!ModelOf(slots).preview = Web!Preview(Web!ModelOf(slots))
<1> DEFINE profile == IF slots.profile = None THEN Web!DefaultProfile ELSE slots.profile
           item == IF slots.library = None THEN Web!NoItem ELSE slots.library
           news == slots.notifications # None /\ slots.notifications
           m == [profile |-> profile, library |-> item, notifications |-> news, catalog |-> "none",
                 shelf |-> FALSE, preview |-> FALSE, pulled |-> {}]
           next == [m EXCEPT !.shelf = Web!Shelf(m), !.preview = Web!Preview(m)]
<1>1. Web!ModelOf(slots) = next
  BY DEF Web!ModelOf
<1>2. profile \in Web!Profiles /\ item \in Web!Items
  BY DEF Web!DefaultProfile, Web!Profiles, Web!NoItem, Web!Items
<1>3. news \in BOOLEAN
  OBVIOUS
<1> HIDE DEF profile, item, news
<1>4. m \in Models /\ m.pulled = {}
  BY <1>2, <1>3 DEF Models
<1> HIDE DEF m
<1>5. Web!Shelf(m) \in BOOLEAN /\ Web!Preview(m) \in BOOLEAN
  BY <1>4 DEF Web!Shelf, Web!Preview, Models
<1>6. /\ next \in Models /\ next.pulled = {} /\ next.library = m.library /\ next.notifications = m.notifications
      /\ next.shelf = Web!Shelf(m) /\ next.preview = Web!Preview(m)
  BY <1>4, <1>5 DEF Models
<1> HIDE DEF next
<1>7. Web!Shelf(next) = Web!Shelf(m) /\ Web!Preview(next) = Web!Preview(m)
  BY <1>6 DEF Web!Shelf, Web!Preview
<1> QED
  BY <1>1, <1>6, <1>7

LEMMA SlotsAreRead ==
  ASSUME NEW slots, NEW slot \in Web!SlotNames
  PROVE  Web!ModelOf(slots)[slot] = Read(slot, slots[slot])
<1> DEFINE profile == IF slots.profile = None THEN Web!DefaultProfile ELSE slots.profile
           item == IF slots.library = None THEN Web!NoItem ELSE slots.library
           news == slots.notifications # None /\ slots.notifications
           m == [profile |-> profile, library |-> item, notifications |-> news, catalog |-> "none",
                 shelf |-> FALSE, preview |-> FALSE, pulled |-> {}]
           next == [m EXCEPT !.shelf = Web!Shelf(m), !.preview = Web!Preview(m)]
<1>1. Web!ModelOf(slots) = next
  BY DEF Web!ModelOf
<1>2. profile = Read("profile", slots["profile"]) /\ item = Read("library", slots["library"])
  BY DEF Read
<1>3. news = Read("notifications", slots["notifications"])
  BY DEF Read
<1> HIDE DEF profile, item, news
<1>4. next.profile = profile /\ next.library = item /\ next.notifications = news
  OBVIOUS
<1> HIDE DEF next
<1> QED
  BY <1>1, <1>2, <1>3, <1>4 DEF Web!SlotNames

LEMMA WebBegins == Web!Init => WebInv
<1> SUFFICES ASSUME Web!Init PROVE WebInv
  OBVIOUS
<1>1. /\ runtime = "NotSet" /\ installation = None /\ model = Web!NoModel
      /\ ui = [f \in Web!Fields |-> None] /\ lost = {}
      /\ effects = <<>> /\ channel = <<>> /\ tasks = <<>> /\ calls = <<>> /\ inbox = <<>> /\ fetches = <<>>
  BY DEF Web!Init
<1>2. /\ local_storage = [s \in Web!SlotNames \cup {"installation_id"} |-> local_storage[s]]
      /\ local_storage["profile"] \in Web!Profiles \cup {None} /\ local_storage["library"] \in Web!Items \cup {None}
  <2> DEFINE first == [settings |-> 1, user |-> TRUE]
             left == [state |-> "saved", seen |-> FALSE]
             gone == [state |-> "removed", seen |-> FALSE]
  <2>1. first \in Web!Profiles /\ left \in Web!Items /\ gone \in Web!Items
    BY DEF Web!Profiles, Web!Items
  <2>2. \/ local_storage \in [profile : {None, first}, library : {None, left},
                             notifications : {None}, installation_id : {None}]
        \/ local_storage \in [profile : {None}, library : {None, gone},
                             notifications : {TRUE}, installation_id : {None}]
    BY DEF Web!Init
  <2> HIDE DEF first, left, gone
  <2> QED
    BY <2>1, <2>2 DEF Web!SlotNames
<1>3. model \in Models
  BY <1>1, ModelFits DEF Web!NoModel
<1>4. WritesFirst(<<>>)
  BY DEF WritesFirst
<1>5. WebTypes
  BY <1>1, <1>2, <1>3, <1>4 DEF WebTypes
<1> QED
  BY <1>1, <1>5 DEF WebInv, StartInv, SavedInv, ScreensInv, UiInv
-----------------------------------------------------------------------------
(* Web: a message and its effects *)

\* What is left of the effects after a message writes nothing.
LEMMA WritesNoMore ==
  ASSUME effects \in Seq(EffectSet), WritesFirst(effects), effects # <<>>, Head(effects).kind = "msg"
  PROVE  /\ \A i \in DOMAIN effects : effects[i].kind # "write"
         /\ \A i \in DOMAIN Tail(effects) : Tail(effects)[i].kind # "write"
<1>1. /\ 1 \in DOMAIN effects /\ Head(effects) = effects[1] /\ DOMAIN effects = 1 .. Len(effects) /\ Len(effects) \in Nat
      /\ DOMAIN Tail(effects) = 1 .. Len(effects) - 1
      /\ \A i \in DOMAIN Tail(effects) : Tail(effects)[i] = effects[i + 1]
  BY TailIs
<1>2. \A i \in DOMAIN effects : effects[i].kind # "write"
  <2> TAKE i \in DOMAIN effects
  <2>1. i = 1 \/ 1 < i
    BY <1>1
  <2> QED
    BY <1>1, <2>1 DEF WritesFirst
<1>3. \A i \in DOMAIN Tail(effects) : i + 1 \in DOMAIN effects
  BY <1>1
<1> QED
  BY <1>1, <1>2, <1>3

LEMMA FirstInTail ==
  ASSUME NEW queue \in Seq(EffectSet), WritesFirst(queue), queue # <<>>
  PROVE  WritesFirst(Tail(queue))
<1>1. /\ DOMAIN queue = 1 .. Len(queue) /\ Len(queue) \in Nat \ {0} /\ DOMAIN Tail(queue) = 1 .. Len(queue) - 1
      /\ \A i \in DOMAIN Tail(queue) : Tail(queue)[i] = queue[i + 1]
  BY TailIs
<1>2. \A i \in DOMAIN Tail(queue) : i + 1 \in DOMAIN queue
  BY <1>1
<1>3. \A i, j \in DOMAIN Tail(queue) : i < j => i + 1 < j + 1
  BY <1>1
<1> SUFFICES ASSUME NEW i \in DOMAIN Tail(queue), NEW j \in DOMAIN Tail(queue), Tail(queue)[i].kind = "msg", i < j
             PROVE  Tail(queue)[j].kind # "write"
  BY DEF WritesFirst
<1> QED
  BY <1>1, <1>2, <1>3 DEF WritesFirst

\* A message is handled: it was the next effect, or it has come from outside when there was
\* none.  All that depends on what Ctx holds, but is not told, saved or computed yet, is in
\* the effects that are left, or among the new ones.
LEMMA MessageUpdates ==
  ASSUME WebTypes, SavedInv, ScreensInv, UiInv, NEW msg \in Msgs, NEW u, UpdatesWell(msg, u), NEW left,
         \/ effects = <<>> /\ left = <<>>
         \/ effects # <<>> /\ msg = Head(effects) /\ left = Tail(effects),
         Web!HandleEffects(u, left), UNCHANGED <<runtime, tasks, calls, local_storage, lost, ui>>,
         \A f \in Web!Fields : NoneOf(inbox', {Question(f)}) => NoneOf(inbox, {Question(f)})
  PROVE  /\ model' \in Models /\ effects' \in Seq(EffectSet) /\ WritesFirst(effects') /\ channel' \in Seq(WebNotices)
         /\ SavedInv' /\ ScreensInv' /\ UiInv'
<1>1. /\ model' = u.model /\ effects' = u.effects \o left
      /\ channel' = IF u.fields = {} THEN channel ELSE Append(channel, Web!NewState(u.fields))
  BY DEF Web!HandleEffects
<1>2. /\ u.model \in Models /\ u.effects \in Seq(EffectSet) /\ u.fields \subseteq Web!Fields
      /\ WritesWell(u) /\ SavesWell(msg, u)
  BY DEF UpdatesWell
<1>3. effects \in Seq(EffectSet) /\ WritesFirst(effects) /\ channel \in Seq(WebNotices)
  BY DEF WebTypes
<1>4. msg.kind = "msg"
  BY KindsAre DEF Msgs
<1>5. /\ left \in Seq(EffectSet) /\ WritesFirst(left)
      /\ \A i \in DOMAIN effects : effects[i].kind # "write"
      /\ \A i \in DOMAIN left : left[i].kind # "write"
      /\ \A x : Has(effects, x) => x = msg \/ Has(left, x)
  <2>1. CASE effects = <<>> /\ left = <<>>
    <3>1. DOMAIN effects = {} /\ DOMAIN left = {}
      BY <2>1
    <3> QED
      BY <2>1, <3>1 DEF WritesFirst, Has
  <2>2. CASE effects # <<>> /\ msg = Head(effects) /\ left = Tail(effects)
    <3>1. left \in Seq(EffectSet)
      BY <1>3, <2>2, TailIs
    <3>2. WritesFirst(left)
      BY <1>3, <2>2, FirstInTail
    <3>3. \A x : Has(effects, x) => x = msg \/ Has(left, x)
      BY <1>3, <2>2, HasInTail
    <3> QED
      BY <1>3, <1>4, <2>2, <3>1, <3>2, <3>3, WritesNoMore
  <2> QED
    BY <2>1, <2>2
<1>6. \A slot, value : NoWrite(left, slot) /\ NoWrite(effects, slot) /\ ~LeavesIn(effects, slot, value)
  BY <1>5 DEF NoWrite, LeavesIn, WritesTo
<1>7. effects' \in Seq(EffectSet) /\ WritesFirst(effects')
  BY <1>1, <1>2, <1>5, FirstInJoined, JoinedIs DEF WritesWell
<1>8. \A x : Has(effects', x) <=> Has(u.effects, x) \/ Has(left, x)
  BY <1>1, <1>2, <1>5, HasInJoined
<1>9. ASSUME NEW slot, NEW value
      PROVE  /\ NoWrite(u.effects, slot) => NoWrite(effects', slot)
             /\ LeavesIn(u.effects, slot, value) => LeavesIn(effects', slot, value)
  BY <1>1, <1>2, <1>5, <1>6, WritesInJoined
<1>10. channel' \in Seq(WebNotices) /\ \A f \in Web!Fields : f \in u.fields => ~NoneOf(channel', NoticesOf(f))
  <2>1. CASE u.fields = {}
    BY <1>1, <1>3, <2>1
  <2>2. CASE u.fields # {}
    <3> DEFINE notice == Web!NewState(u.fields)
    <3>1. notice \in WebNotices /\ \A f \in u.fields : notice \in NoticesOf(f)
      BY <1>2 DEF Web!NewState, WebNotices, NoticesOf
    <3> HIDE DEF notice
    <3>2. channel' = Append(channel, notice)
      BY <1>1, <2>2 DEF notice
    <3>3. channel' \in Seq(WebNotices)
      BY <1>3, <3>1, <3>2
    <3>4. ASSUME NEW f \in Web!Fields, f \in u.fields PROVE ~NoneOf(channel', NoticesOf(f))
      <4>1. notice \in NoticesOf(f)
        BY <3>1, <3>4
      <4> QED
        BY <1>3, <3>2, <4>1, LastInAppended
    <3> QED
      BY <3>3, <3>4
  <2> QED
    BY <2>1, <2>2
<1>11. \A f \in Web!Fields : ~NoneOf(channel, NoticesOf(f)) => ~NoneOf(channel', NoticesOf(f))
  <2>1. CASE u.fields = {}
    BY <1>1, <2>1
  <2>2. CASE u.fields # {}
    BY <1>1, <1>3, <2>2, LastInAppended
  <2> QED
    BY <2>1, <2>2
<1>12. SavedInv'
  <2> SUFFICES ASSUME runtime = "Ready", NEW slot \in Web!SlotNames PROVE SlotInv(slot)'
    BY DEF SavedInv
  <2>1. SlotInv(slot)
    BY DEF SavedInv
  <2>2. CASE slot = "notifications" /\ "save" \in model'.pulled
    BY <2>2 DEF SlotInv
  <2>3. CASE (model'[slot] # model[slot] \/ msg = Saving(slot)) /\ ~(slot = "notifications" /\ "save" \in model'.pulled)
    <3>1. Has(u.effects, Saving(slot)) \/ LeavesIn(u.effects, slot, model'[slot])
      BY <1>1, <1>2, <2>3 DEF SavesWell
    <3>2. Has(effects', Saving(slot)) \/ LeavesIn(effects', slot, model'[slot])
      BY <1>8, <1>9, <3>1
    <3> QED
      BY <3>2 DEF SlotInv, Saving
  <2>4. CASE /\ model'[slot] = model[slot] /\ msg # Saving(slot)
             /\ ~(slot = "notifications" /\ "save" \in model'.pulled)
    <3>1. CASE slot = "notifications" /\ "save" \in model.pulled
      BY <1>1, <1>2, <2>4, <3>1 DEF SavesWell
    <3>2. CASE Has(effects, Saving(slot))
      <4>1. Has(effects', Saving(slot))
        BY <1>5, <1>8, <2>4, <3>2
      <4> QED
        BY <4>1 DEF SlotInv, Saving
    <3>3. CASE NoWrite(effects, slot) /\ Reaches(slot)
      <4>1. CASE NoWrite(u.effects, slot)
        <5>1. NoWrite(effects', slot)
          BY <1>9, <4>1
        <5>2. Reaches(slot)'
          BY <2>4, <3>3 DEF Reaches, Web!ModelOf, Web!Shelf, Web!Preview
        <5> QED
          BY <5>1, <5>2 DEF SlotInv
      <4>2. CASE LeavesIn(u.effects, slot, model'[slot])
        <5>1. LeavesIn(effects', slot, model'[slot])
          BY <1>9, <4>2
        <5> QED
          BY <5>1 DEF SlotInv
      <4> QED
        BY <1>1, <1>2, <4>1, <4>2 DEF WritesWell
    <3> QED
      BY <1>6, <2>1, <3>1, <3>2, <3>3 DEF SlotInv
  <2> QED
    BY <2>2, <2>3, <2>4
<1>13. ScreensInv'
  <2> SUFFICES ASSUME runtime = "Ready" PROVE ShelfInv' /\ PreviewInv'
    BY DEF ScreensInv
  <2>1. ShelfInv /\ PreviewInv
    BY DEF ScreensInv
  <2>2. ShelfInv'
    <3>1. CASE u.model.shelf = Web!Shelf(u.model)
      BY <1>1, <3>1 DEF ShelfInv, Web!Shelf
    <3>2. CASE Has(u.effects, Web!Msg("LibraryChanged", TRUE)) \/ Has(u.effects, Web!Msg("LibraryChanged", FALSE))
      BY <1>8, <3>2 DEF ShelfInv, Web!Msg
    <3>3. CASE /\ u.model.shelf = model.shelf /\ Web!Shelf(u.model) = Web!Shelf(model)
               /\ \A persisted \in BOOLEAN : msg # Web!Msg("LibraryChanged", persisted)
      <4>1. CASE model.shelf = Web!Shelf(model)
        BY <1>1, <3>3, <4>1 DEF ShelfInv, Web!Shelf
      <4>2. CASE Has(effects, Web!Msg("LibraryChanged", TRUE)) \/ Has(effects, Web!Msg("LibraryChanged", FALSE))
        <5>1. Has(left, Web!Msg("LibraryChanged", TRUE)) \/ Has(left, Web!Msg("LibraryChanged", FALSE))
          BY <1>5, <3>3, <4>2
        <5> QED
          BY <1>8, <5>1 DEF ShelfInv, Web!Msg
      <4> QED
        BY <2>1, <4>1, <4>2 DEF ShelfInv
    <3> QED
      BY <3>1, <3>2, <3>3 DEF UpdatesWell
  <2>3. PreviewInv'
    <3>1. CASE u.model.preview = Web!Preview(u.model) \/ "save" \in u.model.pulled
      BY <1>1, <3>1 DEF PreviewInv, Web!Preview
    <3>2. CASE Has(u.effects, Web!Msg("LibraryChanged", TRUE)) \/ Has(u.effects, Web!Msg("NotificationsChanged", None))
      BY <1>8, <3>2 DEF PreviewInv, Web!Msg
    <3>3. CASE /\ u.model.preview = model.preview /\ Web!Preview(u.model) = Web!Preview(model)
               /\ "save" \notin model.pulled
               /\ msg \notin {Web!Msg("LibraryChanged", TRUE), Web!Msg("NotificationsChanged", None)}
      <4>1. CASE model.preview = Web!Preview(model)
        BY <1>1, <3>3, <4>1 DEF PreviewInv, Web!Preview
      <4>2. CASE Has(effects, Web!Msg("LibraryChanged", TRUE)) \/ Has(effects, Web!Msg("NotificationsChanged", None))
        <5>1. Has(left, Web!Msg("LibraryChanged", TRUE)) \/ Has(left, Web!Msg("NotificationsChanged", None))
          BY <1>5, <3>3, <4>2
        <5> QED
          BY <1>8, <5>1 DEF PreviewInv, Web!Msg
      <4> QED
        BY <2>1, <3>3, <4>1, <4>2 DEF PreviewInv
    <3> QED
      BY <3>1, <3>2, <3>3 DEF UpdatesWell
  <2> QED
    BY <2>2, <2>3
<1>14. UiInv'
  <2> SUFFICES ASSUME runtime = "Ready", NEW f \in Web!Fields PROVE FieldInv(f)'
    BY DEF UiInv
  <2>1. FieldInv(f)
    BY DEF UiInv
  <2>2. CASE f \in u.fields
    BY <1>10, <2>2 DEF FieldInv, NoticesOf
  <2>3. CASE f = "ctx" /\ "tell" \in u.model.pulled
    BY <1>1, <2>3 DEF FieldInv
  <2>4. CASE ~(f = "ctx" /\ "tell" \in model.pulled) /\ Web!View(model, f) = Web!View(u.model, f)
    <3>1. Web!View(model, f)' = Web!View(model, f)
      BY <1>1, <2>4 DEF Web!View
    <3>2. NoneOf(inbox', {Question(f)}) => NoneOf(inbox, {Question(f)})
      OBVIOUS
    <3> QED
      BY <1>11, <2>1, <2>4, <3>1, <3>2 DEF FieldInv, NoticesOf, ShowsOf, Question
  <2> QED
    BY <2>2, <2>3, <2>4 DEF UpdatesWell, Alike
<1> QED
  BY <1>1, <1>2, <1>7, <1>10, <1>12, <1>13, <1>14
-----------------------------------------------------------------------------
(* Web: its steps *)

LEMMA Only ==
  ASSUME NEW x
  PROVE  /\ <<x>> # <<>> /\ Head(<<x>>) = x /\ Tail(<<x>>) = <<>> /\ Append(<<>>, x) = <<x>>
         /\ \A S : x \in S => <<x>> \in Seq(S)
OBVIOUS

LEMMA OnlyOneOf ==
  ASSUME NEW x, NEW P
  PROVE  NoneOf(<<x>>, P) <=> x \notin P
<1> DEFINE queue == <<x>>
<1>1. DOMAIN queue = {1} /\ queue[1] = x
  OBVIOUS
<1> HIDE DEF queue
<1>2. NoneOf(queue, P) <=> x \notin P
  BY <1>1 DEF NoneOf
<1> QED
  BY <1>2 DEF queue

LEMMA WebInitializes == ASSUME WebInv, Web!InitializeRuntime PROVE WebInv'
<1>1. /\ runtime = "NotSet" /\ runtime' = "Loading" /\ calls' = <<[kind |-> "read_id"]>>
      /\ UNCHANGED <<installation, model, effects, channel, tasks, inbox, fetches, local_storage, ui, lost>>
  BY DEF Web!InitializeRuntime, Web!mainVars
<1>2. WebTypes'
  BY <1>1 DEF WebInv, WebTypes
<1>3. StartInv'
  BY <1>1 DEF WebInv, StartInv, Asking
<1> QED
  BY <1>1, <1>2, <1>3 DEF WebInv, SavedInv, ScreensInv, UiInv

LEMMA WebHandlesEffect == ASSUME WebInv, Web!HandleEffect PROVE WebInv'
<1> DEFINE effect == Head(effects)
           left == Tail(effects)
<1>1. /\ effects # <<>>
      /\ UNCHANGED <<runtime, installation, calls, inbox, fetches, local_storage, ui, lost>>
  BY DEF Web!HandleEffect, Web!mainVars
<1>2. runtime \in {"Err", "Ready"}
  BY <1>1 DEF WebInv, StartInv, WebTypes
<1>3. StartInv'
  BY <1>1, <1>2 DEF WebInv, StartInv, Stored
<1>4. effects \in Seq(EffectSet) /\ WritesFirst(effects) /\ tasks \in Seq(SlotWrites \cup Fetches)
  BY DEF WebInv, WebTypes
<1>5. effect \in EffectSet /\ left \in Seq(EffectSet) /\ WritesFirst(left)
  BY <1>1, <1>4, TailIs, FirstInTail
<1>6. CASE effect.kind = "msg"
  <2> DEFINE u == Web!UpdateModel(effect)
  <2>1. effect \in Msgs
    BY <1>5, <1>6, KindsAre DEF EffectSet, SlotWrites, Fetches
  <2>2. UpdatesWell(effect, u)
    BY <2>1, ModelUpdates DEF WebInv, WebTypes
  <2>3. Web!HandleEffects(u, left) /\ tasks' = tasks
    BY <1>6 DEF Web!HandleEffect
  <2> HIDE DEF u, effect, left
  <2>4. effects # <<>> /\ effect = Head(effects) /\ left = Tail(effects)
    BY <1>1 DEF effect, left
  <2>5. WebTypes /\ SavedInv /\ ScreensInv /\ UiInv
    BY DEF WebInv
  <2>6. /\ model' \in Models /\ effects' \in Seq(EffectSet) /\ WritesFirst(effects') /\ channel' \in Seq(WebNotices)
        /\ SavedInv' /\ ScreensInv' /\ UiInv'
    BY <1>1, <2>1, <2>2, <2>3, <2>4, <2>5, MessageUpdates
  <2>7. WebTypes'
    BY <1>1, <2>3, <2>6 DEF WebInv, WebTypes
  <2> QED
    BY <1>3, <2>6, <2>7 DEF WebInv
<1>7. CASE effect.kind # "msg"
  <2>1. /\ effects' = left /\ UNCHANGED <<model, channel>>
        /\ \/ effect.kind = "event" /\ tasks' = tasks
           \/ effect.kind # "event" /\ tasks' = Append(tasks, effect)
    BY <1>7 DEF Web!HandleEffect
  <2>2. effect.kind # "event" => effect \in SlotWrites \cup Fetches
    BY <1>5, <1>7, KindsAre DEF EffectSet, Msgs
  <2> HIDE DEF effect, left
  <2>3. tasks' \in Seq(SlotWrites \cup Fetches)
    BY <1>4, <2>1, <2>2
  <2>4. WebTypes'
    BY <1>1, <1>5, <2>1, <2>3 DEF WebInv, WebTypes
  <2>5. \A x : x.kind = "msg" /\ Has(effects, x) => Has(effects', x)
    BY <1>1, <1>4, <1>7, <2>1, HasInTail DEF effect, left
  <2>6. SavedInv'
    <3> SUFFICES ASSUME runtime = "Ready", NEW slot \in Web!SlotNames PROVE SlotInv(slot)'
      BY <1>1 DEF SavedInv
    <3>1. SlotInv(slot)
      BY DEF WebInv, SavedInv
    <3>2. model' = model /\ calls' = calls /\ local_storage' = local_storage /\ lost' = lost
      BY <1>1, <2>1
    <3>3. CASE slot = "notifications" /\ "save" \in model.pulled
      BY <3>2, <3>3 DEF SlotInv
    <3>4. CASE Has(effects, Saving(slot))
      <4>1. Saving(slot).kind = "msg"
        BY KindsAre DEF Saving, Web!SlotNames
      <4>2. Has(effects', Saving(slot))
        BY <2>5, <3>4, <4>1
      <4> QED
        BY <4>2 DEF SlotInv, Saving
    <3>5. NoWrite(tasks, slot) /\ ~WritesTo(effect, slot) => NoWrite(tasks', slot)
      BY <1>4, <2>1, WritesInAppended
    <3>6. CASE LeavesIn(effects, slot, model[slot])
      <4>1. CASE LeavesIn(left, slot, model[slot])
        BY <2>1, <3>2, <4>1 DEF SlotInv
      <4>2. CASE NoWrite(left, slot) /\ WritesTo(effect, slot) /\ effect.value = model[slot]
        <5>1. tasks' = Append(tasks, effect)
          BY <2>1, <4>2 DEF WritesTo
        <5>2. LeavesIn(tasks', slot, model[slot])
          BY <1>4, <4>2, <5>1, WritesInAppended
        <5> QED
          BY <2>1, <3>2, <4>2, <5>2 DEF SlotInv, Reaches
      <4> QED
        BY <1>1, <1>4, <3>6, <4>1, <4>2, WritesInTail DEF effect, left
    <3>7. CASE NoWrite(effects, slot) /\ Reaches(slot)
      <4>1. NoWrite(left, slot) /\ ~WritesTo(effect, slot)
        BY <1>1, <1>4, <3>7, WritesInTail DEF effect, left
      <4>2. LeavesIn(tasks, slot, model[slot]) => LeavesIn(tasks', slot, model[slot])
        BY <1>4, <2>1, <4>1, WritesInAppended
      <4>3. Reaches(slot)'
        BY <3>2, <3>5, <3>7, <4>1, <4>2 DEF Reaches
      <4> QED
        BY <2>1, <4>1, <4>3 DEF SlotInv
    <3> QED
      BY <3>1, <3>3, <3>4, <3>6, <3>7 DEF SlotInv
  <2>7. ScreensInv'
    <3>1. \A name, arg : Has(effects, Web!Msg(name, arg)) => Has(effects', Web!Msg(name, arg))
      BY <2>5, KindsAre
    <3>2. model' = model /\ runtime' = runtime
      BY <1>1, <2>1
    <3> SUFFICES ASSUME runtime = "Ready" PROVE ShelfInv' /\ PreviewInv'
      BY <3>2 DEF ScreensInv
    <3>3. ShelfInv /\ PreviewInv
      BY DEF WebInv, ScreensInv
    <3>4. ShelfInv'
      BY <3>1, <3>2, <3>3 DEF ShelfInv, Web!Msg, Web!Shelf
    <3>5. PreviewInv'
      BY <3>1, <3>2, <3>3 DEF PreviewInv, Web!Msg, Web!Preview
    <3> QED
      BY <3>4, <3>5
  <2>8. UiInv'
    BY <1>1, <2>1 DEF WebInv, UiInv, FieldInv
  <2> QED
    BY <1>3, <2>4, <2>6, <2>7, <2>8 DEF WebInv
<1> QED
  BY <1>6, <1>7

LEMMA WebPolls == ASSUME WebInv, Web!PollTask PROVE WebInv'
<1> DEFINE task == Head(tasks)
           left == Tail(tasks)
<1>1. /\ effects = <<>> /\ tasks # <<>> /\ tasks' = left
      /\ UNCHANGED <<runtime, installation, model, effects, channel, inbox, local_storage, ui, lost>>
      /\ \/ task.kind = "fetch" /\ fetches' = Append(fetches, task.name) /\ calls' = calls
         \/ task.kind # "fetch" /\ calls' = Append(calls, task) /\ fetches' = fetches
  BY DEF Web!PollTask, Web!mainVars
<1>2. runtime \in {"Err", "Ready"}
  BY <1>1 DEF WebInv, StartInv, WebTypes
<1>3. StartInv'
  BY <1>1, <1>2 DEF WebInv, StartInv, Stored
<1>4. tasks \in Seq(SlotWrites \cup Fetches) /\ calls \in Seq(WebWork) /\ fetches \in Seq(FetchNames)
  BY <1>2 DEF WebInv, WebTypes
<1>5. task \in SlotWrites \cup Fetches /\ left \in Seq(SlotWrites \cup Fetches)
  BY <1>1, <1>4, TailIs
<1>6. /\ task.kind = "fetch" => task.name \in FetchNames
      /\ task.kind # "fetch" => task \in SlotWrites /\ task.kind = "write"
  <2>1. \A x \in Fetches : x.kind = "fetch" /\ x.name \in FetchNames
    BY DEF Fetches, Web!Fetch
  <2>2. \A x \in SlotWrites : x.kind = "write"
    BY KindsAre DEF SlotWrites
  <2> QED
    BY <1>5, <2>1, <2>2
<1> HIDE DEF task, left
<1>7. calls' \in Seq(WebWork) /\ fetches' \in Seq(FetchNames)
  BY <1>1, <1>4, <1>6 DEF WebWork
<1>8. WebTypes'
  BY <1>1, <1>5, <1>7 DEF WebInv, WebTypes
<1>9. SavedInv'
  <2> SUFFICES ASSUME runtime = "Ready", NEW slot \in Web!SlotNames PROVE SlotInv(slot)'
    BY <1>1 DEF SavedInv
  <2>1. SlotInv(slot)
    BY DEF WebInv, SavedInv
  <2>2. ASSUME Reaches(slot) PROVE Reaches(slot)'
    <3> DEFINE value == model[slot]
               there == Web!ModelOf(local_storage)[slot] = model[slot] \/ slot \in lost
    <3>1. /\ LeavesIn(tasks, slot, value) \/ NoWrite(tasks, slot)
          /\ LeavesIn(tasks, slot, value) \/ LeavesIn(calls, slot, value) \/ (NoWrite(calls, slot) /\ there)
      BY <2>2 DEF Reaches
    <3>2. Reaches(slot)' <=> \/ LeavesIn(tasks', slot, value)
                             \/ /\ NoWrite(tasks', slot)
                                /\ LeavesIn(calls', slot, value) \/ (NoWrite(calls', slot) /\ there)
      BY <1>1 DEF Reaches
    <3> HIDE DEF value, there
    <3>3. CASE LeavesIn(tasks, slot, value)
      <4>1. CASE LeavesIn(left, slot, value)
        BY <1>1, <3>2, <4>1
      <4>2. CASE NoWrite(left, slot) /\ WritesTo(task, slot) /\ task.value = value
        <5>1. calls' = Append(calls, task)
          BY <1>1, <4>2 DEF WritesTo
        <5>2. LeavesIn(calls', slot, value)
          BY <1>4, <4>2, <5>1, WritesInAppended
        <5> QED
          BY <1>1, <3>2, <4>2, <5>2
      <4> QED
        BY <1>1, <1>4, <3>3, <4>1, <4>2, WritesInTail DEF task, left
    <3>4. CASE NoWrite(tasks, slot) /\ ~LeavesIn(tasks, slot, value)
      <4>1. NoWrite(left, slot) /\ ~WritesTo(task, slot)
        BY <1>1, <1>4, <3>4, WritesInTail DEF task, left
      <4>2. /\ NoWrite(calls, slot) => NoWrite(calls', slot)
            /\ LeavesIn(calls, slot, value) => LeavesIn(calls', slot, value)
        BY <1>1, <1>4, <4>1, WritesInAppended
      <4> QED
        BY <1>1, <3>1, <3>2, <3>4, <4>1, <4>2
    <3> QED
      BY <3>1, <3>3, <3>4
  <2> QED
    BY <1>1, <2>1, <2>2 DEF SlotInv
<1>10. ScreensInv'
  BY <1>1 DEF WebInv, ScreensInv, ShelfInv, PreviewInv
<1>11. UiInv'
  <2> SUFFICES ASSUME runtime = "Ready", NEW f \in Web!Fields PROVE FieldInv(f)'
    BY <1>1 DEF UiInv
  <2>1. FieldInv(f)
    BY DEF WebInv, UiInv
  <2>2. CASE calls' = calls
    BY <1>1, <2>1, <2>2 DEF FieldInv
  <2>3. CASE task.kind = "write" /\ calls' = Append(calls, task)
    <3>1. task \notin NoticesOf(f) /\ task \notin ShowsOf(f)
      BY <2>3 DEF NoticesOf, WebNotices, ShowsOf, WebShows
    <3>2. /\ NoneOf(calls', NoticesOf(f)) <=> NoneOf(calls, NoticesOf(f))
          /\ NoneOf(calls', ShowsOf(f)) <=> NoneOf(calls, ShowsOf(f))
          /\ LastOf(calls, ShowsOf(f), Web!View(model, f)) => LastOf(calls', ShowsOf(f), Web!View(model, f))
      BY <1>4, <2>3, <3>1, LastInAppended
    <3> QED
      BY <1>1, <2>1, <3>2 DEF FieldInv
  <2> QED
    BY <1>1, <1>6, <2>2, <2>3
<1> QED
  BY <1>3, <1>8, <1>9, <1>10, <1>11 DEF WebInv

LEMMA WebEmits == ASSUME WebInv, Web!EmitToUi PROVE WebInv'
<1> DEFINE notice == Head(channel)
           left == Tail(channel)
<1>1. /\ effects = <<>> /\ channel # <<>> /\ channel' = left /\ calls' = Append(calls, notice)
      /\ UNCHANGED <<runtime, installation, model, effects, tasks, inbox, fetches, local_storage, ui, lost>>
  BY DEF Web!EmitToUi, Web!mainVars
<1>2. runtime \in {"Err", "Ready"}
  BY <1>1 DEF WebInv, StartInv, WebTypes
<1>3. StartInv'
  BY <1>1, <1>2 DEF WebInv, StartInv, Stored
<1>4. channel \in Seq(WebNotices) /\ calls \in Seq(WebWork)
  BY <1>2 DEF WebInv, WebTypes
<1>5. notice \in WebNotices /\ left \in Seq(WebNotices)
  BY <1>1, <1>4, TailIs
<1> HIDE DEF notice, left
<1>6. calls' \in Seq(WebWork)
  BY <1>1, <1>4, <1>5 DEF WebWork
<1>7. WebTypes'
  BY <1>1, <1>5, <1>6 DEF WebInv, WebTypes
<1>8. SavedInv'
  <2> SUFFICES ASSUME runtime = "Ready", NEW slot \in Web!SlotNames PROVE SlotInv(slot)'
    BY <1>1 DEF SavedInv
  <2>1. ~WritesTo(notice, slot)
    BY <1>5 DEF WritesTo, WebNotices
  <2>2. /\ NoWrite(calls, slot) => NoWrite(calls', slot)
        /\ LeavesIn(calls, slot, model[slot]) => LeavesIn(calls', slot, model[slot])
    BY <1>1, <1>4, <2>1, WritesInAppended
  <2>3. SlotInv(slot)
    BY DEF WebInv, SavedInv
  <2>4. Reaches(slot) => Reaches(slot)'
    BY <1>1, <2>2 DEF Reaches
  <2> QED
    BY <1>1, <2>3, <2>4 DEF SlotInv
<1>9. ScreensInv'
  BY <1>1 DEF WebInv, ScreensInv, ShelfInv, PreviewInv
<1>10. UiInv'
  <2> SUFFICES ASSUME runtime = "Ready", NEW f \in Web!Fields PROVE FieldInv(f)'
    BY <1>1 DEF UiInv
  <2>1. FieldInv(f)
    BY DEF WebInv, UiInv
  <2>2. notice \notin ShowsOf(f)
    BY <1>5 DEF WebNotices, ShowsOf, WebShows
  <2>3. /\ NoneOf(calls, ShowsOf(f)) => NoneOf(calls', ShowsOf(f))
        /\ LastOf(calls, ShowsOf(f), Web!View(model, f)) => LastOf(calls', ShowsOf(f), Web!View(model, f))
    BY <1>1, <1>4, <2>2, LastInAppended
  <2>4. NoneOf(calls', NoticesOf(f)) => NoneOf(calls, NoticesOf(f)) /\ notice \notin NoticesOf(f)
    BY <1>1, <1>4, LastInAppended
  <2>5. notice \notin NoticesOf(f) /\ NoneOf(left, NoticesOf(f)) => NoneOf(channel, NoticesOf(f))
    BY <1>1, <1>4, LastInTail DEF notice, left
  <2> QED
    BY <1>1, <2>1, <2>3, <2>4, <2>5 DEF FieldInv
<1> QED
  BY <1>3, <1>7, <1>8, <1>9, <1>10 DEF WebInv

\* The answer that the start waits for.
LEMMA WebTakesAnswer == ASSUME WebInv, Web!TakeMessage, runtime = "Loading" PROVE WebInv'
<1>1. /\ effects = <<>> /\ channel = <<>> /\ tasks = <<>> /\ inbox # <<>> /\ inbox' = Tail(inbox)
      /\ UNCHANGED <<tasks, fetches, local_storage, ui, lost>>
  BY DEF Web!TakeMessage, Web!Idle, Web!mainVars
<1>2. PICK message : inbox = <<message>> /\ calls = <<>> /\ Answering(message)
  BY <1>1 DEF WebInv, StartInv
<1>3. Head(inbox) = message /\ inbox' = <<>>
  BY <1>1, <1>2, Only
<1>4. WebTypes /\ fetches = <<>>
  BY DEF WebInv, StartInv
<1>5. CASE Web!Refuse
  <2>1. runtime' = "Err" /\ UNCHANGED <<installation, model, effects, channel, calls>>
    BY <1>5 DEF Web!Refuse
  <2>2. WebTypes'
    BY <1>1, <1>2, <1>3, <1>4, <2>1 DEF WebTypes
  <2> QED
    BY <2>1, <2>2 DEF WebInv, StartInv, SavedInv, ScreensInv, UiInv
<1>6. CASE \E call : /\ calls' = <<call>> /\ Asking(call)'
                     /\ UNCHANGED <<runtime, model, effects, channel>>
  <2>1. WebTypes'
    BY <1>1, <1>4, <1>6 DEF WebTypes
  <2>2. StartInv'
    BY <1>1, <1>3, <1>4, <1>6 DEF StartInv
  <2> QED
    BY <1>6, <2>1, <2>2 DEF WebInv, SavedInv, ScreensInv, UiInv
<1>7. CASE \E ok \in BOOLEAN : \E value : message = [kind |-> "id", ok |-> ok, value |-> value]
  <2>1. PICK ok \in BOOLEAN : \E value : message = [kind |-> "id", ok |-> ok, value |-> value]
    BY <1>7
  <2>2. message.kind = "id"
    BY <2>1
  <2>3. Web!InstallationIdRead(message)
    BY <1>3, <2>2 DEF Web!TakeMessage
  <2>4. CASE ~Web!Refuse
    <3>1. /\ calls' = Append(calls, Web!Write("installation_id", installation'))
          /\ UNCHANGED <<runtime, model, effects, channel>>
      BY <2>3, <2>4 DEF Web!InstallationIdRead
    <3>2. PICK call : call = Web!Write("installation_id", installation')
      OBVIOUS
    <3>3. calls' = <<call>>
      BY <1>2, <3>1, <3>2, Only
    <3>4. Asking(call)'
      BY <3>2 DEF Asking, Web!Write
    <3> QED
      BY <1>6, <3>1, <3>3, <3>4
  <2> QED
    BY <1>5, <2>4
<1>8. CASE \/ message = [kind |-> "id_written", ok |-> FALSE]
           \/ message = [kind |-> "id_written", ok |-> TRUE] /\ Stored
  <2>1. message.kind = "id_written"
    BY <1>8
  <2>2. Web!InstallationIdWritten(message)
    BY <1>3, <2>1 DEF Web!TakeMessage
  <2>3. CASE ~Web!Refuse
    <3>1. /\ message.ok /\ calls' = Append(calls, [kind |-> "read_slots"])
          /\ UNCHANGED <<runtime, installation, model, effects, channel>>
      BY <2>2, <2>3 DEF Web!InstallationIdWritten
    <3>2. calls' = <<[kind |-> "read_slots"]>>
      BY <1>2, <3>1, Only
    <3>3. Stored'
      BY <1>1, <1>8, <3>1 DEF Stored
    <3>4. Asking([kind |-> "read_slots"])'
      BY <3>3 DEF Asking
    <3> QED
      BY <1>6, <3>1, <3>2, <3>4
  <2> QED
    BY <1>5, <2>3
<1>9. CASE (\E ok \in BOOLEAN : message = [kind |-> "slots", ok |-> ok, value |-> local_storage]) /\ Stored
  <2>1. PICK ok \in BOOLEAN : message = [kind |-> "slots", ok |-> ok, value |-> local_storage]
    BY <1>9
  <2>2. message.kind = "slots" /\ message.value = local_storage
    BY <2>1
  <2>3. Web!SlotsRead(message)
    BY <1>3, <2>2 DEF Web!TakeMessage
  <2>4. CASE ~Web!Refuse
    <3> DEFINE notice == Web!NewState(Web!Fields)
    <3>1. /\ model' = Web!ModelOf(local_storage) /\ runtime' = "Ready" /\ calls' = Append(calls, notice)
          /\ UNCHANGED <<installation, effects, channel>>
      BY <2>2, <2>3, <2>4 DEF Web!SlotsRead
    <3>2. calls' = <<notice>>
      BY <1>2, <3>1, Only
    <3>3. notice \in WebNotices /\ notice.kind = "state" /\ \A f \in Web!Fields : notice \in NoticesOf(f)
      BY DEF Web!NewState, WebNotices, NoticesOf
    <3> HIDE DEF notice
    <3>4. /\ model' \in Models /\ model'.pulled = {} /\ model'.shelf = Web!Shelf(model')
          /\ model'.preview = Web!Preview(model')
      BY <1>4, <3>1, ModelFits DEF WebTypes
    <3>5. calls' \in Seq(WebWork) /\ inbox' \in Seq(WebRequests)
      BY <1>3, <3>2, <3>3, Only DEF WebWork
    <3>6. WebTypes'
      BY <1>1, <1>4, <3>1, <3>4, <3>5 DEF WebTypes
    <3>7. StartInv'
      BY <1>1, <1>9, <3>1 DEF StartInv, Stored
    <3>8. SavedInv'
      <4> SUFFICES ASSUME NEW slot \in Web!SlotNames PROVE SlotInv(slot)'
        BY DEF SavedInv
      <4>1. effects' = <<>> /\ tasks' = <<>> /\ NoWrite(<<>>, slot)
        BY <1>1, <3>1 DEF NoWrite
      <4>2. NoWrite(calls', slot)
        <5>1. ~WritesTo(notice, slot)
          BY <3>3 DEF WritesTo
        <5>2. calls' = Append(<<>>, notice) /\ <<>> \in Seq(WebWork)
          BY <3>2, Only
        <5> QED
          BY <4>1, <5>1, <5>2, WritesInAppended
      <4>3. Web!ModelOf(local_storage')[slot] = model'[slot]
        BY <1>1, <3>1
      <4> QED
        BY <4>1, <4>2, <4>3 DEF SlotInv, Reaches, Web!ModelOf, Web!Shelf, Web!Preview
    <3>9. ScreensInv'
      BY <3>4 DEF ScreensInv, ShelfInv, PreviewInv, Web!Shelf, Web!Preview
    <3>10. UiInv'
      <4> SUFFICES ASSUME NEW f \in Web!Fields PROVE FieldInv(f)'
        BY DEF UiInv
      <4>1. ~NoneOf(calls', NoticesOf(f))
        BY <3>2, <3>3, OnlyOneOf
      <4> QED
        BY <4>1 DEF FieldInv, NoticesOf
    <3> QED
      BY <3>6, <3>7, <3>8, <3>9, <3>10 DEF WebInv
  <2> QED
    BY <1>5, <2>4
<1>10. \/ \E ok \in BOOLEAN : \E value : message = [kind |-> "id", ok |-> ok, value |-> value]
       \/ message = [kind |-> "id_written", ok |-> FALSE]
       \/ message = [kind |-> "id_written", ok |-> TRUE] /\ Stored
       \/ (\E ok \in BOOLEAN : message = [kind |-> "slots", ok |-> ok, value |-> local_storage]) /\ Stored
  <2> HIDE DEF Stored
  <2> QED
    BY <1>2 DEF Answering
<1> QED
  BY <1>7, <1>8, <1>9, <1>10

\* A message to an app whose start is over.
LEMMA WebTakesRequest == ASSUME WebInv, Web!TakeMessage, runtime \in {"Err", "Ready"} PROVE WebInv'
<1> DEFINE message == Head(inbox)
           left == Tail(inbox)
<1>1. /\ effects = <<>> /\ channel = <<>> /\ tasks = <<>> /\ inbox # <<>> /\ inbox' = left
      /\ UNCHANGED <<tasks, fetches, local_storage, ui, lost>>
  BY DEF Web!TakeMessage, Web!Idle, Web!mainVars
<1>2. WebTypes /\ SavedInv /\ ScreensInv /\ UiInv
  BY DEF WebInv
<1>3. inbox \in Seq(WebRequests) /\ calls \in Seq(WebWork)
  BY <1>2 DEF WebTypes
<1>4. message \in WebRequests /\ left \in Seq(WebRequests)
  BY <1>1, <1>3, TailIs
<1>5. \/ message.kind = "dispatch" /\ message.action \in Web!Actions
      \/ \E f \in Web!Fields : message = Question(f)
      \/ message.kind = "fetched" /\ message.name \in FetchNames
  BY <1>4 DEF WebRequests
<1>6. ASSUME message.kind # "get_state", NEW f \in Web!Fields, NoneOf(inbox', {Question(f)})
      PROVE  NoneOf(inbox, {Question(f)})
  <2>1. message \notin {Question(f)}
    BY <1>6 DEF Question
  <2> QED
    BY <1>1, <1>3, <1>6, <2>1, LastInTail
\* A message that Ctx and the other models are updated for.
<1>7. ASSUME NEW msg \in Msgs, NEW u, UpdatesWell(msg, u), Web!HandleEffects(u, <<>>),
             UNCHANGED <<runtime, installation, calls>>, message.kind # "get_state"
      PROVE  WebInv'
  <2>1. UNCHANGED <<runtime, tasks, calls, local_storage, lost, ui>>
    BY <1>1, <1>7
  <2>2. \A f \in Web!Fields : NoneOf(inbox', {Question(f)}) => NoneOf(inbox, {Question(f)})
    BY <1>6, <1>7
  <2>3. /\ model' \in Models /\ effects' \in Seq(EffectSet) /\ WritesFirst(effects') /\ channel' \in Seq(WebNotices)
        /\ SavedInv' /\ ScreensInv' /\ UiInv'
    <3> DEFINE none == <<>>
    <3>1. effects = <<>> /\ none = <<>> /\ Web!HandleEffects(u, none)
      BY <1>1, <1>7
    <3> HIDE DEF none
    <3> QED
      BY <1>2, <1>7, <2>1, <2>2, <3>1, MessageUpdates
  <2> HIDE DEF left
  <2>4. WebTypes'
    BY <1>1, <1>2, <1>3, <1>4, <1>7, <2>3 DEF WebTypes
  <2>5. StartInv'
    BY <1>1, <1>7 DEF WebInv, StartInv, Stored
  <2> QED
    BY <2>3, <2>4, <2>5 DEF WebInv
<1>8. CASE message.kind = "dispatch" /\ message.action \in Web!Actions
  <2>1. Web!Dispatch(message)
    BY <1>8 DEF Web!TakeMessage
  <2> HIDE DEF message
  <2>2. CASE runtime # "Ready"
    <3>1. UNCHANGED <<model, effects, channel, runtime, installation, calls>>
      BY <2>1, <2>2 DEF Web!Dispatch
    <3> HIDE DEF left
    <3>2. WebTypes'
      BY <1>1, <1>2, <1>3, <1>4, <3>1 DEF WebTypes
    <3> QED
      BY <1>1, <2>2, <3>1, <3>2 DEF WebInv, StartInv, SavedInv, ScreensInv, UiInv
  <2>3. CASE runtime = "Ready"
    <3> DEFINE u == IF message.field = None THEN Web!UpdateModel(message.action) ELSE Web!UpdateField(message.action)
    <3>1. Web!HandleEffects(u, <<>>) /\ UNCHANGED <<runtime, installation, calls>>
      BY <2>1, <2>3 DEF Web!Dispatch
    <3>2. message.action \in Msgs /\ UpdatesWell(message.action, u)
      BY <1>2, <1>8, FieldUpdates DEF WebTypes
    <3> HIDE DEF u
    <3> QED
      BY <1>7, <1>8, <3>1, <3>2
  <2> QED
    BY <2>2, <2>3
<1>9. CASE message.kind = "fetched" /\ message.name \in FetchNames
  <2> DEFINE msg == Web!Msg(message.name, None)
             u == Web!UpdateModel(msg)
  <2>1. Web!HandleEffects(u, <<>>) /\ UNCHANGED <<runtime, installation, calls>>
    BY <1>9 DEF Web!TakeMessage, Web!FetchResult
  <2>2. msg \in Msgs /\ UpdatesWell(msg, u)
    <3>1. msg \in Msgs
      BY <1>9 DEF Msgs, MsgNames
    <3> QED
      BY <1>2, <3>1, ModelUpdates DEF WebTypes
  <2> HIDE DEF u, msg
  <2> QED
    BY <1>7, <1>9, <2>1, <2>2
<1>10. CASE \E f \in Web!Fields : message = Question(f)
  <2>1. PICK f \in Web!Fields : message = Question(f)
    BY <1>10
  <2>2. message.kind = "get_state" /\ message.field = f
    BY <2>1 DEF Question
  <2>3. Web!GetState(message)
    BY <2>2 DEF Web!TakeMessage
  <2> DEFINE show == [kind |-> "view", field |-> f, value |-> Web!View(model, f)]
  <2>4. /\ UNCHANGED <<runtime, installation, model, effects, channel>>
        /\ calls' = IF runtime # "Ready" THEN calls ELSE Append(calls, show)
    BY <2>2, <2>3 DEF Web!GetState
  <2>5. Web!View(model, f) \in (Web!Profiles \X BOOLEAN) \cup BOOLEAN
    <3>1. /\ model.profile \in Web!Profiles /\ model.notifications \in BOOLEAN /\ model.shelf \in BOOLEAN
          /\ model.preview \in BOOLEAN
      BY <1>2 DEF WebTypes, Models
    <3> QED
      BY <3>1 DEF Web!View, Web!Fields
  <2>6. show \in ShowsOf(f) /\ show.value = Web!View(model, f) /\ show.kind = "view"
    BY <2>5 DEF ShowsOf, WebShows
  <2>7. \A g \in Web!Fields : show \notin NoticesOf(g) /\ (g # f => show \notin ShowsOf(g))
    BY DEF NoticesOf, WebNotices, ShowsOf
  <2> HIDE DEF show, message, left
  <2>8. calls' \in Seq(WebWork)
    <3>1. show \in WebWork
      BY <2>6 DEF WebWork, ShowsOf
    <3> QED
      BY <1>3, <2>4, <3>1
  <2>9. WebTypes'
    BY <1>1, <1>2, <1>4, <2>4, <2>8 DEF WebTypes
  <2>10. StartInv'
    BY <1>1, <2>4 DEF WebInv, StartInv, Stored
  <2>11. SavedInv'
    <3> SUFFICES ASSUME runtime = "Ready", NEW slot \in Web!SlotNames PROVE SlotInv(slot)'
      BY <2>4 DEF SavedInv
    <3>1. SlotInv(slot)
      BY <1>2 DEF SavedInv
    <3>2. ~WritesTo(show, slot)
      BY <2>6 DEF WritesTo
    <3>3. /\ NoWrite(calls, slot) => NoWrite(calls', slot)
          /\ LeavesIn(calls, slot, model[slot]) => LeavesIn(calls', slot, model[slot])
      BY <1>3, <2>4, <3>2, WritesInAppended
    <3>4. Reaches(slot) => Reaches(slot)'
      BY <1>1, <2>4, <3>3 DEF Reaches
    <3> QED
      BY <1>1, <2>4, <3>1, <3>4 DEF SlotInv
  <2>12. ScreensInv'
    BY <1>1, <1>2, <2>4 DEF ScreensInv, ShelfInv, PreviewInv
  <2>13. UiInv'
    <3> SUFFICES ASSUME runtime = "Ready", NEW g \in Web!Fields PROVE FieldInv(g)'
      BY <2>4 DEF UiInv
    <3>1. FieldInv(g)
      BY <1>2 DEF UiInv
    <3>2. calls' = Append(calls, show)
      BY <2>4
    <3>3. NoneOf(calls', NoticesOf(g)) <=> NoneOf(calls, NoticesOf(g))
      BY <1>3, <2>7, <3>2, LastInAppended
    <3>4. CASE g = f
      <4>1. LastOf(calls', ShowsOf(f), Web!View(model, f))
        BY <1>3, <2>6, <3>2, LastInAppended
      <4> QED
        BY <2>4, <3>4, <4>1 DEF FieldInv
    <3>5. CASE g # f
      <4>1. /\ NoneOf(calls, ShowsOf(g)) => NoneOf(calls', ShowsOf(g))
            /\ LastOf(calls, ShowsOf(g), Web!View(model, g)) => LastOf(calls', ShowsOf(g), Web!View(model, g))
        BY <1>3, <2>7, <3>2, <3>5, LastInAppended
      <4>2. NoneOf(inbox', {Question(g)}) => NoneOf(inbox, {Question(g)})
        <5>1. message \notin {Question(g)}
          BY <2>2, <3>5 DEF Question
        <5> QED
          BY <1>1, <1>3, <5>1, LastInTail DEF message, left
      <4> QED
        BY <1>1, <2>4, <3>1, <3>3, <4>1, <4>2 DEF FieldInv
    <3> QED
      BY <3>4, <3>5
  <2> QED
    BY <2>9, <2>10, <2>11, <2>12, <2>13 DEF WebInv
<1> QED
  BY <1>5, <1>8, <1>9, <1>10

\* The main thread carries out what the start asks for.
LEMMA WebServesStart == ASSUME WebInv, Web!Serve, runtime = "Loading" PROVE WebInv'
<1>1. /\ effects = <<>> /\ channel = <<>> /\ tasks = <<>> /\ calls' = Tail(calls) /\ calls # <<>>
      /\ UNCHANGED <<runtime, installation, model, effects, channel, tasks, fetches>>
      /\ (\E ok \in BOOLEAN : Web!ServeRead(ok) \/ Web!ServeWrite(ok)) \/ Web!ServeState \/ Web!ServeView
  BY DEF Web!Serve, Web!Idle, Web!workerVars, Web!Outcomes
<1>2. PICK call : calls = <<call>> /\ inbox = <<>> /\ Asking(call)
  BY <1>1 DEF WebInv, StartInv
<1>3. Head(calls) = call /\ calls' = <<>>
  BY <1>1, <1>2, Only
<1>4. call.kind \in {"read_id", "write", "read_slots"}
  BY <1>2 DEF Asking, Web!Write
<1>5. PICK ok \in BOOLEAN : Web!ServeRead(ok) \/ Web!ServeWrite(ok)
  BY <1>1, <1>3, <1>4 DEF Web!ServeState, Web!ServeView
<1>6. WebTypes /\ fetches = <<>>
  BY DEF WebInv, StartInv
<1>7. ASSUME NEW message, inbox' = <<message>>, Answering(message)',
             local_storage' = [s \in Web!SlotNames \cup {"installation_id"} |-> local_storage'[s]],
             local_storage'["profile"] = local_storage["profile"],
             local_storage'["library"] = local_storage["library"],
             ui' = ui, lost' \subseteq Web!SlotNames \cup {"installation_id"}
      PROVE  WebInv'
  <2>1. WebTypes'
    BY <1>1, <1>6, <1>7 DEF WebTypes
  <2>2. StartInv'
    BY <1>1, <1>3, <1>6, <1>7 DEF StartInv
  <2> QED
    BY <1>1, <2>1, <2>2 DEF WebInv, SavedInv, ScreensInv, UiInv
<1>8. CASE call = [kind |-> "read_id"]
  <2>1. call.kind = "read_id"
    BY <1>8
  <2> DEFINE message == [kind |-> "id", ok |-> ok, value |-> local_storage.installation_id]
  <2>2. inbox' = Append(inbox, message) /\ UNCHANGED <<local_storage, ui, lost>>
    BY <1>3, <1>5, <2>1 DEF Web!ServeRead, Web!ServeWrite, Web!mainVars
  <2>3. \E value : message = [kind |-> "id", ok |-> ok, value |-> value]
    OBVIOUS
  <2> HIDE DEF message
  <2>4. PICK answer : answer = message
    OBVIOUS
  <2>5. inbox' = <<answer>>
    BY <1>2, <2>2, <2>4, Only
  <2>6. Answering(answer)'
    BY <2>3, <2>4 DEF Answering
  <2> QED
    BY <1>6, <1>7, <2>2, <2>5, <2>6 DEF WebTypes
<1>9. CASE call = [kind |-> "read_slots"] /\ Stored
  <2>1. call.kind = "read_slots"
    BY <1>9
  <2>2. inbox' = Append(inbox, [kind |-> "slots", ok |-> ok, value |-> local_storage]) /\ UNCHANGED <<local_storage, ui, lost>>
    BY <1>3, <1>5, <2>1 DEF Web!ServeRead, Web!ServeWrite, Web!mainVars
  <2>3. PICK answer : answer = [kind |-> "slots", ok |-> ok, value |-> local_storage]
    OBVIOUS
  <2>4. inbox' = <<answer>>
    BY <1>2, <2>2, <2>3, Only
  <2>5. Stored'
    BY <1>1, <1>9, <2>2 DEF Stored
  <2>6. Answering(answer)'
    BY <2>2, <2>3, <2>5 DEF Answering
  <2> QED
    BY <1>6, <1>7, <2>2, <2>4, <2>6 DEF WebTypes
<1>10. CASE call = Web!Write("installation_id", installation)
  <2>1. call.kind = "write" /\ call.slot = "installation_id" /\ call.value = installation
    BY <1>10, KindsAre
  <2>2. /\ local_storage' = IF ok THEN [local_storage EXCEPT !["installation_id"] = installation] ELSE local_storage
        /\ lost' = IF ok THEN lost \ {"installation_id"} ELSE lost \cup {"installation_id"}
        /\ inbox' = Append(inbox, [kind |-> "id_written", ok |-> ok]) /\ ui' = ui
    BY <1>3, <1>5, <2>1 DEF Web!ServeRead, Web!ServeWrite
  <2>3. /\ local_storage' = [s \in Web!SlotNames \cup {"installation_id"} |-> local_storage'[s]]
        /\ local_storage'["profile"] = local_storage["profile"] /\ local_storage'["library"] = local_storage["library"]
        /\ ok = TRUE => local_storage'["installation_id"] = installation
    <3>1. local_storage = [s \in Web!SlotNames \cup {"installation_id"} |-> local_storage[s]]
      BY <1>6 DEF WebTypes
    <3>2. CASE ok = TRUE
      <4>1. local_storage' = [local_storage EXCEPT !["installation_id"] = installation]
        BY <2>2, <3>2
      <4>2. local_storage' = [s \in Web!SlotNames \cup {"installation_id"} |->
                                IF s = "installation_id" THEN installation ELSE local_storage[s]]
        BY <3>1, <4>1
      <4> QED
        BY <4>2 DEF Web!SlotNames
    <3>3. CASE ok = FALSE
      BY <2>2, <3>1, <3>3
    <3> QED
      BY <3>2, <3>3
  <2>4. lost' \subseteq Web!SlotNames \cup {"installation_id"}
    BY <1>6, <2>2 DEF WebTypes
  <2>5. PICK answer : answer = [kind |-> "id_written", ok |-> ok]
    OBVIOUS
  <2>6. inbox' = <<answer>>
    BY <1>2, <2>2, <2>5, Only
  <2>7. Answering(answer)'
    BY <1>1, <2>3, <2>5 DEF Answering, Stored
  <2> QED
    BY <1>7, <2>2, <2>3, <2>4, <2>6, <2>7
<1> QED
  BY <1>2, <1>8, <1>9, <1>10 DEF Asking

\* The module's own instance of the standard one counts as that does.
LEMMA SameCardinality == \A S : Web!Cardinality(S) = Cardinality(S)
BY DEF Web!Cardinality, Cardinality

\* The number of questions is that of the fields, and each is asked for.
LEMMA EachIsAsked ==
  ASSUME NEW fields \in SUBSET Web!Fields
  PROVE  /\ Web!Cardinality(fields) \in Nat
         /\ Web!SetToSeq(fields) \in [1 .. Web!Cardinality(fields) -> fields]
         /\ \A f \in fields : \E i \in 1 .. Web!Cardinality(fields) : Web!SetToSeq(fields)[i] = f
<1>1. IsFiniteSet(fields)
  <2>1. IsFiniteSet(Web!Fields)
    <3>1. /\ IsFiniteSet({}) /\ IsFiniteSet({} \cup {"ctx"})
          /\ IsFiniteSet(({} \cup {"ctx"}) \cup {"library"})
          /\ IsFiniteSet((({} \cup {"ctx"}) \cup {"library"}) \cup {"continue_watching_preview"})
      BY FS_EmptySet, FS_AddElement
    <3>2. Web!Fields = (({} \cup {"ctx"}) \cup {"library"}) \cup {"continue_watching_preview"}
      BY DEF Web!Fields
    <3> QED
      BY <3>1, <3>2
  <2> QED
    BY <2>1, FS_Subset
<1> DEFINE n == Cardinality(fields)
<1>2. n \in Nat /\ ExistsBijection(1 .. n, fields)
  BY <1>1, FS_CardinalityType
<1>3. IsFiniteSet(1 .. n) /\ Cardinality(1 .. n) = n
  BY <1>2, FS_Interval
<1> HIDE DEF n
<1>4. \E g \in [1 .. n -> fields] : Web!IsInjective(g)
  BY <1>2 DEF ExistsBijection, Bijection, Injection, Web!IsInjective, IsInjective
<1> DEFINE g == Web!SetToSeq(fields)
<1>5. g \in [1 .. n -> fields] /\ Web!IsInjective(g)
  <2>1. g = CHOOSE h \in [1 .. n -> fields] : Web!IsInjective(h)
    BY SameCardinality DEF Web!SetToSeq, n
  <2> QED
    BY <1>4, <2>1
<1> HIDE DEF g
<1>6. g \in Injection(1 .. n, fields)
  BY <1>5 DEF Injection, IsInjective, Web!IsInjective
<1>7. g \in Surjection(1 .. n, fields)
  BY <1>1, <1>3, <1>6, FS_Injection DEF n
<1> QED
  BY <1>2, <1>5, <1>7, SameCardinality DEF Surjection, n, g

\* The main thread carries out a call of an app whose start is over.
LEMMA WebServesWork == ASSUME WebInv, Web!Serve, runtime \in {"Err", "Ready"} PROVE WebInv'
<1> DEFINE call == Head(calls)
           left == Tail(calls)
<1>1. /\ effects = <<>> /\ channel = <<>> /\ tasks = <<>> /\ calls' = left /\ calls # <<>>
      /\ UNCHANGED <<runtime, installation, model, effects, channel, tasks, fetches>>
      /\ (\E ok \in BOOLEAN : Web!ServeRead(ok) \/ Web!ServeWrite(ok)) \/ Web!ServeState \/ Web!ServeView
  BY DEF Web!Serve, Web!Idle, Web!workerVars, Web!Outcomes
<1>2. WebTypes /\ SavedInv /\ ScreensInv /\ UiInv
  BY DEF WebInv
<1>3. inbox \in Seq(WebRequests) /\ calls \in Seq(WebWork)
  BY <1>2 DEF WebTypes
<1>4. call \in WebWork /\ left \in Seq(WebWork)
  BY <1>1, <1>3, TailIs
<1>5. \/ call \in SlotWrites /\ call.kind = "write"
      \/ call \in WebNotices /\ call.kind = "state"
      \/ call \in WebShows /\ call.kind = "view"
  BY <1>4, KindsAre DEF WebWork, SlotWrites, WebNotices, WebShows
<1>6. ScreensInv'
  BY <1>1, <1>2 DEF ScreensInv, ShelfInv, PreviewInv
\* What happens to the slots when no slot is written.
<1>7. ASSUME call.kind # "write", UNCHANGED <<local_storage, lost>>
      PROVE  SavedInv'
  <2> SUFFICES ASSUME runtime = "Ready", NEW slot \in Web!SlotNames PROVE SlotInv(slot)'
    BY <1>1 DEF SavedInv
  <2>1. SlotInv(slot)
    BY <1>2 DEF SavedInv
  <2>2. ~WritesTo(call, slot)
    BY <1>7 DEF WritesTo
  <2>3. /\ NoWrite(calls, slot) => NoWrite(calls', slot)
        /\ LeavesIn(calls, slot, model[slot]) => LeavesIn(calls', slot, model[slot])
    BY <1>1, <1>3, <2>2, WritesInTail
  <2>4. Reaches(slot) => Reaches(slot)'
    BY <1>1, <1>7, <2>3 DEF Reaches
  <2> QED
    BY <1>1, <2>1, <2>4 DEF SlotInv
\* What happens to the fields otherwise.
<1>8. ASSUME NEW f \in Web!Fields, call.kind \in {"write", "state"}, ui' = ui,
             call \in NoticesOf(f) => ~NoneOf(inbox', {Question(f)}),
             NoneOf(inbox', {Question(f)}) => NoneOf(inbox, {Question(f)}),
             runtime = "Ready"
      PROVE  FieldInv(f)'
  <2>1. FieldInv(f)
    BY <1>2, <1>8 DEF UiInv
  <2>2. call \notin ShowsOf(f)
    BY <1>8 DEF ShowsOf, WebShows
  <2>3. /\ NoneOf(calls, ShowsOf(f)) => NoneOf(calls', ShowsOf(f))
        /\ LastOf(calls, ShowsOf(f), Web!View(model, f)) => LastOf(calls', ShowsOf(f), Web!View(model, f))
        /\ NoneOf(calls', NoticesOf(f)) /\ call \notin NoticesOf(f) => NoneOf(calls, NoticesOf(f))
    BY <1>1, <1>3, <2>2, LastInTail
  <2> QED
    BY <1>1, <1>8, <2>1, <2>3 DEF FieldInv
<1>9. CASE call \in SlotWrites /\ call.kind = "write"
  <2>1. PICK ok \in BOOLEAN : Web!ServeWrite(ok)
    BY <1>1, <1>9 DEF Web!ServeRead, Web!ServeState, Web!ServeView
  <2>2. /\ call.slot \in Web!SlotNames
        /\ call.slot = "profile" => call.value \in Web!Profiles
        /\ call.slot = "library" => call.value \in Web!Items
        /\ call.slot = "notifications" => call.value \in BOOLEAN
    BY <1>9, KindsAre DEF SlotWrites, Web!SlotNames
  <2> DEFINE into == call.slot
  <2>3. /\ local_storage' = IF ok THEN [local_storage EXCEPT ![into] = call.value] ELSE local_storage
        /\ lost' = IF ok THEN lost \ {into} ELSE lost \cup {into}
        /\ inbox' = inbox /\ ui' = ui
    <3>1. into # "installation_id"
      BY <2>2 DEF Web!SlotNames
    <3> QED
      BY <2>1, <3>1 DEF Web!ServeWrite
  <2> HIDE DEF into, call, left
  <2>4. into \in Web!SlotNames /\ into # "installation_id"
    BY <2>2 DEF Web!SlotNames, into
  <2>5. local_storage = [s \in Web!SlotNames \cup {"installation_id"} |-> local_storage[s]]
    BY <1>2 DEF WebTypes
  <2>6. /\ local_storage' = [s \in Web!SlotNames \cup {"installation_id"} |-> local_storage'[s]]
        /\ \A s \in Web!SlotNames \cup {"installation_id"} :
             local_storage'[s] = IF ok = TRUE /\ s = into THEN call.value ELSE local_storage[s]
    <3>1. CASE ok = TRUE
      <4>1. local_storage' = [local_storage EXCEPT ![into] = call.value]
        BY <2>3, <3>1
      <4>2. local_storage' = [s \in Web!SlotNames \cup {"installation_id"} |->
                                IF s = into THEN call.value ELSE local_storage[s]]
        BY <2>4, <2>5, <4>1
      <4> QED
        BY <3>1, <4>2
    <3>2. CASE ok = FALSE
      BY <2>3, <2>5, <3>2
    <3> QED
      BY <3>1, <3>2
  <2>7. WebTypes'
    <3>1. lost' \subseteq Web!SlotNames \cup {"installation_id"}
      BY <1>2, <2>3, <2>4 DEF WebTypes
    <3>2. /\ local_storage'["profile"] \in Web!Profiles \cup {None}
          /\ local_storage'["library"] \in Web!Items \cup {None}
      <4>1. /\ local_storage["profile"] \in Web!Profiles \cup {None}
            /\ local_storage["library"] \in Web!Items \cup {None}
        BY <1>2 DEF WebTypes
      <4> QED
        BY <2>2, <2>6, <4>1 DEF Web!SlotNames, into
    <3> QED
      BY <1>1, <1>2, <1>3, <1>4, <2>3, <2>6, <3>1, <3>2 DEF WebTypes
  <2>8. StartInv'
    BY <1>1, <2>4, <2>6 DEF WebInv, StartInv, Stored
  <2>9. SavedInv'
    <3> SUFFICES ASSUME runtime = "Ready", NEW slot \in Web!SlotNames PROVE SlotInv(slot)'
      BY <1>1 DEF SavedInv
    <3>1. SlotInv(slot)
      BY <1>2 DEF SavedInv
    <3> DEFINE value == model[slot]
               there == Web!ModelOf(local_storage)[slot] = value \/ slot \in lost
    <3>2. SlotInv(slot) <=>
            \/ slot = "notifications" /\ "save" \in model.pulled
            \/ Has(effects, Saving(slot)) \/ LeavesIn(effects, slot, value)
            \/ NoWrite(effects, slot) /\ (LeavesIn(calls, slot, value) \/ (NoWrite(calls, slot) /\ there))
      BY <1>1 DEF SlotInv, Reaches, LeavesIn, NoWrite
    <3>3. SlotInv(slot)' <=>
            \/ slot = "notifications" /\ "save" \in model.pulled
            \/ Has(effects, Saving(slot)) \/ LeavesIn(effects, slot, value)
            \/ NoWrite(effects, slot) /\ (LeavesIn(calls', slot, value) \/ (NoWrite(calls', slot) /\ there'))
      <4>1. model' = model /\ effects' = effects /\ tasks' = <<>>
        BY <1>1
      <4>2. NoWrite(<<>>, slot) /\ ~LeavesIn(<<>>, slot, value)
        BY DEF NoWrite, LeavesIn
      <4>3. Reaches(slot)' <=> LeavesIn(calls', slot, value) \/ (NoWrite(calls', slot) /\ there')
        BY <4>1, <4>2 DEF Reaches, Web!ModelOf, Web!Shelf, Web!Preview
      <4> HIDE DEF there
      <4> QED
        BY <4>1, <4>3 DEF SlotInv, Saving, Web!Msg
    <3>4. /\ NoWrite(calls, slot) <=> ~WritesTo(call, slot) /\ NoWrite(calls', slot)
          /\ LeavesIn(calls, slot, value) =>
               \/ LeavesIn(calls', slot, value)
               \/ NoWrite(calls', slot) /\ WritesTo(call, slot) /\ call.value = value
      <4> HIDE DEF value, there
      <4> QED
        BY <1>1, <1>3, WritesInTail DEF call, left
    <3>5. ASSUME ~WritesTo(call, slot), there PROVE there'
      <4>1. slot # into
        BY <1>9, <3>5 DEF WritesTo, into
      <4>2. Web!ModelOf(local_storage')[slot] = Web!ModelOf(local_storage)[slot]
        <5>1. local_storage'[slot] = local_storage[slot]
          BY <2>6, <4>1
        <5> QED
          BY <5>1, SlotsAreRead
      <4>3. slot \in lost => slot \in lost'
        BY <2>3, <4>1
      <4>4. model' = model
        BY <1>1
      <4> QED
        BY <3>5, <4>2, <4>3, <4>4 DEF Web!ModelOf, Web!Shelf, Web!Preview
    <3>6. ASSUME WritesTo(call, slot), call.value = value PROVE there'
      <4>1. slot = into
        BY <3>6 DEF WritesTo, into
      <4>2. CASE ok = FALSE
        <5>1. slot \in lost'
          BY <2>3, <4>1, <4>2
        <5> QED
          BY <5>1
      <4>3. CASE ok = TRUE
        <5>1. local_storage'[slot] = call.value
          BY <2>6, <4>1, <4>3
        <5>2. Read(slot, call.value) = call.value
          BY <2>2, <4>1, WebAssumption DEF Read, Web!NoneAssumption, Web!SlotNames, into
        <5>3. Web!ModelOf(local_storage')[slot] = call.value
          BY <5>1, <5>2, SlotsAreRead
        <5>4. model' = model
          BY <1>1
        <5> QED
          BY <3>6, <5>3, <5>4 DEF Web!ModelOf, Web!Shelf, Web!Preview
      <4> QED
        BY <4>2, <4>3
    <3> HIDE DEF there, value
    <3> QED
      BY <3>1, <3>2, <3>3, <3>4, <3>5, <3>6
  <2>10. UiInv'
    <3> SUFFICES ASSUME runtime = "Ready", NEW f \in Web!Fields PROVE FieldInv(f)'
      BY <1>1 DEF UiInv
    <3>1. call \notin NoticesOf(f)
      BY <1>9 DEF NoticesOf, WebNotices
    <3> QED
      BY <1>8, <1>9, <2>3, <3>1
  <2> QED
    BY <1>6, <2>7, <2>8, <2>9, <2>10 DEF WebInv
<1>10. CASE call \in WebNotices /\ call.kind = "state"
  <2> DEFINE fields == call.fields
             n == Web!Cardinality(fields)
             order == Web!SetToSeq(fields)
             questions == [i \in 1 .. n |-> [kind |-> "get_state", field |-> order[i]]]
  <2>1. Web!ServeState
    BY <1>1, <1>10 DEF Web!ServeRead, Web!ServeWrite, Web!ServeView
  <2>2. inbox' = inbox \o questions /\ UNCHANGED <<local_storage, ui, lost>>
    BY <2>1 DEF Web!ServeState, Web!mainVars
  <2>3. fields \in SUBSET Web!Fields
    BY <1>10 DEF WebNotices
  <2>4. n \in Nat /\ order \in [1 .. n -> fields] /\ \A f \in fields : \E i \in 1 .. n : order[i] = f
    BY <2>3, EachIsAsked
  <2> HIDE DEF n, order, fields, call, left
  <2>6. \A i \in 1 .. n : questions[i] = Question(order[i]) /\ Question(order[i]) \in WebRequests
    BY <2>3, <2>4 DEF Question, WebRequests
  <2>7. questions \in Seq(WebRequests) /\ DOMAIN questions = 1 .. n
    BY <2>4, <2>6
  <2>8. \A f \in fields : ~NoneOf(questions, {Question(f)})
    BY <2>4, <2>6, <2>7 DEF NoneOf
  <2> HIDE DEF questions
  <2>9. WebTypes'
    <3>1. inbox' \in Seq(WebRequests)
      BY <1>3, <2>2, <2>7
    <3> QED
      BY <1>1, <1>2, <1>4, <2>2, <3>1 DEF WebTypes
  <2>10. StartInv'
    BY <1>1, <2>2 DEF WebInv, StartInv, Stored
  <2>11. SavedInv'
    BY <1>7, <1>10, <2>2
  <2>12. UiInv'
    <3> SUFFICES ASSUME runtime = "Ready", NEW f \in Web!Fields PROVE FieldInv(f)'
      BY <1>1 DEF UiInv
    <3>1. NoneOf(inbox', {Question(f)}) => NoneOf(inbox, {Question(f)}) /\ NoneOf(questions, {Question(f)})
      BY <1>3, <2>2, <2>7, LastInJoined
    <3>2. call \in NoticesOf(f) => f \in fields
      BY DEF NoticesOf, fields
    <3> QED
      BY <1>8, <1>10, <2>2, <2>8, <3>1, <3>2
  <2> QED
    BY <1>6, <2>9, <2>10, <2>11, <2>12 DEF WebInv
<1>11. CASE call \in WebShows /\ call.kind = "view"
  <2>1. Web!ServeView
    BY <1>1, <1>11 DEF Web!ServeRead, Web!ServeWrite, Web!ServeState
  <2> DEFINE g == call.field
  <2>2. ui' = [ui EXCEPT ![g] = call.value] /\ UNCHANGED <<local_storage, lost, inbox>>
    BY <2>1 DEF Web!ServeView
  <2>3. g \in Web!Fields /\ call \in ShowsOf(g) /\ \A f : call \in ShowsOf(f) => f = g
    BY <1>11 DEF WebShows, ShowsOf
  <2> HIDE DEF g, call, left
  <2>4. ui = [f \in Web!Fields |-> ui[f]]
    BY <1>2 DEF WebTypes
  <2>5. ui' = [f \in Web!Fields |-> IF f = g THEN call.value ELSE ui[f]]
    BY <2>2, <2>3, <2>4
  <2>6. WebTypes'
    BY <1>1, <1>2, <1>3, <1>4, <2>2, <2>5 DEF WebTypes
  <2>7. StartInv'
    BY <1>1, <2>2 DEF WebInv, StartInv, Stored
  <2>8. SavedInv'
    BY <1>7, <1>11, <2>2
  <2>9. UiInv'
    <3> SUFFICES ASSUME runtime = "Ready", NEW f \in Web!Fields PROVE FieldInv(f)'
      BY <1>1 DEF UiInv
    <3>1. FieldInv(f)
      BY <1>2 DEF UiInv
    <3>2. call \notin NoticesOf(f)
      BY <1>11 DEF NoticesOf, WebNotices
    <3>3. NoneOf(calls', NoticesOf(f)) => NoneOf(calls, NoticesOf(f))
      BY <1>1, <1>3, <3>2, LastInTail DEF call, left
    <3> DEFINE sight == Web!View(model, f)
    <3>4. /\ NoneOf(calls, ShowsOf(f)) <=> call \notin ShowsOf(f) /\ NoneOf(calls', ShowsOf(f))
          /\ LastOf(calls, ShowsOf(f), sight) =>
               \/ LastOf(calls', ShowsOf(f), sight)
               \/ NoneOf(calls', ShowsOf(f)) /\ call \in ShowsOf(f) /\ call.value = sight
      <4> HIDE DEF sight
      <4> QED
        BY <1>1, <1>3, LastInTail DEF call, left
    <3>5. /\ call \in ShowsOf(f) => ui'[f] = call.value
          /\ call \notin ShowsOf(f) => ui'[f] = ui[f]
      BY <2>3, <2>5
    <3>6. sight' = sight
      BY <1>1 DEF Web!View
    <3>7. UNCHANGED <<model, channel, inbox>>
      BY <1>1, <2>2
    <3>8. \/ f = "ctx" /\ "tell" \in model.pulled
          \/ ~NoneOf(channel, NoticesOf(f)) \/ ~NoneOf(calls', NoticesOf(f)) \/ ~NoneOf(inbox, {Question(f)})
          \/ LastOf(calls', ShowsOf(f), sight)
          \/ NoneOf(calls', ShowsOf(f)) /\ ui'[f] = sight
      <4>1. \/ f = "ctx" /\ "tell" \in model.pulled
            \/ ~NoneOf(channel, NoticesOf(f)) \/ ~NoneOf(calls, NoticesOf(f)) \/ ~NoneOf(inbox, {Question(f)})
            \/ LastOf(calls, ShowsOf(f), sight)
            \/ NoneOf(calls, ShowsOf(f)) /\ ui[f] = sight
        BY <3>1 DEF FieldInv
      <4> HIDE DEF sight
      <4> QED
        BY <3>3, <3>4, <3>5, <4>1
    <3> QED
      BY <3>6, <3>7, <3>8 DEF FieldInv, NoticesOf, ShowsOf, Question
  <2> QED
    BY <1>6, <2>6, <2>7, <2>8, <2>9 DEF WebInv
<1> QED
  BY <1>5, <1>9, <1>10, <1>11

\* A message comes to the worker from the interface, or from an add-on.
LEMMA WebIsAsked ==
  ASSUME WebInv, runtime \in {"Err", "Ready"}, NEW message \in WebRequests, inbox' = Append(inbox, message),
         fetches' \in Seq(FetchNames),
         UNCHANGED <<runtime, installation, model, effects, channel, tasks, calls, local_storage, ui, lost>>
  PROVE  WebInv'
<1>1. WebTypes /\ inbox \in Seq(WebRequests)
  BY DEF WebInv, WebTypes
<1>2. inbox' \in Seq(WebRequests)
  BY <1>1
<1>3. WebTypes'
  BY <1>1, <1>2 DEF WebTypes
<1>4. StartInv'
  BY DEF WebInv, StartInv, Stored
<1>5. SavedInv' /\ ScreensInv'
  BY DEF WebInv, SavedInv, SlotInv, Reaches, ScreensInv, ShelfInv, PreviewInv
<1>6. UiInv'
  <2>1. \A f \in Web!Fields : NoneOf(inbox', {Question(f)}) => NoneOf(inbox, {Question(f)})
    BY <1>1, LastInAppended
  <2> QED
    BY <2>1 DEF WebInv, UiInv, FieldInv
<1> QED
  BY <1>3, <1>4, <1>5, <1>6 DEF WebInv

LEMMA WebActs == ASSUME WebInv, Web!UserActs \/ Web!FetchAnswered PROVE WebInv'
<1>1. CASE Web!UserActs
  <2>1. PICK action \in Web!Actions, target \in {"ctx", None} :
          inbox' = Append(inbox, [kind |-> "dispatch", action |-> action, field |-> target])
    BY <1>1 DEF Web!UserActs
  <2>2. /\ runtime \in {"Err", "Ready"}
        /\ UNCHANGED <<runtime, installation, model, effects, channel, tasks, calls, local_storage, ui, lost, fetches>>
    BY <1>1 DEF Web!UserActs, Web!workerVars, Web!mainVars
  <2>3. [kind |-> "dispatch", action |-> action, field |-> target] \in WebRequests
    BY DEF WebRequests
  <2>4. fetches' \in Seq(FetchNames)
    BY <2>2 DEF WebInv, WebTypes
  <2> QED
    BY <2>1, <2>2, <2>3, <2>4, WebIsAsked
<1>2. CASE Web!FetchAnswered
  <2>1. PICK i \in DOMAIN fetches : /\ inbox' = Append(inbox, [kind |-> "fetched", name |-> fetches[i]])
                                    /\ fetches' = Web!RemoveAt(fetches, i)
    BY <1>2 DEF Web!FetchAnswered
  <2>2. UNCHANGED <<runtime, installation, model, effects, channel, tasks, calls, local_storage, ui, lost>>
    BY <1>2 DEF Web!FetchAnswered, Web!workerVars, Web!mainVars
  <2>3. fetches \in Seq(FetchNames) /\ DOMAIN fetches = 1 .. Len(fetches) /\ fetches # <<>>
    BY <2>1 DEF WebInv, WebTypes
  <2>4. runtime \in {"Err", "Ready"}
    BY <2>3 DEF WebInv, WebTypes, StartInv
  <2>5. fetches[i] \in FetchNames
    BY <2>1, <2>3
  <2>6. [kind |-> "fetched", name |-> fetches[i]] \in WebRequests
    BY <2>5 DEF WebRequests
  <2>7. fetches' \in Seq(FetchNames)
    <3>1. SubSeq(fetches, 1, i - 1) \in Seq(FetchNames) /\ SubSeq(fetches, i + 1, Len(fetches)) \in Seq(FetchNames)
      BY <2>1, <2>3, SubSeqProperties
    <3>2. fetches' = SubSeq(fetches, 1, i - 1) \o SubSeq(fetches, i + 1, Len(fetches))
      BY <2>1 DEF Web!RemoveAt
    <3> QED
      BY <3>1, <3>2
  <2> QED
    BY <2>1, <2>2, <2>4, <2>6, <2>7, WebIsAsked
<1> QED
  BY <1>1, <1>2

LEMMA WebReloads == ASSUME WebInv, Web!Reload PROVE WebInv'
<1>1. /\ runtime' = "NotSet" /\ model' = Web!NoModel /\ ui' = [f \in Web!Fields |-> None] /\ lost' = {}
      /\ effects' = <<>> /\ channel' = <<>> /\ tasks' = <<>> /\ calls' = <<>> /\ inbox' = <<>> /\ fetches' = <<>>
      /\ local_storage' = local_storage
  BY DEF Web!Reload, Web!Start
<1>2. model' \in Models
  BY <1>1, ModelFits DEF Web!NoModel
<1>3. WritesFirst(<<>>)
  BY DEF WritesFirst
<1>4. WebTypes'
  BY <1>1, <1>2, <1>3 DEF WebInv, WebTypes
<1> QED
  BY <1>1, <1>4 DEF WebInv, StartInv, SavedInv, ScreensInv, UiInv

LEMMA WebNext == ASSUME WebInv, Web!Next PROVE WebInv'
<1>1. runtime \in {"NotSet", "Loading", "Err", "Ready"} /\ (runtime = "NotSet" => calls = <<>> /\ inbox = <<>>)
  BY DEF WebInv, WebTypes, StartInv
<1>2. CASE Web!TakeMessage
  <2>1. inbox # <<>>
    BY <1>2 DEF Web!TakeMessage
  <2> QED
    BY <1>1, <1>2, <2>1, WebTakesAnswer, WebTakesRequest
<1>3. CASE Web!Serve
  <2>1. calls # <<>>
    BY <1>3 DEF Web!Serve
  <2> QED
    BY <1>1, <1>3, <2>1, WebServesStart, WebServesWork
<1> QED
  BY <1>2, <1>3, WebInitializes, WebHandlesEffect, WebPolls, WebEmits, WebActs, WebReloads DEF Web!Next

\* What the properties say of queues is what the invariant does.
LEMMA LastIsFound ==
  ASSUME NEW S, NEW queue \in Seq(S), NEW P, NEW value, LastOf(queue, P, value),
         NEW i \in DOMAIN queue, queue[i] \in P, \A j \in DOMAIN queue : queue[j] \in P => j <= i
  PROVE  queue[i].value = value
<1>1. PICK k \in DOMAIN queue :
        queue[k] \in P /\ queue[k].value = value /\ \A j \in DOMAIN queue : k < j => queue[j] \notin P
  BY DEF LastOf
<1>2. k <= i /\ ~(k < i) /\ k \in Int /\ i \in Int
  BY <1>1
<1>3. k = i
  BY <1>2
<1> QED
  BY <1>1, <1>3

LEMMA WebSaves == WebInv => Web!SlotsAreSaved
<1> SUFFICES ASSUME WebInv, runtime = "Ready", effects = <<>>, NEW slot \in Web!SlotNames,
                    ~(slot = "notifications" /\ "save" \in model.pulled)
             PROVE  LET queue == calls \o tasks
                        written == {i \in DOMAIN queue : queue[i].kind = "write" /\ queue[i].slot = slot}
                    IN /\ \A i \in written : (\A j \in written : j <= i) => queue[i].value = model[slot]
                       /\ written = {} => Web!ModelOf(local_storage)[slot] = model[slot] \/ slot \in lost
  BY DEF Web!SlotsAreSaved
<1> DEFINE queue == calls \o tasks
           value == model[slot]
           S == WebWork \cup Fetches
           P == {x \in S : WritesTo(x, slot)}
<1>1. calls \in Seq(S) /\ tasks \in Seq(S)
  BY DEF WebInv, WebTypes, WebWork
<1>2. SlotInv(slot)
  BY DEF WebInv, SavedInv
<1>3. ~Has(effects, Saving(slot)) /\ ~LeavesIn(effects, slot, value)
  BY DEF Has, LeavesIn
<1>4. \/ LeavesIn(tasks, slot, value)
      \/ NoWrite(tasks, slot) /\ LeavesIn(calls, slot, value)
      \/ /\ NoWrite(tasks, slot) /\ NoWrite(calls, slot)
         /\ Web!ModelOf(local_storage)[slot] = model[slot] \/ slot \in lost
  BY <1>2, <1>3 DEF SlotInv, Reaches
<1> HIDE DEF value, S
<1>5. queue \in Seq(S)
  BY <1>1
<1>6. \/ LeavesIn(queue, slot, value)
      \/ NoWrite(queue, slot) /\ (Web!ModelOf(local_storage)[slot] = model[slot] \/ slot \in lost)
  BY <1>1, <1>4, WritesInJoined
<1> HIDE DEF queue
<1>7. \A i \in DOMAIN queue : queue[i] \in P <=> queue[i].kind = "write" /\ queue[i].slot = slot
  BY <1>5 DEF WritesTo
<1>8. CASE LeavesIn(queue, slot, value)
  <2>1. LastOf(queue, P, value)
    BY <1>5, <1>8, WritesAre
  <2>2. \E i \in DOMAIN queue : queue[i] \in P
    BY <2>1 DEF LastOf
  <2> HIDE DEF P
  <2>3. ASSUME NEW i \in DOMAIN queue, queue[i] \in P, \A j \in DOMAIN queue : queue[j] \in P => j <= i
        PROVE  queue[i].value = value
    BY <1>5, <2>1, <2>3, LastIsFound
  <2> QED
    BY <1>7, <2>2, <2>3 DEF queue, value
<1>9. CASE NoWrite(queue, slot) /\ (Web!ModelOf(local_storage)[slot] = model[slot] \/ slot \in lost)
  BY <1>9 DEF NoWrite, WritesTo, queue
<1> QED
  BY <1>6, <1>8, <1>9

LEMMA WebTells == WebInv => Web!UiIsTold
<1> SUFFICES ASSUME WebInv, runtime = "Ready", NEW f \in Web!Fields, ~(f = "ctx" /\ "tell" \in model.pulled)
             PROVE  LET Tells(queue) == \E i \in DOMAIN queue : queue[i].kind = "state" /\ f \in queue[i].fields
                        views == {i \in DOMAIN calls : calls[i].kind = "view" /\ calls[i].field = f}
                    IN \/ Tells(channel) \/ Tells(calls)
                       \/ \E i \in DOMAIN inbox : inbox[i].kind = "get_state" /\ inbox[i].field = f
                       \/ \E i \in views : (\A j \in views : j <= i) /\ calls[i].value = Web!View(model, f)
                       \/ views = {} /\ ui[f] = Web!View(model, f)
  BY DEF Web!UiIsTold
<1>1. channel \in Seq(WebNotices) /\ calls \in Seq(WebWork) /\ FieldInv(f)
  BY DEF WebInv, WebTypes, UiInv
<1>2. ASSUME ~NoneOf(channel, NoticesOf(f)) PROVE \E i \in DOMAIN channel : channel[i].kind = "state" /\ f \in channel[i].fields
  BY <1>2 DEF NoneOf, NoticesOf, WebNotices
<1>3. ASSUME ~NoneOf(calls, NoticesOf(f)) PROVE \E i \in DOMAIN calls : calls[i].kind = "state" /\ f \in calls[i].fields
  BY <1>3 DEF NoneOf, NoticesOf, WebNotices
<1>4. ASSUME ~NoneOf(inbox, {Question(f)}) PROVE \E i \in DOMAIN inbox : inbox[i].kind = "get_state" /\ inbox[i].field = f
  <2>1. PICK i \in DOMAIN inbox : inbox[i] = Question(f)
    BY <1>4 DEF NoneOf
  <2> QED
    BY <2>1 DEF Question
<1>5. \A i \in DOMAIN calls : calls[i].kind = "view" /\ calls[i].field = f <=> calls[i] \in ShowsOf(f)
  <2> TAKE i \in DOMAIN calls
  <2>1. calls[i] \in WebWork
    BY <1>1
  <2>2. calls[i].kind = "view" => calls[i] \in WebShows
    BY <2>1, KindsAre DEF WebWork, SlotWrites, WebNotices
  <2> QED
    BY <2>2 DEF ShowsOf, WebShows
<1> DEFINE shows == ShowsOf(f)
           value == Web!View(model, f)
<1> HIDE DEF shows, value
<1>6. ASSUME LastOf(calls, shows, value)
      PROVE  \E i \in DOMAIN calls : /\ calls[i] \in shows /\ calls[i].value = value
                                     /\ \A j \in DOMAIN calls : calls[j] \in shows => j <= i
  <2>1. PICK i \in DOMAIN calls :
          calls[i] \in shows /\ calls[i].value = value /\ \A j \in DOMAIN calls : i < j => calls[j] \notin shows
    BY <1>6 DEF LastOf
  <2>2. \A j \in DOMAIN calls : calls[j] \in shows => j <= i
    BY <1>1, <2>1
  <2> QED
    BY <2>1, <2>2
<1>7. \/ ~NoneOf(channel, NoticesOf(f)) \/ ~NoneOf(calls, NoticesOf(f)) \/ ~NoneOf(inbox, {Question(f)})
      \/ LastOf(calls, shows, value)
      \/ NoneOf(calls, shows) /\ ui[f] = value
  BY <1>1 DEF FieldInv, shows, value
<1>8. CASE LastOf(calls, shows, value)
  BY <1>5, <1>6, <1>8 DEF shows, value
<1>9. CASE NoneOf(calls, shows) /\ ui[f] = value
  BY <1>5, <1>9 DEF NoneOf, shows, value
<1> QED
  BY <1>2, <1>3, <1>4, <1>7, <1>8, <1>9

LEMMA WebHolds == WebInv => Web!TypeOK /\ Web!ScreensFollow /\ Web!InstallationIsStored /\ Web!StartIsAnswered
<1> SUFFICES ASSUME WebInv PROVE Web!TypeOK /\ Web!ScreensFollow /\ Web!InstallationIsStored /\ Web!StartIsAnswered
  OBVIOUS
<1>1. Web!TypeOK
  BY DEF WebInv, WebTypes, Models, Web!TypeOK
<1>2. Web!ScreensFollow
  BY DEF WebInv, ScreensInv, ShelfInv, PreviewInv, Has, Web!ScreensFollow
<1>3. Web!InstallationIsStored
  BY DEF WebInv, StartInv, Stored, Web!InstallationIsStored
<1>4. Web!StartIsAnswered
  <2> SUFFICES ASSUME runtime = "Loading" PROVE calls # <<>> \/ inbox # <<>>
    BY DEF Web!StartIsAnswered
  <2> QED
    BY Only DEF WebInv, StartInv
<1> QED
  BY <1>1, <1>2, <1>3, <1>4
-----------------------------------------------------------------------------
(* Notifications *)

NotifiedValue == [items : Notified!Notified, last_updated : Option(Notified!Times)]
JobType == [slot : {"library"}, value : Notified!Library] \cup [slot : {"items"}, value : NotifiedValue]
OfLibrary == {job \in JobType : job.slot = "library"}
OfItems == {job \in JobType : job.slot = "items"}

IsCatalog(c) ==
  /\ c = [request |-> c.request, content |-> c.content] /\ c.request \in Notified!Request
  /\ c.content \in Notified!Answers(c.request.ids) \cup {Loading, Failed}

\* Nothing that was dismissed, and nothing that is not released.
Unshown(its, gone) ==
  \A m \in Metas : gone[m] # None /\ its[m] # None => \A v \in its[m] : Released[v] > gone[m]
Out(its, time) == \A m \in Metas : its[m] # None => \A v \in its[m] : Released[v] <= time

\* A dismissed title counts as watched since then, or never.
Dated(lib, gone, time) ==
  \A m \in Metas : gone[m] # None =>
    gone[m] <= time /\ (lib[m].last_watched # None => gone[m] <= lib[m].last_watched)

\* What the queue leaves in a slot, or what is there if it leaves nothing, is good.
Leaves(queue, P, there, good) ==
  \/ \E value \in good : LastOf(queue, P, value)
  \/ NoneOf(queue, P) /\ there \in good

\* The writes that take the library from one value to the next.
Carries(queue, old, new) ==
  LastOf(queue, OfLibrary, new) \/ (NoneOf(queue, OfLibrary) /\ new = old)

NotifiedTypes ==
  /\ Notified!TypeOK
  /\ stored \in [library : Notified!Library, items : Notified!Notified, last_updated : Option(Notified!Times)]
  /\ jobs \in Seq(JobType)
  /\ DOMAIN catalogs \subseteq Nat /\ \A i \in DOMAIN catalogs : IsCatalog(catalogs[i])

ShownInv == Dated(library, dismissed, now) /\ Unshown(items, dismissed) /\ Out(items, now)

\* Also after a restart, from the slots.
WrittenInv ==
  /\ Out(stored.items, now) /\ \A i \in DOMAIN jobs : jobs[i].slot = "items" => Out(jobs[i].value.items, now)
  /\ Leaves(jobs, OfLibrary, stored.library, {library})
  /\ Leaves(jobs, OfItems, [items |-> stored.items, last_updated |-> stored.last_updated],
            {value \in NotifiedValue : Unshown(value.items, dismissed)})

\* Each catalog that is Loading has a request of its own.
Assigned(flying, cats, place) ==
  /\ place \in [DOMAIN cats -> Slots]
  /\ \A i \in DOMAIN cats : cats[i].content = Loading => flying[place[i]] = cats[i].request
  /\ \A i, j \in DOMAIN cats :
       cats[i].content = Loading /\ cats[j].content = Loading /\ place[i] = place[j] => i = j
AskedInv == \E place : Assigned(flight, catalogs, place)

NotifiedInv == NotifiedTypes /\ ShownInv /\ WrittenInv /\ AskedInv

LEMMA LeavesJoined ==
  ASSUME NEW S, NEW one \in Seq(S), NEW two \in Seq(S), NEW P, NEW there, NEW good
  PROVE  /\ NoneOf(two, P) /\ Leaves(one, P, there, good) => Leaves(one \o two, P, there, good)
         /\ \A value \in good : LastOf(two, P, value) => Leaves(one \o two, P, there, good)
<1>1. ASSUME NoneOf(two, P), Leaves(one, P, there, good) PROVE Leaves(one \o two, P, there, good)
  <2>1. CASE \E value \in good : LastOf(one, P, value)
    <3>1. PICK value \in good : LastOf(one, P, value)
      BY <2>1
    <3>2. LastOf(one \o two, P, value)
      BY <1>1, <3>1, LastInJoined
    <3> QED
      BY <3>2 DEF Leaves
  <2>2. CASE NoneOf(one, P) /\ there \in good
    <3>1. NoneOf(one \o two, P)
      BY <1>1, <2>2, LastInJoined
    <3> QED
      BY <2>2, <3>1 DEF Leaves
  <2> QED
    BY <1>1, <2>1, <2>2 DEF Leaves
<1>2. ASSUME NEW value \in good, LastOf(two, P, value) PROVE Leaves(one \o two, P, there, good)
  <2>1. LastOf(one \o two, P, value)
    BY <1>2, LastInJoined
  <2> QED
    BY <2>1 DEF Leaves
<1> QED
  BY <1>1, <1>2

LEMMA CarriesJoined ==
  ASSUME NEW S, NEW one \in Seq(S), NEW two \in Seq(S), NEW old, NEW mid, NEW new,
         Carries(one, old, mid), Carries(two, mid, new)
  PROVE  Carries(one \o two, old, new)
<1>1. CASE LastOf(two, OfLibrary, new)
  BY <1>1, LastInJoined DEF Carries
<1>2. CASE NoneOf(two, OfLibrary) /\ new = mid
  <2>1. CASE LastOf(one, OfLibrary, mid)
    BY <1>2, <2>1, LastInJoined DEF Carries
  <2>2. CASE NoneOf(one, OfLibrary) /\ mid = old
    BY <1>2, <2>2, LastInJoined DEF Carries
  <2> QED
    BY <2>1, <2>2 DEF Carries
<1> QED
  BY <1>1, <1>2 DEF Carries

LEMMA OneJob ==
  ASSUME NEW job, NEW P
  PROVE  /\ job \in P => LastOf(<<job>>, P, job.value)
         /\ job \notin P => NoneOf(<<job>>, P)
<1>1. DOMAIN <<job>> = {1} /\ <<job>>[1] = job
  OBVIOUS
<1> QED
  BY <1>1 DEF LastOf, NoneOf

LEMMA LibraryWritten ==
  ASSUME NEW lib \in Notified!Library, NEW old
  PROVE  /\ Notified!WriteLibrary(lib) \in Seq(JobType)
         /\ Carries(Notified!WriteLibrary(lib), old, lib)
         /\ NoneOf(Notified!WriteLibrary(lib), OfItems)
<1> DEFINE job == [slot |-> "library", value |-> lib]
<1>1. job \in JobType /\ job.slot = "library" /\ job.value = lib
  BY DEF JobType
<1>2. job \in OfLibrary /\ job \notin OfItems
  BY <1>1 DEF OfLibrary, OfItems
<1>3. Notified!WriteLibrary(lib) = <<job>>
  BY DEF Notified!WriteLibrary
<1> HIDE DEF job
<1> QED
  BY <1>1, <1>2, <1>3, OneJob DEF Carries

LEMMA ChangeWritten ==
  ASSUME NEW lib \in Notified!Library, NEW old \in Notified!Library
  PROVE  /\ Notified!Writes(old, lib) \in Seq(JobType)
         /\ Carries(Notified!Writes(old, lib), old, lib)
         /\ NoneOf(Notified!Writes(old, lib), OfItems)
<1>1. CASE lib # old
  <2>1. Notified!Writes(old, lib) = Notified!WriteLibrary(lib)
    BY <1>1 DEF Notified!Writes
  <2> QED
    BY <2>1, LibraryWritten
<1>2. CASE lib = old
  BY <1>2 DEF Notified!Writes, Carries, NoneOf
<1> QED
  BY <1>1, <1>2

LEMMA ItemsWritten ==
  ASSUME NEW its \in Notified!Notified, NEW updated \in Option(Notified!Times), NEW lib
  PROVE  /\ Notified!WriteItems(its, updated) \in Seq(JobType)
         /\ Carries(Notified!WriteItems(its, updated), lib, lib)
         /\ [items |-> its, last_updated |-> updated] \in NotifiedValue
         /\ LastOf(Notified!WriteItems(its, updated), OfItems, [items |-> its, last_updated |-> updated])
         /\ \A i \in DOMAIN Notified!WriteItems(its, updated) :
              Notified!WriteItems(its, updated)[i].value.items = its
<1> DEFINE value == [items |-> its, last_updated |-> updated]
           job == [slot |-> "items", value |-> value]
<1>1. value \in NotifiedValue /\ value.items = its
  BY DEF NotifiedValue
<1>2. job \in JobType /\ job.slot = "items" /\ job.value = value
  BY <1>1 DEF JobType
<1>3. job \in OfItems /\ job \notin OfLibrary
  BY <1>2 DEF OfLibrary, OfItems
<1>4. Notified!WriteItems(its, updated) = <<job>>
  BY DEF Notified!WriteItems
<1>5. <<job>> \in Seq(JobType) /\ DOMAIN <<job>> = {1} /\ <<job>>[1] = job
  BY <1>2
<1> HIDE DEF job, value
<1>6. LastOf(<<job>>, OfItems, job.value) /\ NoneOf(<<job>>, OfLibrary)
  BY <1>3, OneJob
<1>7. Carries(<<job>>, lib, lib)
  BY <1>6 DEF Carries
<1> QED
  BY <1>1, <1>2, <1>4, <1>5, <1>6, <1>7 DEF value

\* What is made of answers, and of what was notified before, is as good as that was.
LEMMA NextItemsAre ==
  ASSUME now \in Notified!Times,
         NEW cats, DOMAIN cats \subseteq Nat, \A i \in DOMAIN cats : IsCatalog(cats[i]),
         NEW lib \in Notified!Library, NEW gone \in [Metas -> Option(Notified!Times)], Dated(lib, gone, now),
         NEW old \in Notified!Notified, Unshown(old, gone), Out(old, now)
  PROVE  /\ Notified!NextItems(cats, lib, old) \in Notified!Notified
         /\ Unshown(Notified!NextItems(cats, lib, old), gone)
         /\ Out(Notified!NextItems(cats, lib, old), now)
<1> DEFINE next == Notified!NextItems(cats, lib, old)
<1>0. Released \in [Videos -> Nat] /\ now \in Nat
  BY NotificationsAssumption DEF Notified!ReleasedAssumption, Notified!Times, Notified!BoundsAssumption
<1>1. ASSUME NEW m \in Metas
      PROVE  /\ next[m] \in Option(SUBSET Videos)
             /\ next[m] # None => \A v \in next[m] : Released[v] <= now
             /\ next[m] # None /\ gone[m] # None => \A v \in next[m] : Released[v] > gone[m]
  <2> DEFINE found == Notified!Found(cats, m)
             content == cats[Notified!Min(found)].content[m]
             new == Notified!NewVideos(content, lib[m])
             kept == Notified!Retained(old[m], lib[m])
  <2>1. \/ next[m] = None
        \/ next[m] = new /\ found # {}
        \/ next[m] = kept /\ old[m] # None
    BY DEF Notified!NextItems
  <2>2. gone[m] # None => gone[m] \in Nat
    BY DEF Option, Notified!Times
  <2>3. lib[m].last_watched # None => lib[m].last_watched \in Nat
    <3>1. lib[m] \in Notified!Item
      BY DEF Notified!Library
    <3>2. lib[m].last_watched \in Option(Notified!Times)
      BY <3>1 DEF Notified!Item, Notified!Option, Option
    <3> QED
      BY <3>2 DEF Option, Notified!Times
  <2>4. gone[m] # None /\ lib[m].last_watched # None => gone[m] <= lib[m].last_watched
    BY DEF Dated
  <2>5. CASE next[m] = new /\ found # {}
    <3>1. found \subseteq Nat
      BY DEF Notified!Found
    <3>2. Notified!Min(found) \in found
      BY <2>5, <3>1, LeastOf DEF Notified!Min
    <3>3. content \subseteq Videos
      <4> DEFINE i == Notified!Min(found)
      <4>1. i \in DOMAIN cats /\ cats[i].content \notin {Loading, Failed} /\ m \in DOMAIN cats[i].content
        BY <3>2 DEF Notified!Found
      <4>2. cats[i].content \in Notified!Answers(cats[i].request.ids)
        BY <4>1 DEF IsCatalog
      <4> QED
        BY <4>1, <4>2 DEF Notified!Answers
    <3> HIDE DEF content
    <3>4. \A v \in new : /\ v \in content /\ lib[m].last_watched # None
                         /\ lib[m].last_watched < Released[v] /\ Released[v] <= now
      BY DEF Notified!NewVideos, Notified!IsNew
    <3> HIDE DEF new
    <3>5. \A v \in new : v \in Videos /\ Released[v] \in Nat
      BY <1>0, <3>3, <3>4
    <3> QED
      BY <1>0, <2>2, <2>3, <2>4, <2>5, <3>4, <3>5 DEF Option
  <2>6. CASE next[m] = kept /\ old[m] # None
    <3>1. old[m] \subseteq Videos
      <4>1. old[m] \in Option(SUBSET Videos)
        BY DEF Notified!Notified, Notified!Option, Option
      <4> QED
        BY <2>6, <4>1 DEF Option
    <3>2. \A v \in kept : v \in old[m]
      BY DEF Notified!Retained
    <3> HIDE DEF kept
    <3> QED
      BY <2>6, <3>1, <3>2 DEF Option, Unshown, Out
  <2> QED
    BY <2>1, <2>5, <2>6 DEF Option
<1>2. next = [m \in Metas |-> next[m]]
  BY DEF Notified!NextItems
<1> HIDE DEF next
<1>3. next \in [Metas -> Option(SUBSET Videos)]
  BY <1>1, <1>2
<1>4. next \in Notified!Notified
  BY <1>3 DEF Notified!Notified, Notified!Option, Option
<1>5. Unshown(next, gone) /\ Out(next, now)
  BY <1>1 DEF Unshown, Out
<1> QED
  BY <1>4, <1>5 DEF next

\* What is written keeps the slots good, of any writes that take the library from the
\* old one to the new, and of items that are good, or that no one dismissed.
LEMMA NotifiedPushes ==
  ASSUME NotifiedTypes, WrittenInv, now' = now, stored' = stored,
         NEW list \in Seq(JobType), jobs' = jobs \o list, Carries(list, library, library'),
         \A i \in DOMAIN list : list[i].slot = "items" => Out(list[i].value.items, now),
         \/ \E value \in NotifiedValue : LastOf(list, OfItems, value) /\ Unshown(value.items, dismissed')
         \/ NoneOf(list, OfItems) /\ dismissed' \in {dismissed, [m \in Metas |-> None]}
  PROVE  WrittenInv' /\ jobs' \in Seq(JobType)
<1>0. jobs \in Seq(JobType)
  BY DEF NotifiedTypes
<1>1. jobs' \in Seq(JobType)
  BY <1>0
<1>2. Out(stored'.items, now')
  BY DEF WrittenInv
<1>3. ASSUME NEW i \in DOMAIN jobs', jobs'[i].slot = "items" PROVE Out(jobs'[i].value.items, now')
  <2>1. CASE i \in DOMAIN jobs
    <3>1. jobs'[i] = jobs[i]
      BY <1>0, <2>1, JoinedIs
    <3> QED
      BY <1>3, <2>1, <3>1 DEF WrittenInv
  <2>2. CASE i \notin DOMAIN jobs
    <3>1. i - Len(jobs) \in DOMAIN list /\ i = Len(jobs) + (i - Len(jobs))
      BY <1>0, <1>3, <2>2, JoinedIs
    <3>2. jobs'[i] = list[i - Len(jobs)]
      BY <1>0, <3>1, JoinedIs
    <3> QED
      BY <1>3, <3>1, <3>2
  <2> QED
    BY <2>1, <2>2
<1>4. Leaves(jobs', OfLibrary, stored'.library, {library'})
  <2>1. CASE LastOf(list, OfLibrary, library')
    BY <1>0, <2>1, LeavesJoined
  <2>2. CASE NoneOf(list, OfLibrary) /\ library' = library
    BY <1>0, <2>2, LeavesJoined DEF WrittenInv
  <2> QED
    BY <2>1, <2>2 DEF Carries
<1> DEFINE there == [items |-> stored.items, last_updated |-> stored.last_updated]
           good == {value \in NotifiedValue : Unshown(value.items, dismissed)}
           better == {value \in NotifiedValue : Unshown(value.items, dismissed')}
<1>5. Leaves(jobs', OfItems, there, better)
  <2>1. CASE \E value \in NotifiedValue : LastOf(list, OfItems, value) /\ Unshown(value.items, dismissed')
    BY <1>0, <2>1, LeavesJoined
  <2>2. CASE NoneOf(list, OfItems) /\ dismissed' \in {dismissed, [m \in Metas |-> None]}
    <3>1. Leaves(jobs, OfItems, there, good)
      BY DEF WrittenInv
    <3>2. good \subseteq better
      BY <2>2 DEF Unshown
    <3>3. Leaves(jobs, OfItems, there, better)
      BY <3>1, <3>2 DEF Leaves
    <3> HIDE DEF good, better, there
    <3> QED
      BY <1>0, <2>2, <3>3, LeavesJoined
  <2> QED
    BY <2>1, <2>2
<1> QED
  BY <1>1, <1>2, <1>3, <1>4, <1>5 DEF WrittenInv

\* Nothing is written, and nothing that is kept or waits changes.
LEMMA NotifiedWaits ==
  ASSUME NotifiedTypes, WrittenInv, UNCHANGED <<now, library, stored, jobs, dismissed>>
  PROVE  WrittenInv'
BY DEF WrittenInv

LEMMA AskedWaits ==
  ASSUME AskedInv, UNCHANGED <<flight, catalogs>>
  PROVE  AskedInv'
BY DEF AskedInv

LEMMA NoneShown ==
  /\ [m \in Metas |-> None] \in Notified!Notified
  /\ [m \in Metas |-> None] \in [Metas -> Option(Notified!Times)]
  /\ \A time : Out([m \in Metas |-> None], time)
  /\ \A gone : Unshown([m \in Metas |-> None], gone)
  /\ \A its : Unshown(its, [m \in Metas |-> None])
  /\ \A lib, time : Dated(lib, [m \in Metas |-> None], time)
BY DEF Notified!Notified, Notified!Option, Option, Out, Unshown, Dated

LEMMA NothingIs ==
  /\ Notified!Nothing \in Notified!Item
  /\ [m \in Metas |-> Notified!Nothing] \in Notified!Library
<1>1. Notified!Nothing \in Notified!Item
  BY DEF Notified!Nothing, Notified!Item, Notified!Option
<1> QED
  BY <1>1 DEF Notified!Library

\* The clock, whose values and the times of which are numbers.
LEMMA ClockIs ==
  ASSUME NotifiedTypes
  PROVE  /\ now \in Notified!Times /\ now \in Nat /\ Notified!Times \subseteq Nat
         /\ library \in Notified!Library /\ items \in Notified!Notified
         /\ last_updated \in Option(Notified!Times) /\ dismissed \in [Metas -> Option(Notified!Times)]
         /\ flight \in [Slots -> Notified!Request \cup {Free}]
<1>1. Notified!Times \subseteq Nat
  BY NotificationsAssumption DEF Notified!BoundsAssumption, Notified!Times
<1>2. Notified!TypeOK
  BY DEF NotifiedTypes
<1> QED
  BY <1>1, <1>2 DEF Notified!TypeOK, Notified!Option, Option

\* Every variable but the jobs is as it should be, and what waits.
LEMMA NotifiedTyped ==
  ASSUME now' \in Notified!Times, library' \in Notified!Library, items' \in Notified!Notified,
         last_updated' \in Option(Notified!Times), dismissed' \in [Metas -> Option(Notified!Times)],
         flight' \in [Slots -> Notified!Request \cup {Free}],
         DOMAIN catalogs' \subseteq Nat, \A i \in DOMAIN catalogs' : IsCatalog(catalogs'[i]),
         stored' \in [library : Notified!Library, items : Notified!Notified, last_updated : Option(Notified!Times)],
         jobs' \in Seq(JobType), Len(jobs') <= MaxWrites
  PROVE  NotifiedTypes'
<1>1. \A i \in DOMAIN catalogs' : catalogs'[i].request \in Notified!Request
  BY DEF IsCatalog
<1>2. Notified!TypeOK'
  BY <1>1 DEF Notified!TypeOK, Notified!Option, Option, Notified!Times, Notified!Library, Notified!Notified,
              Notified!Request, Notified!Item
<1> QED
  BY <1>2 DEF NotifiedTypes, Notified!Library, Notified!Notified, Notified!Times, Option, JobType, IsCatalog

LEMMA NotifiedStart == Notified!Init => NotifiedInv
<1> SUFFICES ASSUME Notified!Init PROVE NotifiedInv
  OBVIOUS
<1> DEFINE none == [m \in Metas |-> None]
           nothing == [m \in Metas |-> Notified!Nothing]
<1>1. /\ now = 0 /\ library = nothing /\ items = none /\ last_updated = None /\ catalogs = <<>>
      /\ flight = [s \in Slots |-> Free] /\ jobs = <<>> /\ dismissed = none
      /\ stored = [library |-> nothing, items |-> none, last_updated |-> None]
  BY DEF Notified!Init, Notified!NoFlight
<1>2. 0 \in Notified!Times /\ MaxWrites \in Nat
  BY NotificationsAssumption DEF Notified!BoundsAssumption, Notified!Times
<1>3. nothing \in Notified!Library
  BY NothingIs
<1>4. /\ none \in Notified!Notified /\ none \in [Metas -> Option(Notified!Times)]
      /\ Out(none, now) /\ Unshown(none, none) /\ Dated(nothing, none, now)
  BY NoneShown
<1> HIDE DEF none, nothing
<1>5. Notified!TypeOK
  BY <1>1, <1>2, <1>3, <1>4 DEF Notified!TypeOK, Notified!Option, Option
<1>6. NotifiedTypes
  BY <1>1, <1>3, <1>4, <1>5 DEF NotifiedTypes, Option
<1>7. ShownInv
  BY <1>1, <1>4 DEF ShownInv
<1>8. WrittenInv
  <2>1. \A P : NoneOf(jobs, P)
    BY <1>1 DEF NoneOf
  <2>2. [items |-> stored.items, last_updated |-> stored.last_updated] \in NotifiedValue
    BY <1>1, <1>4 DEF NotifiedValue, Option
  <2> QED
    BY <1>1, <1>4, <2>1, <2>2 DEF WrittenInv, Leaves
<1>9. AskedInv
  <2>1. Assigned(flight, catalogs, <<>>)
    BY <1>1 DEF Assigned
  <2> QED
    BY <2>1 DEF AskedInv
<1> QED
  BY <1>6, <1>7, <1>8, <1>9 DEF NotifiedInv

LEMMA AskIs ==
  ASSUME NEW ids \in SUBSET Metas, Notified!Ask(ids), flight \in [Slots -> Notified!Request \cup {Free}]
  PROVE  /\ flight' \in [Slots -> Notified!Request \cup {Free}] /\ AskedInv'
         /\ DOMAIN catalogs' \subseteq Nat /\ \A i \in DOMAIN catalogs' : IsCatalog(catalogs'[i])
<1> DEFINE request(i) == [addon |-> Addons[i], ids |-> ids]
<1>1. /\ Addons \in Seq(Notified!Range(Addons)) /\ DOMAIN Addons \subseteq Nat
      /\ \A i \in DOMAIN Addons : request(i) \in Notified!Request
  BY NotificationsAssumption DEF Notified!AddonsAssumption, Notified!Request, Notified!Range
<1>2. catalogs' = [i \in DOMAIN Addons |-> [request |-> request(i), content |-> Loading]]
  BY DEF Notified!Ask
<1>3. PICK slot \in [DOMAIN Addons -> Slots] :
        /\ \A i, j \in DOMAIN Addons : slot[i] = slot[j] => i = j
        /\ flight' = [s \in Slots |->
             IF \E i \in DOMAIN Addons : slot[i] = s
               THEN request(CHOOSE i \in DOMAIN Addons : slot[i] = s)
               ELSE flight[s]]
  BY DEF Notified!Ask
<1> HIDE DEF request
<1>4. flight' \in [Slots -> Notified!Request \cup {Free}]
  <2>1. ASSUME NEW s \in Slots PROVE flight'[s] \in Notified!Request \cup {Free}
    BY <1>1, <1>3
  <2> QED
    BY <1>3, <2>1
<1>5. Assigned(flight', catalogs', slot)
  <2>1. ASSUME NEW i \in DOMAIN Addons PROVE flight'[slot[i]] = request(i)
    <3>1. (CHOOSE j \in DOMAIN Addons : slot[j] = slot[i]) = i
      BY <1>3
    <3> QED
      BY <1>3, <3>1
  <2> QED
    BY <1>2, <1>3, <2>1 DEF Assigned
<1>6. AskedInv'
  BY <1>5 DEF AskedInv, Assigned
<1>7. \A i \in DOMAIN catalogs' : IsCatalog(catalogs'[i])
  BY <1>1, <1>2 DEF IsCatalog
<1> QED
  BY <1>1, <1>2, <1>4, <1>6, <1>7

LEMMA PullIs ==
  ASSUME NotifiedTypes, NEW lib \in Notified!Library, NEW its \in Notified!Notified,
         NEW updated \in Option(Notified!Times), NEW gone \in [Metas -> Option(Notified!Times)],
         NEW cats, DOMAIN cats \subseteq Nat, \A i \in DOMAIN cats : IsCatalog(cats[i]),
         \E place : Assigned(flight, cats, place),
         Dated(lib, gone, now), Unshown(its, gone), Out(its, now),
         Notified!Pull(lib, its, updated, cats)
  PROVE  /\ flight' \in [Slots -> Notified!Request \cup {Free}] /\ AskedInv'
         /\ DOMAIN catalogs' \subseteq Nat /\ \A i \in DOMAIN catalogs' : IsCatalog(catalogs'[i])
         /\ last_updated' \in Option(Notified!Times)
         /\ items' \in Notified!Notified /\ Unshown(items', gone) /\ Out(items', now)
<1>1. now \in Notified!Times /\ flight \in [Slots -> Notified!Request \cup {Free}]
  BY ClockIs
<1> DEFINE ids == {m \in Metas : Notified!ShouldPull(lib[m])}
<1>2. \/ Notified!Ask(ids) /\ last_updated' = now
      \/ flight' = flight /\ catalogs' = cats /\ last_updated' = updated
  BY DEF Notified!Pull
<1>3. items' = Notified!NextItems(catalogs', lib, its)
  BY DEF Notified!Pull
<1>4. /\ flight' \in [Slots -> Notified!Request \cup {Free}] /\ AskedInv'
      /\ DOMAIN catalogs' \subseteq Nat /\ \A i \in DOMAIN catalogs' : IsCatalog(catalogs'[i])
      /\ last_updated' \in Option(Notified!Times)
  <2>1. CASE Notified!Ask(ids) /\ last_updated' = now
    BY <1>1, <2>1, AskIs DEF Option
  <2>2. CASE flight' = flight /\ catalogs' = cats /\ last_updated' = updated
    <3>1. AskedInv'
      BY <2>2 DEF AskedInv, Assigned
    <3> QED
      BY <1>1, <2>2, <3>1
  <2> QED
    BY <1>2, <2>1, <2>2
<1> QED
  BY <1>1, <1>3, <1>4, NextItemsAre

LEMMA PullStep ==
  ASSUME NotifiedInv, Notified!PullNotifications
  PROVE  NotifiedInv'
<1>1. NotifiedTypes /\ ShownInv /\ WrittenInv /\ AskedInv
  BY DEF NotifiedInv
<1>2. /\ Notified!Pull(library, items, last_updated, catalogs)
      /\ UNCHANGED <<now, library, stored, jobs, dismissed>>
  BY DEF Notified!PullNotifications
<1>3. DOMAIN catalogs \subseteq Nat /\ \A i \in DOMAIN catalogs : IsCatalog(catalogs[i])
  BY <1>1 DEF NotifiedTypes
<1>4. /\ flight' \in [Slots -> Notified!Request \cup {Free}] /\ AskedInv'
      /\ DOMAIN catalogs' \subseteq Nat /\ \A i \in DOMAIN catalogs' : IsCatalog(catalogs'[i])
      /\ last_updated' \in Option(Notified!Times)
      /\ items' \in Notified!Notified /\ Unshown(items', dismissed) /\ Out(items', now)
  BY <1>1, <1>2, <1>3, ClockIs, PullIs DEF ShownInv, AskedInv
<1>5. Len(jobs) <= MaxWrites
  BY <1>1 DEF NotifiedTypes, Notified!TypeOK
<1>6. NotifiedTypes'
  BY <1>1, <1>2, <1>4, <1>5, ClockIs, NotifiedTyped DEF NotifiedTypes
<1>7. ShownInv'
  BY <1>1, <1>2, <1>4 DEF ShownInv
<1>8. WrittenInv'
  BY <1>1, <1>2, NotifiedWaits
<1> QED
  BY <1>4, <1>6, <1>7, <1>8 DEF NotifiedInv

\* What takes the library from one value to another that dates no title as watched earlier.
LEMMA LibraryEdited ==
  ASSUME NotifiedInv, NEW lib \in Notified!Library, library' = lib, Notified!Enqueue(Notified!WriteLibrary(lib)),
         Dated(lib, dismissed, now),
         UNCHANGED <<now, items, last_updated, catalogs, flight, stored, dismissed>>
  PROVE  NotifiedInv'
<1>1. NotifiedTypes /\ ShownInv /\ WrittenInv /\ AskedInv
  BY DEF NotifiedInv
<1> DEFINE list == Notified!WriteLibrary(lib)
<1>2. jobs' = jobs \o list /\ Len(jobs') <= MaxWrites
  BY DEF Notified!Enqueue
<1>3. list \in Seq(JobType) /\ Carries(list, library, lib) /\ NoneOf(list, OfItems)
  BY LibraryWritten
<1> HIDE DEF list
<1>4. \A i \in DOMAIN list : list[i].slot # "items"
  BY <1>3 DEF NoneOf, OfItems
<1>5. WrittenInv' /\ jobs' \in Seq(JobType)
  BY <1>1, <1>2, <1>3, <1>4, NotifiedPushes
<1>6. NotifiedTypes'
  BY <1>1, <1>2, <1>5, ClockIs, NotifiedTyped DEF NotifiedTypes
<1>7. ShownInv'
  BY <1>1 DEF ShownInv
<1>8. AskedInv'
  BY <1>1, AskedWaits
<1> QED
  BY <1>5, <1>6, <1>7, <1>8 DEF NotifiedInv

LEMMA EditSteps ==
  ASSUME NotifiedInv, NEW m \in Metas,
         \/ Notified!ToggleLibraryItemNotifications(m) /\ library[m].no_notif
         \/ Notified!AddToLibrary(m)
         \/ Notified!MarkAsWatched(m)
  PROVE  NotifiedInv'
<1>1. NotifiedTypes /\ ShownInv
  BY DEF NotifiedInv
<1>2. library \in Notified!Library /\ library[m] \in Notified!Item /\ now \in Notified!Times /\ now \in Nat
  BY <1>1, ClockIs DEF Notified!Library
<1>3. \A gone \in {dismissed[m]} : gone # None => gone <= now
  BY <1>1 DEF ShownInv, Dated
<1>4. PICK item \in Notified!Item :
        /\ library' = [library EXCEPT ![m] = item] /\ item.last_watched \in {library[m].last_watched, now}
        /\ Notified!Enqueue(Notified!WriteLibrary(library'))
        /\ UNCHANGED <<now, items, last_updated, catalogs, flight, stored, dismissed>>
  <2>1. CASE Notified!ToggleLibraryItemNotifications(m) /\ library[m].no_notif
    <3> DEFINE item == [library[m] EXCEPT !.no_notif = FALSE]
    <3>1. /\ library' = [library EXCEPT ![m] = item] /\ Notified!Enqueue(Notified!WriteLibrary(library'))
          /\ UNCHANGED <<now, items, last_updated, catalogs, flight, stored, dismissed>>
      BY <2>1 DEF Notified!ToggleLibraryItemNotifications
    <3>2. item \in Notified!Item /\ item.last_watched = library[m].last_watched
      BY <1>2 DEF Notified!Item
    <3> HIDE DEF item
    <3> QED
      BY <3>1, <3>2
  <2>2. CASE Notified!AddToLibrary(m)
    <3> DEFINE date == IF library[m] = Notified!Nothing THEN now ELSE library[m].last_watched
               item == [library[m] EXCEPT !.removed = FALSE, !.last_watched = date]
    <3>1. /\ library' = [library EXCEPT ![m] = item] /\ Notified!Enqueue(Notified!WriteLibrary(library'))
          /\ UNCHANGED <<now, items, last_updated, catalogs, flight, stored, dismissed>>
      BY <2>2 DEF Notified!AddToLibrary
    <3>2. date \in {library[m].last_watched, now} /\ date \in Notified!Option(Notified!Times)
      BY <1>2 DEF Notified!Item, Notified!Option
    <3> HIDE DEF date
    <3>3. item \in Notified!Item /\ item.last_watched = date
      BY <1>2, <3>2 DEF Notified!Item
    <3> HIDE DEF item
    <3> QED
      BY <3>1, <3>2, <3>3
  <2>3. CASE Notified!MarkAsWatched(m)
    <3> DEFINE item == [library[m] EXCEPT !.last_watched = now]
    <3>1. /\ library' = [library EXCEPT ![m] = item] /\ Notified!Enqueue(Notified!WriteLibrary(library'))
          /\ UNCHANGED <<now, items, last_updated, catalogs, flight, stored, dismissed>>
      BY <2>3 DEF Notified!MarkAsWatched
    <3>2. item \in Notified!Item /\ item.last_watched = now
      BY <1>2 DEF Notified!Item, Notified!Option
    <3> HIDE DEF item
    <3> QED
      BY <3>1, <3>2
  <2> QED
    BY <2>1, <2>2, <2>3
<1> DEFINE lib == [library EXCEPT ![m] = item]
<1>5. lib \in Notified!Library
  BY <1>2, <1>4 DEF Notified!Library
<1>6. Dated(lib, dismissed, now)
  BY <1>1, <1>2, <1>3, <1>4 DEF ShownInv, Dated, Notified!Library
<1> HIDE DEF lib
<1>7. library' = lib
  BY <1>4 DEF lib
<1> QED
  BY <1>4, <1>5, <1>6, <1>7, LibraryEdited

LEMMA DismissingStep ==
  ASSUME NotifiedInv, NEW m \in Metas, NEW item \in Notified!Item,
         item.last_watched = library[m].last_watched, Notified!Dismissing(m, item)
  PROVE  NotifiedInv'
<1>1. NotifiedTypes /\ ShownInv /\ WrittenInv /\ AskedInv
  BY DEF NotifiedInv
<1>2. /\ library \in Notified!Library /\ now \in Notified!Times /\ now \in Nat
      /\ items \in Notified!Notified /\ last_updated \in Option(Notified!Times)
      /\ dismissed \in [Metas -> Option(Notified!Times)]
  BY <1>1, ClockIs
<1> DEFINE edited == [library EXCEPT ![m] = item]
           dated == [edited EXCEPT ![m].last_watched = now]
           its == [items EXCEPT ![m] = None]
           gone == [dismissed EXCEPT ![m] = now]
<1>3. edited \in Notified!Library /\ edited[m] = item
  BY <1>2 DEF Notified!Library
<1>4. [item EXCEPT !.last_watched = now] \in Notified!Item /\ [item EXCEPT !.last_watched = now].last_watched = now
  BY <1>2 DEF Notified!Item, Notified!Option
<1>5. dated = [edited EXCEPT ![m] = [item EXCEPT !.last_watched = now]]
  BY <1>3
<1>6. /\ dated \in Notified!Library /\ dated[m].last_watched = now
      /\ \A n \in Metas : n # m => dated[n] = library[n] /\ edited[n] = library[n]
  BY <1>2, <1>3, <1>4, <1>5 DEF Notified!Library
<1>7. its \in Notified!Notified /\ Unshown(its, gone) /\ Out(its, now)
  BY <1>1, <1>2 DEF Notified!Notified, Notified!Option, ShownInv, Unshown, Out
<1>8. gone \in [Metas -> Option(Notified!Times)]
  BY <1>2 DEF Option
<1>9. /\ Notified!Writes(library, edited) \in Seq(JobType) /\ Carries(Notified!Writes(library, edited), library, edited)
      /\ NoneOf(Notified!Writes(library, edited), OfItems)
  BY <1>2, <1>3, ChangeWritten
<1>10. UNCHANGED <<now, last_updated, catalogs, flight, stored>>
  BY DEF Notified!Dismissing
<1>11. AskedInv'
  BY <1>1, <1>10, AskedWaits
<1>12. CASE items[m] = None
  <2> DEFINE list == Notified!Writes(library, edited)
  <2>1. library' = edited /\ items' = items /\ dismissed' = dismissed /\ jobs' = jobs \o list /\ Len(jobs') <= MaxWrites
    BY <1>12 DEF Notified!Dismissing, Notified!Enqueue
  <2> HIDE DEF list
  <2>2. list \in Seq(JobType) /\ Carries(list, library, library') /\ NoneOf(list, OfItems)
    BY <1>9, <2>1 DEF list
  <2>3. \A i \in DOMAIN list : list[i] \notin OfItems /\ list[i] \in JobType
    BY <2>2 DEF NoneOf
  <2>4. \A i \in DOMAIN list : list[i].slot # "items"
    BY <2>3 DEF OfItems
  <2>5. WrittenInv' /\ jobs' \in Seq(JobType)
    BY <1>1, <1>10, <2>1, <2>2, <2>4, NotifiedPushes
  <2>6. Dated(edited, dismissed, now)
    BY <1>1, <1>3, <1>6 DEF ShownInv, Dated
  <2> HIDE DEF edited
  <2>7. NotifiedTypes'
    BY <1>1, <1>2, <1>3, <1>10, <2>1, <2>5, ClockIs, NotifiedTyped DEF NotifiedTypes
  <2>8. ShownInv'
    BY <1>1, <1>10, <2>1, <2>6 DEF ShownInv
  <2> QED
    BY <1>11, <2>5, <2>7, <2>8 DEF NotifiedInv
<1>13. CASE items[m] # None
  <2> DEFINE first == Notified!Writes(library, edited)
             second == Notified!WriteItems(its, last_updated)
             third == Notified!Writes(edited, dated)
             list == (first \o second) \o third
             value == [items |-> its, last_updated |-> last_updated]
  <2>1. items' = its /\ library' = dated /\ dismissed' = gone
    BY <1>13 DEF Notified!Dismissing
  <2>2. jobs' = jobs \o list /\ Len(jobs') <= MaxWrites
    BY <1>13, <2>1 DEF Notified!Dismissing, Notified!Enqueue
  <2>3. /\ second \in Seq(JobType) /\ Carries(second, edited, edited) /\ value \in NotifiedValue
        /\ LastOf(second, OfItems, value) /\ \A i \in DOMAIN second : second[i].value.items = its
    BY <1>2, <1>7, ItemsWritten
  <2>4. third \in Seq(JobType) /\ Carries(third, edited, dated) /\ NoneOf(third, OfItems)
    BY <1>3, <1>6, ChangeWritten
  <2>5. value.items = its
    OBVIOUS
  <2> HIDE DEF first, second, third, value
  <2>6. first \in Seq(JobType) /\ Carries(first, library, edited) /\ NoneOf(first, OfItems)
    BY <1>9 DEF first
  <2> HIDE DEF edited, its, gone, dated
  <2>7. first \o second \in Seq(JobType) /\ Carries(first \o second, library, edited)
    BY <2>3, <2>6, CarriesJoined, JoinedIs
  <2>8. list \in Seq(JobType) /\ Carries(list, library, dated)
    BY <2>4, <2>7, CarriesJoined, JoinedIs
  <2>9. LastOf(first \o second, OfItems, value)
    BY <2>3, <2>6, LastInJoined
  <2>10. LastOf(list, OfItems, value)
    BY <2>4, <2>7, <2>9, LastInJoined
  <2>11. ASSUME NEW i \in DOMAIN list, list[i].slot = "items" PROVE Out(list[i].value.items, now)
    <3>1. list[i] \in OfItems
      BY <2>8, <2>11 DEF OfItems
    <3>2. CASE i \notin DOMAIN (first \o second)
      <4>1. i - Len(first \o second) \in DOMAIN third /\ list[i] = third[i - Len(first \o second)]
        BY <2>4, <2>7, <2>11, <3>2
      <4> QED
        BY <2>4, <3>1, <4>1 DEF NoneOf
    <3>3. CASE i \in DOMAIN (first \o second)
      <4>1. list[i] = (first \o second)[i]
        BY <2>4, <2>7, <3>3, JoinedIs
      <4>2. CASE i \in DOMAIN first
        <5>1. list[i] = first[i]
          BY <2>3, <2>6, <4>1, <4>2, JoinedIs
        <5> QED
          BY <2>6, <3>1, <4>2, <5>1 DEF NoneOf
      <4>3. CASE i \notin DOMAIN first
        <5>1. i - Len(first) \in DOMAIN second /\ list[i] = second[i - Len(first)]
          BY <2>3, <2>6, <3>3, <4>1, <4>3
        <5> QED
          BY <1>7, <2>3, <5>1
      <4> QED
        BY <4>2, <4>3
    <3> QED
      BY <3>2, <3>3
  <2> HIDE DEF list
  <2>12. WrittenInv' /\ jobs' \in Seq(JobType)
    BY <1>1, <1>7, <1>10, <2>1, <2>2, <2>3, <2>5, <2>8, <2>10, <2>11, NotifiedPushes
  <2>13. Dated(dated, gone, now)
    BY <1>1, <1>2, <1>6 DEF ShownInv, Dated, gone
  <2>14. NotifiedTypes'
    BY <1>1, <1>2, <1>6, <1>7, <1>8, <1>10, <2>1, <2>2, <2>12, ClockIs, NotifiedTyped DEF NotifiedTypes
  <2>15. ShownInv'
    BY <1>7, <1>10, <2>1, <2>13 DEF ShownInv
  <2> QED
    BY <1>11, <2>12, <2>14, <2>15 DEF NotifiedInv
<1> QED
  BY <1>12, <1>13

\* An answer goes to a catalog that waits for it.  If that is another than the request
\* was sent for, the one it was sent for has the request of the other.
LEMMA AnswerTaken ==
  ASSUME AskedInv, NEW s \in Slots, flight \in [Slots -> Notified!Request \cup {Free}],
         flight' = Ended(flight, s), DOMAIN catalogs' = DOMAIN catalogs,
         NEW result, result # Loading,
         \/ /\ catalogs' = catalogs
            /\ \A i \in DOMAIN catalogs : ~(catalogs[i].request = flight[s] /\ catalogs[i].content = Loading)
         \/ \E j \in DOMAIN catalogs :
              /\ catalogs[j].request = flight[s] /\ catalogs[j].content = Loading
              /\ catalogs'[j].content = result /\ catalogs'[j].request = catalogs[j].request
              /\ \A i \in DOMAIN catalogs : i # j => catalogs'[i] = catalogs[i]
  PROVE  AskedInv'
<1>1. PICK place : Assigned(flight, catalogs, place)
  BY DEF AskedInv
<1>2. \A t \in Slots : t # s => flight'[t] = flight[t]
  BY DEF Ended
<1>3. CASE /\ catalogs' = catalogs
           /\ \A i \in DOMAIN catalogs : ~(catalogs[i].request = flight[s] /\ catalogs[i].content = Loading)
  <2>1. \A i \in DOMAIN catalogs : catalogs[i].content = Loading => place[i] # s
    BY <1>1, <1>3 DEF Assigned
  <2>2. Assigned(flight', catalogs', place)
    BY <1>1, <1>2, <1>3, <2>1 DEF Assigned
  <2> QED
    BY <2>2 DEF AskedInv, Assigned
<1>4. ASSUME NEW j \in DOMAIN catalogs,
             catalogs[j].request = flight[s], catalogs[j].content = Loading,
             catalogs'[j].content = result, catalogs'[j].request = catalogs[j].request,
             \A i \in DOMAIN catalogs : i # j => catalogs'[i] = catalogs[i]
      PROVE  AskedInv'
  <2> DEFINE next == [i \in DOMAIN catalogs |-> IF place[i] = s THEN place[j] ELSE place[i]]
  <2>1. place \in [DOMAIN catalogs -> Slots] /\ flight[place[j]] = flight[s]
    BY <1>1, <1>4 DEF Assigned
  <2>2. ASSUME NEW i \in DOMAIN catalogs, catalogs'[i].content = Loading
        PROVE  /\ i # j /\ catalogs[i].content = Loading /\ catalogs'[i].request = catalogs[i].request
               /\ flight[place[i]] = catalogs[i].request /\ place[i] # place[j]
               /\ next[i] \in Slots \ {s} /\ flight[next[i]] = catalogs[i].request
    <3>1. i # j
      BY <1>4, <2>2
    <3>2. catalogs[i].content = Loading /\ catalogs'[i] = catalogs[i]
      BY <1>4, <2>2, <3>1
    <3>3. flight[place[i]] = catalogs[i].request /\ place[i] # place[j]
      BY <1>1, <1>4, <3>1, <3>2 DEF Assigned
    <3> QED
      BY <2>1, <3>1, <3>2, <3>3
  <2>3. next \in [DOMAIN catalogs -> Slots]
    BY <2>1
  <2>4. ASSUME NEW i \in DOMAIN catalogs, NEW k \in DOMAIN catalogs, next[i] = next[k],
               catalogs'[i].content = Loading, catalogs'[k].content = Loading
        PROVE  i = k
    <3>1. catalogs[i].content = Loading /\ catalogs[k].content = Loading /\ place[i] # place[j] /\ place[k] # place[j]
      BY <2>2, <2>4
    <3>2. place[i] = place[k]
      BY <2>4, <3>1
    <3> QED
      BY <1>1, <3>1, <3>2 DEF Assigned
  <2>5. \A i \in DOMAIN catalogs : catalogs'[i].content = Loading => flight'[next[i]] = catalogs'[i].request
    BY <1>2, <2>2
  <2> HIDE DEF next
  <2>6. Assigned(flight', catalogs', next)
    BY <2>3, <2>4, <2>5 DEF Assigned
  <2> QED
    BY <2>6 DEF AskedInv, Assigned
<1> QED
  BY <1>3, <1>4

LEMMA AnswerStep ==
  ASSUME NotifiedInv, NEW s \in Slots, Notified!Answer(s)
  PROVE  NotifiedInv'
<1>1. NotifiedTypes /\ ShownInv /\ WrittenInv /\ AskedInv
  BY DEF NotifiedInv
<1>2. PICK result \in Notified!Answers(flight[s].ids) \cup {Failed} : Notified!ResourceRequestResult(s, result)
  BY DEF Notified!Answer
<1>3. /\ flight \in [Slots -> Notified!Request \cup {Free}] /\ library \in Notified!Library
      /\ items \in Notified!Notified /\ dismissed \in [Metas -> Option(Notified!Times)]
      /\ last_updated \in Option(Notified!Times) /\ now \in Notified!Times
  BY <1>1, ClockIs
<1>4. /\ flight[s] # Free /\ flight' = Ended(flight, s)
      /\ UNCHANGED <<now, library, last_updated, stored, dismissed>>
  BY <1>2 DEF Notified!ResourceRequestResult, Notified!Ended, Ended
<1>5. flight[s] \in Notified!Request /\ flight[s].ids \in SUBSET Metas
  BY <1>3, <1>4 DEF Notified!Request
<1>6. result # Loading
  BY <1>2, <1>5, NotificationsAssumption, LoadableAssumption DEF Notified!AnswersAssumption
<1>7. flight' \in [Slots -> Notified!Request \cup {Free}]
  BY <1>3, <1>4 DEF Ended
<1> DEFINE waits == {i \in DOMAIN catalogs : catalogs[i].request = flight[s] /\ catalogs[i].content = Loading}
           j == CHOOSE i \in waits : TRUE
<1>8. CASE waits = {}
  <2>1. UNCHANGED <<catalogs, items, jobs>>
    BY <1>2, <1>8 DEF Notified!ResourceRequestResult
  <2>2. AskedInv'
    BY <1>1, <1>3, <1>4, <1>6, <1>8, <2>1, AnswerTaken
  <2>3. Len(jobs) <= MaxWrites
    BY <1>1 DEF NotifiedTypes, Notified!TypeOK
  <2>4. NotifiedTypes'
    BY <1>1, <1>3, <1>4, <1>7, <2>1, <2>3, NotifiedTyped DEF NotifiedTypes
  <2>5. ShownInv'
    BY <1>1, <1>4, <2>1 DEF ShownInv
  <2>6. WrittenInv'
    BY <1>1, <1>4, <2>1, NotifiedWaits
  <2> QED
    BY <2>2, <2>4, <2>5, <2>6 DEF NotifiedInv
<1>9. CASE waits # {}
  <2>1. j \in DOMAIN catalogs /\ catalogs[j].request = flight[s] /\ catalogs[j].content = Loading
    BY <1>9
  <2> DEFINE list == IF items' # items THEN Notified!WriteItems(items', last_updated) ELSE <<>>
  <2>2. /\ catalogs' = [catalogs EXCEPT ![j].content = result]
        /\ items' = Notified!NextItems(catalogs', library, items)
        /\ jobs' = jobs \o list /\ Len(jobs') <= MaxWrites
    BY <1>2, <1>9 DEF Notified!ResourceRequestResult, Notified!Enqueue
  <2> HIDE DEF waits, j, list
  <2>3. DOMAIN catalogs \subseteq Nat /\ \A i \in DOMAIN catalogs : IsCatalog(catalogs[i])
    BY <1>1 DEF NotifiedTypes
  <2>4. /\ DOMAIN catalogs' = DOMAIN catalogs
        /\ \A i \in DOMAIN catalogs : i # j => catalogs'[i] = catalogs[i]
        /\ catalogs'[j] = [catalogs[j] EXCEPT !.content = result]
    BY <2>1, <2>2
  <2>5. catalogs[j] = [request |-> flight[s], content |-> Loading]
    BY <2>1, <2>3 DEF IsCatalog
  <2>6. catalogs'[j] = [request |-> flight[s], content |-> result]
    BY <2>4, <2>5
  <2>7. catalogs'[j].request = catalogs[j].request /\ catalogs'[j].content = result
    BY <2>5, <2>6
  <2>8. IsCatalog(catalogs'[j])
    BY <1>2, <1>5, <2>6 DEF IsCatalog
  <2>9. DOMAIN catalogs' \subseteq Nat /\ \A i \in DOMAIN catalogs' : IsCatalog(catalogs'[i])
    BY <2>3, <2>4, <2>8
  <2>10. AskedInv'
    BY <1>1, <1>3, <1>4, <1>6, <2>1, <2>4, <2>7, AnswerTaken
  <2>11. items' \in Notified!Notified /\ Unshown(items', dismissed) /\ Out(items', now)
    BY <1>1, <1>3, <2>2, <2>9, NextItemsAre DEF ShownInv
  <2>12. WrittenInv' /\ jobs' \in Seq(JobType)
    <3>1. CASE items' # items
      <4> DEFINE value == [items |-> items', last_updated |-> last_updated]
      <4>1. list = Notified!WriteItems(items', last_updated)
        BY <3>1 DEF list
      <4>2. /\ list \in Seq(JobType) /\ Carries(list, library, library') /\ value \in NotifiedValue
            /\ LastOf(list, OfItems, value) /\ \A i \in DOMAIN list : list[i].value.items = items'
        BY <1>3, <1>4, <2>11, <4>1, ItemsWritten
      <4>3. value.items = items'
        OBVIOUS
      <4> HIDE DEF value
      <4> QED
        BY <1>1, <1>4, <2>2, <2>11, <4>2, <4>3, NotifiedPushes
    <3>2. CASE items' = items
      <4>1. list = <<>>
        BY <3>2 DEF list
      <4>2. list \in Seq(JobType) /\ DOMAIN list = {} /\ Carries(list, library, library') /\ NoneOf(list, OfItems)
        BY <1>4, <4>1 DEF Carries, NoneOf
      <4> QED
        BY <1>1, <1>4, <2>2, <4>2, NotifiedPushes
    <3> QED
      BY <3>1, <3>2
  <2>13. NotifiedTypes'
    BY <1>1, <1>3, <1>4, <1>7, <2>2, <2>9, <2>11, <2>12, NotifiedTyped DEF NotifiedTypes
  <2>14. ShownInv'
    BY <1>1, <1>4, <2>11 DEF ShownInv
  <2> QED
    BY <2>10, <2>12, <2>13, <2>14 DEF NotifiedInv
<1> QED
  BY <1>8, <1>9

\* A new library and no notifications, nor anything that was dismissed.
LEMMA ResetWritten ==
  ASSUME NotifiedInv, NEW lib \in Notified!Library, library' = lib, UNCHANGED <<now, stored>>,
         dismissed' = [m \in Metas |-> None],
         Notified!Enqueue(Notified!WriteLibrary(lib) \o Notified!WriteItems([m \in Metas |-> None], None))
  PROVE  WrittenInv' /\ jobs' \in Seq(JobType) /\ Len(jobs') <= MaxWrites
<1>1. NotifiedTypes /\ WrittenInv
  BY DEF NotifiedInv
<1> DEFINE none == [m \in Metas |-> None]
           first == Notified!WriteLibrary(lib)
           second == Notified!WriteItems(none, None)
           list == first \o second
           value == [items |-> none, last_updated |-> None]
<1>2. jobs' = jobs \o list /\ Len(jobs') <= MaxWrites
  BY DEF Notified!Enqueue
<1>3. none \in Notified!Notified /\ Unshown(none, none) /\ Out(none, now)
  BY NoneShown
<1>4. first \in Seq(JobType) /\ Carries(first, library, lib) /\ NoneOf(first, OfItems)
  BY LibraryWritten
<1> HIDE DEF none
<1>5. /\ second \in Seq(JobType) /\ Carries(second, lib, lib) /\ value \in NotifiedValue
      /\ LastOf(second, OfItems, value) /\ \A i \in DOMAIN second : second[i].value.items = none
  BY <1>3, ItemsWritten DEF Option
<1>6. value.items = none
  OBVIOUS
<1> HIDE DEF first, second, value
<1>7. list \in Seq(JobType) /\ Carries(list, library, lib)
  BY <1>4, <1>5, CarriesJoined, JoinedIs
<1>8. LastOf(list, OfItems, value)
  BY <1>4, <1>5, LastInJoined
<1>9. ASSUME NEW i \in DOMAIN list, list[i].slot = "items" PROVE Out(list[i].value.items, now)
  <2>1. CASE i \in DOMAIN first
    <3>1. list[i] = first[i] /\ first[i] \in JobType
      BY <1>4, <1>5, <2>1, JoinedIs
    <3> QED
      BY <1>4, <1>9, <2>1, <3>1 DEF NoneOf, OfItems
  <2>2. CASE i \notin DOMAIN first
    <3>1. i - Len(first) \in DOMAIN second /\ list[i] = second[i - Len(first)]
      BY <1>4, <1>5, <1>9, <2>2
    <3> QED
      BY <1>3, <1>5, <3>1
  <2> QED
    BY <2>1, <2>2
<1> HIDE DEF list
<1>10. dismissed' = none
  BY DEF none
<1> QED
  BY <1>1, <1>2, <1>3, <1>5, <1>6, <1>7, <1>8, <1>9, <1>10, NotifiedPushes

LEMMA NotifiedAuth ==
  ASSUME NotifiedInv, NEW lib \in Notified!Library, Notified!CtxAuthResult(lib)
  PROVE  NotifiedInv'
<1>1. NotifiedTypes
  BY DEF NotifiedInv
<1> DEFINE none == [m \in Metas |-> None]
<1>2. /\ library' = lib /\ dismissed' = none /\ UNCHANGED <<now, stored>>
      /\ Notified!Pull(lib, none, None, <<>>)
      /\ Notified!Enqueue(Notified!WriteLibrary(lib) \o Notified!WriteItems(none, None))
  BY DEF Notified!CtxAuthResult
<1>3. WrittenInv' /\ jobs' \in Seq(JobType) /\ Len(jobs') <= MaxWrites
  BY <1>2, ResetWritten
<1>4. /\ none \in Notified!Notified /\ none \in [Metas -> Option(Notified!Times)]
      /\ Out(none, now) /\ Unshown(none, none) /\ Dated(lib, none, now)
  BY NoneShown
<1> HIDE DEF none
<1>5. Assigned(flight, <<>>, <<>>) /\ DOMAIN <<>> = {}
  BY DEF Assigned
<1>6. /\ flight' \in [Slots -> Notified!Request \cup {Free}] /\ AskedInv'
      /\ DOMAIN catalogs' \subseteq Nat /\ \A i \in DOMAIN catalogs' : IsCatalog(catalogs'[i])
      /\ last_updated' \in Option(Notified!Times)
      /\ items' \in Notified!Notified /\ Unshown(items', none) /\ Out(items', now)
  BY <1>1, <1>2, <1>4, <1>5, PullIs DEF Option
<1>7. NotifiedTypes'
  BY <1>1, <1>2, <1>3, <1>4, <1>6, ClockIs, NotifiedTyped DEF NotifiedTypes
<1>8. ShownInv'
  BY <1>2, <1>4, <1>6 DEF ShownInv
<1> QED
  BY <1>3, <1>6, <1>7, <1>8 DEF NotifiedInv

LEMMA NotifiedLogout ==
  ASSUME NotifiedInv, Notified!Logout
  PROVE  NotifiedInv'
<1>1. NotifiedTypes
  BY DEF NotifiedInv
<1> DEFINE none == [m \in Metas |-> None]
           nothing == [m \in Metas |-> Notified!Nothing]
<1>2. /\ library' = nothing /\ items' = none /\ last_updated' = None /\ catalogs' = <<>> /\ dismissed' = none
      /\ Notified!Enqueue(Notified!WriteLibrary(nothing) \o Notified!WriteItems(none, None))
      /\ UNCHANGED <<now, flight, stored>>
  BY DEF Notified!Logout
<1>3. nothing \in Notified!Library
  BY NothingIs
<1>4. WrittenInv' /\ jobs' \in Seq(JobType) /\ Len(jobs') <= MaxWrites
  BY <1>2, <1>3, ResetWritten
<1>5. /\ none \in Notified!Notified /\ none \in [Metas -> Option(Notified!Times)]
      /\ Out(none, now) /\ Unshown(none, none) /\ Dated(nothing, none, now)
  BY NoneShown
<1> HIDE DEF none, nothing
<1>6. AskedInv'
  <2>1. Assigned(flight', catalogs', <<>>)
    BY <1>2 DEF Assigned
  <2> QED
    BY <2>1 DEF AskedInv, Assigned
<1>7. NotifiedTypes'
  BY <1>1, <1>2, <1>3, <1>4, <1>5, ClockIs, NotifiedTyped DEF NotifiedTypes, Option
<1>8. ShownInv'
  BY <1>2, <1>5 DEF ShownInv
<1> QED
  BY <1>4, <1>6, <1>7, <1>8 DEF NotifiedInv

LEMMA WrittenStep ==
  ASSUME NotifiedInv, Notified!Written
  PROVE  NotifiedInv'
<1>1. NotifiedTypes /\ ShownInv /\ WrittenInv /\ AskedInv
  BY DEF NotifiedInv
<1> DEFINE job == Head(jobs)
           rest == Tail(jobs)
           there == [items |-> stored.items, last_updated |-> stored.last_updated]
           good == {value \in NotifiedValue : Unshown(value.items, dismissed)}
<1>2. /\ jobs # <<>> /\ jobs' = rest
      /\ stored' = IF job.slot = "library" THEN [stored EXCEPT !.library = job.value]
                   ELSE [stored EXCEPT !.items = job.value.items, !.last_updated = job.value.last_updated]
      /\ UNCHANGED <<now, library, items, last_updated, catalogs, flight, dismissed>>
  BY DEF Notified!Written
<1>3. jobs \in Seq(JobType) /\ Len(jobs) <= MaxWrites
      /\ stored \in [library : Notified!Library, items : Notified!Notified, last_updated : Option(Notified!Times)]
  BY <1>1 DEF NotifiedTypes, Notified!TypeOK
<1>4. /\ DOMAIN jobs = 1 .. Len(jobs) /\ Len(jobs) \in Nat \ {0} /\ 1 \in DOMAIN jobs
      /\ job = jobs[1] /\ job \in JobType /\ rest \in Seq(JobType) /\ DOMAIN rest = 1 .. Len(jobs) - 1
      /\ \A i \in DOMAIN rest : rest[i] = jobs[i + 1]
  BY <1>2, <1>3, TailIs
<1>5. Len(rest) <= MaxWrites
  BY <1>2, <1>3, NotificationsAssumption DEF Notified!BoundsAssumption
<1>6. \A i \in DOMAIN jobs : jobs[i].slot = "items" => Out(jobs[i].value.items, now)
  BY <1>1 DEF WrittenInv
<1> HIDE DEF job, rest
<1>7. \/ job \in OfLibrary /\ job \notin OfItems /\ job.slot = "library" /\ job.value \in Notified!Library
      \/ job \in OfItems /\ job \notin OfLibrary /\ job.slot = "items" /\ job.value \in NotifiedValue
  BY <1>4 DEF JobType, OfLibrary, OfItems
<1>8. job \in OfItems =>
        /\ job.value.items \in Notified!Notified /\ job.value.last_updated \in Option(Notified!Times)
        /\ job.value = [items |-> job.value.items, last_updated |-> job.value.last_updated]
        /\ Out(job.value.items, now)
  BY <1>4, <1>6, <1>7 DEF NotifiedValue
<1>9. /\ stored' \in [library : Notified!Library, items : Notified!Notified, last_updated : Option(Notified!Times)]
      /\ stored'.library = IF job \in OfLibrary THEN job.value ELSE stored.library
      /\ [items |-> stored'.items, last_updated |-> stored'.last_updated]
           = IF job \in OfItems THEN job.value ELSE there
      /\ stored'.items = IF job \in OfItems THEN job.value.items ELSE stored.items
  BY <1>2, <1>3, <1>7, <1>8
<1>10. ASSUME NEW P, NEW value, LastOf(jobs, P, value)
       PROVE  LastOf(rest, P, value) \/ (NoneOf(rest, P) /\ job \in P /\ job.value = value)
  BY <1>2, <1>3, <1>10, LastInTail DEF job, rest
<1>11. ASSUME NEW P, NoneOf(jobs, P) PROVE NoneOf(rest, P) /\ job \notin P
  BY <1>2, <1>3, <1>11, LastInTail DEF job, rest
<1>12. Leaves(rest, OfLibrary, stored'.library, {library})
  <2>1. Leaves(jobs, OfLibrary, stored.library, {library})
    BY <1>1 DEF WrittenInv
  <2> QED
    BY <1>9, <1>10, <1>11, <2>1 DEF Leaves
<1>13. Leaves(rest, OfItems, [items |-> stored'.items, last_updated |-> stored'.last_updated], good)
  <2>1. Leaves(jobs, OfItems, there, good)
    BY <1>1 DEF WrittenInv
  <2> HIDE DEF there, good
  <2> QED
    BY <1>9, <1>10, <1>11, <2>1 DEF Leaves
<1>14. Out(stored'.items, now)
  BY <1>1, <1>8, <1>9 DEF WrittenInv
<1>15. \A i \in DOMAIN rest : rest[i].slot = "items" => Out(rest[i].value.items, now)
  <2>1. ASSUME NEW i \in DOMAIN rest PROVE i + 1 \in DOMAIN jobs
    BY <1>4
  <2> QED
    BY <1>4, <1>6, <2>1
<1>16. WrittenInv'
  BY <1>2, <1>12, <1>13, <1>14, <1>15 DEF WrittenInv
<1>17. NotifiedTypes'
  BY <1>1, <1>2, <1>4, <1>5, <1>9, ClockIs, NotifiedTyped DEF NotifiedTypes
<1>18. ShownInv'
  BY <1>1, <1>2 DEF ShownInv
<1>19. AskedInv'
  BY <1>1, <1>2, AskedWaits
<1> QED
  BY <1>16, <1>17, <1>18, <1>19 DEF NotifiedInv

LEMMA RestartStep ==
  ASSUME NotifiedInv, Notified!Restart
  PROVE  NotifiedInv'
<1>1. NotifiedTypes /\ ShownInv /\ WrittenInv
  BY DEF NotifiedInv
<1> DEFINE none == [m \in Metas |-> None]
<1>2. /\ library' = stored.library /\ items' = stored.items /\ last_updated' = stored.last_updated
      /\ catalogs' = <<>> /\ flight' = [s \in Slots |-> Free] /\ jobs' = <<>>
      /\ dismissed' = IF jobs = <<>> THEN dismissed ELSE none
      /\ UNCHANGED <<now, stored>>
  BY DEF Notified!Restart, Notified!NoFlight
<1>3. /\ none \in [Metas -> Option(Notified!Times)]
      /\ \A its : Unshown(its, none)
      /\ \A lib, time : Dated(lib, none, time)
  BY NoneShown
<1> HIDE DEF none
<1>4. /\ stored \in [library : Notified!Library, items : Notified!Notified, last_updated : Option(Notified!Times)]
      /\ MaxWrites \in Nat
  BY <1>1, NotificationsAssumption DEF NotifiedTypes, Notified!BoundsAssumption
<1> DEFINE there == [items |-> stored.items, last_updated |-> stored.last_updated]
           good == {value \in NotifiedValue : Unshown(value.items, dismissed)}
<1>5. jobs = <<>> => stored.library = library /\ Unshown(stored.items, dismissed)
  <2>1. SUFFICES ASSUME jobs = <<>> PROVE stored.library = library /\ Unshown(stored.items, dismissed)
    OBVIOUS
  <2>2. Leaves(jobs, OfLibrary, stored.library, {library}) /\ Leaves(jobs, OfItems, there, good)
    BY <1>1 DEF WrittenInv
  <2>3. \A P, value : ~LastOf(jobs, P, value)
    BY <2>1 DEF LastOf
  <2>4. stored.library \in {library} /\ there \in good
    BY <2>2, <2>3 DEF Leaves
  <2> QED
    BY <2>4
<1>6. Unshown(stored.items, dismissed') /\ Out(stored.items, now)
  BY <1>1, <1>2, <1>3, <1>5 DEF WrittenInv
<1>7. Dated(library', dismissed', now)
  BY <1>1, <1>2, <1>3, <1>5 DEF ShownInv
<1>8. dismissed' \in [Metas -> Option(Notified!Times)]
  BY <1>1, <1>2, <1>3, ClockIs
<1>9. NotifiedTypes'
  BY <1>1, <1>2, <1>4, <1>8, ClockIs, NotifiedTyped DEF NotifiedTypes
<1>10. ShownInv'
  BY <1>2, <1>6, <1>7 DEF ShownInv
<1>11. WrittenInv'
  <2>1. \A P : NoneOf(jobs', P)
    BY <1>2 DEF NoneOf
  <2>2. there \in NotifiedValue
    BY <1>4 DEF NotifiedValue
  <2>3. there.items = stored.items /\ there' = there
    BY <1>2
  <2>4. Leaves(jobs', OfItems, there', {value \in NotifiedValue : Unshown(value.items, dismissed')})
    BY <1>6, <2>1, <2>2, <2>3 DEF Leaves
  <2>5. Leaves(jobs', OfLibrary, stored'.library, {library'})
    BY <1>2, <2>1 DEF Leaves
  <2> QED
    BY <1>2, <1>6, <2>4, <2>5 DEF WrittenInv
<1>12. AskedInv'
  <2>1. Assigned(flight', catalogs', <<>>)
    BY <1>2 DEF Assigned
  <2> QED
    BY <2>1 DEF AskedInv, Assigned
<1> QED
  BY <1>9, <1>10, <1>11, <1>12 DEF NotifiedInv

LEMMA TickStep ==
  ASSUME NotifiedInv, Notified!Tick
  PROVE  NotifiedInv'
<1>1. NotifiedTypes /\ ShownInv /\ WrittenInv /\ AskedInv
  BY DEF NotifiedInv
<1>2. /\ now < MaxTime /\ now' = now + 1
      /\ UNCHANGED <<library, items, last_updated, catalogs, flight, stored, jobs, dismissed>>
  BY DEF Notified!Tick
<1>3. now \in Nat /\ MaxTime \in Nat /\ Released \in [Videos -> Nat]
  BY <1>1, ClockIs, NotificationsAssumption DEF Notified!ReleasedAssumption, Notified!BoundsAssumption
<1>4. now' \in Notified!Times /\ now' \in Nat /\ now <= now'
  BY <1>2, <1>3 DEF Notified!Times
<1>5. ASSUME NEW its \in Notified!Notified, Out(its, now) PROVE Out(its, now')
  <2>1. ASSUME NEW m \in Metas, its[m] # None, NEW v \in its[m] PROVE Released[v] <= now'
    <3>1. its[m] \in Option(SUBSET Videos)
      BY DEF Notified!Notified, Notified!Option, Option
    <3>2. v \in Videos
      BY <2>1, <3>1 DEF Option
    <3>3. Released[v] \in Nat /\ Released[v] <= now
      BY <1>3, <1>5, <2>1, <3>2 DEF Out
    <3> QED
      BY <1>3, <1>4, <3>3
  <2> QED
    BY <2>1 DEF Out
<1>6. Dated(library, dismissed, now')
  <2>1. ASSUME NEW m \in Metas, dismissed[m] # None PROVE dismissed[m] <= now'
    <3>1. dismissed[m] \in Nat
      BY <1>1, <2>1, ClockIs DEF Option
    <3>2. dismissed[m] <= now
      BY <1>1, <2>1 DEF ShownInv, Dated
    <3> QED
      BY <1>3, <1>4, <3>1, <3>2
  <2> QED
    BY <1>1, <2>1 DEF ShownInv, Dated
<1>7. ShownInv'
  BY <1>1, <1>2, <1>5, <1>6, ClockIs DEF ShownInv
<1>8. \A i \in DOMAIN jobs : jobs[i].slot = "items" => jobs[i].value.items \in Notified!Notified
  <2>1. \A i \in DOMAIN jobs : jobs[i] \in JobType
    BY <1>1 DEF NotifiedTypes
  <2> QED
    BY <2>1 DEF JobType, NotifiedValue
<1>9. stored.items \in Notified!Notified
  BY <1>1 DEF NotifiedTypes
<1>10. WrittenInv'
  BY <1>1, <1>2, <1>5, <1>8, <1>9 DEF WrittenInv
<1>11. Len(jobs) <= MaxWrites
  BY <1>1 DEF NotifiedTypes, Notified!TypeOK
<1>12. NotifiedTypes'
  BY <1>1, <1>2, <1>4, <1>11, ClockIs, NotifiedTyped DEF NotifiedTypes
<1>13. AskedInv'
  BY <1>1, <1>2, AskedWaits
<1> QED
  BY <1>7, <1>10, <1>12, <1>13 DEF NotifiedInv

LEMMA MetaSteps ==
  ASSUME NotifiedInv, NEW m \in Metas,
         \/ Notified!DismissNotificationItem(m) \/ Notified!RemoveFromLibrary(m)
         \/ Notified!ToggleLibraryItemNotifications(m)
         \/ Notified!AddToLibrary(m) \/ Notified!MarkAsWatched(m)
  PROVE  NotifiedInv'
<1>1. library[m] \in Notified!Item
  BY ClockIs DEF NotifiedInv, Notified!Library
<1> DEFINE gone == [library[m] EXCEPT !.removed = TRUE]
           quiet == [library[m] EXCEPT !.no_notif = TRUE]
<1>2. gone \in Notified!Item /\ gone.last_watched = library[m].last_watched
  BY <1>1 DEF Notified!Item
<1>3. quiet \in Notified!Item /\ quiet.last_watched = library[m].last_watched
  BY <1>1 DEF Notified!Item
<1>4. CASE Notified!DismissNotificationItem(m)
  BY <1>1, <1>4, DismissingStep DEF Notified!DismissNotificationItem
<1>5. CASE Notified!RemoveFromLibrary(m)
  <2>1. Notified!Dismissing(m, gone)
    BY <1>5 DEF Notified!RemoveFromLibrary
  <2> HIDE DEF gone
  <2> QED
    BY <1>2, <2>1, DismissingStep
<1>6. CASE Notified!ToggleLibraryItemNotifications(m) /\ ~library[m].no_notif
  <2>1. Notified!Dismissing(m, quiet)
    BY <1>6 DEF Notified!ToggleLibraryItemNotifications
  <2> HIDE DEF quiet
  <2> QED
    BY <1>3, <2>1, DismissingStep
<1> QED
  BY <1>4, <1>5, <1>6, EditSteps

LEMMA NotifiedNext ==
  ASSUME NotifiedInv, Notified!Next
  PROVE  NotifiedInv'
<1>1. CASE \E s \in Slots : Notified!Answer(s)
  BY <1>1, AnswerStep
<1>2. CASE \E m \in Metas :
             \/ Notified!DismissNotificationItem(m) \/ Notified!RemoveFromLibrary(m)
             \/ Notified!ToggleLibraryItemNotifications(m)
             \/ Notified!AddToLibrary(m) \/ Notified!MarkAsWatched(m)
  BY <1>2, MetaSteps
<1>3. CASE \E lib \in Notified!Library : Notified!CtxAuthResult(lib)
  BY <1>3, NotifiedAuth
<1> QED
  BY <1>1, <1>2, <1>3, PullStep, NotifiedLogout, WrittenStep, RestartStep, TickStep DEF Notified!Next

LEMMA NotifiedRests ==
  ASSUME NotifiedInv, UNCHANGED notificationVars
  PROVE  NotifiedInv'
<1>1. UNCHANGED <<now, library, items, last_updated, catalogs, flight, stored, jobs, dismissed>>
  BY DEF notificationVars
<1>2. NotifiedTypes /\ ShownInv /\ WrittenInv /\ AskedInv
  BY DEF NotifiedInv
<1>3. Len(jobs) <= MaxWrites
  BY <1>2 DEF NotifiedTypes, Notified!TypeOK
<1>4. NotifiedTypes'
  BY <1>1, <1>2, <1>3, ClockIs, NotifiedTyped DEF NotifiedTypes
<1>5. WrittenInv' /\ AskedInv'
  BY <1>1, <1>2, NotifiedWaits, AskedWaits
<1>6. ShownInv'
  BY <1>1, <1>2 DEF ShownInv
<1> QED
  BY <1>4, <1>5, <1>6 DEF NotifiedInv

LEMMA NotifiedHolds ==
  ASSUME NotifiedInv
  PROVE  /\ Notified!TypeOK /\ Notified!CatalogsAreAnswered
         /\ Notified!DismissedStaysDismissed /\ Notified!NotifiedIsReleased
<1>1. Notified!TypeOK
  BY DEF NotifiedInv, NotifiedTypes
<1>2. Notified!CatalogsAreAnswered
  BY DEF NotifiedInv, AskedInv, Assigned, Notified!CatalogsAreAnswered, Notified!UnderWay
<1>3. Notified!DismissedStaysDismissed
  BY DEF NotifiedInv, ShownInv, Unshown, Notified!DismissedStaysDismissed
<1>4. Notified!NotifiedIsReleased
  BY DEF NotifiedInv, ShownInv, Out, Notified!NotifiedIsReleased
<1> QED
  BY <1>1, <1>2, <1>3, <1>4
-----------------------------------------------------------------------------
(* The watched bit field *)

Cut(a, b) == SubSeq(Listed, a, b)

\* The videos from the a-th to the b-th are listed, and the bits say which of them
\* are marked; those beyond say nothing.
ListedFrom(ids, bits, marks, a, b) ==
  /\ ids = Cut(a, b)
  /\ bits = [length |-> bits.length, values |-> bits.values]
  /\ bits.length \in Nat /\ bits.values \in [DOMAIN bits.values -> BOOLEAN]
  /\ 0 .. b - a \subseteq DOMAIN bits.values /\ DOMAIN bits.values \subseteq Nat
  /\ \A i \in DOMAIN bits.values : bits.values[i] <=> i <= b - a /\ Listed[a + i] \in marks

\* The field was written for the videos from the p-th to the q-th, of which all are that
\* were marked, and the anchor.
WrittenFor(f, marks, p, q) ==
  /\ f.anchor_length \in 1 .. q - p + 1 /\ f.anchor_video = Listed[p + f.anchor_length - 1]
  /\ f.values \in [DOMAIN f.values -> BOOLEAN]
  /\ 0 .. q - p \subseteq DOMAIN f.values /\ DOMAIN f.values \subseteq Nat
  /\ \A i \in DOMAIN f.values : f.values[i] <=> i <= q - p /\ Listed[p + i] \in marks
  /\ marks \subseteq {Listed[i] : i \in p .. q}

Within(a, b) == a \in 1 .. Len(Listed) /\ b \in a .. Len(Listed)

\* The list is one that the field was written for, or it has grown since.
WatchedInv ==
  \E a, b, p, q \in Nat :
    /\ Within(a, b) /\ a <= p /\ p <= q /\ q <= b
    /\ ListedFrom(video_ids, bitfield, seen, a, b) /\ WrittenFor(field, seen, p, q)

LEMMA BytesHold ==
  ASSUME NEW n \in Nat
  PROVE  /\ Watched!Bytes(n) \in Nat /\ n <= Watched!Bytes(n) * Byte /\ Watched!Bytes(n) * Byte \in Nat
<1> DEFINE bytes == (n + Byte - 1) \div Byte
<1>1. Byte \in Nat /\ Byte > 0
  BY WatchedAssumption DEF Watched!ByteAssumption
<1>2. n + Byte - 1 = Byte * bytes + ((n + Byte - 1) % Byte) /\ (n + Byte - 1) % Byte \in 0 .. Byte - 1 /\ bytes \in Int
  BY <1>1
<1>3. bytes \in Nat
  BY <1>1
<1> QED
  BY <1>1, <1>2, <1>3 DEF Watched!Bytes

\* The videos listed, each at its place only.
AreListed(ids, a, b) ==
  /\ a \in Nat /\ b \in Nat /\ 1 <= a /\ a <= b /\ b <= Len(Listed)
  /\ Len(ids) = b - a + 1 /\ DOMAIN ids = 1 .. b - a + 1 /\ ids # <<>>
  /\ \A i \in 0 .. b - a : ids[i + 1] = Listed[a + i]
  /\ \A i \in 0 .. b - a : Watched!Positions(ids, Listed[a + i]) = {i + 1}
  /\ \A i, j \in 1 .. Len(Listed) : Listed[i] = Listed[j] => i = j

LEMMA ListIs ==
  ASSUME NEW a, NEW b, Within(a, b), NEW ids, ids = Cut(a, b)
  PROVE  AreListed(ids, a, b)
<1> DEFINE S == {Listed[i] : i \in DOMAIN Listed}
<1>1. Listed \in Seq(S) /\ \A i, j \in DOMAIN Listed : Listed[i] = Listed[j] => i = j
  BY WatchedAssumption DEF Watched!VideosAssumption
<1> HIDE DEF S
<1>2. Len(Listed) \in Nat /\ DOMAIN Listed = 1 .. Len(Listed)
  BY <1>1
<1>3. a \in Nat /\ b \in Nat /\ 1 <= a /\ a <= b /\ b <= Len(Listed)
  BY <1>2 DEF Within
<1>4. /\ Len(ids) = b - a + 1 /\ DOMAIN ids = 1 .. b - a + 1
      /\ \A i \in 1 .. b - a + 1 : ids[i] = Listed[a + i - 1]
  BY <1>1, <1>2, <1>3 DEF Cut
<1>5. ids # <<>>
  BY <1>3, <1>4
<1>6. \A i \in 0 .. b - a : ids[i + 1] = Listed[a + i]
  BY <1>3, <1>4
<1>7. ASSUME NEW i \in 0 .. b - a PROVE Watched!Positions(ids, Listed[a + i]) = {i + 1}
  <2>1. ASSUME NEW j \in 1 .. b - a + 1, ids[j] = Listed[a + i] PROVE j = i + 1
    <3>1. a + j - 1 \in DOMAIN Listed /\ a + i \in DOMAIN Listed /\ ids[j] = Listed[a + j - 1]
      BY <1>2, <1>3, <1>4
    <3>2. a + j - 1 = a + i
      BY <1>1, <2>1, <3>1
    <3> QED
      BY <1>3, <3>2
  <2>2. i + 1 \in 1 .. b - a + 1 /\ ids[i + 1] = Listed[a + i]
    BY <1>3, <1>6
  <2> QED
    BY <1>4, <2>1, <2>2 DEF Watched!Positions
<1> QED
  BY <1>1, <1>2, <1>3, <1>4, <1>5, <1>6, <1>7 DEF AreListed

LEMMA ListedLength == Len(Listed) \in Nat /\ DOMAIN Listed = 1 .. Len(Listed)
<1> DEFINE S == {Listed[i] : i \in DOMAIN Listed}
<1>1. Listed \in Seq(S)
  BY WatchedAssumption DEF Watched!VideosAssumption
<1> HIDE DEF S
<1> QED
  BY <1>1

\* What is written of bits that are right is right.
LEMMA FieldIs ==
  ASSUME NEW a, NEW b, Within(a, b), NEW ids, NEW bits, NEW marks, NEW f,
         ListedFrom(ids, bits, marks, a, b), f = Watched!FieldOf(bits, ids),
         marks \subseteq {Listed[i] : i \in a .. b}
  PROVE  WrittenFor(f, marks, a, b)
<1> DEFINE last == Watched!LastIndex(bits)
           set == {i \in 0 .. bits.length - 1 : Watched!Get(bits, i)}
<1>0. ids = Cut(a, b)
  BY DEF ListedFrom
<1>1. /\ a \in Nat /\ b \in Nat /\ 1 <= a /\ a <= b /\ b <= Len(Listed) /\ ids # <<>>
      /\ \A i \in 0 .. b - a : ids[i + 1] = Listed[a + i]
  BY <1>0, ListIs DEF AreListed
<1>2. \A i \in set : i \in 0 .. b - a
  BY <1>1 DEF ListedFrom, Watched!Get
<1>3. last \in 0 .. b - a
  <2>1. CASE set = {}
    BY <1>1, <2>1 DEF Watched!LastIndex
  <2>2. CASE set # {}
    <3>1. last = CHOOSE i \in set : \A j \in set : j <= i
      BY <2>2 DEF Watched!LastIndex
    <3>2. \E i \in set : \A j \in set : j <= i
      <4> DEFINE back == {b - i : i \in set}
      <4>1. back \subseteq Nat /\ back # {}
        BY <1>1, <1>2, <2>2
      <4>2. PICK n \in back : \A m \in back : n <= m
        BY <4>1, LeastOf
      <4>3. PICK i \in set : n = b - i
        BY <4>2
      <4>4. ASSUME NEW j \in set PROVE j <= i
        <5>1. b - i <= b - j
          BY <4>2, <4>3, <4>4
        <5> QED
          BY <1>1, <1>2, <4>3, <4>4, <5>1
      <4> QED
        BY <4>3, <4>4
    <3>3. last \in set
      BY <3>1, <3>2
    <3> QED
      BY <1>2, <3>3
  <2> QED
    BY <2>1, <2>2
<1> HIDE DEF set, last
<1>4. /\ f.anchor_video = ids[last + 1] /\ f.anchor_length = last + 1
      /\ f.values = bits.values
  BY <1>1 DEF Watched!FieldOf, last
<1>5. f.anchor_length \in 1 .. b - a + 1 /\ f.anchor_video = Listed[a + f.anchor_length - 1]
  BY <1>1, <1>3, <1>4
<1> QED
  BY <1>4, <1>5 DEF WrittenFor, ListedFrom

\* The bits that nothing was written of.
LEMMA NewIs ==
  ASSUME NEW n \in Nat, NEW new, new = Watched!New(n)
  PROVE  /\ new = [length |-> new.length, values |-> new.values] /\ new.length \in Nat
         /\ new.values \in [DOMAIN new.values -> BOOLEAN] /\ DOMAIN new.values \subseteq Nat
         /\ 0 .. n - 1 \subseteq DOMAIN new.values /\ \A i \in DOMAIN new.values : ~new.values[i]
<1> DEFINE bytes == Watched!Bytes(n)
           size == bytes * Byte
<1>1. bytes \in Nat /\ n <= size /\ size \in Nat
  BY BytesHold
<1>2. new = [length |-> bytes, values |-> [i \in 0 .. size - 1 |-> FALSE]]
  BY DEF Watched!New, Watched!Values
<1> HIDE DEF size, bytes
<1> QED
  BY <1>1, <1>2

LEMMA SetIs ==
  ASSUME NEW bits, bits = [length |-> bits.length, values |-> bits.values], NEW i, NEW v
  PROVE  Watched!Set(bits, i, v) = [length |-> bits.length, values |-> [bits.values EXCEPT ![i] = v]]
BY DEF Watched!Set

LEMMA WatchedStart == Watched!Init => WatchedInv
<1> SUFFICES ASSUME Watched!Init PROVE WatchedInv
  OBVIOUS
<1>1. PICK r \in Watched!Ranges : video_ids = Cut(r[1], r[2])
  BY DEF Watched!Init, Watched!List, Cut
<1> DEFINE a == r[1]
           b == r[2]
<1>2. Within(a, b)
  BY <1>1, ListedLength DEF Within, Watched!Ranges
<1>3. /\ a \in Nat /\ b \in Nat /\ 1 <= a /\ a <= b /\ Len(video_ids) = b - a + 1
  BY <1>1, <1>2, ListIs DEF AreListed
<1> HIDE DEF a, b
<1> DEFINE n == b - a + 1
           new == Watched!New(n)
<1>4. bitfield = new /\ field = Watched!FieldOf(bitfield, video_ids) /\ seen = {}
  BY <1>3 DEF Watched!Init
<1>5. n \in Nat
  BY <1>3
<1>6. ListedFrom(video_ids, bitfield, seen, a, b)
  <2>1. video_ids = Cut(a, b)
    BY <1>1 DEF a, b
  <2> QED
    BY <1>3, <1>4, <1>5, <2>1, NewIs DEF ListedFrom
<1>7. WrittenFor(field, seen, a, b)
  BY <1>2, <1>4, <1>6, FieldIs
<1> QED
  BY <1>2, <1>3, <1>6, <1>7 DEF WatchedInv

LEMMA MarkStep ==
  ASSUME WatchedInv, Watched!Mark
  PROVE  WatchedInv'
<1>1. PICK a, b \in Nat : Within(a, b) /\ ListedFrom(video_ids, bitfield, seen, a, b) /\ seen \subseteq {Listed[i] : i \in a .. b}
  <2>1. PICK a, b, p, q \in Nat :
          Within(a, b) /\ a <= p /\ p <= q /\ q <= b /\ ListedFrom(video_ids, bitfield, seen, a, b) /\ WrittenFor(field, seen, p, q)
    BY DEF WatchedInv
  <2>2. seen \subseteq {Listed[i] : i \in a .. b}
    BY <2>1 DEF WrittenFor
  <2> QED
    BY <2>1, <2>2
<1>2. /\ video_ids = Cut(a, b)
      /\ bitfield = [length |-> bitfield.length, values |-> bitfield.values]
      /\ bitfield.length \in Nat /\ bitfield.values \in [DOMAIN bitfield.values -> BOOLEAN]
      /\ 0 .. b - a \subseteq DOMAIN bitfield.values /\ DOMAIN bitfield.values \subseteq Nat
      /\ \A i \in DOMAIN bitfield.values : bitfield.values[i] <=> i <= b - a /\ Listed[a + i] \in seen
  BY <1>1 DEF ListedFrom
<1>3. /\ 1 <= a /\ a <= b /\ b <= Len(Listed) /\ DOMAIN video_ids = 1 .. b - a + 1
      /\ \A i \in 0 .. b - a : video_ids[i + 1] = Listed[a + i]
      /\ \A i \in 0 .. b - a : Watched!Positions(video_ids, Listed[a + i]) = {i + 1}
      /\ \A i, j \in 1 .. Len(Listed) : Listed[i] = Listed[j] => i = j
  <2>1. video_ids = Cut(a, b)
    BY <1>1 DEF ListedFrom
  <2>2. AreListed(video_ids, a, b)
    BY <1>1, <2>1, ListIs
  <2> QED
    BY <2>2 DEF AreListed
<1>4. PICK i \in DOMAIN video_ids, watched \in BOOLEAN : Watched!MarkVideoAsWatched(video_ids[i], watched)
  BY DEF Watched!Mark
<1> DEFINE place == i - 1
           id == video_ids[i]
           marked == Watched!Set(bitfield, place, watched)
<1>5. i \in Nat /\ place \in 0 .. b - a /\ id = Listed[a + place] /\ a + place \in 1 .. Len(Listed)
  <2>1. i \in 1 .. b - a + 1 /\ 1 <= a /\ a <= b /\ b <= Len(Listed)
    BY <1>3, <1>4
  <2>2. i \in Nat /\ i - 1 \in 0 .. b - a /\ (i - 1) + 1 = i /\ a + (i - 1) \in 1 .. Len(Listed)
    BY <1>1, <2>1, ListedLength
  <2>3. video_ids[(i - 1) + 1] = Listed[a + (i - 1)]
    BY <1>3, <2>2
  <2> QED
    BY <2>2, <2>3
<1>6. (CHOOSE j \in Watched!Positions(video_ids, id) : TRUE) - 1 = place
  <2>1. Watched!Positions(video_ids, Listed[a + place]) = {place + 1}
    BY <1>3, <1>5
  <2>2. Watched!Positions(video_ids, id) = {i}
    BY <1>5, <2>1
  <2> QED
    BY <1>5, <2>2
<1>7. /\ bitfield' = marked /\ field' = Watched!FieldOf(marked, video_ids) /\ video_ids' = video_ids
      /\ seen' = IF watched THEN seen \cup {id} ELSE seen \ {id}
  BY <1>4, <1>6 DEF Watched!MarkVideoAsWatched
<1>8. marked = [length |-> bitfield.length, values |-> [bitfield.values EXCEPT ![place] = watched]]
  BY <1>2, SetIs
<1> HIDE DEF marked, place, id
<1>9. /\ bitfield' = [length |-> bitfield'.length, values |-> bitfield'.values] /\ bitfield'.length = bitfield.length
      /\ bitfield'.values = [bitfield.values EXCEPT ![place] = watched]
  BY <1>7, <1>8
<1>10. DOMAIN bitfield'.values = DOMAIN bitfield.values /\ place \in DOMAIN bitfield.values
  BY <1>2, <1>5, <1>9
<1>11. bitfield'.values \in [DOMAIN bitfield'.values -> BOOLEAN]
  BY <1>2, <1>4, <1>9, <1>10
<1>12. ASSUME NEW j \in DOMAIN bitfield'.values
       PROVE  bitfield'.values[j] <=> j <= b - a /\ Listed[a + j] \in seen'
  <2>1. CASE j = place
    <3>1. bitfield'.values[j] = watched
      BY <1>9, <1>10, <2>1
    <3>2. Listed[a + j] \in seen' <=> watched
      BY <1>4, <1>5, <1>7, <2>1
    <3> QED
      BY <1>1, <1>5, <2>1, <3>1, <3>2
  <2>2. CASE j # place
    <3>1. bitfield'.values[j] = bitfield.values[j] /\ j \in Nat
      BY <1>2, <1>9, <1>10, <2>2
    <3>2. j <= b - a => a + j \in 1 .. Len(Listed) /\ a + j # a + place
      BY <1>1, <1>3, <1>5, <2>2, <3>1, ListedLength
    <3>3. j <= b - a => Listed[a + j] # id
      BY <1>3, <1>5, <3>2
    <3>4. j <= b - a => (Listed[a + j] \in seen' <=> Listed[a + j] \in seen)
      BY <1>7, <3>3
    <3> QED
      BY <1>2, <1>10, <1>12, <3>1, <3>4
  <2> QED
    BY <2>1, <2>2
<1>13. ListedFrom(video_ids', bitfield', seen', a, b)
  BY <1>2, <1>7, <1>9, <1>10, <1>11, <1>12 DEF ListedFrom
<1>14. seen' \subseteq {Listed[j] : j \in a .. b}
  <2>1. a + place \in a .. b
    BY <1>1, <1>5
  <2> QED
    BY <1>1, <1>5, <1>7, <2>1
<1>15. WrittenFor(field', seen', a, b)
  <2>1. field' = Watched!FieldOf(bitfield', video_ids')
    BY <1>7
  <2> QED
    BY <1>1, <1>13, <1>14, <2>1, FieldIs
<1>16. Within(a, b) /\ a <= a /\ a <= b /\ b <= b
  BY <1>1, <1>3
<1> QED
  BY <1>13, <1>15, <1>16 DEF WatchedInv

\* What is read of a field, for a list of which the one it was written for is a part,
\* says of each video what was marked: the anchor tells by how much the bits move.
LEMMA ConstructIs ==
  ASSUME NEW a, NEW b, Within(a, b), NEW p, NEW q, p \in a .. b, q \in p .. b,
         NEW f, NEW marks, WrittenFor(f, marks, p, q),
         NEW ids, ids = Cut(a, b), NEW bits, bits = Watched!Construct(f, ids)
  PROVE  ListedFrom(ids, bits, marks, a, b)
<1>1. /\ a \in Nat /\ b \in Nat /\ 1 <= a /\ a <= b /\ b <= Len(Listed) /\ Len(ids) = b - a + 1
      /\ \A i \in 0 .. b - a : Watched!Positions(ids, Listed[a + i]) = {i + 1}
      /\ \A i, j \in 1 .. Len(Listed) : Listed[i] = Listed[j] => i = j
  <2>1. AreListed(ids, a, b)
    BY ListIs
  <2> QED
    BY <2>1 DEF AreListed
<1> DEFINE n == b - a + 1
           place == p - a + f.anchor_length - 1
<1>2. p \in Nat /\ q \in Nat /\ p <= q /\ n \in Nat /\ f.anchor_length \in Nat
  BY <1>1 DEF WrittenFor
<1>3. place \in 0 .. b - a /\ f.anchor_video = Listed[a + place]
  <2>1. f.anchor_length \in 1 .. q - p + 1 /\ f.anchor_video = Listed[p + f.anchor_length - 1]
    BY DEF WrittenFor
  <2>2. place \in 0 .. b - a /\ a + place = p + f.anchor_length - 1
    BY <1>1, <1>2, <2>1
  <2> QED
    BY <2>1, <2>2
<1>4. Watched!Positions(ids, f.anchor_video) = {place + 1}
  BY <1>1, <1>3
<1> DEFINE anchor == (CHOOSE i \in Watched!Positions(ids, f.anchor_video) : TRUE) - 1
           offset == f.anchor_length - anchor - 1
           old == Watched!WithValues(f.values, n)
           new == Watched!New(n)
<1>5. anchor = place
  BY <1>3, <1>4
<1>6. offset = a - p /\ offset \in Int
  BY <1>1, <1>2, <1>5
<1>7. bits = IF offset = 0 THEN old
             ELSE [new EXCEPT !.values = [i \in DOMAIN new.values |->
                    /\ i < n /\ i + offset >= 0 /\ i + offset < old.length /\ Watched!Get(old, i + offset)]]
  <2>1. Watched!Positions(ids, f.anchor_video) # {}
    BY <1>4
  <2> QED
    BY <1>1, <2>1 DEF Watched!Construct
<1> HIDE DEF place, anchor, offset
<1>8. /\ old = [length |-> n, values |-> old.values] /\ old.length = n
      /\ DOMAIN old.values = DOMAIN f.values \cup DOMAIN Watched!Values(n)
      /\ old.values \in [DOMAIN old.values -> BOOLEAN]
      /\ \A i \in DOMAIN old.values : old.values[i] <=> i \in DOMAIN f.values /\ f.values[i]
  <2> DEFINE values == [i \in DOMAIN f.values \cup DOMAIN Watched!Values(n) |-> i \in DOMAIN f.values /\ f.values[i]]
  <2>1. old = [length |-> n, values |-> values]
    BY DEF Watched!WithValues
  <2>2. /\ DOMAIN values = DOMAIN f.values \cup DOMAIN Watched!Values(n)
        /\ values \in [DOMAIN values -> BOOLEAN]
        /\ \A i \in DOMAIN values : values[i] <=> i \in DOMAIN f.values /\ f.values[i]
    BY DEF WrittenFor
  <2> HIDE DEF values
  <2> QED
    BY <2>1, <2>2
<1>9. /\ new = [length |-> new.length, values |-> new.values] /\ new.length \in Nat
      /\ DOMAIN new.values \subseteq Nat /\ 0 .. n - 1 \subseteq DOMAIN new.values
  BY <1>2, NewIs
<1>10. DOMAIN Watched!Values(n) \subseteq Nat /\ 0 .. n - 1 \subseteq DOMAIN Watched!Values(n)
  <2>1. new.values = Watched!Values(n)
    BY DEF Watched!New
  <2> QED
    BY <1>9, <2>1
<1>11. /\ 0 .. q - p \subseteq DOMAIN f.values /\ DOMAIN f.values \subseteq Nat
       /\ \A i \in DOMAIN f.values : f.values[i] <=> i <= q - p /\ Listed[p + i] \in marks
       /\ marks \subseteq {Listed[i] : i \in p .. q}
  BY DEF WrittenFor
<1> HIDE DEF old, new
\* A video that is marked is one of those that the field was written for.
<1>12. ASSUME NEW i \in Nat, i <= b - a
       PROVE  Listed[a + i] \in marks <=>
                i + (a - p) \in DOMAIN f.values /\ f.values[i + (a - p)]
  <2>1. CASE Listed[a + i] \in marks
    <3>1. PICK j \in p .. q : Listed[a + i] = Listed[j]
      BY <1>11, <2>1
    <3>2. a + i \in 1 .. Len(Listed) /\ j \in 1 .. Len(Listed)
      BY <1>1, <1>2, <1>12, <3>1
    <3>3. j = a + i
      BY <1>1, <3>1, <3>2
    <3>4. i + (a - p) \in 0 .. q - p /\ p + (i + (a - p)) = a + i
      BY <1>1, <1>2, <1>12, <3>1, <3>3
    <3> QED
      BY <1>11, <2>1, <3>4
  <2>2. CASE i + (a - p) \in DOMAIN f.values /\ f.values[i + (a - p)]
    <3>1. p + (i + (a - p)) = a + i
      BY <1>1, <1>2, <1>12
    <3> QED
      BY <1>11, <2>2, <3>1
  <2> QED
    BY <2>1, <2>2
<1>13. CASE offset = 0
  <2>1. bits = old /\ p = a
    BY <1>1, <1>2, <1>6, <1>7, <1>13
  <2>2. ASSUME NEW i \in DOMAIN old.values PROVE old.values[i] <=> i <= b - a /\ Listed[a + i] \in marks
    <3>1. i \in Nat
      BY <1>8, <1>10, <1>11
    <3>2. CASE i <= b - a
      <4>1. i + (a - p) = i
        BY <1>1, <2>1, <3>1
      <4> QED
        BY <1>8, <1>12, <3>1, <3>2, <4>1
    <3>3. CASE ~(i <= b - a)
      <4>1. ~(i <= q - p)
        BY <1>1, <1>2, <2>1, <3>1, <3>3
      <4> QED
        BY <1>8, <1>11, <3>3, <4>1
    <3> QED
      BY <3>2, <3>3
  <2>3. 0 .. b - a \subseteq DOMAIN old.values /\ DOMAIN old.values \subseteq Nat
    BY <1>1, <1>8, <1>10, <1>11
  <2> QED
    BY <1>1, <1>2, <1>8, <2>1, <2>2, <2>3 DEF ListedFrom
<1>14. CASE offset # 0
  <2> DEFINE values == [i \in DOMAIN new.values |->
               /\ i < n /\ i + offset >= 0 /\ i + offset < old.length /\ Watched!Get(old, i + offset)]
  <2>1. bits = [length |-> new.length, values |-> values]
    BY <1>7, <1>9, <1>14
  <2>2. values \in [DOMAIN new.values -> BOOLEAN] /\ DOMAIN values = DOMAIN new.values
    BY DEF Watched!Get
  <2>3. ASSUME NEW i \in DOMAIN new.values PROVE values[i] <=> i <= b - a /\ Listed[a + i] \in marks
    <3>1. i \in Nat
      BY <1>9
    <3>2. values[i] <=> i < n /\ i + offset >= 0 /\ i + offset < n /\ Watched!Get(old, i + offset)
      BY <1>8
    <3>3. Watched!Get(old, i + offset) <=> i + offset \in DOMAIN f.values /\ f.values[i + offset]
      BY <1>8 DEF Watched!Get
    <3>4. CASE i <= b - a
      <4>1. i < n /\ i + offset = i + (a - p) /\ i + offset < n
        BY <1>1, <1>2, <1>6, <3>1, <3>4
      <4>2. i + offset \in DOMAIN f.values => i + offset >= 0
        BY <1>11
      <4> HIDE DEF values, n
      <4> QED
        BY <1>12, <3>1, <3>2, <3>3, <3>4, <4>1, <4>2
    <3>5. CASE ~(i <= b - a)
      <4>1. ~(i < n)
        BY <1>1, <3>1, <3>5
      <4> QED
        BY <3>2, <3>5, <4>1
    <3> QED
      BY <3>4, <3>5
  <2> HIDE DEF values
  <2>4. bits.values = values /\ bits.length = new.length
    BY <2>1
  <2>5. 0 .. b - a \subseteq DOMAIN new.values
    BY <1>1, <1>9
  <2> QED
    BY <1>9, <2>1, <2>2, <2>3, <2>4, <2>5 DEF ListedFrom
<1> QED
  BY <1>13, <1>14

LEMMA GrowStep ==
  ASSUME WatchedInv, Watched!Grow
  PROVE  WatchedInv'
<1>1. PICK a, b, p, q \in Nat :
        /\ Within(a, b) /\ a <= p /\ p <= q /\ q <= b
        /\ ListedFrom(video_ids, bitfield, seen, a, b) /\ WrittenFor(field, seen, p, q)
  BY DEF WatchedInv
<1>2. PICK r \in Watched!Ranges :
        /\ Watched!Within(video_ids, Cut(r[1], r[2]))
        /\ video_ids' = Cut(r[1], r[2]) /\ bitfield' = Watched!Construct(field, Cut(r[1], r[2]))
        /\ field' = field /\ seen' = seen
  BY DEF Watched!Grow, Watched!Construe, Watched!List, Cut
<1> DEFINE c == r[1]
           d == r[2]
<1>3. Within(c, d)
  BY <1>2, ListedLength DEF Within, Watched!Ranges
<1> HIDE DEF c, d
<1>4. /\ Watched!Within(video_ids, Cut(c, d)) /\ video_ids' = Cut(c, d) /\ bitfield' = Watched!Construct(field, Cut(c, d))
  BY <1>2 DEF c, d
<1>5. /\ video_ids = Cut(a, b) /\ 1 <= a /\ a <= b /\ b <= Len(Listed) /\ DOMAIN video_ids = 1 .. b - a + 1
      /\ \A i \in 0 .. b - a : video_ids[i + 1] = Listed[a + i]
      /\ \A i, j \in 1 .. Len(Listed) : Listed[i] = Listed[j] => i = j
  <2>1. video_ids = Cut(a, b)
    BY <1>1 DEF ListedFrom
  <2>2. AreListed(video_ids, a, b)
    BY <1>1, <2>1, ListIs
  <2> QED
    BY <2>1, <2>2 DEF AreListed
<1> DEFINE ids == Cut(c, d)
<1>6. /\ c \in Nat /\ d \in Nat /\ 1 <= c /\ c <= d /\ d <= Len(Listed)
      /\ DOMAIN ids = 1 .. d - c + 1 /\ \A i \in 0 .. d - c : ids[i + 1] = Listed[c + i]
  <2>1. AreListed(ids, c, d)
    BY <1>3, ListIs
  <2> QED
    BY <2>1 DEF AreListed
<1> HIDE DEF ids
<1>7. ASSUME NEW i \in a .. b PROVE i \in c .. d
  <2>0. i - a \in 0 .. b - a /\ a + (i - a) = i
    BY <1>1, <1>5
  <2>1. video_ids[(i - a) + 1] = Listed[a + (i - a)]
    BY <1>5, <2>0
  <2>2. (i - a) + 1 \in DOMAIN video_ids /\ video_ids[(i - a) + 1] = Listed[i]
    BY <1>1, <1>5, <2>0, <2>1
  <2>3. PICK j \in DOMAIN ids : ids[j] = Listed[i]
    BY <1>4, <2>2 DEF Watched!Within, ids
  <2>4. j - 1 \in 0 .. d - c /\ ids[(j - 1) + 1] = Listed[c + (j - 1)] /\ (j - 1) + 1 = j
    BY <1>6, <2>3
  <2>5. Listed[i] = Listed[c + (j - 1)] /\ c + (j - 1) \in 1 .. Len(Listed) /\ i \in 1 .. Len(Listed)
    BY <1>1, <1>5, <1>6, <2>3, <2>4, ListedLength
  <2>6. i = c + (j - 1)
    BY <1>5, <2>5
  <2> QED
    BY <1>6, <2>4, <2>6
<1>8. c <= a /\ b <= d
  BY <1>1, <1>5, <1>6, <1>7
<1>9. p \in c .. d /\ q \in p .. d
  BY <1>1, <1>6, <1>8
<1>10. ListedFrom(video_ids', bitfield', seen', c, d)
  BY <1>1, <1>2, <1>3, <1>4, <1>9, ConstructIs
<1>11. WrittenFor(field', seen', p, q)
  BY <1>1, <1>2
<1>12. Within(c, d) /\ c <= p /\ p <= q /\ q <= d
  BY <1>1, <1>3, <1>6, <1>9
<1> QED
  BY <1>1, <1>6, <1>10, <1>11, <1>12 DEF WatchedInv

LEMMA WatchedNext == WatchedInv /\ Watched!Next => WatchedInv'
BY MarkStep, GrowStep DEF Watched!Next

LEMMA WatchedRests == WatchedInv /\ UNCHANGED watchedVars => WatchedInv'
<1> SUFFICES ASSUME WatchedInv, UNCHANGED watchedVars PROVE WatchedInv'
  OBVIOUS
<1>1. UNCHANGED <<video_ids, bitfield, field, seen>>
  BY DEF watchedVars
<1> QED
  BY <1>1 DEF WatchedInv

LEMMA WatchedHolds == WatchedInv => Watched!WatchedSurvives
<1> SUFFICES ASSUME WatchedInv, NEW i \in DOMAIN video_ids
             PROVE  Watched!GetVideo(video_ids[i]) <=> video_ids[i] \in seen
  BY DEF Watched!WatchedSurvives
<1>1. PICK a, b, p, q \in Nat :
        /\ Within(a, b) /\ a <= p /\ p <= q /\ q <= b
        /\ ListedFrom(video_ids, bitfield, seen, a, b) /\ WrittenFor(field, seen, p, q)
  BY DEF WatchedInv
<1>2. /\ video_ids = Cut(a, b)
      /\ 0 .. b - a \subseteq DOMAIN bitfield.values
      /\ \A j \in DOMAIN bitfield.values : bitfield.values[j] <=> j <= b - a /\ Listed[a + j] \in seen
  BY <1>1 DEF ListedFrom
<1>3. /\ 1 <= a /\ a <= b /\ DOMAIN video_ids = 1 .. b - a + 1
      /\ \A j \in 0 .. b - a : video_ids[j + 1] = Listed[a + j]
      /\ \A j \in 0 .. b - a : Watched!Positions(video_ids, Listed[a + j]) = {j + 1}
  <2>1. AreListed(video_ids, a, b)
    BY <1>1, <1>2, ListIs
  <2> QED
    BY <2>1 DEF AreListed
<1>4. i - 1 \in 0 .. b - a /\ (i - 1) + 1 = i
  BY <1>1, <1>3
<1>5. video_ids[i] = Listed[a + (i - 1)] /\ Watched!Positions(video_ids, video_ids[i]) = {i}
  BY <1>3, <1>4
<1>6. Watched!GetVideo(video_ids[i]) <=> Watched!Get(bitfield, i - 1)
  BY <1>5 DEF Watched!GetVideo
<1>7. Watched!Get(bitfield, i - 1) <=> bitfield.values[i - 1]
  BY <1>2, <1>4 DEF Watched!Get
<1>8. i - 1 <= b - a
  BY <1>1, <1>4
<1> QED
  BY <1>2, <1>4, <1>5, <1>6, <1>7, <1>8
-----------------------------------------------------------------------------
(* The parts side by side *)

\* Each part, while the behaviour is of it.
CtxInv ==
  /\ part \in Parts
  /\ (part = "notifications" => NotifiedInv)
  /\ (part = "watched" => WatchedInv)
  /\ (part = "migration" => ProfileInv /\ CleanInv)
  /\ (part = "buckets" => BucketsInv)
  /\ (part = "web" => WebInv)

LEMMA CtxBegins == Init => CtxInv
<1> SUFFICES ASSUME Init PROVE CtxInv
  OBVIOUS
<1>1. part \in Parts
  BY DEF Init
<1>2. ASSUME part = "migration" PROVE ProfileInv /\ CleanInv
  BY <1>2, SchemaStart DEF Init
<1>3. ASSUME part = "buckets" PROVE BucketsInv
  BY <1>3, BucketsStart DEF Init
<1>4. ASSUME part = "web" PROVE WebInv
  BY <1>4, WebBegins DEF Init
<1>5. ASSUME part = "notifications" PROVE NotifiedInv
  BY <1>5, NotifiedStart DEF Init
<1>6. ASSUME part = "watched" PROVE WatchedInv
  BY <1>6, WatchedStart DEF Init
<1> QED
  BY <1>1, <1>2, <1>3, <1>4, <1>5, <1>6 DEF CtxInv

LEMMA CtxSteps == CtxInv /\ [Next]_ctxVars => CtxInv'
<1> SUFFICES ASSUME CtxInv, [Next]_ctxVars PROVE CtxInv'
  OBVIOUS
<1>1. part' = part
  BY DEF Next, ctxVars
<1>2. ASSUME part = "migration" PROVE ProfileInv' /\ CleanInv'
  <2>1. Schema!Next \/ UNCHANGED migrationVars
    BY <1>2 DEF Next, ctxVars
  <2> QED
    BY <1>2, <2>1, ProfileNext, CleanNext, MigrationRests DEF CtxInv
<1>3. ASSUME part = "buckets" PROVE BucketsInv'
  <2>1. Buckets!Next \/ UNCHANGED bucketVars
    BY <1>3 DEF Next, ctxVars
  <2> QED
    BY <1>3, <2>1, BucketsNext, BucketsRest DEF CtxInv
<1>4. ASSUME part = "web" PROVE WebInv'
  <2>1. Web!Next \/ UNCHANGED webVars
    BY <1>4 DEF Next, ctxVars
  <2> QED
    BY <1>4, <2>1, WebNext, WebRests DEF CtxInv
<1>5. ASSUME part = "notifications" PROVE NotifiedInv'
  <2>1. Notified!Next \/ UNCHANGED notificationVars
    BY <1>5 DEF Next, ctxVars
  <2> QED
    BY <1>5, <2>1, NotifiedNext, NotifiedRests DEF CtxInv
<1>6. ASSUME part = "watched" PROVE WatchedInv'
  <2>1. Watched!Next \/ UNCHANGED watchedVars
    BY <1>6 DEF Next, ctxVars
  <2> QED
    BY <1>6, <2>1, WatchedNext, WatchedRests DEF CtxInv
<1> QED
  BY <1>1, <1>2, <1>3, <1>4, <1>5, <1>6 DEF CtxInv

LEMMA CtxHolds == Spec => []CtxInv
BY CtxBegins, CtxSteps, PTL DEF Spec

\* A migration that ends leaves a profile the present version can read; and unless it was
\* stopped half-way to a version it cannot go to twice, it leaves what it would have left
\* had it never been stopped, wherever it was stopped, however often (env.rs:171).
THEOREM MigratesSafely == Spec => []MigrationIsSafe
<1>1. CtxInv => MigrationIsSafe
  BY MigrationIs DEF CtxInv, MigrationIsSafe
<1> QED
  BY <1>1, CtxHolds, PTL

\* Every change of a small bucket reaches its slot unless the last write of it failed, of
\* any number of writes and failures; the writes of the web app, spawned one by one and
\* ended in any order, leave each of its slots with what Ctx holds (env.rs:453), and an
\* app that runs has its installation id in the storage; and a video is watched exactly
\* when it was marked, whatever was written and read in between and however often the
\* list grew, for bytes of any size (watched_bitfield.rs:131).
THEOREM WhatIsStoredIsKept == Spec => []StoredIsKept
<1>1. CtxInv => StoredIsKept
  BY WebSaves, WebHolds, WatchedHolds DEF CtxInv, BucketsInv, StoredIsKept
<1> QED
  BY <1>1, CtxHolds, PTL

\* A notification catalog that is Loading has a request under way that it will take the
\* answer of, also when another took the one that was sent for it; and so has an event
\* (update_events.rs:72), and a web runtime that starts (stremio_core_web.rs:56).
THEOREM WhatLoadsIsAnswered == Spec => []LoadingIsAnswered
<1>1. CtxInv => LoadingIsAnswered
  BY WebHolds, NotifiedHolds DEF CtxInv, BucketsInv, LoadingIsAnswered
<1> QED
  BY <1>1, CtxHolds, PTL

\* Each part keeps the types of its state.
THEOREM CtxTypes == Spec => []TypeOK
<1>1. CtxInv => TypeOK
  BY WebHolds, NotifiedHolds, MigrationIs DEF CtxInv, BucketsInv, TypeOK
<1> QED
  BY <1>1, CtxHolds, PTL

\* A title's notifications that were dismissed are not shown again by late answers, by
\* answers of before, by pulls, by the title's removal and return, or after a restart
\* from slots that were written late; nor is what is not released
\* (update_notifications.rs:362).  A dismissed event is not shown (update_events.rs:72).
\* The interface of the web app has what the model has, or is about to be told
\* (effects.rs:20), and the screens that are computed from Ctx are as Ctx has it, or about
\* to be computed again.
THEOREM WhatHoldsIsShown == Spec => []ShowsWhatHolds
<1>1. CtxInv => ShowsWhatHolds
  BY NotifiedHolds, WebTells, WebHolds DEF CtxInv, BucketsInv, ShowsWhatHolds
<1> QED
  BY <1>1, CtxHolds, PTL
==============================================================================
