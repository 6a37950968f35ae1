---------------------------- MODULE MCCtxAddons -----------------------------
(* Small instances of CtxAddons for TLC. *)
EXTENDS CtxAddons, TLC

Addon(name, version, protected, configure) ==
  [url |-> name, id |-> name, version |-> version, protected |-> protected, configure |-> configure]

\* An official add-on that may be removed, in this build's version, in an earlier
\* one, and in one that must be configured first.
Subtitles1 == Addon("subtitles", 1, FALSE, FALSE)
Subtitles2 == Addon("subtitles", 2, FALSE, FALSE)
Unconfigured == Addon("subtitles", 3, FALSE, TRUE)
\* An official add-on that stays, and an add-on of somebody else.
Cinemeta == Addon("cinemeta", 2, TRUE, FALSE)
Other1 == Addon("other", 1, FALSE, FALSE)

MCAddons == {Subtitles1, Subtitles2, Unconfigured}
MCOfficial == {Subtitles2}
MCStored == {{Subtitles1}, {Subtitles2}}
FewAddons == {Cinemeta, Other1}
FewOfficial == {Cinemeta}
FewStored == {{}, {Cinemeta, Other1}}

\* These are ordinary add-ons, which CollectionsAreUnique is about.
ASSUME OrdinaryAddons == OfficialUrls

Symmetry == Permutations(Users) \cup Permutations(Slots)
=============================================================================
