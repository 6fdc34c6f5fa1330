------------------------- MODULE MCDeveloperCleaner -------------------------
(***************************************************************************)
(* Instance of DeveloperCleaner for TLC: presets "one" and "two", hosts    *)
(* "h" and "g", one settings page and one popup.                           *)
(***************************************************************************)
EXTENDS DeveloperCleaner

CONSTANTS setup, popup

Bare(hosts) == {[scheme |-> "bare", host |-> h, exact |-> TRUE] : h \in hosts}
NoRules == [t \in Types |-> None]

\* The cache of one host, as typed in and as stored; the same for more bare hosts than fit when each is
\* stored as two origins; a preset that needs a review; one that is refused,
\* since it would clear the history of a single site.
Listed == [scope |-> "include", origins |-> Bare({"h"}), types |-> {"cache", "cacheStorage"},
           typeRules |-> NoRules, flags |-> {"reload"}]
Long == [Listed EXCEPT !.origins = Bare({"h", "g"})]
Risky == [scope |-> "active", origins |-> {}, types |-> {"cache", "history"},
          typeRules |-> [NoRules EXCEPT !["history"] = [scope |-> "all", origins |-> {}]],
          flags |-> {"closeWindows"}]
Stored == [Listed EXCEPT !.origins =
              {[scheme |-> x, host |-> "h", exact |-> TRUE] : x \in {"http", "https"}}]
Wrong == [Risky EXCEPT !.typeRules = NoRules]

AllOn == [minutes |-> TRUE, startup |-> TRUE, tabClose |-> TRUE, presetId |-> "one"]

Enabled(synced, two) ==
    [enabled |-> TRUE, syncEnabled |-> synced, activePreset |-> "one", automation |-> AllOn,
     presets |-> [i \in PresetIds |-> IF i = "one" THEN Stored ELSE two]]

MCInitialSettings == {Enabled(TRUE, None), [Enabled(FALSE, Risky) EXCEPT !.activePreset = "two"]}
MCDrafts == {Risky, Long, Wrong}
MCFiles == {[Enabled(TRUE, None) EXCEPT !.presets["one"] = Risky]}
\* Two of another device's settings can be taken over, the third has more origins than fit.
MCForeign ==
    {Shared(Enabled(TRUE, None)), [Shared(Enabled(TRUE, None)) EXCEPT !.presets["one"] = Risky],
     [Shared(Enabled(TRUE, None)) EXCEPT !.presets["one"].origins = Origin]}
MCTriggers == {NoAutomation("one")}
MCCost == [clicks |-> 2, edits |-> 3, events |-> 3]
=============================================================================
