----------------------------- MODULE CleanerPlan -----------------------------
(***************************************************************************)
(* core.js of the developer cleaner: what settings and presets are valid,  *)
(* and the plan of removals a preset stands for on a given tab.  Names,    *)
(* time ranges, the theme and warnings are left out.                       *)
(***************************************************************************)
EXTENDS Naturals, FiniteSets

CONSTANTS
    CacheTypes,   \* data that only has to be fetched again
    SiteTypes,    \* data of websites: cookies, storage, ...
    GlobalTypes,  \* data Chrome cannot filter by origin: history, downloads, autofill
    Hosts,        \* host names with their ports
    PresetIds,
    MaxOrigins, MaxPresets,
    SyncPresets,  \* so many presets fit into one item of Chrome's sync storage
    None          \* no value; as a URL, a tab that shows no website

ASSUME HostAssumption == Hosts # {}

Types == CacheTypes \cup SiteTypes \cup GlobalTypes

Scopes == {"active", "include", "exclude", "all"}

Apps == {"protectedWeb", "extension"}

Flags == Apps \cup {"reload", "closeWindows"}

\* An entry of an origin list as typed in; exact: without path, query,
\* credentials or wildcard.  A bare host has no scheme.
Entry == [scheme : {"bare", "http", "https", "other"}, host : Hosts, exact : BOOLEAN]

Origin == [scheme : {"http", "https"}, host : Hosts, exact : {TRUE}]

OriginsOK(values) ==
    /\ Cardinality(values) <= MaxOrigins
    /\ \A e \in values : e.exact /\ e.scheme # "other"

\* A bare host stands for both of its origins.
Origins(values) ==
    UNION {IF e.scheme = "bare" THEN {o \in Origin : o.host = e.host} ELSE {e} : e \in values}

RuleOK(r) ==
    /\ r.scope \in Scopes
    /\ OriginsOK(r.origins)
    /\ r.scope \in {"include", "exclude"} => r.origins # {}

Rule(r) == [scope |-> r.scope, origins |-> Origins(r.origins)]

\* Rules, presets and settings whose origin lists are made of entries: all of
\* Entry as typed in, Origin as stored.
RuleOf(entries) == [scope : Scopes, origins : SUBSET entries]

PresetOf(entries) ==
    [scope : Scopes, origins : SUBSET entries, types : SUBSET Types,
     typeRules : [Types -> RuleOf(entries) \cup {None}], flags : SUBSET Flags]

ASSUME NoneAssumption == None \notin RuleOf(Entry) \cup PresetOf(Entry)

\* The rule that applies to a type: its own, if it has one, or that of the preset.
Filter(p, t) ==
    IF p.typeRules[t] # None THEN p.typeRules[t] ELSE [scope |-> p.scope, origins |-> p.origins]

PresetOK(p) ==
    /\ p.types # {} /\ p.types \subseteq Types
    /\ RuleOK(p)
    /\ \A t \in Types : p.typeRules[t] # None => RuleOK(p.typeRules[t])
    /\ \A t \in p.types : (t \in GlobalTypes \/ p.flags \cap Apps # {}) => Filter(p, t).scope = "all"

\* Variant: the preset is kept as it was typed in.
PresetAsTyped(p) == p

Preset(p) ==
    [p EXCEPT !.origins = Origins(@),
              !.typeRules = [t \in Types |-> IF @[t] = None THEN None ELSE Rule(@[t])]]

\* The identifiers of the presets there are.
Ids(s) == {i \in PresetIds : s.presets[i] # None}

SettingsOK(s) ==
    /\ Ids(s) # {} /\ Cardinality(Ids(s)) <= MaxPresets
    /\ \A i \in Ids(s) : PresetOK(s.presets[i])
    /\ s.activePreset \in Ids(s)
    /\ s.automation.presetId \in Ids(s)

Normal(s) == [s EXCEPT !.presets = [i \in PresetIds |-> IF @[i] = None THEN None ELSE Preset(@[i])]]

NoAutomation(id) == [minutes |-> FALSE, startup |-> FALSE, tabClose |-> FALSE, presetId |-> id]

AutomationOf == [minutes : BOOLEAN, startup : BOOLEAN, tabClose : BOOLEAN, presetId : PresetIds]

SettingsOf(entries) ==
    [enabled : BOOLEAN, syncEnabled : BOOLEAN, activePreset : PresetIds,
     presets : [PresetIds -> PresetOf(entries) \cup {None}], automation : AutomationOf]

UsesActive(p) == \E t \in p.types : Filter(p, t).scope = "active"

AutomaticSafe(p) ==
    p.flags \cap (Apps \cup {"closeWindows"}) = {} /\ p.types \subseteq CacheTypes

\* The origins a removal under a rule reaches when the tab shows url.
Reach(filter, url) ==
    CASE filter.scope = "active"  -> {url}
      [] filter.scope = "include" -> filter.origins
      [] filter.scope = "exclude" -> Origin \ filter.origins
      [] OTHER                    -> Origin

PlanOK(p, url) == PresetOK(p) /\ (UsesActive(p) => url # None)

Plan(p, url) ==
    [calls |-> {[type |-> t, reach |-> Reach(Filter(p, t), url), apps |-> p.flags \cap Apps] : t \in p.types},
     usesActive |-> UsesActive(p), reload |-> "reload" \in p.flags,
     closeWindows |-> "closeWindows" \in p.flags, automaticSafe |-> AutomaticSafe(p)]

Call == [type : Types, reach : SUBSET Origin, apps : SUBSET Apps]

PlanType ==
    [calls : SUBSET Call, usesActive : BOOLEAN, reload : BOOLEAN,
     closeWindows : BOOLEAN, automaticSafe : BOOLEAN]
=============================================================================
