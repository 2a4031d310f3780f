------------------------------ MODULE Settings ------------------------------
(***************************************************************************)
(* Settings administrators share (services/app_settings_service.py,        *)
(* routes/v1/config.py, common/branding.py), each a row of one table.  Some *)
(* requests write several rows one after the other; others read a document, *)
(* change it and write it back.  Pages do not touch each other's rows, so   *)
(* one behaviour follows one page.                                          *)
(***************************************************************************)
EXTENDS Naturals, FiniteSets, FiniteSetsExt

CONSTANTS
  Admins,
  Reserved,     \* keys of the labels that come with the application
  Own,          \* keys of other labels
  None,         \* NULL
  MAX_CUSTOM_PRESETS, PROFILER_SAMPLE_RECORDS_MAX,
  RunNames,     \* names of run configurations
  MaxSaves      \* bound

\* The bounds of the code are numbers, the one of a sample beyond a percentage.
SettingsAssumption ==
  /\ None \notin Nat /\ MAX_CUSTOM_PRESETS \in Nat
  /\ PROFILER_SAMPLE_RECORDS_MAX \in Nat /\ PROFILER_SAMPLE_RECORDS_MAX >= 100

VARIABLES
  page,         \* the page of settings that is open
  rows,         \* the profiler's sample, retention and run configurations
  labels,       \* label_definitions: key to [builtin, custom_values, values, described]
  branding,     \* the document: [preset, custom, edited, logo_mode, logos]
  stored,       \* the logo settings, by slot
  admin,        \* per administrator what is under way on the branding
  strayed,      \* history: the branding was written from an older reading, or a logo without it
  saves

settingsVars == <<page, rows, labels, branding, stored, admin, strayed, saves>>

LOGO_SLOTS == {"light", "dark"}
PRESET_IDS == {1001, 1002}        \* numbered apart from custom presets
Looks == {"plain", "bright"}      \* colours of both modes
Values == {"Low", "High"}
Logos == {1, 2}                   \* contents, which are their hashes
Idle == [step |-> "idle"]

\* pickHeaderLogo: the dark mode shows the light logo while it has none.
Shown(document, mode) ==
  IF document.logo_mode = "separate" /\ mode = "dark" /\ document.logos["dark"] # None
  THEN document.logos["dark"] ELSE document.logos["light"]

-----------------------------------------------------------------------------
(* Labels. *)

Seed(key) == [builtin |-> TRUE, custom_values |-> FALSE, values |-> Values, described |-> Values]

\* seed_reserved_label_definitions_if_absent and the backfill of descriptions at
\* the start: a key that is there is left as it is, but for descriptions its
\* values lack.
AtStart(defined) ==
  [k \in DOMAIN defined \cup Reserved |->
     IF k \notin DOMAIN defined THEN Seed(k)
     ELSE IF k \in Reserved THEN [defined[k] EXCEPT !.described = @ \cup (Values \cap defined[k].values)]
     ELSE defined[k]]

\* A bug: what a request calls built in is.
TrustsTheBody(body) ==
  [k \in DOMAIN body |->
     [builtin |-> body[k].builtin, custom_values |-> k \notin Reserved /\ body[k].custom_values,
      values |-> body[k].values, described |-> body[k].described \cap body[k].values]]
\* save_label_definitions: keys that are built in stay, and stay so.  Colours
\* and descriptions of values that go, go with them.
SavedLabels(body) ==
  [k \in DOMAIN body |->
     [builtin |-> k \in DOMAIN labels /\ labels[k].builtin,
      custom_values |-> k \notin Reserved /\ body[k].custom_values,
      values |-> body[k].values, described |-> body[k].described \cap body[k].values]]
save_label_definitions ==
  /\ page = "labels"
  /\ saves < MaxSaves /\ saves' = saves + 1
  /\ \E keys \in SUBSET (Reserved \cup Own) :
       \E body \in [keys -> [builtin : BOOLEAN, custom_values : BOOLEAN, values : {{}, Values}, described : {{"Low"}}]] :
         /\ {k \in DOMAIN labels : labels[k].builtin} \subseteq keys
         /\ labels' = SavedLabels(body)
  /\ UNCHANGED <<page, rows, branding, stored, admin, strayed>>

-----------------------------------------------------------------------------
(* Branding. *)

custom_ids(document) == {c.id : c \in document.custom}

\* _custom_preset_for: colours that are a custom preset already choose it; others
\* become one of the next number, while there is room.
SavedTheme(document, chosen, look) ==
  LET same == {c.id : c \in {d \in document.custom : d.look = look}}
      id == IF same # {} THEN Min(same)
            ELSE Max({0} \cup {c.id : c \in document.custom}) + 1
  IN IF chosen = None /\ look = "default" THEN {[document EXCEPT !.preset = None]}
     ELSE IF chosen = None
     THEN IF same # {} THEN {[document EXCEPT !.preset = id]}
          ELSE IF Cardinality(document.custom) >= MAX_CUSTOM_PRESETS THEN {}
          ELSE {[document EXCEPT !.preset = id, !.custom = @ \cup {[id |-> id, look |-> look]}]}
     ELSE IF chosen \in PRESET_IDS
     THEN {[document EXCEPT !.preset = chosen,
                            !.edited = {e \in @ : e.id # chosen} \cup {[id |-> chosen, look |-> look]}]}
     ELSE IF chosen \in custom_ids(document)
     THEN {[document EXCEPT !.preset = chosen,
                            !.custom = {c \in @ : c.id # chosen} \cup {[id |-> chosen, look |-> look]}]}
     ELSE {}

WithoutPreset(document, id) ==
  [document EXCEPT !.custom = {c \in @ : c.id # id}, !.preset = IF @ = id THEN None ELSE @]

Read(a, next) ==
  /\ admin[a] = Idle /\ saves < MaxSaves /\ saves' = saves + 1
  /\ admin' = [admin EXCEPT ![a] = next]
  /\ UNCHANGED <<page, rows, labels, branding, stored, strayed>>

Overlaps(a) == \E b \in Admins \ {a} : admin[b] # Idle
\* What others have read is then no longer what is stored.
Others(a) == [b \in Admins |-> IF b = a THEN Idle ELSE IF admin[b] = Idle THEN Idle ELSE [admin[b] EXCEPT !.stale = TRUE]]
Writing(a, document) == [step |-> "write", stale |-> Overlaps(a), slot |-> "none", document |-> document]

save_branding_theme(a) ==
  page = "branding" /\ \E chosen \in PRESET_IDS \cup {None} \cup 1..3, look \in Looks \cup {"default"} :
    \E document \in SavedTheme(branding, chosen, look) : Read(a, Writing(a, document))

delete_branding_custom_preset(a) ==
  page = "branding" /\ \E id \in custom_ids(branding) : Read(a, Writing(a, WithoutPreset(branding, id)))

\* save_branding_logo: the first logo is shared.  The second kind of logo ends
\* the sharing; the mode that was not named keeps the shared one, which is
\* copied for it.
save_branding_logo(a) ==
  page = "branding" /\ \E slot \in LOGO_SLOTS, logo \in Logos :
    LET none == \A s \in LOGO_SLOTS : branding.logos[s] = None
        copies == ~none /\ branding.logo_mode # "separate" /\ slot = "light" /\ branding.logos["dark"] = None
                    /\ stored["light"] # None
    IN Read(a, [step |-> IF copies THEN "copy" ELSE "logo", stale |-> Overlaps(a),
                slot |-> IF none THEN "light" ELSE slot, logo |-> logo,
                document |-> [branding EXCEPT !.logo_mode = IF none THEN "shared" ELSE "separate",
                                              !.logos = IF copies THEN [@ EXCEPT !["dark"] = stored["light"]] ELSE @]])

CopyLogo(a) ==
  /\ admin[a].step = "copy"
  /\ stored' = [stored EXCEPT !["dark"] = admin[a].document.logos["dark"]]
  /\ admin' = [Others(a) EXCEPT ![a] = [admin[a] EXCEPT !.step = "logo"]]
  /\ UNCHANGED <<page, rows, labels, branding, strayed, saves>>

_write_logo(a) ==
  /\ admin[a].step = "logo"
  /\ stored' = [stored EXCEPT ![admin[a].slot] = admin[a].logo]
  /\ admin' = [Others(a) EXCEPT ![a] =
       [admin[a] EXCEPT !.step = "write", !.document.logos = [@ EXCEPT ![admin[a].slot] = admin[a].logo]]]
  /\ UNCHANGED <<page, rows, labels, branding, strayed, saves>>

\* delete_branding_logo deletes before it reads.
delete_branding_logo(a) ==
  page = "branding" /\ \E slot \in LOGO_SLOTS :
    /\ admin[a] = Idle /\ saves < MaxSaves /\ saves' = saves + 1
    /\ stored' = [stored EXCEPT ![slot] = None]
    /\ admin' = [Others(a) EXCEPT ![a] = [step |-> "deleted", stale |-> Overlaps(a), slot |-> slot]]
    /\ UNCHANGED <<page, rows, labels, branding, strayed>>
ReadDeleted(a) ==
  /\ admin[a].step = "deleted"
  /\ LET logos == [branding.logos EXCEPT ![admin[a].slot] = None]
         document == [branding EXCEPT !.logos = logos,
                        !.logo_mode = IF \A s \in LOGO_SLOTS : logos[s] = None THEN "shared" ELSE @]
     IN admin' = [admin EXCEPT ![a] = [Writing(a, document) EXCEPT !.stale = @ \/ admin[a].stale]]
  /\ UNCHANGED <<page, rows, labels, branding, stored, strayed, saves>>

_save_branding(a) ==
  /\ admin[a].step = "write"
  /\ branding' = admin[a].document
  /\ strayed' = (strayed \/ admin[a].stale)
  /\ admin' = Others(a)
  /\ UNCHANGED <<page, rows, labels, stored, saves>>

-----------------------------------------------------------------------------
(* The sample of a profile, retention, and run configurations. *)

KINDS == {"full", "records", "percent"}
Largest(kind) == IF kind = "percent" THEN 100 ELSE PROFILER_SAMPLE_RECORDS_MAX
clamp_profiler_sample_value(kind, value) == Max({1, Min({Largest(kind), value})})
Default(kind) == IF kind = "records" THEN 50 ELSE 10

\* get_profiler_sample: an unknown kind is a percentage, a value that was never
\* set the kind's default, and what is stored is held to the bounds of the kind.
get_profiler_sample(kind, value) ==
  LET k == IF kind \in KINDS THEN kind ELSE "percent"
  IN [kind |-> k, value |-> IF k = "full" THEN 0
                            ELSE clamp_profiler_sample_value(k, IF value = None THEN Default(k) ELSE value)]

\* save_profiler_sample writes the kind, then the value.
save_profiler_sample(a) ==
  /\ page = "sample" /\ admin[a] = Idle /\ saves < MaxSaves /\ saves' = saves + 1
  /\ \E kind \in KINDS, value \in {0, 20, 500, PROFILER_SAMPLE_RECORDS_MAX + 1} :
       /\ rows' = [rows EXCEPT !.kind = kind]
       /\ admin' = [Others(a) EXCEPT ![a] =
            [step |-> "value", stale |-> Overlaps(a), slot |-> "none",
             saved |-> [kind |-> kind, value |-> IF kind = "full" THEN 0 ELSE clamp_profiler_sample_value(kind, value)]]]
  /\ UNCHANGED <<page, labels, branding, stored, strayed>>
WriteValue(a) ==
  /\ admin[a].step = "value"
  /\ rows' = [rows EXCEPT !.value = admin[a].saved.value, !.answered = admin[a].saved]
  /\ strayed' = (strayed \/ admin[a].stale)
  /\ admin' = Others(a)
  /\ UNCHANGED <<page, labels, branding, stored, saves>>

\* save_retention_settings writes the one before it validates the other.
ValidDays == 7..3650
Entered == {None, 6, 7, 3650, 3651}
save_retention_settings ==
  /\ page = "sample" /\ saves < MaxSaves /\ saves' = saves + 1
  /\ \E days, quarantine \in Entered :
       /\ days = None \/ days \in ValidDays
       /\ rows' = [rows EXCEPT !.days = IF days = None THEN @ ELSE days,
                               !.quarantine = IF quarantine \in ValidDays THEN quarantine ELSE @]
  /\ UNCHANGED <<page, labels, branding, stored, admin, strayed>>

\* save_run_config, delete_run_config
EditRunConfig(a) ==
  /\ page = "runs"
  /\ \E name \in RunNames, version \in {None} \cup Looks :
       /\ version = None => rows.runs[name] # None
       /\ Read(a, [step |-> "runs", stale |-> Overlaps(a), slot |-> name, runs |-> [rows.runs EXCEPT ![name] = version]])
WriteRunConfigs(a) ==
  /\ admin[a].step = "runs"
  /\ rows' = [rows EXCEPT !.runs = admin[a].runs]
  /\ strayed' = (strayed \/ admin[a].stale)
  /\ admin' = Others(a)
  /\ UNCHANGED <<page, labels, branding, stored, saves>>

Fail(a) ==
  /\ admin[a] # Idle
  /\ strayed' = (strayed \/ admin[a].step \notin {"copy", "runs"})
  /\ admin' = [admin EXCEPT ![a] = Idle]
  /\ UNCHANGED <<page, rows, labels, branding, stored, saves>>

-----------------------------------------------------------------------------

\* Labels of before the start: nothing, or one an administrator made.
Init ==
  /\ page \in {"labels", "branding", "sample", "runs"}
  /\ \E earlier \in {{}, Own, {CHOOSE k \in Reserved : TRUE}} :
       labels = AtStart([k \in earlier |-> [builtin |-> FALSE, custom_values |-> TRUE, values |-> Values, described |-> {}]])
  /\ branding = [preset |-> None, custom |-> {}, edited |-> {}, logo_mode |-> "shared", logos |-> [s \in LOGO_SLOTS |-> None]]
  /\ stored = [s \in LOGO_SLOTS |-> None]
  /\ rows = [kind |-> None, value |-> None, answered |-> get_profiler_sample(None, None),
             days |-> None, quarantine |-> None, runs |-> [name \in RunNames |-> None]]
  /\ admin = [a \in Admins |-> Idle] /\ strayed = FALSE /\ saves = 0

Next ==
  \/ save_label_definitions \/ save_retention_settings
  \/ \E a \in Admins :
       \/ save_branding_theme(a) \/ delete_branding_custom_preset(a)
       \/ save_branding_logo(a) \/ CopyLogo(a) \/ _write_logo(a)
       \/ delete_branding_logo(a) \/ ReadDeleted(a) \/ _save_branding(a)
       \/ save_profiler_sample(a) \/ WriteValue(a) \/ EditRunConfig(a) \/ WriteRunConfigs(a)
       \/ Fail(a)

-----------------------------------------------------------------------------

\* The preset in use exists, ids name one preset each, and, once requests have
\* ended that neither overlapped nor failed half-way, the document names the
\* logos that are stored, a shared logo being the only one.
BrandingHolds ==
  /\ branding.preset \in PRESET_IDS \cup {None} \cup custom_ids(branding)
  /\ Cardinality(custom_ids(branding)) = Cardinality(branding.custom)
  /\ Cardinality(branding.custom) <= MAX_CUSTOM_PRESETS
  /\ ~strayed /\ (\A a \in Admins : admin[a] = Idle) => branding.logos = stored
  /\ branding.logo_mode = "shared" => branding.logos["dark"] = None

\* Whatever order the kind and the value were written in, a profile reads a
\* sample that its kind allows; and what a save answered, once nobody else's
\* came between and none failed half-way.  No retention is shorter than a week.
SampleIsUsable ==
  LET sample == get_profiler_sample(rows.kind, rows.value)
  IN /\ sample.value \in IF sample.kind = "full" THEN {0} ELSE 1..Largest(sample.kind)
     /\ ~strayed /\ (\A a \in Admins : admin[a] = Idle) => sample = rows.answered
     /\ {rows.days, rows.quarantine} \subseteq ValidDays \cup {None}

\* What the upload of one logo, as the last step of _save_branding writes it, does
\* to what the other mode shows.
Uploads(a) == admin[a].step = "write" /\ admin'[a] = Idle /\ branding' = admin[a].document /\ admin[a].slot # "none"
OtherModeKeeps(a) ==
  \A mode \in LOGO_SLOTS \ {admin[a].slot} :
    Shown(branding, mode) # None => Shown(branding', mode) = Shown(branding, mode)

\* Administrators' pages: what the invariants say of branding and sample goes on
\* holding; a label that is built in stays so, without values of users' own; a
\* save leaves the other run configurations; and uploading a logo for one mode
\* leaves the other the logo it shows, except that a dark mode without a logo of
\* its own goes on showing the light one.
SavesKeepTheRest ==
  /\ BrandingHolds' /\ SampleIsUsable'
  /\ \A k \in DOMAIN labels : labels[k].builtin =>
       k \in DOMAIN labels' /\ labels'[k].builtin /\ ~labels'[k].custom_values
  /\ \A a \in Admins : ~strayed' /\ admin[a].step = "runs" /\ admin'[a] = Idle =>
       \A name \in RunNames \ {admin[a].slot} : rows'.runs[name] = rows.runs[name]
  /\ \A a \in Admins :
       Uploads(a) /\ ~strayed' /\ (branding.logo_mode = "separate" => branding.logos["dark"] # None) => OtherModeKeeps(a)

\* save_branding_logo says that each upload replaces only its slot's logo and the
\* other mode keeps the one it showed before.
OtherModeKeepsItsLogo == \A a \in Admins : Uploads(a) /\ ~strayed' => OtherModeKeeps(a)

=============================================================================
