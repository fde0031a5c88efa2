---------------------------- MODULE PortalSettings -----------------------------
(* The branding of the portal, for one of its slots (logo, menu logo, favicon): *)
(* portal_settings.json, the uploaded files and the copy Apache serves.  A      *)
(* handler never yields between loading and saving, but there are several       *)
(* processes, and write_text truncates the file before it fills it.  Its second *)
(* part is the table of themes, whose handlers check a row in one transaction   *)
(* and change it in another.                                                    *)
EXTENDS Naturals, FiniteSets

CONSTANTS
  Processes,
  Files,       \* names an upload can get: the slot's stem with a suffix
  Unset,
  ThemeNames,  \* names of themes, "Default" among them
  MaxThemes    \* the bound on the themes ever created

ASSUME PortalAssumption == /\ Unset \notin Files
                           /\ "Default" \in ThemeNames /\ MaxThemes \in Nat

VARIABLES
  settingsFile,  \* the settings, or Unset while the file is truncated
  uploads,       \* files under uploads/
  brandFile,     \* the brand file exists
  process,       \* process -> the handler it runs
  themes,        \* cc_themes: id -> row
  drawn,         \* ids drawn so far
  themeTask,     \* process -> the theme handler it runs
  crossed        \* some transaction changed a row its check no longer described

portalVars == <<settingsFile, uploads, brandFile, process>>

PortalRecord == [override : BOOLEAN, filename : Files \union {Unset}]
DefaultSettings == [override |-> FALSE, filename |-> Unset]
FreeProcess == [at |-> "free", op |-> "none", s |-> DefaultSettings, file |-> Unset]

PortalInit ==
  /\ settingsFile = DefaultSettings
  /\ uploads = {} /\ brandFile = FALSE
  /\ process = [p \in Processes |-> FreeProcess]

(* _load: an empty or missing file gives the defaults.                       *)
Load == IF settingsFile = Unset THEN DefaultSettings ELSE settingsFile

(* The uploaded file is on disk before the settings are loaded.              *)
SaveUpload(p, file) ==
  /\ process[p].at = "free"
  /\ uploads' = uploads \union {file}
  /\ process' = [process EXCEPT ![p] = [FreeProcess EXCEPT !.at = "load", !.op = "upload", !.file = file]]
  /\ UNCHANGED <<settingsFile, brandFile>>

UploadedBeside(s, file) == [s EXCEPT !.filename = file]
Uploaded(s, file) == [s EXCEPT !.filename = file, !.override = FALSE]

(* upload_logo: what the file was is kept for its deletion.                   *)
LoadForUpload(p) ==
  /\ process[p].at = "load"
  /\ process' = [process EXCEPT ![p].at = "truncate", ![p].s = Uploaded(Load, process[p].file),
                                ![p].file = IF Load.filename = process[p].file THEN Unset
                                            ELSE Load.filename]
  /\ UNCHANGED <<settingsFile, uploads, brandFile>>

(* update_portal_settings: the override replaces the file, which goes at once, *)
(* or is cleared; an invalid address further down ends it before the save.    *)
Patch(p) ==
  /\ process[p].at = "free"
  /\ \/ /\ uploads' = uploads \ {Load.filename}
        /\ brandFile' \in {TRUE, brandFile}     \* a download that fails keeps the old copy
        /\ \/ UNCHANGED process
           \/ process' = [process EXCEPT ![p] =
                [FreeProcess EXCEPT !.at = "truncate", !.op = "patch",
                             !.s = [override |-> TRUE, filename |-> Unset]]]
     \/ /\ brandFile' = FALSE
        /\ \/ UNCHANGED process
           \/ process' = [process EXCEPT ![p] =
                [FreeProcess EXCEPT !.at = "truncate", !.op = "patch",
                             !.s = [Load EXCEPT !.override = FALSE]]]
        /\ UNCHANGED uploads
  /\ UNCHANGED settingsFile

(* delete_logo leaves the published copy and the override.                    *)
DeleteLogo(p) ==
  /\ process[p].at = "free"
  /\ uploads' = uploads \ {Load.filename}
  /\ process' = [process EXCEPT ![p] = [FreeProcess EXCEPT !.at = "truncate", !.op = "delete",
                                         !.s = [Load EXCEPT !.filename = Unset]]]
  /\ UNCHANGED <<settingsFile, brandFile>>

(* _save.                                                                    *)
Truncate(p) ==
  /\ process[p].at = "truncate"
  /\ settingsFile' = Unset
  /\ process' = [process EXCEPT ![p].at = "write"]
  /\ UNCHANGED <<uploads, brandFile>>

Write(p) ==
  /\ process[p].at = "write"
  /\ settingsFile' = process[p].s
  /\ process' = [process EXCEPT ![p] = IF process[p].op = "upload"
                                       THEN [process[p] EXCEPT !.at = "publish"] ELSE FreeProcess]
  /\ UNCHANGED <<uploads, brandFile>>

(* The old file is deleted; the new one, unless another process took it away   *)
(* meanwhile, is published.                                                   *)
Publish(p) ==
  /\ process[p].at = "publish"
  /\ uploads' = uploads \ {process[p].file}
  /\ brandFile' = (brandFile \/ process[p].s.filename \in uploads')
  /\ process' = [process EXCEPT ![p] = FreeProcess]
  /\ UNCHANGED settingsFile

PortalNext ==
  \E p \in Processes :
    \/ \E file \in Files : SaveUpload(p, file)
    \/ LoadForUpload(p) \/ Patch(p) \/ DeleteLogo(p) \/ Truncate(p) \/ Write(p) \/ Publish(p)

PortalSpec == PortalInit /\ [][PortalNext]_portalVars

-------------------------------------------------------------------------------
PortalTypeOK ==
  /\ settingsFile \in PortalRecord \union {Unset}
  /\ uploads \subseteq Files /\ brandFile \in BOOLEAN
  /\ process \in [Processes -> [at : {"free", "load", "truncate", "write", "publish"},
                                op : {"none", "upload", "patch", "delete"},
                                s : PortalRecord, file : Files \union {Unset}]]

(* An uploaded file and an external address are never both configured for a   *)
(* slot, in whatever order processes save over each other.                   *)
OneLogoSource ==
  settingsFile # Unset => ~(settingsFile.override /\ settingsFile.filename # Unset)
-------------------------------------------------------------------------------
(* Themes.  cc_themes has one row per theme and its name is unique.            *)
themeVars == <<themes, drawn, themeTask, crossed>>

ThemeRow == [name : ThemeNames, active : BOOLEAN, builtin : BOOLEAN]
NoThemeTask == [at |-> "free", id |-> 0, name |-> "Default"]

ThemeInit ==
  /\ themes = << >> /\ drawn = 0 /\ crossed = FALSE
  /\ themeTask = [p \in Processes |-> NoThemeTask]

ActiveThemes == {i \in DOMAIN themes : themes[i].active}
BuiltinThemes == {i \in DOMAIN themes : themes[i].builtin}
Named(name) == {i \in DOMAIN themes : themes[i].name = name}

(* An INSERT: the unique key refuses a name that is taken.                    *)
InsertTheme(name, active, builtin) ==
  /\ Named(name) = {} /\ drawn < MaxThemes
  /\ drawn' = drawn + 1
  /\ themes' = [i \in DOMAIN themes \union {drawn + 1} |->
                 IF i = drawn + 1 THEN [name |-> name, active |-> active, builtin |-> builtin]
                 ELSE themes[i]]

Check(p, at, id, name) ==
  /\ themeTask[p] = NoThemeTask
  /\ themeTask' = [themeTask EXCEPT ![p] = [at |-> at, id |-> id, name |-> name]]
  /\ UNCHANGED <<themes, drawn, crossed>>

ThemeEnds(p) == themeTask' = [themeTask EXCEPT ![p] = NoThemeTask]

(* _ensure_table, on the first request of a process: both may count no row.   *)
CountThemes(p) == DOMAIN themes = {} /\ Check(p, "seed", 0, "Default")

SeedDefault(p) ==
  /\ themeTask[p].at = "seed" /\ ThemeEnds(p)
  /\ InsertTheme("Default", TRUE, TRUE)
  /\ UNCHANGED crossed

(* Every other handler runs once the table is there and seeded.                *)
CreateTheme(p, name) ==
  /\ themeTask[p] = NoThemeTask /\ DOMAIN themes # {}
  /\ InsertTheme(name, FALSE, FALSE)
  /\ UNCHANGED <<themeTask, crossed>>

(* update_theme: without a name in the body the one read is written back.      *)
CheckRename(p, i, name) ==
  /\ themes[i].builtin => name = themes[i].name
  /\ Check(p, "rename", i, name)

RenameTheme(p) ==
  LET id == themeTask[p].id  name == themeTask[p].name IN
  /\ themeTask[p].at = "rename" /\ ThemeEnds(p)
  /\ Named(name) \subseteq {id}
  /\ themes' = [i \in DOMAIN themes |-> IF i = id THEN [themes[i] EXCEPT !.name = name]
                                        ELSE themes[i]]
  /\ UNCHANGED <<drawn, crossed>>

CheckDelete(p, i) ==
  /\ ~themes[i].builtin /\ ~themes[i].active
  /\ Check(p, "delete", i, themes[i].name)

(* The DELETE names the id alone: the theme may have become the active one.    *)
DeleteTheme(p) ==
  LET id == themeTask[p].id IN
  /\ themeTask[p].at = "delete" /\ ThemeEnds(p)
  /\ themes' = [i \in DOMAIN themes \ {id} |-> themes[i]]
  /\ crossed' = (crossed \/ id \in ActiveThemes)
  /\ UNCHANGED drawn

CheckActivate(p, i) == Check(p, "activate", i, themes[i].name)

ActivatedBeside(id) == [i \in DOMAIN themes |-> [themes[i] EXCEPT !.active = @ \/ i = id]]
Activated(id) == [i \in DOMAIN themes |-> [themes[i] EXCEPT !.active = (i = id)]]

(* All rows are switched off, then the one of this id is switched on, if it     *)
(* is still there.                                                            *)
ActivateTheme(p) ==
  /\ themeTask[p].at = "activate" /\ ThemeEnds(p)
  /\ themes' = Activated(themeTask[p].id)
  /\ crossed' = (crossed \/ themeTask[p].id \notin DOMAIN themes)
  /\ UNCHANGED drawn

(* import_theme: replacing the variables of an existing theme changes nothing  *)
(* of what is kept here.                                                      *)
CheckImport(p, name) == DOMAIN themes # {} /\ Named(name) = {} /\ Check(p, "import", 0, name)

ImportTheme(p) ==
  /\ themeTask[p].at = "import" /\ ThemeEnds(p)
  /\ InsertTheme(themeTask[p].name, FALSE, FALSE)
  /\ UNCHANGED crossed

(* The name was taken meanwhile, or the connection was lost.                   *)
ThemeFails(p) ==
  /\ themeTask[p] # NoThemeTask /\ ThemeEnds(p)
  /\ UNCHANGED <<themes, drawn, crossed>>

ThemeNext ==
  \E p \in Processes :
    \/ CountThemes(p) \/ SeedDefault(p) \/ RenameTheme(p) \/ DeleteTheme(p)
    \/ ActivateTheme(p) \/ ImportTheme(p) \/ ThemeFails(p)
    \/ \E name \in ThemeNames : CreateTheme(p, name) \/ CheckImport(p, name)
    \/ \E i \in DOMAIN themes :
         \/ CheckDelete(p, i) \/ CheckActivate(p, i)
         \/ \E name \in ThemeNames : CheckRename(p, i, name)

ThemeSpec == ThemeInit /\ [][ThemeNext]_themeVars

-------------------------------------------------------------------------------
ThemeTypeOK ==
  /\ drawn \in 0..MaxThemes /\ DOMAIN themes \subseteq 1..drawn
  /\ \A i \in DOMAIN themes : themes[i] \in ThemeRow
  /\ crossed \in BOOLEAN
  /\ themeTask \in [Processes -> [at : {"free", "seed", "rename", "delete", "activate", "import"},
                                  id : 0..MaxThemes, name : ThemeNames]]

(* However requests cross, two themes are never active at once, two never have *)
(* the same name, and a table once seeded keeps its built-in theme under its   *)
(* name; one theme is active unless a deletion or an activation went through   *)
(* on a row that no longer was what it had checked.                            *)
OneThemeActive ==
  /\ Cardinality(ActiveThemes) <= 1
  /\ drawn > 0 =>
       /\ {themes[i].name : i \in BuiltinThemes} = {"Default"}
       /\ Cardinality(BuiltinThemes) = 1
       /\ crossed \/ ActiveThemes # {}
===============================================================================
