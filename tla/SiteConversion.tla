---------------------------- MODULE SiteConversion -----------------------------
(* The converter of WordPress sites: media are copied into Frappe and their new *)
(* addresses kept in a file; an execution then creates the categories and the   *)
(* posts of a plan that are not there yet, one script for each, and counts what *)
(* the scripts print.  A script that times out or dies may have committed.      *)
EXTENDS Naturals, FiniteSets

CONSTANTS
  Importers,    \* processes that run a handler of the converter
  Categories,
  Posts,
  CategoryOf,   \* post -> its first category
  Media,
  ShownIn,      \* post -> the picture in its text
  NameOf,       \* picture -> the name of its file
  Imported,     \* the category created when there is none
  Old           \* an address on the old site

ASSUME ConversionAssumption ==
  /\ Imported \notin Categories
  /\ Old \notin Media
  /\ {"rest", "media", "next"} \intersect (Categories \union Posts) = {}
  /\ Categories \intersect Posts = {}
  /\ CategoryOf \in [Posts -> Categories]
  /\ ShownIn \in [Posts -> Media]
  /\ DOMAIN NameOf = Media

VARIABLES
  blog,      \* [categories, posts]: what Frappe holds
  files,     \* pictures in Frappe
  mapping,   \* picture -> the picture at its new address, as in the file under /tmp
  importer   \* importer -> the handler it runs, and the items whose script failed on it
convVars == <<blog, files, mapping, importer>>

Items == Categories \union Posts
NoMap == [m \in Media |-> Old]
AtRest == [op |-> "rest", todo |-> {}, found |-> FALSE, bad |-> FALSE,
           missed |-> {}, silent |-> {}, map |-> NoMap]

Has(item) == item \in blog.categories \/ \E d \in blog.posts : d.post = item

ConvInit ==
  /\ blog = [categories |-> {}, posts |-> {}]
  /\ files = {} /\ mapping = NoMap
  /\ importer = [i \in Importers |-> AtRest]

-------------------------------------------------------------------------------
(* The copy of the media.                                                      *)
MigrateMedia(i) ==
  /\ importer[i] = AtRest
  /\ importer' = [importer EXCEPT ![i] = [AtRest EXCEPT !.op = "media", !.todo = Media]]
  /\ UNCHANGED <<blog, files, mapping>>

(* A file of that name is taken for the picture; a failed download or upload    *)
(* leaves no address, even if the file was stored.                              *)
Upload(i, m) ==
  /\ importer[i].op = "media" /\ m \in importer[i].todo
  /\ LET there == {f \in files : NameOf[f] = NameOf[m]}
     IN  \/ /\ files' = IF there = {} THEN files \union {m} ELSE files
            /\ \E f \in IF there = {} THEN {m} ELSE there :
                 importer' = [importer EXCEPT ![i].todo = @ \ {m}, ![i].map[m] = f]
         \/ /\ files' \in {files, IF there = {} THEN files \union {m} ELSE files}
            /\ importer' = [importer EXCEPT ![i].todo = @ \ {m}]
  /\ UNCHANGED <<blog, mapping>>

(* The file is replaced by what this run found, less than before if some failed. *)
SaveMapping(i) ==
  /\ importer[i].op = "media" /\ importer[i].todo = {}
  /\ mapping' = importer[i].map
  /\ importer' = [importer EXCEPT ![i] = AtRest]
  /\ UNCHANGED <<blog, files>>

-------------------------------------------------------------------------------
(* The execution of the plan.                                                  *)
ExecuteMigration(i) ==
  /\ importer[i] = AtRest
  /\ importer' = [importer EXCEPT ![i] = [AtRest EXCEPT !.op = "next", !.todo = Items,
                                                        !.map = mapping]]
  /\ UNCHANGED <<blog, files, mapping>>

(* The steps of a plan come in order: the categories first.                    *)
MayImportPostsFirst(todo) == todo
MayImport(todo) == IF todo \intersect Categories # {} THEN todo \intersect Categories ELSE todo

(* The script looks for the title.                                             *)
LookUp(i, item) ==
  /\ importer[i].op = "next" /\ item \in MayImport(importer[i].todo)
  /\ importer' = [importer EXCEPT ![i].op = item, ![i].found = Has(item)]
  /\ UNCHANGED <<blog, files, mapping>>

Post(p, c, map) == [post |-> p, category |-> c, shows |-> map[ShownIn[p]]]

(* The category of the post if it is there, else any, else a new one.           *)
FiledUnder(p) ==
  IF CategoryOf[p] \in blog.categories THEN {CategoryOf[p]}
  ELSE IF blog.categories # {} THEN blog.categories ELSE {Imported}

Created(item, map) ==
  IF item \in Categories
  THEN {[blog EXCEPT !.categories = @ \union {item}]}
  ELSE {[categories |-> blog.categories \union {c},
         posts |-> blog.posts \union {Post(item, c, map)}] : c \in FiledUnder(item)}

NextItem(i, missed, silent, bad) ==
  importer' = [importer EXCEPT ![i].op = "next", ![i].todo = @ \ {importer[i].op},
                               ![i].found = FALSE, ![i].bad = @ \/ bad,
                               ![i].missed = @ \union missed, ![i].silent = @ \union silent]

(* It prints what it found or made.                                            *)
Prints(i) ==
  /\ importer[i].op \in Items
  /\ IF importer[i].found THEN UNCHANGED blog
     ELSE blog' \in Created(importer[i].op, importer[i].map)
  /\ NextItem(i, {}, {}, FALSE)
  /\ UNCHANGED <<files, mapping>>

NeverCounted(printed) == FALSE

(* It exits with an error or runs out of time, before or after its commit, and   *)
(* is counted if there is a line of output to read.                            *)
Counted(printed) == printed

ScriptFails(i) ==
  /\ importer[i].op \in Items
  /\ \/ UNCHANGED blog
     \/ ~importer[i].found /\ blog' \in Created(importer[i].op, importer[i].map)
  /\ \E printed \in BOOLEAN :
       NextItem(i, {importer[i].op}, IF printed THEN {} ELSE {importer[i].op}, Counted(printed))
  /\ UNCHANGED <<files, mapping>>

(* ok unless a failure was counted.                                            *)
ReportExecution(i) ==
  /\ importer[i].op = "next" /\ importer[i].todo = {}
  /\ importer' = [importer EXCEPT ![i] = AtRest]
  /\ UNCHANGED <<blog, files, mapping>>

ConvNext ==
  \E i \in Importers :
    \/ MigrateMedia(i) \/ (\E m \in Media : Upload(i, m)) \/ SaveMapping(i)
    \/ ExecuteMigration(i) \/ (\E item \in Items : LookUp(i, item))
    \/ Prints(i) \/ ScriptFails(i) \/ ReportExecution(i)

ConvSpec == ConvInit /\ [][ConvNext]_convVars

-------------------------------------------------------------------------------
ConvTypeOK ==
  /\ blog \in [categories : SUBSET (Categories \union {Imported}),
               posts : SUBSET [post : Posts, category : Categories \union {Imported},
                               shows : Media \union {Old}]]
  /\ files \subseteq Media
  /\ mapping \in [Media -> Media \union {Old}]
  /\ importer \in [Importers ->
       [op : {"rest", "media", "next"} \union Items, todo : SUBSET (Items \union Media),
        found : BOOLEAN, bad : BOOLEAN, missed : SUBSET Items, silent : SUBSET Items,
        map : [Media -> Media \union {Old}]]]

(* An execution that reports success leaves every item of its plan in Frappe,   *)
(* except one whose script died on it without a word; and a post comes to stand *)
(* under another category than its own only when the script of that category   *)
(* failed in the execution that imports the post.                              *)
ReportedIsImported ==
  [][/\ \A i \in Importers :
          importer[i].op = "next" /\ importer'[i] = AtRest /\ ~importer[i].bad =>
            \A item \in Items \ importer[i].silent : Has(item)
     /\ \A d \in blog'.posts \ blog.posts :
          d.category # CategoryOf[d.post] =>
            \E i \in Importers : importer[i].op = d.post /\ CategoryOf[d.post] \in importer[i].missed
    ]_convVars

-------------------------------------------------------------------------------
(* The way of a site into Frappe, one request of the administrator after another:  *)
(* discover, analyse, plan, stage, copy the media, import, validate.  What a step    *)
(* found is handed to the next by the browser, while the old site goes on, a script   *)
(* says nothing, and the file of the addresses is that of any earlier copy.         *)

CONSTANTS
  Articles,     \* posts of the old site
  Pictures,
  Cap           \* how many pictures an analysis lists

ASSUME PlanAssumption == Cap \in Nat \ {0}

VARIABLES
  oldSite,      \* [cms, posts, media]
  analysis,     \* [cms, posts, media], as it was counted and listed
  steps,        \* doctypes of the plan -> how many records it expects
  addresses,    \* pictures with a new address in the file
  target,       \* article -> absent, or whether its picture is shown at the new address
  reply         \* what the last request but an analysis or a copy was told

planVars == <<oldSite, analysis, steps, addresses, target, reply>>

Systems == {"wordpress", "joomla", "other"}
NoAnalysis == [cms |-> "none", posts |-> {}, media |-> {}]
Says(of, ok) == [of |-> of, ok |-> ok, missing |-> FALSE, broken |-> FALSE]

PlanInit ==
  /\ oldSite \in [cms : Systems, posts : {{}}, media : {{}}]
  /\ analysis = NoAnalysis /\ steps = <<>> /\ addresses = {}
  /\ target = [x \in Articles |-> "absent"]
  /\ reply = Says("nothing", FALSE)

-------------------------------------------------------------------------------
(* Authors add posts and add or remove pictures.                                  *)
OldSiteChanges ==
  /\ oldSite.cms # "other"
  /\ \/ \E x \in Articles \ oldSite.posts : oldSite' = [oldSite EXCEPT !.posts = @ \union {x}]
     \/ \E p \in Pictures : oldSite' = [oldSite EXCEPT !.media =
                                          IF p \in @ THEN @ \ {p} ELSE @ \union {p}]
  /\ UNCHANGED <<analysis, steps, addresses, target, reply>>

(* discover_site tries WordPress first, by its API and its pages, then Joomla; a     *)
(* probe that fails says no; a page that only mentions a system says yes, and so does  *)
(* a site that forbids the path of Joomla's API.                                    *)
Detected(wordpress, joomla) ==
  IF wordpress THEN "wordpress" ELSE IF joomla THEN "joomla" ELSE "unknown"

DiscoverSite ==
  /\ \E wordpress, joomla \in BOOLEAN :
       reply' = Says(Detected(wordpress, joomla), TRUE)
  /\ UNCHANGED <<oldSite, analysis, steps, addresses, target>>

(* What an answer lists of the pictures.                                           *)
Listed(media) == {s \in SUBSET media : Cardinality(s) <= Cap}

(* _paginate_wp stops at the first page it does not get; the pictures are counted      *)
(* and then cut to the first few.                                                 *)
AnalyseWordpress ==
  /\ oldSite.cms = "wordpress"
  /\ \E posts \in SUBSET oldSite.posts, media \in Listed(oldSite.media) :
       analysis' = [cms |-> "wordpress", posts |-> posts, media |-> media]
  /\ UNCHANGED <<oldSite, steps, addresses, target, reply>>

(* The first hundred articles, and no pictures.                                     *)
AnalyseJoomla ==
  /\ oldSite.cms = "joomla"
  /\ \E posts \in {oldSite.posts, {}} : analysis' = [cms |-> "joomla", posts |-> posts, media |-> {}]
  /\ UNCHANGED <<oldSite, steps, addresses, target, reply>>

(* _build_plan: a step for what there is any of.                                    *)
BuildPlan ==
  /\ steps' = [dt \in IF analysis.posts = {} THEN {} ELSE {"Blog Post"} |-> Cardinality(analysis.posts)]
  /\ UNCHANGED <<oldSite, analysis, addresses, target, reply>>

(* A script that prints neither line leaves no check, and no check is none failed.   *)
StageMigration ==
  /\ \E checks \in SUBSET [available : BOOLEAN] :
       /\ Cardinality(checks) <= Cardinality(DOMAIN steps)
       /\ reply' = Says("stage", \A c \in checks : c.available)
  /\ UNCHANGED <<oldSite, analysis, steps, addresses, target>>

-------------------------------------------------------------------------------
(* The file holds what the last copy got of the whole library; the import shows a    *)
(* new post's picture by it, and skips a post that is there.                        *)
CopyMedia ==
  /\ \E got \in SUBSET oldSite.media : addresses' = got
  /\ UNCHANGED <<oldSite, analysis, steps, target, reply>>

ImportPosts ==
  /\ DOMAIN steps # {}
  /\ \E done \in SUBSET {x \in analysis.posts : target[x] = "absent"}, shown \in {"old", "new"} :
       /\ done # {} /\ shown = "new" => addresses # {}
       /\ target' = [x \in Articles |-> IF x \in done THEN shown ELSE target[x]]
  /\ UNCHANGED <<oldSite, analysis, steps, addresses, reply>>

-------------------------------------------------------------------------------
UnlistedByCount(listed, had) == IF Cardinality(had) < Cardinality(listed) THEN listed \ had ELSE {}

(* Each listed picture is looked for, besides their number.                          *)
Unlisted(listed, had) == listed \ had

(* validate_migration: too few records are a warning; an old address in a text, or a    *)
(* picture without a new one, is not ok.  A script without output is passed over.    *)
ValidateMigration ==
  LET stale == \E x \in Articles : target[x] = "old" IN
  /\ \E scanned \in BOOLEAN :
       reply' = [of |-> "validate",
                 ok |-> ~(scanned /\ stale) /\ Unlisted(analysis.media, addresses) = {},
                 missing |-> ~(analysis.media \subseteq addresses), broken |-> scanned /\ stale]
  /\ UNCHANGED <<oldSite, analysis, steps, addresses, target>>

PlanNext ==
  \/ OldSiteChanges \/ DiscoverSite \/ AnalyseWordpress \/ AnalyseJoomla
  \/ BuildPlan \/ StageMigration \/ CopyMedia \/ ImportPosts \/ ValidateMigration

PlanSpec == PlanInit /\ [][PlanNext]_planVars

-------------------------------------------------------------------------------
PlanTypeOK ==
  /\ reply.of \in {"nothing", "wordpress", "joomla", "unknown", "stage", "validate"}
  /\ analysis.posts \subseteq Articles /\ analysis.media \subseteq Pictures
  /\ DOMAIN steps \subseteq {"Blog Post"}
  /\ addresses \subseteq Pictures /\ target \in [Articles -> {"absent", "old", "new"}]

(* A conversion found in order has an address for every picture that its analysis      *)
(* listed, though the file may be that of another copy with as many pictures, and      *)
(* no old address was seen in its texts.                                           *)
ValidMeansComplete == reply.of = "validate" /\ reply.ok => ~reply.missing /\ ~reply.broken
===============================================================================
