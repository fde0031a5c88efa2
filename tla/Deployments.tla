------------------------------ MODULE Deployments ------------------------------
(* The updates of the plugin on the WordPress sites, of the backend and of its    *)
(* console: a job copies parts of the source tree one after the other and then    *)
(* restarts the service, whether the copies worked or not.  The source tree may   *)
(* move on at any time.                                                          *)
EXTENDS Naturals, FiniteSets

CONSTANTS
  Jobs,
  WpSites,       \* WordPress sites with the plugin
  MaxSource    \* bound on the versions of the source tree

ASSUME DeploymentsAssumption == MaxSource \in Nat \ {0}

VARIABLES
  source,      \* version of the source tree
  built,       \* version the console was last built from
  deployed,    \* part -> version installed
  running,     \* part -> version the services were started with
  service,     \* "backend", "ui" -> it is active
  job          \* job -> what it does, what is left of it and how it went

deployVars == <<source, built, deployed, running, service, job>>

Parts == [backend |-> {"package", "main"}, ui |-> {"next", "public"}]
AllParts == Parts.backend \union Parts.ui
NoJob == [op |-> "none", todo |-> {}, ok |-> TRUE, at |-> 0, restarted |-> FALSE]

DeployInit ==
  /\ source = 1 /\ built = 1
  /\ deployed = [p \in AllParts \union WpSites |-> 1]
  /\ running = [p \in AllParts |-> 1]
  /\ service = [s \in {"backend", "ui"} |-> TRUE]
  /\ job = [j \in Jobs |-> NoJob]

Commit ==
  /\ source < MaxSource
  /\ source' = source + 1
  /\ UNCHANGED <<built, deployed, running, service, job>>

Start(j, op, todo) ==
  /\ job[j].op = "none"
  /\ job' = [job EXCEPT ![j] = [NoJob EXCEPT !.op = op, !.todo = todo, !.at = source]]

DeployPlugin(j, sites) ==
  /\ Start(j, "plugin", sites)
  /\ UNCHANGED <<source, built, deployed, running, service>>

DeployBackend(j) ==
  /\ Start(j, "backend", Parts.backend)
  /\ UNCHANGED <<source, built, deployed, running, service>>

(* A console is built from the source as it is; a build that fails ends the job   *)
(* before anything is copied.                                                    *)
DeployFrontend(j) ==
  /\ \/ Start(j, "ui", Parts.ui) /\ built' = source
     \/ job[j].op = "none" /\ UNCHANGED <<job, built>>
  /\ UNCHANGED <<source, deployed, running, service>>

Version(part) == IF part = "next" THEN built ELSE source

(* The backend's package goes before main.py and the console's pages before what  *)
(* is public; the sites are served in parallel.                                  *)
Turn(j, part) ==
  /\ part \in job[j].todo
  /\ part = "main" => "package" \notin job[j].todo
  /\ part = "public" => "next" \notin job[j].todo

(* A copy that fails leaves what was there, or part of each, which counts as the *)
(* version it had.                                                              *)
Copy(j, part) ==
  /\ Turn(j, part)
  /\ \/ /\ deployed' = [deployed EXCEPT ![part] = Version(part)]
        /\ job' = [job EXCEPT ![j].todo = @ \ {part}]
     \/ /\ job' = [job EXCEPT ![j].todo = @ \ {part}, ![j].ok = FALSE]
        /\ UNCHANGED deployed
  /\ UNCHANGED <<source, built, running, service>>

MayRestartEarly(j) == job[j].op \in {"backend", "ui"} /\ ~job[j].restarted
MayRestart(j) == MayRestartEarly(j) /\ job[j].todo = {}

Killed(dead) == [j \in Jobs |-> IF j \in dead THEN NoJob ELSE job[j]]

(* A restart gives what is installed, or a service that does not come up.  That of *)
(* the backend may end any job, its own too, for they run in its processes.       *)
Restart(j) ==
  /\ MayRestart(j)
  /\ LET s == job[j].op
     IN  \E dead \in IF s = "backend" THEN SUBSET Jobs ELSE {{}}, fine \in BOOLEAN :
           /\ service' = [service EXCEPT ![s] = fine]
           /\ running' = [p \in AllParts |-> IF fine /\ p \in Parts[s] THEN deployed[p]
                                             ELSE running[p]]
           /\ job' = IF j \in dead THEN Killed(dead)
                     ELSE [Killed(dead) EXCEPT ![j].restarted = TRUE, ![j].ok = @ /\ fine]
  /\ UNCHANGED <<source, built, deployed>>

JobReport(j) ==
  /\ job[j].restarted \/ (job[j].op = "plugin" /\ job[j].todo = {})
  /\ job' = [job EXCEPT ![j] = NoJob]
  /\ UNCHANGED <<source, built, deployed, running, service>>

DeployNext ==
  \/ Commit
  \/ \E j \in Jobs :
       \/ \E sites \in SUBSET WpSites : DeployPlugin(j, sites)
       \/ DeployBackend(j) \/ DeployFrontend(j)
       \/ \E part \in AllParts \union WpSites : Copy(j, part)
       \/ Restart(j) \/ JobReport(j)

DeploySpec == DeployInit /\ [][DeployNext]_deployVars

-------------------------------------------------------------------------------
DeployTypeOK ==
  /\ source \in 1 .. MaxSource /\ built \in 1 .. MaxSource
  /\ deployed \in [AllParts \union WpSites -> 1 .. MaxSource]
  /\ running \in [AllParts -> 1 .. MaxSource]
  /\ service \in [{"backend", "ui"} -> BOOLEAN]
  /\ job \in [Jobs -> [op : {"none", "plugin", "backend", "ui"},
                       todo : SUBSET (AllParts \union WpSites), ok : BOOLEAN,
                       at : 0 .. MaxSource, restarted : BOOLEAN]]

(* A job that is about to report success while the source tree is as it was when  *)
(* it started has every part of its service running at that version, whatever the *)
(* jobs beside it did.                                                           *)
SuccessRunsSource ==
  \A j \in Jobs :
    job[j].restarted /\ job[j].ok /\ job[j].at = source
      => \A p \in Parts[job[j].op] : running[p] = source
===============================================================================
