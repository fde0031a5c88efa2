---------------------------- MODULE RoutingDesigner ----------------------------
(* The routes of a site: the canvas that saves them, several at once, and the   *)
(* validation, a depth-first search that reports the cycles a call could run    *)
(* around in.                                                                   *)
EXTENDS Naturals, FiniteSets, Sequences, SequencesExt

CONSTANTS
  Canvases,   \* saves in progress at once
  RouteNodes, \* numbers, menus, extensions: what routes connect
  Payloads    \* what is drawn or rubbed out between two saves of a canvas

ASSUME RoutingAssumption ==
  IsFiniteSet(RouteNodes) /\ Payloads \subseteq SUBSET (RouteNodes \X RouteNodes)

VARIABLES
  routes,    \* the committed edges of the site
  canvas,    \* canvas -> the edges it shows, those its save saw and those it inserts
  search     \* validate_routing: its adjacency, colours, stack and what it found

routingVars == <<routes, canvas, search>>

Edges == RouteNodes \X RouteNodes
NoSave == [at |-> "idle", shows |-> {}, saw |-> {}, inserts |-> {}]
NoSearch == [at |-> "idle", edges |-> {}, todo |-> {}, colour |-> [n \in RouteNodes |-> "white"],
             path |-> <<>>, cycles |-> {}]

RoutingInit ==
  /\ routes = {}
  /\ canvas = [c \in Canvases |-> NoSave]
  /\ search = NoSearch

(* get_routing_graph: the canvas shows what one snapshot has.  The nodes, their       *)
(* labels and positions are left out.                                           *)
OpenGraph(c) ==
  /\ canvas[c].at = "idle" /\ search.at = "idle"
  /\ canvas' = [canvas EXCEPT ![c] = [NoSave EXCEPT !.at = "open", !.shows = routes]]
  /\ UNCHANGED <<routes, search>>

(* save_routing_graph gets all the canvas shows by then.  With replace_edges the      *)
(* edges it sees are deleted and all of its own inserted, else only those it does   *)
(* not see are.                                                                 *)
Redrawn(shows, change) == (shows \ change) \union (change \ shows)

ReadGraph(c) ==
  /\ canvas[c].at = "open"
  /\ \E change \in Payloads, replace \in BOOLEAN :
       LET edges == Redrawn(canvas[c].shows, change) IN
       canvas' = [canvas EXCEPT ![c] =
         [at |-> "commit", shows |-> {}, saw |-> IF replace THEN routes ELSE {},
          inserts |-> IF replace THEN edges ELSE edges \ routes]]
  /\ UNCHANGED <<routes, search>>

CommitGraph(c) ==
  /\ canvas[c].at = "commit"
  /\ routes' = (routes \ canvas[c].saw) \union canvas[c].inserts
  /\ canvas' = [canvas EXCEPT ![c] = NoSave]
  /\ UNCHANGED search

(* Two canvases with a new position for the same node: the second is refused.  *)
SaveFails(c) ==
  /\ canvas[c].at = "commit"
  /\ canvas' = [canvas EXCEPT ![c] = NoSave]
  /\ UNCHANGED <<routes, search>>

-------------------------------------------------------------------------------
(* validate_routing: visit(n) on every white source; a frame of the path keeps  *)
(* the neighbours it has yet to try.  A search works on what it read, so that   *)
(* no save needs to be under way with it.                                      *)
StartSearch ==
  /\ search.at = "idle"
  /\ \A c \in Canvases : canvas[c].at = "idle"
  /\ search' = [NoSearch EXCEPT !.at = "sources", !.edges = routes,
                                !.todo = {e[1] : e \in routes}]
  /\ UNCHANGED <<routes, canvas>>

Neighbours(n) == {e[2] : e \in {x \in search.edges : x[1] = n}}

OnPath(n) == \E i \in DOMAIN search.path : search.path[i].node = n

Enter(s, n) ==
  [s EXCEPT !.colour[n] = "gray", !.path = Append(@, [node |-> n, left |-> Neighbours(n)])]

NextSource ==
  /\ search.at = "sources" /\ search.path = <<>>
  /\ \E n \in search.todo :
       search' = IF search.colour[n] = "white"
                 THEN Enter([search EXCEPT !.todo = @ \ {n}], n)
                 ELSE [search EXCEPT !.todo = @ \ {n}]
  /\ UNCHANGED <<routes, canvas>>

(* A gray neighbour closes a cycle, a black one is done with.                   *)
VisitNeighbour ==
  /\ search.path # <<>>
  /\ \E n \in Last(search.path).left :
       LET s == [search EXCEPT !.path[Len(search.path)].left = @ \ {n}] IN
       search' = CASE s.colour[n] = "gray" -> [s EXCEPT !.cycles = @ \union {n}]
                   [] s.colour[n] = "black" -> s
                   [] OTHER -> Enter(s, n)
  /\ UNCHANGED <<routes, canvas>>

LeaveGray(s, n) == [s EXCEPT !.path = Front(@)]
Leave(s, n) == [s EXCEPT !.path = Front(@), !.colour[n] = "black"]

LeaveNode ==
  /\ search.path # <<>> /\ Last(search.path).left = {}
  /\ search' = Leave(search, Last(search.path).node)
  /\ UNCHANGED <<routes, canvas>>

AnswerSearch ==
  /\ search.at = "sources" /\ search.todo = {} /\ search.path = <<>>
  /\ search' = [search EXCEPT !.at = "answer"]
  /\ UNCHANGED <<routes, canvas>>

ForgetSearch ==
  /\ search.at = "answer"
  /\ search' = NoSearch
  /\ UNCHANGED <<routes, canvas>>

RoutingNext ==
  \/ \E c \in Canvases : OpenGraph(c) \/ ReadGraph(c) \/ CommitGraph(c) \/ SaveFails(c)
  \/ StartSearch \/ NextSource \/ VisitNeighbour \/ LeaveNode \/ AnswerSearch \/ ForgetSearch

RoutingSpec == RoutingInit /\ [][RoutingNext]_routingVars

-------------------------------------------------------------------------------
RoutingTypeOK ==
  /\ routes \subseteq Edges
  /\ canvas \in [Canvases -> [at : {"idle", "open", "commit"}, shows : SUBSET Edges,
                            saw : SUBSET Edges, inserts : SUBSET Edges]]
  /\ search.at \in {"idle", "sources", "answer"} /\ search.edges \subseteq Edges
  /\ search.colour \in [RouteNodes -> {"white", "gray", "black"}]
  /\ Len(search.path) <= Cardinality(RouteNodes)

(* Some nodes each lead to another of them: as there are finitely many, a path   *)
(* that stays among them comes round.                                           *)
Cyclic(edges) ==
  \E S \in (SUBSET RouteNodes) \ {{}} : \A n \in S : \E m \in S : <<n, m>> \in edges

(* The validation reports a cycle exactly when the routes it read have one: in  *)
(* every order of the rows, with routes that join again and routes that lead    *)
(* nowhere.                                                                     *)
CyclesFound ==
  /\ search.at = "answer" => (search.cycles # {} <=> Cyclic(search.edges))
  /\ \A n \in RouteNodes : search.colour[n] = "gray" => OnPath(n)
===============================================================================
