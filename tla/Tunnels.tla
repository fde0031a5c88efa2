-------------------------------- MODULE Tunnels --------------------------------
(* One WireGuard interface: its configuration file, which the peer handlers read, *)
(* change and write back whole, and the interface that wg-quick sets up from the *)
(* file, with the forwarding rules the file's PostUp and PostDown name.          *)
EXTENDS Naturals, Sequences, SequencesExt

CONSTANTS
  Handlers,    \* processes that may run a handler
  Keys,        \* public keys of peers
  MaxPeers,    \* bound on the peers of the file
  NoFile

ASSUME TunnelsAssumption ==
  MaxPeers \in Nat /\ NoFile \notin [peers : SeqOf(Keys, MaxPeers), nat : BOOLEAN]

VARIABLES
  conf,      \* [peers, nat] or NoFile
  up,        \* the interface runs
  rules,     \* the forwarding rules are in place
  edit,      \* handler -> what it is about to write, or NoFile
  mishaps    \* what happened that wg-quick or the console does not undo

tunnelVars == <<conf, up, rules, edit, mishaps>>

Confs == [peers : SeqOf(Keys, MaxPeers), nat : BOOLEAN]

TunnelsInit ==
  /\ conf = NoFile /\ up = FALSE /\ rules = FALSE
  /\ edit = [h \in Handlers |-> NoFile]
  /\ mishaps = {}

(* Handlers that change the peers.                                              *)
WritesPeers(h, peers) ==
  /\ edit' = [edit EXCEPT ![h] = [conf EXCEPT !.peers = peers]]
  /\ UNCHANGED <<conf, up, rules, mishaps>>

AddPeer(h, k) ==
  /\ edit[h] = NoFile /\ conf # NoFile
  /\ Len(conf.peers) < MaxPeers
  /\ k \notin ToSet(conf.peers)
  /\ WritesPeers(h, Append(conf.peers, k))

(* The key may be another peer's.                                              *)
UpdatePeer(h, i, k) ==
  /\ edit[h] = NoFile /\ conf # NoFile
  /\ i \in DOMAIN conf.peers
  /\ WritesPeers(h, [conf.peers EXCEPT ![i] = k])

RemovePeer(h, i) ==
  /\ edit[h] = NoFile /\ conf # NoFile
  /\ i \in DOMAIN conf.peers
  /\ WritesPeers(h, RemoveAt(conf.peers, i))

(* The forwarding rules come and go with the interface unless the file that says *)
(* so changes in between.                                                       *)
Rewritten(new) ==
  IF up /\ conf # NoFile /\ new # NoFile /\ new.nat # conf.nat THEN {"edited"} ELSE {}

(* The file is made again if it was deleted meanwhile.                           *)
WriteConf(h) ==
  /\ edit[h] # NoFile
  /\ \/ conf' = edit[h] /\ mishaps' = mishaps \union Rewritten(edit[h])
     \/ UNCHANGED <<conf, mishaps>>                            \* sudo cp fails
  /\ edit' = [edit EXCEPT ![h] = NoFile]
  /\ UNCHANGED <<up, rules>>

SaveRaw(new) ==
  /\ conf' = new /\ mishaps' = mishaps \union Rewritten(new)
  /\ UNCHANGED <<up, rules, edit>>

(* The interface: wg-quick needs the file for both directions.                  *)
CanStart == conf # NoFile /\ ~up
CanStop == conf # NoFile /\ up

WgUp ==
  /\ CanStart
  /\ up' = TRUE /\ rules' = (rules \/ conf.nat)
  /\ UNCHANGED <<conf, edit, mishaps>>

WgDown ==
  /\ CanStop
  /\ up' = FALSE /\ rules' = (rules /\ ~conf.nat)
  /\ UNCHANGED <<conf, edit, mishaps>>

(* Down, which may find nothing to stop, and up again.                          *)
WgReload ==
  /\ conf # NoFile
  /\ up' = TRUE /\ rules' = (rules \/ conf.nat)
  /\ UNCHANGED <<conf, edit, mishaps>>

CreateInterface(nat, autoUp) ==
  /\ conf = NoFile
  /\ conf' = [peers |-> <<>>, nat |-> nat]
  /\ IF autoUp /\ ~up THEN up' = TRUE /\ rules' = (rules \/ nat) ELSE UNCHANGED <<up, rules>>
  /\ UNCHANGED <<edit, mishaps>>

(* The outcome of wg-quick down is not looked at.                               *)
LeftUp == {[up |-> up, rules |-> rules, mishap |-> {}]}
TakenDown ==
  IF up THEN {[up |-> FALSE, rules |-> rules /\ ~conf.nat, mishap |-> {}],
              [up |-> TRUE, rules |-> rules, mishap |-> {"stuck"}]}
  ELSE {[up |-> FALSE, rules |-> rules, mishap |-> {}]}

DeleteInterface ==
  /\ conf # NoFile
  /\ \E r \in TakenDown :
       up' = r.up /\ rules' = r.rules /\ mishaps' = mishaps \union r.mishap
  /\ conf' = NoFile
  /\ UNCHANGED edit

TunnelsNext ==
  \/ \E h \in Handlers :
       \/ WriteConf(h)
       \/ \E k \in Keys : AddPeer(h, k) \/ \E i \in 1 .. MaxPeers : UpdatePeer(h, i, k)
       \/ \E i \in 1 .. MaxPeers : RemovePeer(h, i)
  \/ \E new \in Confs : SaveRaw(new)
  \/ \E nat, autoUp \in BOOLEAN : CreateInterface(nat, autoUp)
  \/ WgUp \/ WgDown \/ WgReload \/ DeleteInterface

TunnelsSpec == TunnelsInit /\ [][TunnelsNext]_tunnelVars

-------------------------------------------------------------------------------
TunnelsTypeOK ==
  /\ conf \in Confs \union {NoFile}
  /\ up \in BOOLEAN /\ rules \in BOOLEAN
  /\ edit \in [Handlers -> Confs \union {NoFile}]
  /\ mishaps \subseteq {"edited", "stuck"}

(* While nobody edits NAT into or out of the file of a running interface and     *)
(* taking it down never fails, an interface that runs has a file to stop it by,  *)
(* and no forwarding rule outlives the interface it was made for.              *)
NothingLeftRunning == mishaps = {} => (up => conf # NoFile) /\ (rules => up)
===============================================================================
