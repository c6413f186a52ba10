------------------------------ MODULE WakeOnLan -----------------------------
(***************************************************************************)
(* The Wake-on-LAN targets of internal/wol: a list in memory behind a      *)
(* lock, a JSON file that every change rewrites, and the packet that a     *)
(* wake sends.  An address is the device it names and the way it is        *)
(* written; a list is a sequence of targets.                               *)
(***************************************************************************)
EXTENDS Integers, Sequences

CONSTANTS
  Device,   \* the machines that can be woken
  MaxAdded, \* bound on the targets added
  MaxFaults \* bound on writes that fail and restarts

ASSUME WolAssumption == 0 \notin Device /\ MaxAdded \in Nat /\ MaxFaults \in Nat

VARIABLES
  targets,  \* Store.targets: [id, mac]
  file,     \* wol.json: a list, or TornList
  added,    \* the targets added so far; an id is drawn from it
  faults,   \* failing writes and restarts so far
  meant,    \* history: meant[id]: the device the target was added for
  sent      \* history: the last packet: [id, device], or NoPacket

wolVars == <<targets, file, added, faults, meant, sent>>

TornList == <<[id |-> 0, mac |-> [device |-> 0, form |-> "torn"]]>>
NoPacket == [id |-> 0, device |-> 0]

\* The ways an address is written: with colons, dashes or no separator at all
\* it is taken; in three groups with dots it is not, because the dots are made
\* colons first; neither are 64-bit addresses, and addresses that do not exist.
Form == {"colons", "dashes", "plain", "dotted", "long"}

\* parseMac: the device, 0 for an error.
parseMac(mac) == IF mac.form \in {"colons", "dashes", "plain"} THEN mac.device ELSE 0
normaliseMac(mac) == IF parseMac(mac) = 0 THEN mac
                     ELSE [device |-> parseMac(mac), form |-> "colons"]

WolInit == /\ targets = <<>> /\ file = <<>> /\ added = 0 /\ faults = 0
           /\ meant = <<>> /\ sent = NoPacket

\* save: the file is written in place, and a write that fails leaves it torn.
save(list) == \/ file' = list /\ faults' = faults
              \/ faults < MaxFaults /\ faults' = faults + 1 /\ file' = TornList

\* A refused address adds nothing; a failing write is answered with an
\* error, and the target is in the list all the same.
Add(mac) ==
  /\ added < MaxAdded /\ parseMac(mac) # 0
  /\ added' = added + 1
  /\ meant' = Append(meant, mac.device)
  /\ targets' = Append(targets, [id |-> added', mac |-> normaliseMac(mac)])
  /\ save(targets')
  /\ UNCHANGED sent

Without(list, i) == SubSeq(list, 1, i - 1) \o SubSeq(list, i + 1, Len(list))

Delete(i) ==
  /\ i \in 1..Len(targets)
  /\ targets' = Without(targets, i)
  /\ save(targets')
  /\ UNCHANGED <<added, meant, sent>>

wolAddHandler(mac) == Add(mac)
wolDeleteHandler(i) == Delete(i)

\* The packet for the target at a place of the list.
Wake(i) == [id |-> targets[i].id, device |-> parseMac(targets[i].mac)]

wolWakeHandler(i) ==
  /\ i \in 1..Len(targets)
  /\ sent' = Wake(i)
  /\ UNCHANGED <<targets, file, added, faults, meant>>

\* Slip: a file that does not parse is taken for a list.
SlipNewStore ==
  /\ faults < MaxFaults /\ faults' = faults + 1
  /\ targets' = file
  /\ UNCHANGED <<file, added, meant, sent>>

\* NewStore: a file that does not parse gives an empty list, without an error;
\* the next change writes that list over it.
NewStore ==
  /\ faults < MaxFaults /\ faults' = faults + 1
  /\ targets' = IF file = TornList THEN <<>> ELSE file
  /\ UNCHANGED <<file, added, meant, sent>>

WolNext == \/ NewStore
           \/ \E d \in Device, f \in Form : wolAddHandler([device |-> d, form |-> f])
           \/ \E i \in 1..MaxAdded : wolDeleteHandler(i) \/ wolWakeHandler(i)

WolSpec == WolInit /\ [][WolNext]_wolVars
-----------------------------------------------------------------------------
\* The list and the file hold targets that were added (Store).
WolTypeOK == /\ added \in 0..MaxAdded /\ faults \in 0..MaxFaults
             /\ \A i \in 1..Len(targets) : targets[i].id \in 1..added
             /\ file = TornList \/ Len(file) <= MaxAdded

\* However targets come and go, writes fail and the daemon restarts, a wake
\* reaches the machine its target was added for: every target of the list has
\* an address that can be sent, of that machine (Add, Wake, NewStore).
WokenAsAdded ==
  /\ sent # NoPacket => sent.device = meant[sent.id]
  /\ \A i \in 1..Len(targets) : Wake(i).device = meant[targets[i].id]
=============================================================================
