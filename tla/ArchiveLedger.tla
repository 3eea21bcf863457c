--------------------------- MODULE ArchiveLedger ---------------------------
(***************************************************************************)
(* What the archive promises to whoever creates a record, with no session, *)
(* transaction or object store in sight: a record appears at once with all *)
(* the files the request names, or never; while it is there its files can  *)
(* be read and are no other record's; it goes with all of them.            *)
(***************************************************************************)
CONSTANTS Records, Files

VARIABLES
  asked,   \* the files each request names
  status,  \* of the record: absent, present, gone
  shown    \* the files that can be read in each record

archiveVars == <<asked, status, shown>>

ArchiveInit ==
  /\ asked = [r \in Records |-> {}]
  /\ status = [r \in Records |-> "absent"]
  /\ shown = [r \in Records |-> {}]

Ask(r) ==
  /\ status[r] = "absent"
  /\ asked[r] = {}
  /\ \E S \in SUBSET Files : asked' = [asked EXCEPT ![r] = S]
  /\ UNCHANGED <<status, shown>>

(* An upload becomes a file of one record only.                            *)
Publish(r) ==
  /\ status[r] = "absent"
  /\ \A q \in Records : shown[q] \cap asked[r] = {}
  /\ status' = [status EXCEPT ![r] = "present"]
  /\ shown' = [shown EXCEPT ![r] = asked[r]]
  /\ UNCHANGED asked

Refuse(r) ==
  /\ status[r] = "absent"
  /\ status' = [status EXCEPT ![r] = "gone"]
  /\ UNCHANGED <<asked, shown>>

Withdraw(r) ==
  /\ status[r] = "present"
  /\ status' = [status EXCEPT ![r] = "gone"]
  /\ shown' = [shown EXCEPT ![r] = {}]
  /\ UNCHANGED asked

ArchiveNext == \E r \in Records : Ask(r) \/ Publish(r) \/ Refuse(r) \/ Withdraw(r)

ArchiveSpec == ArchiveInit /\ [][ArchiveNext]_archiveVars
=============================================================================
