---------------------------- MODULE NightlyCommands ----------------------------
(***************************************************************************)
(* The nightly commands on one machine: the publication of live inputs and *)
(* the outcome commands exclude each other by the monitoring lease         *)
(* (monitoring_lease.py), a publication keeps the heavy-job lease while it *)
(* waits for it, and a power loss strikes the files of both.               *)
(***************************************************************************)
EXTENDS LiveInputs

CONSTANT OutcomeCommand  \* the holder of the lease while an outcome command runs

ASSUME CommandAssumption == OutcomeCommand \notin Publishers \cup {None}

VARIABLES
    entries, survivors,  \* the files of an intent, and what power loss leaves of them
    step                 \* the outcome command

outcomes == <<entries, survivors, step>>

Index == INSTANCE IndexDurability WITH disk <- entries, pc <- step

NightlyInit == Init /\ Index!Init

(* An outcome command starts with the lease. *)
Take ==
    /\ monitoring = None /\ monitoring' = OutcomeCommand
    /\ Index!RecordIntent \/ Index!BeginPass
    /\ UNCHANGED <<now, heavy, disk, publisher, reader, current>>

(* It gives the lease back when it ends. *)
Continue ==
    /\ \/ Index!CheckOutcome \/ Index!WritePending \/ Index!SyncPending
       \/ Index!WriteSemantic \/ Index!SyncSemantic
       \/ Index!ReadOutcome \/ Index!WriteOutcome \/ Index!SyncOutcome \/ Index!Unlink
       \/ Index!Die
    /\ monitoring' = IF step' = "idle" THEN None ELSE monitoring
    /\ UNCHANGED <<now, heavy, disk, publisher, reader, current>>

Blackout == Index!PowerLoss /\ Outage /\ UNCHANGED now

LiveStep ==
    /\ \/ Tick
       \/ \E p \in Publishers : Publish(p)
       \/ \E r \in Readers : Provide(r)
    /\ UNCHANGED outcomes

NightlySpec == NightlyInit /\ [][LiveStep \/ Take \/ Continue \/ Blackout]_<<vars, outcomes>>

-----------------------------------------------------------------------------
(* "The index entry is durable before the semantic record", also with publications
   between the outcome commands: an intent drops out of the index only when a power
   loss follows the death of a command. *)
UnindexedNeedsDeathAndPowerLoss == Index!UnindexedNeedsDeathAndPowerLoss

(* The lease has the holder that runs under it, whoever died. *)
LeaseHeld ==
    /\ step # "idle" <=> monitoring = OutcomeCommand
    /\ \A p \in Publishers : monitoring = p <=> pc[p] \notin {"idle", "wait"}
    /\ \A p \in Publishers : heavy = p <=> pc[p] # "idle"
================================================================================
