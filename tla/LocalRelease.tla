---------------------------- MODULE LocalRelease ----------------------------
(***************************************************************************)
(* The local release repository (release.py): immutable release            *)
(* directories, named by the hash of their content, and one pointer to the *)
(* active release and its predecessor.                                     *)
(*                                                                         *)
(* A publish copies the attested model into a staging directory, verifies  *)
(* it and renames it, under the publish lock, and gives that lock up       *)
(* before it activates the release.  Activation and rollback verify their  *)
(* release and replace the pointer under the pointer lock.  Commands run   *)
(* at the same time and may die anywhere; the operating system then frees  *)
(* their locks.                                                            *)
(***************************************************************************)
EXTENDS Naturals

CONSTANTS
    Processes,
    Releases,   \* release ids: the model, its attestation and its evidence
    None,
    MaxDeaths   \* bound on process deaths (model checking)

ASSUME ReleaseAssumption ==
    /\ None \notin Releases
    /\ MaxDeaths \in Nat

VARIABLES
    attested,   \* releases whose model has a promotion attestation
    published,  \* release directories, each whole and verified
    staging,    \* the release of each process's staging directory
    pointer,    \* the active release and its predecessor
    pc,
    target,     \* the release a command works on
    command,    \* "publish", "activate" or "rollback"
    seen,       \* the active release a command read
    deaths

repository == <<published, staging, pointer>>
local == <<pc, target, command, seen>>
vars == <<attested, repository, local, deaths>>

NoPointer == [release |-> None, previous |-> None]

HoldsPublish(p) == pc[p] \in {"check", "stage", "rename"}
HoldsPointer(p) == pc[p] \in {"verify", "write", "reread"}

Init ==
    /\ attested = {} /\ published = {} /\ pointer = NoPointer
    /\ staging = [p \in Processes |-> None]
    /\ pc = [p \in Processes |-> "idle"]
    /\ target = [p \in Processes |-> None]
    /\ command = [p \in Processes |-> "publish"]
    /\ seen = [p \in Processes |-> None]
    /\ deaths = 0

Goto(p, label) == pc' = [pc EXCEPT ![p] = label]

Begin(p, r, what, label) ==
    /\ pc[p] = "idle" /\ Goto(p, label)
    /\ target' = [target EXCEPT ![p] = r]
    /\ command' = [command EXCEPT ![p] = what]
    /\ UNCHANGED <<attested, repository, seen, deaths>>

-----------------------------------------------------------------------------
(* Promotion attests a candidate; see Promotion. *)
Attest(r) ==
    /\ r \notin attested /\ attested' = attested \cup {r}
    /\ UNCHANGED <<repository, local, deaths>>

(* The source inventory is read before the lock and needs a valid attestation. *)
Publish(p, r) == r \in attested /\ Begin(p, r, "publish", "waitPublish")
Activate(p, r) == Begin(p, r, "activate", "waitPointer")
Rollback(p, r) == Begin(p, r, "rollback", "waitPointer")

-----------------------------------------------------------------------------

LockPublish(p) ==
    /\ pc[p] = "waitPublish" /\ \A q \in Processes : ~HoldsPublish(q)
    /\ Goto(p, "check")
    /\ UNCHANGED <<attested, repository, target, command, seen, deaths>>

(* A release that is there is verified and published no more.  The command then
   activates it or, without the option, is done; the lock is free. *)
AfterPublish(p) == Goto(p, "waitPointer") \/ Goto(p, "idle")

CheckDestination(p) ==
    /\ pc[p] = "check"
    /\ \/ target[p] \in published /\ AfterPublish(p)
       \/ target[p] \notin published /\ Goto(p, "stage")
    /\ UNCHANGED <<attested, repository, target, command, seen, deaths>>

Stage(p) ==
    /\ pc[p] = "stage" /\ Goto(p, "rename")
    /\ staging' = [staging EXCEPT ![p] = target[p]]
    /\ UNCHANGED <<attested, published, pointer, target, command, seen, deaths>>

(* Copying or verifying fails: the staging directory is removed. *)
StageFails(p) ==
    /\ pc[p] \in {"stage", "rename"} /\ Goto(p, "idle")
    /\ staging' = [staging EXCEPT ![p] = None]
    /\ UNCHANGED <<attested, published, pointer, target, command, seen, deaths>>

(* os.replace of the directory, which fails on a release that is there. *)
Rename(p) ==
    /\ pc[p] = "rename"
    /\ published' = published \cup {staging[p]}
    /\ staging' = [staging EXCEPT ![p] = None]
    /\ AfterPublish(p)
    /\ UNCHANGED <<attested, pointer, target, command, seen, deaths>>

-----------------------------------------------------------------------------
(* Mutant: the pointer is switched without its lock. *)
LockPointerNot(p) ==
    /\ pc[p] = "waitPointer"
    /\ Goto(p, "verify")
    /\ UNCHANGED <<attested, repository, target, command, seen, deaths>>

LockPointer(p) ==
    /\ pc[p] = "waitPointer" /\ \A q \in Processes : ~HoldsPointer(q)
    /\ Goto(p, "verify")
    /\ UNCHANGED <<attested, repository, target, command, seen, deaths>>

Allowed(p) ==
    /\ target[p] \in published
    /\ command[p] = "rollback" => pointer.previous = target[p]

(* The release must verify, a rollback must go to the predecessor; the active
   release is not activated again. *)
Verify(p) ==
    /\ pc[p] = "verify"
    /\ \/ (~Allowed(p) \/ pointer.release = target[p]) /\ Goto(p, "idle") /\ UNCHANGED seen
       \/ /\ Allowed(p) /\ pointer.release # target[p] /\ Goto(p, "write")
          /\ seen' = [seen EXCEPT ![p] = pointer.release]
    /\ UNCHANGED <<attested, repository, target, command, deaths>>

WritePointer(p) ==
    /\ pc[p] = "write" /\ Goto(p, "reread")
    /\ pointer' = [release |-> target[p], previous |-> seen[p]]
    /\ UNCHANGED <<attested, published, staging, target, command, seen, deaths>>

(* The pointer is read again; another release in it would be an error. *)
Reread(p) ==
    /\ pc[p] = "reread" /\ Goto(p, "idle")
    /\ UNCHANGED <<attested, repository, target, command, seen, deaths>>

(* A lock that stays held for thirty seconds is given up. *)
LockTimeout(p) ==
    /\ \/ pc[p] = "waitPublish" /\ \E q \in Processes : HoldsPublish(q)
       \/ pc[p] = "waitPointer" /\ \E q \in Processes : HoldsPointer(q)
    /\ Goto(p, "idle")
    /\ UNCHANGED <<attested, repository, target, command, seen, deaths>>

(* The staging directory of a process that dies stays; its name is unique, so
   no other command meets it, and the process has a new one next time. *)
Die(p) ==
    /\ pc[p] # "idle" /\ deaths < MaxDeaths /\ deaths' = deaths + 1
    /\ Goto(p, "idle")
    /\ UNCHANGED <<attested, repository, target, command, seen>>

Command(p) ==
    \/ \E r \in Releases : Publish(p, r) \/ Activate(p, r) \/ Rollback(p, r)
    \/ LockPublish(p) \/ CheckDestination(p) \/ Stage(p) \/ StageFails(p) \/ Rename(p)
    \/ LockPointer(p) \/ Verify(p) \/ WritePointer(p) \/ Reread(p)
    \/ LockTimeout(p) \/ Die(p)

Next ==
    \/ \E r \in Releases : Attest(r)
    \/ \E p \in Processes : Command(p)

Spec == Init /\ [][Next]_vars

-----------------------------------------------------------------------------
(* Every file and every local holds a value of its kind. *)
TypeOK ==
    /\ attested \subseteq Releases /\ published \subseteq Releases
    /\ staging \in [Processes -> Releases \cup {None}]
    /\ pointer \in [release : Releases \cup {None}, previous : Releases \cup {None}]
    /\ pc \in [Processes -> {"idle", "waitPublish", "check", "stage", "rename",
                             "waitPointer", "verify", "write", "reread"}]
    /\ target \in [Processes -> Releases \cup {None}]
    /\ command \in [Processes -> {"publish", "activate", "rollback"}]
    /\ seen \in [Processes -> Releases \cup {None}]
    /\ deaths \in Nat

(* A published release was attested, and the pointer names published releases
   only: a reader that follows it without a lock finds the release whole, and a
   rollback finds the predecessor. *)
PointerPublished ==
    /\ published \subseteq attested
    /\ pointer.release \in published \cup {None}
    /\ pointer.previous \in published \cup {None}

(* A publish renames into place only what is not there: its os.replace never
   meets a release that another publish put there since the check. *)
RenamesNew == \A p \in Processes : pc[p] \in {"stage", "rename"} => target[p] \notin published

(* The activation that is about to be confirmed is the one in the pointer. *)
ActivationStands == \A p \in Processes : pc[p] = "reread" => pointer.release = target[p]

(* The release that an activation replaced becomes the predecessor: of two
   concurrent activations neither is lost from the chain. *)
ActivationChained == [][pointer' # pointer => pointer'.previous = pointer.release]_vars

(* A rollback activates the release that was active before the current one. *)
RollbackReturns ==
    [][\A p \in Processes : command[p] = "rollback" /\ WritePointer(p) => pointer'.release = pointer.previous]_vars
=============================================================================
