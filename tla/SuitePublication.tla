--------------------------- MODULE SuitePublication ---------------------------
(***************************************************************************)
(* How the public Suite, a bundle directory and its external anchor,       *)
(* reaches the disk, and the two other ways in which Phase 6 creates a     *)
(* file that must never be replaced. All meet at one file path:            *)
(*                                                                         *)
(*   Publishers  publish_public_suite    phase6_public.py: bundle, anchor  *)
(*   Recorders   _create_only_file       phase6_public.py: one file        *)
(*   Approvers   _write_create_only      phase6_approval.py: one file      *)
(*                                                                         *)
(* Publishers hold a lock file from their last look at the two paths on.   *)
(* They and the Recorders stage beside the destination and move by a       *)
(* rename that never replaces; Approvers open the final path with O_EXCL   *)
(* and write there. Every failure takes back what the process itself put   *)
(* at a path. Calls and checks may fail, a process may be killed or meet   *)
(* Ctrl-C between two statements, and an operator may remove a lock.       *)
(*                                                                         *)
(* What a path holds is abstracted to the writer it came from, which is    *)
(* also its identity (device, inode, mode). Publishers of different        *)
(* destinations meet at the anchor only, as a Publisher and a Recorder do. *)
(***************************************************************************)
EXTENDS Naturals, FiniteSets

CONSTANTS
  Publishers, Recorders, Approvers,
  NoFile,       \* what a path holds when nothing is there
  MaxFaults     \* bound: failures, kills, interrupts and removed locks of a behaviour

Writers == Publishers \cup Recorders \cup Approvers

ASSUME WritersAssumption ==
  /\ Publishers \cap Recorders = {} /\ Publishers \cap Approvers = {}
  /\ Recorders \cap Approvers = {} /\ NoFile \notin Writers
ASSUME BoundAssumption == MaxFaults \in Nat

VARIABLES
  bundle,   \* the destination
  anchor,   \* the external anchor, or the one file of a Recorder or an Approver
  lock,     \* .<destination>.publish.lock
  partial,  \* writers whose published output is not complete
  staged,   \* staged[w]: the temporary outputs of w that exist
  pc,
  knows,    \* knows[w]: lock_identity, published_bundle, published_anchor, anchor_staging
  result,
  faults,
  leaked    \* history: what a failure or an interrupt made w lose sight of

paths == << bundle, anchor, lock, partial >>
vars == << paths, staged, pc, knows, result, faults, leaked >>

Init ==
  /\ bundle = NoFile /\ anchor = NoFile /\ lock = NoFile /\ partial = {}
  /\ staged = [w \in Writers |-> {}] /\ knows = [w \in Writers |-> {}]
  /\ pc = [w \in Writers |-> "idle"] /\ result = [w \in Writers |-> "none"]
  /\ faults = 0 /\ leaked = [w \in Writers |-> {}]

InTry == {"stage", "stage_anchor", "lock", "lock_identity", "recheck", "rename_bundle",
          "mark_bundle", "rename_anchor", "mark_anchor", "sync"}
InHandler == {"roll_anchor", "unlink_anchor", "roll_bundle", "rmtree", "roll_sync"}
InFinally == {"close", "unlock", "clean", "clean_anchor"}
InApproval == {"open", "opened", "write", "reload", "take_back", "unlink"}
Active(w) == pc[w] \notin {"idle", "done"}

Fault == faults < MaxFaults /\ faults' = faults + 1
Goto(w, l) == pc' = [pc EXCEPT ![w] = l]
Stages(w, files) == staged' = [staged EXCEPT ![w] = files]
Learns(w, names) == knows' = [knows EXCEPT ![w] = names]
Ends(w, r) == result' = [result EXCEPT ![w] = r]

(* An Exception in the try block; a check that fails is one too.           *)
Raise(w) == Goto(w, "roll_anchor") /\ Ends(w, "failed")

-----------------------------------------------------------------------------
(* Inputs and paths are looked at before anything is staged.               *)

Free(w) == anchor = NoFile /\ (w \in Publishers => bundle = NoFile)

Begin(w) ==
  /\ pc[w] = "idle"
  /\ \/ Free(w) /\ Goto(w, "enter") /\ UNCHANGED result
     \/ Goto(w, "done") /\ Ends(w, "failed")
  /\ UNCHANGED << paths, staged, knows, faults, leaked >>

(* tempfile.mkdtemp, or mkstemp; an Approver stages nothing.               *)
Enter(w) ==
  /\ pc[w] = "enter"
  /\ \/ /\ w \in Publishers /\ Stages(w, {"bundle"}) /\ Goto(w, "stage") /\ UNCHANGED knows
     \/ /\ w \in Recorders /\ Stages(w, {"anchor"}) /\ Learns(w, {"staging"})
        /\ Goto(w, "recheck")
     \/ w \in Approvers /\ Goto(w, "open") /\ UNCHANGED << staged, knows >>
  /\ UNCHANGED << paths, result, faults, leaked >>

(* _write_staging_bundle.                                                  *)
StageBundle(w) ==
  /\ pc[w] = "stage"
  /\ \/ Goto(w, "stage_anchor") /\ UNCHANGED << result, faults >>
     \/ Fault /\ Raise(w)
  /\ UNCHANGED << paths, staged, knows, leaked >>

(* _write_anchor_staging; what it created when it fails nobody knows.      *)
StageAnchor(w) ==
  /\ pc[w] = "stage_anchor"
  /\ \/ /\ Stages(w, {"bundle", "anchor"}) /\ Learns(w, {"staging"})
        /\ Goto(w, "lock") /\ UNCHANGED << result, faults, leaked >>
     \/ /\ Fault /\ Raise(w)
        /\ Stages(w, {"bundle", "anchor"}) /\ UNCHANGED knows
        /\ leaked' = [leaked EXCEPT ![w] = @ \cup {"anchor"}]
  /\ UNCHANGED paths

-----------------------------------------------------------------------------
(* os.open with O_CREAT | O_EXCL.                                          *)
TakeLock(w) ==
  /\ pc[w] = "lock"
  /\ \/ lock = NoFile /\ lock' = w /\ Goto(w, "lock_identity") /\ UNCHANGED << result, faults >>
     \/ lock # NoFile /\ Raise(w) /\ UNCHANGED << lock, faults >>
     \/ Fault /\ Raise(w) /\ UNCHANGED lock
  /\ UNCHANGED << bundle, anchor, partial, staged, knows, leaked >>

(* fstat of the lock; without it finally does not know the lock.           *)
IdentifyLock(w) ==
  /\ pc[w] = "lock_identity"
  /\ \/ /\ Learns(w, knows[w] \cup {"lock"}) /\ Goto(w, "recheck")
        /\ UNCHANGED << result, faults, leaked >>
     \/ /\ Fault /\ Raise(w) /\ UNCHANGED knows
        /\ leaked' = [leaked EXCEPT ![w] = @ \cup {"lock"}]
  /\ UNCHANGED << paths, staged >>

(* The paths once more under the lock, and the staged outputs; a Recorder  *)
(* writes its file here.                                                   *)
Recheck(w) ==
  /\ pc[w] = "recheck"
  /\ \/ /\ w \in Publishers => Free(w)
        /\ Goto(w, IF w \in Publishers THEN "rename_bundle" ELSE "rename_anchor")
        /\ UNCHANGED << result, faults >>
     \/ w \in Publishers /\ ~Free(w) /\ Raise(w) /\ UNCHANGED faults
     \/ Fault /\ Raise(w)
  /\ UNCHANGED << paths, staged, knows, leaked >>

-----------------------------------------------------------------------------
(* _rename_no_replace, then the identity of what is there now.             *)

(* Mutant: os.rename replaces what is there.                               *)
RenameAnchor_replaces(w) ==
  /\ pc[w] = "rename_anchor"
  /\ anchor' = w /\ Stages(w, staged[w] \ {"anchor"}) /\ Goto(w, "mark_anchor")
  /\ UNCHANGED << bundle, lock, partial, knows, result, faults, leaked >>

RenameBundle(w) ==
  /\ pc[w] = "rename_bundle"
  /\ \/ /\ bundle = NoFile
        /\ bundle' = w /\ Stages(w, staged[w] \ {"bundle"}) /\ Goto(w, "mark_bundle")
        /\ UNCHANGED << result, faults >>
     \/ bundle # NoFile /\ Raise(w) /\ UNCHANGED << bundle, staged, faults >>
     \/ Fault /\ Raise(w) /\ UNCHANGED << bundle, staged >>
  /\ UNCHANGED << anchor, lock, partial, knows, leaked >>

RenameAnchor(w) ==
  /\ pc[w] = "rename_anchor"
  /\ \/ /\ anchor = NoFile
        /\ anchor' = w /\ Stages(w, staged[w] \ {"anchor"}) /\ Goto(w, "mark_anchor")
        /\ UNCHANGED << result, faults >>
     \/ anchor # NoFile /\ Raise(w) /\ UNCHANGED << anchor, staged, faults >>
     \/ Fault /\ Raise(w) /\ UNCHANGED << anchor, staged >>
  /\ UNCHANGED << bundle, lock, partial, knows, leaked >>

(* Mutant: the output is the writer's own only once it has been checked.   *)
Mark_afterCheck(w, here, name, next) ==
  /\ pc[w] = here
  /\ \/ Learns(w, knows[w] \cup {name}) /\ Goto(w, next) /\ UNCHANGED << result, faults >>
     \/ Fault /\ Raise(w) /\ UNCHANGED knows
  /\ UNCHANGED << paths, staged, leaked >>

Mark(w, here, name, next) ==
  /\ pc[w] = here
  /\ Learns(w, knows[w] \cup {name})
  /\ \/ Goto(w, next) /\ UNCHANGED << result, faults >>
     \/ Fault /\ Raise(w)
  /\ UNCHANGED << paths, staged, leaked >>

MarkBundle(w) == Mark(w, "mark_bundle", "bundle", "rename_anchor")
MarkAnchor(w) == Mark(w, "mark_anchor", "anchor", "sync")

(* The parents are synced: published.                                      *)
Sync(w) ==
  /\ pc[w] = "sync"
  /\ \/ Goto(w, "close") /\ Ends(w, "ok") /\ UNCHANGED faults
     \/ Fault /\ Raise(w)
  /\ UNCHANGED << paths, staged, knows, leaked >>

-----------------------------------------------------------------------------
(* The handlers: _rollback_owned_path of the anchor, then of the bundle. A *)
(* path that is gone is passed over, one of another identity refused.      *)

Unverified(w) == Goto(w, "close") /\ Ends(w, "unverified")

RollBack(w, here, name, path, remove, next) ==
  /\ pc[w] = here
  /\ \/ /\ name \notin knows[w] \/ path = NoFile
        /\ Goto(w, next) /\ UNCHANGED result
     \/ /\ name \in knows[w] /\ path = w
        /\ Goto(w, remove) /\ UNCHANGED result
     \/ name \in knows[w] /\ path \notin {w, NoFile} /\ Unverified(w)
  /\ UNCHANGED << paths, staged, knows, faults, leaked >>

RollAnchor(w) == RollBack(w, "roll_anchor", "anchor", anchor, "unlink_anchor", "roll_bundle")
RollBundle(w) == RollBack(w, "roll_bundle", "bundle", bundle, "rmtree", "roll_sync")

(* Mutant: the bundle is taken back although the anchor could not be.      *)
UnlinkAnchor_goesOn(w) ==
  /\ pc[w] = "unlink_anchor"
  /\ \/ anchor' = NoFile /\ Goto(w, "roll_bundle") /\ UNCHANGED << result, faults >>
     \/ Fault /\ Goto(w, "roll_bundle") /\ Ends(w, "unverified") /\ UNCHANGED anchor
  /\ UNCHANGED << bundle, lock, partial, staged, knows, leaked >>

UnlinkAnchor(w) ==
  /\ pc[w] = "unlink_anchor"
  /\ \/ anchor' = NoFile /\ Goto(w, "roll_bundle") /\ UNCHANGED << result, faults >>
     \/ Fault /\ Unverified(w) /\ UNCHANGED anchor
  /\ UNCHANGED << bundle, lock, partial, staged, knows, leaked >>

(* shutil.rmtree goes file by file.                                        *)
RemoveBundle(w) ==
  /\ pc[w] = "rmtree"
  /\ \/ /\ bundle' = NoFile /\ partial' = partial \ {w}
        /\ Goto(w, "roll_sync") /\ UNCHANGED << result, faults >>
     \/ w \notin partial /\ partial' = partial \cup {w}
        /\ UNCHANGED << bundle, pc, result, faults >>
     \/ Fault /\ Unverified(w) /\ UNCHANGED << bundle, partial >>
  /\ UNCHANGED << anchor, lock, staged, knows, leaked >>

(* Only a Publisher syncs what it has taken back.                          *)
RollSync(w) ==
  /\ pc[w] = "roll_sync"
  /\ \/ Goto(w, "close") /\ UNCHANGED << result, faults >>
     \/ Fault /\ w \in Publishers /\ knows[w] \cap {"bundle", "anchor"} # {} /\ Unverified(w)
  /\ UNCHANGED << paths, staged, knows, leaked >>

-----------------------------------------------------------------------------
(* finally: the lock, if it is still one's own, then the staged outputs.   *)

Close(w) ==
  /\ pc[w] = "close"
  /\ Goto(w, IF "lock" \in knows[w] /\ lock = w THEN "unlock" ELSE "clean")
  /\ UNCHANGED << paths, staged, knows, result, faults, leaked >>

Unlock(w) ==
  /\ pc[w] = "unlock"
  /\ Goto(w, "clean")
  /\ \/ lock' = NoFile /\ UNCHANGED << faults, leaked >>
     \/ Fault /\ UNCHANGED lock /\ leaked' = [leaked EXCEPT ![w] = @ \cup {"lock"}]
  /\ UNCHANGED << bundle, anchor, partial, staged, knows, result >>

(* An OSError here replaces whatever was under way.                        *)
Clean(w, here, name, mine, next) ==
  /\ pc[w] = here
  /\ \/ mine /\ Stages(w, staged[w] \ {name}) /\ Goto(w, next) /\ UNCHANGED << result, faults >>
     \/ ~mine /\ Goto(w, next) /\ UNCHANGED << staged, result, faults >>
     \/ mine /\ Fault /\ Goto(w, "done") /\ Ends(w, "oserror") /\ UNCHANGED staged
  /\ UNCHANGED << paths, knows, leaked >>

CleanBundle(w) == Clean(w, "clean", "bundle", "bundle" \in staged[w], "clean_anchor")
CleanAnchor(w) ==
  Clean(w, "clean_anchor", "anchor", "anchor" \in staged[w] /\ "staging" \in knows[w], "done")

-----------------------------------------------------------------------------
(* Approvers. The directories they create on the way, and remove again     *)
(* when empty, hold nothing of another writer and are left out.            *)

OpenApproval(w) ==
  /\ pc[w] = "open"
  /\ \/ /\ anchor = NoFile
        /\ anchor' = w /\ partial' = partial \cup {w} /\ Goto(w, "opened")
        /\ UNCHANGED << result, faults >>
     \/ /\ anchor # NoFile /\ Goto(w, "take_back") /\ Ends(w, "failed")
        /\ UNCHANGED << anchor, partial, faults >>
     \/ Fault /\ Goto(w, "take_back") /\ Ends(w, "failed") /\ UNCHANGED << anchor, partial >>
  /\ UNCHANGED << bundle, lock, staged, knows, leaked >>

(* fstat of the file; without it the handler leaves the file.              *)
IdentifyApproval(w) ==
  /\ pc[w] = "opened"
  /\ \/ Learns(w, {"anchor"}) /\ Goto(w, "write") /\ UNCHANGED << result, faults, leaked >>
     \/ /\ Fault /\ Goto(w, "take_back") /\ Ends(w, "failed") /\ UNCHANGED knows
        /\ leaked' = [leaked EXCEPT ![w] = @ \cup {"approval"}]
  /\ UNCHANGED << paths, staged >>

WriteApproval(w) ==
  /\ pc[w] = "write"
  /\ \/ partial' = partial \ {w} /\ Goto(w, "reload") /\ UNCHANGED << result, faults >>
     \/ Fault /\ Goto(w, "take_back") /\ Ends(w, "failed") /\ UNCHANGED partial
  /\ UNCHANGED << bundle, anchor, lock, staged, knows, leaked >>

(* load_supplemental_live_campaign_approval.                               *)
ReloadApproval(w) ==
  /\ pc[w] = "reload"
  /\ \/ Goto(w, "done") /\ Ends(w, "ok") /\ UNCHANGED faults
     \/ Fault /\ Goto(w, "take_back") /\ Ends(w, "failed")
  /\ UNCHANGED << paths, staged, knows, leaked >>

TakeBackApproval(w) ==
  /\ pc[w] = "take_back"
  /\ Goto(w, IF "anchor" \in knows[w] /\ anchor = w THEN "unlink" ELSE "done")
  /\ UNCHANGED << paths, staged, knows, result, faults, leaked >>

(* suppress(OSError).                                                      *)
UnlinkApproval(w) ==
  /\ pc[w] = "unlink"
  /\ Goto(w, "done")
  /\ \/ anchor' = NoFile /\ partial' = partial \ {w} /\ UNCHANGED << faults, leaked >>
     \/ /\ Fault /\ UNCHANGED << anchor, partial >>
        /\ leaked' = [leaked EXCEPT ![w] = @ \cup {"approval"}]
  /\ UNCHANGED << bundle, lock, staged, knows, result >>

-----------------------------------------------------------------------------
(* What can happen to a writer. `except Exception` does not catch          *)
(* KeyboardInterrupt: from the try block and the handlers it goes straight *)
(* to finally, and out of finally it leaves the rest undone.               *)
Interrupt(w) ==
  /\ Active(w) /\ Fault
  /\ Goto(w, IF pc[w] \in InTry \cup InHandler THEN "close" ELSE "done")
  /\ Ends(w, "interrupted")
  /\ UNCHANGED << paths, staged, knows, leaked >>

(* SIGKILL. A power failure is not modelled: nothing is synced between the *)
(* two renames, so that the disk may keep the second without the first.    *)
Crash(w) ==
  /\ Active(w) /\ Fault
  /\ Goto(w, "done") /\ Ends(w, "crashed")
  /\ UNCHANGED << paths, staged, knows, leaked >>

(* An operator takes a lock for a stale one.                               *)
RemoveLock ==
  /\ lock # NoFile /\ Fault /\ lock' = NoFile
  /\ UNCHANGED << bundle, anchor, partial, staged, pc, knows, result, leaked >>

Publish(w) ==
  \/ Begin(w) \/ Enter(w) \/ StageBundle(w) \/ StageAnchor(w)
  \/ TakeLock(w) \/ IdentifyLock(w) \/ Recheck(w)
  \/ RenameBundle(w) \/ MarkBundle(w) \/ RenameAnchor(w) \/ MarkAnchor(w) \/ Sync(w)
  \/ RollAnchor(w) \/ UnlinkAnchor(w) \/ RollBundle(w) \/ RemoveBundle(w) \/ RollSync(w)
  \/ Close(w) \/ Unlock(w) \/ CleanBundle(w) \/ CleanAnchor(w)
  \/ OpenApproval(w) \/ IdentifyApproval(w) \/ WriteApproval(w) \/ ReloadApproval(w)
  \/ TakeBackApproval(w) \/ UnlinkApproval(w)

Next == RemoveLock \/ \E w \in Writers : Publish(w) \/ Interrupt(w) \/ Crash(w)

Spec == Init /\ [][Next]_vars

-----------------------------------------------------------------------------
(* Properties.                                                             *)

TypeOK ==
  /\ {bundle, anchor, lock} \subseteq Writers \cup {NoFile}
  /\ partial \subseteq Writers
  /\ staged \in [Writers -> SUBSET {"bundle", "anchor"}]
  /\ knows \in [Writers -> SUBSET {"staging", "lock", "bundle", "anchor"}]
  /\ pc \in [Writers -> {"idle", "enter", "done"} \cup InTry \cup InHandler \cup InFinally
                        \cup InApproval]
  /\ result \in [Writers -> {"none", "ok", "failed", "unverified", "oserror", "interrupted",
                             "crashed"}]
  /\ faults \in 0 .. MaxFaults
  /\ leaked \in [Writers -> SUBSET {"anchor", "lock", "approval"}]

(* Nobody replaces or removes what another put at the destination or at    *)
(* the file path: not by a rename, not by a rollback, and not when the     *)
(* lock was lost to an operator.                                           *)
TouchesOnlyItsOwn ==
  [][\A w \in Writers : pc'[w] # pc[w] =>
       /\ bundle' # bundle => bundle \in {w, NoFile}
       /\ anchor' # anchor => anchor \in {w, NoFile}]_vars

(* An external anchor vouches for a bundle that is there and complete, at  *)
(* every moment: between the two renames, in a rollback, and after a kill. *)
AnchorVouchesForBundle ==
  anchor \in Publishers => bundle = anchor /\ anchor \notin partial

(* A writer that ended keeps its word: `ok` means that its outputs are     *)
(* complete and in place, an ordinary failure that nothing of it is left,  *)
(* neither outputs nor lock nor staged files, and no end but an interrupt, *)
(* a kill or an OSError of the cleanup leaves staged files or the lock.    *)
(* The program itself loses sight of three things (leaked): the anchor's   *)
(* temporary file when writing it fails, and a lock or an approval that it *)
(* cannot identify or cannot unlink.                                       *)
InPlace(w) ==
  anchor = w /\ w \notin partial /\ (w \in Publishers => bundle = w)

OutcomeIsTrue ==
  \A w \in Writers : pc[w] = "done" =>
    /\ result[w] = "ok" => InPlace(w)
    /\ result[w] = "failed" => bundle # w /\ (anchor # w \/ "approval" \in leaked[w])
    /\ result[w] \in {"ok", "failed", "unverified"} =>
         staged[w] \subseteq leaked[w] /\ (lock # w \/ "lock" \in leaked[w])
=============================================================================
