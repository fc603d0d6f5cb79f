---------------------------- MODULE PairPublication ----------------------------
(***************************************************************************)
(* How one pair of artifacts, a Recording and the Evidence that was        *)
(* derived from it, reaches the disk.  Three kinds of writer publish at    *)
(* the same two paths, with no lock between the processes:                 *)
(*                                                                         *)
(*   Creators    write_live_outputs(force=False)           live.py         *)
(*   Forcers     write_live_outputs(force=True)            live.py         *)
(*   Publishers  _publish_create_only_pair                 workflow.py     *)
(*                                                                         *)
(* Every writer stages both files beside their destination, then moves     *)
(* them into place one after the other, and undoes the first when the      *)
(* second fails.  A file system call may fail with OSError, the process    *)
(* may be killed, and Ctrl-C raises KeyboardInterrupt between two          *)
(* statements, which the handlers of both functions do not catch.          *)
(*                                                                         *)
(* The content of a path is abstracted to the writer it came from.         *)
(***************************************************************************)
EXTENDS Naturals, FiniteSets

CONSTANTS
    Creators, Forcers, Publishers,  \* the writers of each kind
    Old,            \* the origin of a pair published before
    NoFile,         \* what a path holds when nothing is there
    MaxFaults       \* bound: OSErrors, kills and interrupts of a behaviour

Writers == Creators \cup Forcers \cup Publishers
CreateOnly == Creators \cup Publishers
LiveWriters == Creators \cup Forcers
Origins == Writers \cup {Old}
Contents == Origins \cup {NoFile}
Files == {"recording", "evidence"}

ASSUME WritersAssumption ==
    /\ Creators \cap Forcers = {}
    /\ Creators \cap Publishers = {}
    /\ Forcers \cap Publishers = {}
    /\ {Old, NoFile} \cap Writers = {}
    /\ Old # NoFile
ASSUME BoundAssumption == MaxFaults \in Nat

VARIABLES
    at,         \* at[f]: whose content path f holds
    staged,     \* staged[w]: the temporary files of w that exist
    backup,     \* backup[w]: the content of w's hidden backup file
    pc,
    published,  \* published[w]: the flags recording_/evidence_was_published
    held,       \* held[w]: recording_backup is not None
    result,
    faults,
    overlapped, \* history: a Forcer has run at the same time as another writer
    without     \* history: without[w][f]: what path f would hold had w done nothing

program == <<at, staged, backup, pc, published, held, result, faults, overlapped>>
vars == <<program, without>>

Active(w) == pc[w] \notin {"idle", "done"}

Init ==
    /\ \E origin \in {Old, NoFile} : at = [f \in Files |-> origin]
    /\ staged = [w \in Writers |-> {}]
    /\ backup = [w \in Writers |-> NoFile]
    /\ pc = [w \in Writers |-> "idle"]
    /\ published = [w \in Writers |-> {}]
    /\ held = [w \in Writers |-> FALSE]
    /\ result = [w \in Writers |-> "none"]
    /\ faults = 0
    /\ overlapped = FALSE
    /\ without = [w \in LiveWriters |-> at]

Goto(w, l) == pc' = [pc EXCEPT ![w] = l]

\* The call raises: the handlers run when the try block was entered.
Raise(w, l) ==
    /\ Goto(w, l)
    /\ result' = [result EXCEPT ![w] = "error"]

Fault == faults < MaxFaults /\ faults' = faults + 1

-----------------------------------------------------------------------------
(* Entering: a create-only writer looks at both paths, one after the       *)
(* other, before it stages anything.                                       *)

Begin(w) ==
    /\ pc[w] = "idle"
    /\ overlapped' = (overlapped \/ \E v \in Writers :
                        Active(v) /\ {v, w} \cap Forcers # {})
    /\ Goto(w, IF w \in Forcers THEN "stage" ELSE "look_recording")
    /\ UNCHANGED <<at, staged, backup, published, held, result, faults>>

Look(w, here, f, next) ==
    /\ pc[w] = here
    /\ IF at[f] = NoFile
         THEN Goto(w, next) /\ UNCHANGED result
         ELSE Raise(w, "done")
    /\ UNCHANGED <<at, staged, backup, published, held, faults, overlapped>>

(* _stage and _stage_bytes: a temporary file in the destination's          *)
(* directory, removed again when writing it fails.                         *)
Stage(w) ==
    /\ pc[w] = "stage"
    /\ \/ /\ \E f \in Files \ staged[w] :
               /\ f = "evidence" => "recording" \in staged[w]
               /\ staged' = [staged EXCEPT ![w] = @ \cup {f}]
               /\ Goto(w, CASE f = "recording"  -> "stage"
                            [] w \in CreateOnly -> "link_recording"
                            [] OTHER            -> "find_original")
          /\ UNCHANGED <<result, faults>>
       \/ Fault /\ Raise(w, "handler") /\ UNCHANGED staged
    /\ UNCHANGED <<at, backup, published, held, overlapped>>

-----------------------------------------------------------------------------
(* Mutant: os.replace where os.link is needed. *)
LinkRecording_replaces(w) ==
    /\ pc[w] = "link_recording"
    /\ at' = [at EXCEPT !["recording"] = w]
    /\ Goto(w, "mark_recording")
    /\ UNCHANGED <<staged, backup, published, held, result, faults, overlapped>>

(* os.link publishes only where nothing is: the loser of a race gets       *)
(* FileExistsError.  The flag is set by the next statement.                *)

LinkRecording(w) ==
    /\ pc[w] = "link_recording"
    /\ \/ /\ at["recording"] = NoFile
          /\ at' = [at EXCEPT !["recording"] = w]
          /\ Goto(w, "mark_recording")
          /\ UNCHANGED <<result, faults>>
       \/ /\ at["recording"] # NoFile
          /\ Raise(w, "handler")
          /\ UNCHANGED <<at, faults>>
       \/ Fault /\ Raise(w, "handler") /\ UNCHANGED at
    /\ UNCHANGED <<staged, backup, published, held, overlapped>>

LinkEvidence(w) ==
    /\ pc[w] = "link_evidence"
    /\ \/ /\ at["evidence"] = NoFile
          /\ at' = [at EXCEPT !["evidence"] = w]
          /\ Goto(w, "mark_evidence")
          /\ UNCHANGED <<result, faults>>
       \/ /\ at["evidence"] # NoFile
          /\ Raise(w, "handler")
          /\ UNCHANGED <<at, faults>>
       \/ Fault /\ Raise(w, "handler") /\ UNCHANGED at
    /\ UNCHANGED <<staged, backup, published, held, overlapped>>

(* _backup_existing: look, then hard-link the Recording that was seen.  It *)
(* may be gone by then, which is an OSError.                               *)
FindOriginal(w) ==
    /\ pc[w] = "find_original"
    /\ Goto(w, IF at["recording"] = NoFile THEN "replace_recording"
                                           ELSE "link_backup")
    /\ UNCHANGED <<at, staged, backup, published, held, result, faults, overlapped>>

LinkBackup(w) ==
    /\ pc[w] = "link_backup"
    /\ \/ /\ at["recording"] # NoFile
          /\ backup' = [backup EXCEPT ![w] = at["recording"]]
          /\ held' = [held EXCEPT ![w] = TRUE]
          /\ Goto(w, "replace_recording")
          /\ UNCHANGED <<result, faults>>
       \/ /\ at["recording"] = NoFile
          /\ Raise(w, "handler")
          /\ UNCHANGED <<backup, held, faults>>
       \/ Fault /\ Raise(w, "handler") /\ UNCHANGED <<backup, held>>
    /\ UNCHANGED <<at, staged, published, overlapped>>

(* os.replace moves the temporary file over whatever is at the path.       *)
Replace(w, here, f, next) ==
    /\ pc[w] = here
    /\ \/ /\ at' = [at EXCEPT ![f] = w]
          /\ staged' = [staged EXCEPT ![w] = @ \ {f}]
          /\ Goto(w, next)
          /\ UNCHANGED <<result, faults>>
       \/ Fault /\ Raise(w, "handler") /\ UNCHANGED <<at, staged>>
    /\ UNCHANGED <<backup, published, held, overlapped>>

MarkRecording(w) ==
    /\ pc[w] = "mark_recording"
    /\ published' = [published EXCEPT ![w] = @ \cup {"recording"}]
    /\ Goto(w, IF w \in Forcers THEN "replace_evidence" ELSE "link_evidence")
    /\ UNCHANGED <<at, staged, backup, held, result, faults, overlapped>>

MarkEvidence(w) ==
    /\ pc[w] = "mark_evidence"
    /\ published' = [published EXCEPT ![w] = @ \cup {"evidence"}]
    /\ result' = [result EXCEPT ![w] = "ok"]
    /\ Goto(w, "finally")
    /\ UNCHANGED <<at, staged, backup, held, faults, overlapped>>

-----------------------------------------------------------------------------
(* The except and finally blocks.                                          *)

NeedsRollback(w) == published[w] = {"recording"}

NothingToRollBack(w) ==
    /\ pc[w] = "handler"
    /\ ~NeedsRollback(w)
    /\ Goto(w, "finally")
    /\ UNCHANGED <<at, staged, backup, published, held, result, faults, overlapped>>

(* Mutant: the path is unlinked, although there is a backup. *)
RollBack_unlinks(w) ==
    /\ pc[w] = "handler"
    /\ NeedsRollback(w)
    /\ at' = [at EXCEPT !["recording"] = NoFile]
    /\ backup' = [backup EXCEPT ![w] = NoFile]
    /\ held' = [held EXCEPT ![w] = FALSE]
    /\ published' = [published EXCEPT ![w] = {}]
    /\ Goto(w, "finally")
    /\ UNCHANGED <<staged, result, faults, overlapped>>

(* The first publication is taken back by path: the backup is moved over   *)
(* it, or the path is unlinked when there was nothing before.  Only        *)
(* write_live_outputs resets its flag; no later step of the other reads it.*)
RollBack(w) ==
    /\ pc[w] = "handler"
    /\ NeedsRollback(w)
    /\ at' = [at EXCEPT !["recording"] = IF held[w] THEN backup[w] ELSE NoFile]
    /\ backup' = [backup EXCEPT ![w] = NoFile]
    /\ held' = [held EXCEPT ![w] = FALSE]
    /\ published' = [published EXCEPT ![w] = {}]
    /\ Goto(w, "finally")
    /\ UNCHANGED <<staged, result, faults, overlapped>>

(* A failing rollback: write_live_outputs reports it and keeps the backup, *)
(* _publish_create_only_pair suppresses it.                                *)
RollBackFails(w) ==
    /\ pc[w] = "handler"
    /\ NeedsRollback(w)
    /\ Fault
    /\ result' = [result EXCEPT ![w] =
                    IF w \in Publishers THEN "error" ELSE "rollback_failed"]
    /\ Goto(w, "finally")
    /\ UNCHANGED <<at, staged, backup, published, held, overlapped>>

(* Mutant: the backup is removed whatever was published. *)
DropsBackup_always(w) == held[w]

(* Mutant: the backup is forgotten when nothing was published. *)
DropsBackup_onlyOnSuccess(w) == held[w] /\ "evidence" \in published[w]

\* The finally block's condition for unlinking the backup.
DropsBackup(w) ==
    held[w] /\ ("evidence" \in published[w] \/ "recording" \notin published[w])

(* The unlinks of the private temporary files are taken to succeed (their  *)
(* OSErrors are suppressed and nothing else depends on them).              *)
Finally(w) ==
    /\ pc[w] = "finally"
    /\ staged' = [staged EXCEPT ![w] = {}]
    /\ backup' = [backup EXCEPT ![w] = IF DropsBackup(w) THEN NoFile ELSE @]
    /\ Goto(w, "done")
    /\ UNCHANGED <<at, published, held, result, faults, overlapped>>

-----------------------------------------------------------------------------
(* KeyboardInterrupt passes the except clauses; only finally runs, on the  *)
(* flags as they are.  Before the try block nothing runs at all.           *)
Interrupt(w) ==
    /\ Active(w) /\ pc[w] # "finally"
    /\ Fault
    /\ result' = [result EXCEPT ![w] = IF pc[w] = "mark_recording"
                                        THEN "interrupted_unmarked"
                                        ELSE "interrupted"]
    /\ Goto(w, IF pc[w] \in {"look_recording", "look_evidence"} THEN "done"
                                                                ELSE "finally")
    /\ UNCHANGED <<at, staged, backup, published, held, overlapped>>

(* SIGKILL of this writer: no handler runs.                                *)
Crash(w) ==
    /\ Active(w)
    /\ Fault
    /\ result' = [result EXCEPT ![w] = "crashed"]
    /\ Goto(w, "done")
    /\ UNCHANGED <<at, staged, backup, published, held, overlapped>>

Publish(w) ==
    \/ Begin(w)
    \/ Look(w, "look_recording", "recording", "look_evidence")
    \/ Look(w, "look_evidence", "evidence", "stage")
    \/ Stage(w)
    \/ LinkRecording(w) \/ LinkEvidence(w)
    \/ FindOriginal(w) \/ LinkBackup(w)
    \/ Replace(w, "replace_recording", "recording", "mark_recording")
    \/ Replace(w, "replace_evidence", "evidence", "mark_evidence")
    \/ MarkRecording(w) \/ MarkEvidence(w)
    \/ NothingToRollBack(w) \/ RollBack(w) \/ RollBackFails(w)
    \/ Finally(w)

\* What v changes is changed for every other writer too.
Witnessed(v) ==
    without' = [w \in LiveWriters |->
                  [f \in Files |-> IF w = v \/ at'[f] = at[f] THEN without[w][f]
                                                             ELSE at'[f]]]

Next == \E w \in Writers : (Publish(w) \/ Interrupt(w) \/ Crash(w)) /\ Witnessed(w)

Spec == Init /\ [][Next]_vars

-----------------------------------------------------------------------------
(* Properties.                                                             *)

Locations ==
    {"idle", "look_recording", "look_evidence", "stage", "link_recording", "find_original",
     "link_backup", "replace_recording", "mark_recording", "link_evidence",
     "replace_evidence", "mark_evidence", "handler", "finally", "done"}

(* Every variable of the program has its type, and only a --force writer   *)
(* holds a backup.                                                         *)
TypeOK ==
    /\ at \in [Files -> Contents]
    /\ pc \in [Writers -> Locations]
    /\ staged \in [Writers -> SUBSET Files]
    /\ backup \in [Writers -> Contents]
    /\ published \in [Writers -> SUBSET Files]
    /\ held \in [Writers -> BOOLEAN]
    /\ result \in [Writers -> {"none", "ok", "error", "rollback_failed",
                               "interrupted", "interrupted_unmarked", "crashed"}]
    /\ faults \in 0 .. MaxFaults
    /\ overlapped \in BOOLEAN
    /\ \A w \in CreateOnly : ~held[w]

(* Ctrl-C between os.replace and the statement that sets the flag: finally *)
(* then takes the publication for one that never happened, and unlinks the *)
(* backup.                                                                 *)
InterruptedBeforeMark(w) == w \in Forcers /\ result[w] = "interrupted_unmarked"

(* The Recording that Evidence was derived from is never lost: it is at    *)
(* its path or in a backup, through failures, kills and interrupts.  Two   *)
(* gaps are named: a --force writer beside another writer, and an          *)
(* interrupt that falls between a replacement and its flag.                *)
EvidenceKeepsItsRecording ==
    at["evidence"] # NoFile =>
        \/ at["evidence"] = at["recording"]
        \/ \E w \in Writers : backup[w] = at["evidence"]
        \/ overlapped
        \/ \E w \in Writers : InterruptedBeforeMark(w)

(* A live writer that reports an ordinary failure has had no effect: both  *)
(* paths hold what they would hold without it, an earlier pair included    *)
(* ("roll back the first publication if the second fails"). Not covered    *)
(* are a failed rollback, which is reported as one, and a --force writer   *)
(* beside another writer.                                                  *)
FailureChangesNothing ==
    \A w \in LiveWriters :
        (result[w] = "error" /\ pc[w] = "done" /\ ~overlapped) => at = without[w]

(* A create-only writer never replaces nor removes what another put at a   *)
(* path, as long as no --force writer runs beside it: its rollback unlinks *)
(* by path, and the path must still be its own.                            *)
CreateOnlyTouchesItsOwn ==
    [][\A w \in CreateOnly, f \in Files :
          (pc'[w] # pc[w] /\ at'[f] # at[f])
              => at[f] \in {w, NoFile} \/ overlapped]_vars

(* A writer that returns leaves no temporary file and no stale backup      *)
(* behind; the backup stays exactly when the rollback failed, "the         *)
(* original Recording backup was retained".                                *)
NoLeftovers ==
    \A w \in Writers :
        (pc[w] = "done" /\ result[w] \in {"ok", "error", "rollback_failed"}) =>
            /\ staged[w] = {}
            /\ backup[w] # NoFile <=> held[w] /\ result[w] = "rollback_failed"

=============================================================================
