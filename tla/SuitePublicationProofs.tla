------------------------ MODULE SuitePublicationProofs ------------------------
(***************************************************************************)
(* Proofs about SuitePublication for any number of publishers, recorders   *)
(* and approvers, any number of failures, kills, interrupts and removed    *)
(* locks: nobody touches what is not its own, and an anchor always has its *)
(* whole bundle. Neither rests on the lock.                                *)
(***************************************************************************)
EXTENDS SuitePublication, TLAPS

(* Where a writer's outputs can be, seen from its next statement.          *)
BeforeBundle ==
  {"idle", "enter", "stage", "stage_anchor", "lock", "lock_identity", "recheck", "rename_bundle",
   "open"}
WithBundle == {"mark_bundle", "rename_anchor", "mark_anchor", "sync"}

(* What is true of one writer. A path it is about to remove holds what it  *)
(* put there. A publisher is nowhere until its renames; then its bundle is *)
(* there and whole; it takes its anchor back, which it has known since the *)
(* rename, before its bundle; and its anchor never is without the bundle.  *)
OwnInv(w) ==
  /\ pc[w] = "rmtree" => bundle = w
  /\ pc[w] \in {"unlink_anchor", "unlink"} => anchor = w
  /\ w \in Publishers =>
       /\ pc[w] \in BeforeBundle => bundle # w /\ anchor # w
       /\ pc[w] \in {"mark_bundle", "rename_anchor"} => anchor # w
       /\ pc[w] \in WithBundle => bundle = w
       /\ pc[w] \in BeforeBundle \cup WithBundle \cup {"roll_anchor", "unlink_anchor", "roll_bundle"}
            => w \notin partial
       /\ pc[w] \in {"sync", "roll_anchor"} /\ anchor = w => "anchor" \in knows[w]
       /\ pc[w] \in {"roll_bundle", "rmtree"} => anchor # w
       /\ pc[w] \notin InApproval
       /\ anchor = w => bundle = w /\ w \notin partial

(* Which statements a writer of each kind has.                             *)
OnlyPublishers ==
  {"stage", "stage_anchor", "lock", "lock_identity", "rename_bundle", "mark_bundle"}
KindInv(w) ==
  /\ w \notin Publishers =>
       bundle # w /\ lock # w /\ pc[w] \notin OnlyPublishers \cup {"rmtree", "unlock"}
  /\ w \in Recorders => w \notin partial
  /\ w \in Approvers =>
       staged[w] = {} /\ pc[w] \in InApproval \cup {"idle", "enter", "done"}
  /\ pc[w] \in InApproval => w \in Approvers

(* What a writer knows of its outputs, which its rollback goes by, and     *)
(* what its result will stand for.                                         *)
Rolled == {"roll_bundle", "rmtree", "roll_sync"}
Kept == {"ok", "failed", "unverified"}   \* the ends that clean up
OutcomeInv(w) ==
  /\ pc[w] \in {"idle", "enter"} \cup InTry => result[w] = "none"
  /\ pc[w] \in InHandler \cup {"take_back", "unlink"} => result[w] = "failed"
  /\ pc[w] \in {"idle", "enter", "open", "recheck", "rename_anchor"} => anchor # w
  /\ pc[w] \in {"mark_anchor", "sync"} => anchor = w
  /\ pc[w] \in {"opened", "write", "reload"} => anchor = w
  /\ pc[w] \in {"mark_anchor", "sync", "reload"} => w \notin partial
  /\ pc[w] \in {"sync", "roll_anchor", "write", "reload"} /\ anchor = w => "anchor" \in knows[w]
  /\ pc[w] = "take_back" /\ anchor = w => "anchor" \in knows[w] \/ "approval" \in leaked[w]
  /\ pc[w] \in {"rename_anchor", "mark_anchor", "sync", "roll_anchor", "unlink_anchor", "roll_bundle"}
       /\ bundle = w => "bundle" \in knows[w]
  /\ pc[w] \in Rolled => anchor # w
  /\ pc[w] = "roll_sync" => bundle # w
  /\ result[w] = "ok" => InPlace(w)
  /\ result[w] = "failed" /\ pc[w] \in InFinally \cup {"done"} =>
       bundle # w /\ (anchor # w \/ "approval" \in leaked[w])

(* What a writer that is not interrupted will clean up.                    *)
CleanInv(w) ==
  /\ pc[w] \in {"idle", "enter"} => staged[w] = {}
  /\ pc[w] \in {"idle", "enter", "stage", "stage_anchor", "lock"} => lock # w
  /\ "anchor" \in staged[w] => "staging" \in knows[w] \/ "anchor" \in leaked[w]
  /\ pc[w] \in {"clean_anchor", "done"} /\ result[w] \in Kept => "bundle" \notin staged[w]
  /\ pc[w] = "done" /\ result[w] \in Kept /\ "anchor" \in staged[w] => "anchor" \in leaked[w]
  /\ pc[w] # "lock_identity" /\ result[w] \in Kept \cup {"none"} /\ lock = w =>
       "lock" \in knows[w] \/ "lock" \in leaked[w]
  /\ pc[w] \in {"clean", "clean_anchor", "done"} /\ result[w] \in Kept =>
       lock # w \/ "lock" \in leaked[w]

IInv ==
  /\ TypeOK
  /\ \A w \in Writers : KindInv(w) /\ OwnInv(w) /\ OutcomeInv(w) /\ CleanInv(w)

Step(w) == Publish(w) \/ Interrupt(w) \/ Crash(w)

-----------------------------------------------------------------------------
(* Types.                                                                  *)

LEMMA TypeStep ==
  ASSUME TypeOK, NEW w \in Writers, Step(w)
  PROVE  TypeOK'
<1> USE WritersAssumption, BoundAssumption
    DEF TypeOK, Writers, paths, Goto, Stages, Learns, Ends, Raise, Unverified, Fault,
        InTry, InHandler,
        InFinally, InApproval
<1>1. CASE Begin(w)
  BY <1>1 DEF Begin
<1>2. CASE Enter(w)
  BY <1>2 DEF Enter
<1>3. CASE StageBundle(w)
  BY <1>3 DEF StageBundle
<1>4. CASE StageAnchor(w)
  BY <1>4 DEF StageAnchor
<1>5. CASE TakeLock(w)
  BY <1>5 DEF TakeLock
<1>6. CASE IdentifyLock(w)
  BY <1>6 DEF IdentifyLock
<1>7. CASE Recheck(w)
  BY <1>7 DEF Recheck
<1>8. CASE RenameBundle(w)
  BY <1>8 DEF RenameBundle
<1>9. CASE MarkBundle(w)
  BY <1>9 DEF Mark, MarkBundle
<1>10. CASE RenameAnchor(w)
  BY <1>10 DEF RenameAnchor
<1>11. CASE MarkAnchor(w)
  BY <1>11 DEF Mark, MarkAnchor
<1>12. CASE Sync(w)
  BY <1>12 DEF Sync
<1>13. CASE RollAnchor(w)
  BY <1>13 DEF RollBack, RollAnchor
<1>14. CASE UnlinkAnchor(w)
  BY <1>14 DEF UnlinkAnchor
<1>15. CASE RollBundle(w)
  BY <1>15 DEF RollBack, RollBundle
<1>16. CASE RemoveBundle(w)
  BY <1>16 DEF RemoveBundle
<1>17. CASE RollSync(w)
  BY <1>17 DEF RollSync
<1>18. CASE Close(w)
  BY <1>18 DEF Close
<1>19. CASE Unlock(w)
  BY <1>19 DEF Unlock
<1>20. CASE CleanBundle(w)
  BY <1>20 DEF Clean, CleanBundle
<1>21. CASE CleanAnchor(w)
  BY <1>21 DEF Clean, CleanAnchor
<1>22. CASE OpenApproval(w)
  BY <1>22 DEF OpenApproval
<1>23. CASE IdentifyApproval(w)
  BY <1>23 DEF IdentifyApproval
<1>24. CASE WriteApproval(w)
  BY <1>24 DEF WriteApproval
<1>25. CASE ReloadApproval(w)
  BY <1>25 DEF ReloadApproval
<1>26. CASE TakeBackApproval(w)
  BY <1>26 DEF TakeBackApproval
<1>27. CASE UnlinkApproval(w)
  BY <1>27 DEF UnlinkApproval
<1>28. CASE Interrupt(w)
  BY <1>28 DEF Interrupt
<1>29. CASE Crash(w)
  BY <1>29 DEF Crash
<1> QED
  BY <1>1, <1>2, <1>3, <1>4, <1>5, <1>6, <1>7, <1>8, <1>9, <1>10, <1>11, <1>12,
     <1>13, <1>14, <1>15, <1>16, <1>17, <1>18, <1>19, <1>20, <1>21, <1>22, <1>23,
     <1>24, <1>25, <1>26, <1>27, <1>28, <1>29
  DEF Step, Publish

-----------------------------------------------------------------------------
(* A step of one writer leaves the others where they are, and changes a    *)
(* path only if it is free or its own.                                     *)

Undisturbed(v) ==
  /\ pc'[v] = pc[v] /\ knows'[v] = knows[v]
  /\ v \in partial' <=> v \in partial
  /\ bundle' = v <=> bundle = v
  /\ anchor' = v <=> anchor = v
  /\ lock' = v => lock = v
  /\ staged'[v] = staged[v] /\ leaked'[v] = leaked[v] /\ result'[v] = result[v]

(* A step of one writer leaves the variables of every other writer as they *)
(* are.                                                                    *)
LEMMA Frame ==
  ASSUME TypeOK, NEW w \in Writers, OwnInv(w), Step(w)
  PROVE  /\ \A v \in Writers \ {w} : Undisturbed(v)
         /\ bundle' # bundle => bundle \in {w, NoFile}
         /\ anchor' # anchor => anchor \in {w, NoFile}
<1> USE WritersAssumption
    DEF TypeOK, Writers, OwnInv, Undisturbed, paths, Goto, Stages, Learns, Ends, Raise,
        Unverified
<1>1. CASE Begin(w)
  BY <1>1 DEF Begin
<1>2. CASE Enter(w)
  BY <1>2 DEF Enter
<1>3. CASE StageBundle(w)
  BY <1>3 DEF StageBundle
<1>4. CASE StageAnchor(w)
  BY <1>4 DEF StageAnchor
<1>5. CASE TakeLock(w)
  BY <1>5 DEF TakeLock
<1>6. CASE IdentifyLock(w)
  BY <1>6 DEF IdentifyLock
<1>7. CASE Recheck(w)
  BY <1>7 DEF Recheck
<1>8. CASE RenameBundle(w)
  BY <1>8 DEF RenameBundle
<1>9. CASE MarkBundle(w)
  BY <1>9 DEF Mark, MarkBundle
<1>10. CASE RenameAnchor(w)
  BY <1>10 DEF RenameAnchor
<1>11. CASE MarkAnchor(w)
  BY <1>11 DEF Mark, MarkAnchor
<1>12. CASE Sync(w)
  BY <1>12 DEF Sync
<1>13. CASE RollAnchor(w)
  BY <1>13 DEF RollBack, RollAnchor
<1>14. CASE UnlinkAnchor(w)
  BY <1>14 DEF UnlinkAnchor
<1>15. CASE RollBundle(w)
  BY <1>15 DEF RollBack, RollBundle
<1>16. CASE RemoveBundle(w)
  BY <1>16 DEF RemoveBundle
<1>17. CASE RollSync(w)
  BY <1>17 DEF RollSync
<1>18. CASE Close(w)
  BY <1>18 DEF Close
<1>19. CASE Unlock(w)
  BY <1>19 DEF Unlock
<1>20. CASE CleanBundle(w)
  BY <1>20 DEF Clean, CleanBundle
<1>21. CASE CleanAnchor(w)
  BY <1>21 DEF Clean, CleanAnchor
<1>22. CASE OpenApproval(w)
  BY <1>22 DEF OpenApproval
<1>23. CASE IdentifyApproval(w)
  BY <1>23 DEF IdentifyApproval
<1>24. CASE WriteApproval(w)
  BY <1>24 DEF WriteApproval
<1>25. CASE ReloadApproval(w)
  BY <1>25 DEF ReloadApproval
<1>26. CASE TakeBackApproval(w)
  BY <1>26 DEF TakeBackApproval
<1>27. CASE UnlinkApproval(w)
  BY <1>27 DEF UnlinkApproval
<1>28. CASE Interrupt(w)
  BY <1>28 DEF Interrupt
<1>29. CASE Crash(w)
  BY <1>29 DEF Crash
<1> QED
  BY <1>1, <1>2, <1>3, <1>4, <1>5, <1>6, <1>7, <1>8, <1>9, <1>10, <1>11, <1>12,
     <1>13, <1>14, <1>15, <1>16, <1>17, <1>18, <1>19, <1>20, <1>21, <1>22, <1>23,
     <1>24, <1>25, <1>26, <1>27, <1>28, <1>29
  DEF Step, Publish

-----------------------------------------------------------------------------
(* The writer that takes the step.                                         *)

LEMMA OwnStep ==
  ASSUME TypeOK, NEW w \in Writers, OwnInv(w), Step(w)
  PROVE  OwnInv(w)'
<1> USE WritersAssumption
    DEF TypeOK, Writers, OwnInv, BeforeBundle, WithBundle, InApproval, InTry,
        InHandler, paths, Goto, Stages, Learns,
        Ends, Raise, Unverified, Active
<1>1. CASE Begin(w)
  BY <1>1 DEF Begin
<1>2. CASE Enter(w)
  BY <1>2 DEF Enter
<1>3. CASE StageBundle(w)
  BY <1>3 DEF StageBundle
<1>4. CASE StageAnchor(w)
  BY <1>4 DEF StageAnchor
<1>5. CASE TakeLock(w)
  BY <1>5 DEF TakeLock
<1>6. CASE IdentifyLock(w)
  BY <1>6 DEF IdentifyLock
<1>7. CASE Recheck(w)
  BY <1>7 DEF Recheck
<1>8. CASE RenameBundle(w)
  BY <1>8 DEF RenameBundle
<1>9. CASE MarkBundle(w)
  BY <1>9 DEF Mark, MarkBundle
<1>10. CASE RenameAnchor(w)
  BY <1>10 DEF RenameAnchor
<1>11. CASE MarkAnchor(w)
  BY <1>11 DEF Mark, MarkAnchor
<1>12. CASE Sync(w)
  BY <1>12 DEF Sync
<1>13. CASE RollAnchor(w)
  BY <1>13 DEF RollBack, RollAnchor
<1>14. CASE UnlinkAnchor(w)
  BY <1>14 DEF UnlinkAnchor
<1>15. CASE RollBundle(w)
  BY <1>15 DEF RollBack, RollBundle
<1>16. CASE RemoveBundle(w)
  BY <1>16 DEF RemoveBundle
<1>17. CASE RollSync(w)
  BY <1>17 DEF RollSync
<1>18. CASE Close(w)
  BY <1>18 DEF Close
<1>19. CASE Unlock(w)
  BY <1>19 DEF Unlock
<1>20. CASE CleanBundle(w)
  BY <1>20 DEF Clean, CleanBundle
<1>21. CASE CleanAnchor(w)
  BY <1>21 DEF Clean, CleanAnchor
<1>22. CASE OpenApproval(w)
  BY <1>22 DEF OpenApproval
<1>23. CASE IdentifyApproval(w)
  BY <1>23 DEF IdentifyApproval
<1>24. CASE WriteApproval(w)
  BY <1>24 DEF WriteApproval
<1>25. CASE ReloadApproval(w)
  BY <1>25 DEF ReloadApproval
<1>26. CASE TakeBackApproval(w)
  BY <1>26 DEF TakeBackApproval
<1>27. CASE UnlinkApproval(w)
  BY <1>27 DEF UnlinkApproval
<1>28. CASE Interrupt(w)
  BY <1>28 DEF Interrupt
<1>29. CASE Crash(w)
  BY <1>29 DEF Crash
<1> QED
  BY <1>1, <1>2, <1>3, <1>4, <1>5, <1>6, <1>7, <1>8, <1>9, <1>10, <1>11, <1>12,
     <1>13, <1>14, <1>15, <1>16, <1>17, <1>18, <1>19, <1>20, <1>21, <1>22, <1>23,
     <1>24, <1>25, <1>26, <1>27, <1>28, <1>29
  DEF Step, Publish

(* Every step of a writer keeps KindInv of every writer.                   *)
LEMMA KindStep ==
  ASSUME TypeOK, NEW w \in Writers, KindInv(w), Step(w)
  PROVE  KindInv(w)'
<1> USE WritersAssumption
    DEF TypeOK, Writers, KindInv, OnlyPublishers, InApproval, InTry, InHandler,
        InFinally, paths, Goto, Stages, Learns, Ends, Raise,
        Unverified, Active
<1>1. CASE Begin(w)
  BY <1>1 DEF Begin
<1>2. CASE Enter(w)
  BY <1>2 DEF Enter
<1>3. CASE StageBundle(w)
  BY <1>3 DEF StageBundle
<1>4. CASE StageAnchor(w)
  BY <1>4 DEF StageAnchor
<1>5. CASE TakeLock(w)
  BY <1>5 DEF TakeLock
<1>6. CASE IdentifyLock(w)
  BY <1>6 DEF IdentifyLock
<1>7. CASE Recheck(w)
  BY <1>7 DEF Recheck
<1>8. CASE RenameBundle(w)
  BY <1>8 DEF RenameBundle
<1>9. CASE MarkBundle(w)
  BY <1>9 DEF Mark, MarkBundle
<1>10. CASE RenameAnchor(w)
  BY <1>10 DEF RenameAnchor
<1>11. CASE MarkAnchor(w)
  BY <1>11 DEF Mark, MarkAnchor
<1>12. CASE Sync(w)
  BY <1>12 DEF Sync
<1>13. CASE RollAnchor(w)
  BY <1>13 DEF RollBack, RollAnchor
<1>14. CASE UnlinkAnchor(w)
  BY <1>14 DEF UnlinkAnchor
<1>15. CASE RollBundle(w)
  BY <1>15 DEF RollBack, RollBundle
<1>16. CASE RemoveBundle(w)
  BY <1>16 DEF RemoveBundle
<1>17. CASE RollSync(w)
  BY <1>17 DEF RollSync
<1>18. CASE Close(w)
  BY <1>18 DEF Close
<1>19. CASE Unlock(w)
  BY <1>19 DEF Unlock
<1>20. CASE CleanBundle(w)
  BY <1>20 DEF Clean, CleanBundle
<1>21. CASE CleanAnchor(w)
  BY <1>21 DEF Clean, CleanAnchor
<1>22. CASE OpenApproval(w)
  BY <1>22 DEF OpenApproval
<1>23. CASE IdentifyApproval(w)
  BY <1>23 DEF IdentifyApproval
<1>24. CASE WriteApproval(w)
  BY <1>24 DEF WriteApproval
<1>25. CASE ReloadApproval(w)
  BY <1>25 DEF ReloadApproval
<1>26. CASE TakeBackApproval(w)
  BY <1>26 DEF TakeBackApproval
<1>27. CASE UnlinkApproval(w)
  BY <1>27 DEF UnlinkApproval
<1>28. CASE Interrupt(w)
  BY <1>28 DEF Interrupt
<1>29. CASE Crash(w)
  BY <1>29 DEF Crash
<1> QED
  BY <1>1, <1>2, <1>3, <1>4, <1>5, <1>6, <1>7, <1>8, <1>9, <1>10, <1>11, <1>12,
     <1>13, <1>14, <1>15, <1>16, <1>17, <1>18, <1>19, <1>20, <1>21, <1>22, <1>23,
     <1>24, <1>25, <1>26, <1>27, <1>28, <1>29
  DEF Step, Publish

(* Every step of a writer keeps OutcomeInv of every writer.                *)
LEMMA OutcomeStep ==
  ASSUME TypeOK, NEW w \in Writers, KindInv(w), OwnInv(w), OutcomeInv(w), Step(w)
  PROVE  OutcomeInv(w)'
<1> USE WritersAssumption
    DEF TypeOK, Writers, KindInv, OwnInv, OutcomeInv, InPlace, Rolled, Kept,
        OnlyPublishers, BeforeBundle, WithBundle,
        InApproval, InTry, InHandler, InFinally, paths, Goto, Stages, Learns, Ends, Raise,
        Unverified, Active
<1>1. CASE Begin(w)
  BY <1>1 DEF Begin
<1>2. CASE Enter(w)
  BY <1>2 DEF Enter
<1>3. CASE StageBundle(w)
  BY <1>3 DEF StageBundle
<1>4. CASE StageAnchor(w)
  BY <1>4 DEF StageAnchor
<1>5. CASE TakeLock(w)
  BY <1>5 DEF TakeLock
<1>6. CASE IdentifyLock(w)
  BY <1>6 DEF IdentifyLock
<1>7. CASE Recheck(w)
  BY <1>7 DEF Recheck
<1>8. CASE RenameBundle(w)
  BY <1>8 DEF RenameBundle
<1>9. CASE MarkBundle(w)
  BY <1>9 DEF Mark, MarkBundle
<1>10. CASE RenameAnchor(w)
  BY <1>10 DEF RenameAnchor
<1>11. CASE MarkAnchor(w)
  BY <1>11 DEF Mark, MarkAnchor
<1>12. CASE Sync(w)
  BY <1>12 DEF Sync
<1>13. CASE RollAnchor(w)
  BY <1>13 DEF RollBack, RollAnchor
<1>14. CASE UnlinkAnchor(w)
  BY <1>14 DEF UnlinkAnchor
<1>15. CASE RollBundle(w)
  BY <1>15 DEF RollBack, RollBundle
<1>16. CASE RemoveBundle(w)
  BY <1>16 DEF RemoveBundle
<1>17. CASE RollSync(w)
  BY <1>17 DEF RollSync
<1>18. CASE Close(w)
  BY <1>18 DEF Close
<1>19. CASE Unlock(w)
  BY <1>19 DEF Unlock
<1>20. CASE CleanBundle(w)
  BY <1>20 DEF Clean, CleanBundle
<1>21. CASE CleanAnchor(w)
  BY <1>21 DEF Clean, CleanAnchor
<1>22. CASE OpenApproval(w)
  BY <1>22 DEF OpenApproval
<1>23. CASE IdentifyApproval(w)
  BY <1>23 DEF IdentifyApproval
<1>24. CASE WriteApproval(w)
  BY <1>24 DEF WriteApproval
<1>25. CASE ReloadApproval(w)
  BY <1>25 DEF ReloadApproval
<1>26. CASE TakeBackApproval(w)
  BY <1>26 DEF TakeBackApproval
<1>27. CASE UnlinkApproval(w)
  BY <1>27 DEF UnlinkApproval
<1>28. CASE Interrupt(w)
  BY <1>28 DEF Interrupt
<1>29. CASE Crash(w)
  BY <1>29 DEF Crash
<1> QED
  BY <1>1, <1>2, <1>3, <1>4, <1>5, <1>6, <1>7, <1>8, <1>9, <1>10, <1>11, <1>12,
     <1>13, <1>14, <1>15, <1>16, <1>17, <1>18, <1>19, <1>20, <1>21, <1>22, <1>23,
     <1>24, <1>25, <1>26, <1>27, <1>28, <1>29
  DEF Step, Publish

(* Every step of a writer keeps CleanInv of every writer.                  *)
LEMMA CleanStep ==
  ASSUME TypeOK, NEW w \in Writers, KindInv(w), OutcomeInv(w), CleanInv(w), Step(w)
  PROVE  CleanInv(w)'
<1> USE WritersAssumption
    DEF TypeOK, Writers, KindInv, OutcomeInv, CleanInv, Kept, OnlyPublishers,
        InApproval, InTry, InHandler, InFinally,
        paths, Goto, Stages, Learns, Ends, Raise,
        Unverified, Active
<1>1. CASE Begin(w)
  BY <1>1 DEF Begin
<1>2. CASE Enter(w)
  BY <1>2 DEF Enter
<1>3. CASE StageBundle(w)
  BY <1>3 DEF StageBundle
<1>4. CASE StageAnchor(w)
  BY <1>4 DEF StageAnchor
<1>5. CASE TakeLock(w)
  BY <1>5 DEF TakeLock
<1>6. CASE IdentifyLock(w)
  BY <1>6 DEF IdentifyLock
<1>7. CASE Recheck(w)
  BY <1>7 DEF Recheck
<1>8. CASE RenameBundle(w)
  BY <1>8 DEF RenameBundle
<1>9. CASE MarkBundle(w)
  BY <1>9 DEF Mark, MarkBundle
<1>10. CASE RenameAnchor(w)
  BY <1>10 DEF RenameAnchor
<1>11. CASE MarkAnchor(w)
  BY <1>11 DEF Mark, MarkAnchor
<1>12. CASE Sync(w)
  BY <1>12 DEF Sync
<1>13. CASE RollAnchor(w)
  BY <1>13 DEF RollBack, RollAnchor
<1>14. CASE UnlinkAnchor(w)
  BY <1>14 DEF UnlinkAnchor
<1>15. CASE RollBundle(w)
  BY <1>15 DEF RollBack, RollBundle
<1>16. CASE RemoveBundle(w)
  BY <1>16 DEF RemoveBundle
<1>17. CASE RollSync(w)
  BY <1>17 DEF RollSync
<1>18. CASE Close(w)
  BY <1>18 DEF Close
<1>19. CASE Unlock(w)
  BY <1>19 DEF Unlock
<1>20. CASE CleanBundle(w)
  BY <1>20 DEF Clean, CleanBundle
<1>21. CASE CleanAnchor(w)
  BY <1>21 DEF Clean, CleanAnchor
<1>22. CASE OpenApproval(w)
  BY <1>22 DEF OpenApproval
<1>23. CASE IdentifyApproval(w)
  BY <1>23 DEF IdentifyApproval
<1>24. CASE WriteApproval(w)
  BY <1>24 DEF WriteApproval
<1>25. CASE ReloadApproval(w)
  BY <1>25 DEF ReloadApproval
<1>26. CASE TakeBackApproval(w)
  BY <1>26 DEF TakeBackApproval
<1>27. CASE UnlinkApproval(w)
  BY <1>27 DEF UnlinkApproval
<1>28. CASE Interrupt(w)
  BY <1>28 DEF Interrupt
<1>29. CASE Crash(w)
  BY <1>29 DEF Crash
<1> QED
  BY <1>1, <1>2, <1>3, <1>4, <1>5, <1>6, <1>7, <1>8, <1>9, <1>10, <1>11, <1>12,
     <1>13, <1>14, <1>15, <1>16, <1>17, <1>18, <1>19, <1>20, <1>21, <1>22, <1>23,
     <1>24, <1>25, <1>26, <1>27, <1>28, <1>29
  DEF Step, Publish

-----------------------------------------------------------------------------
(* The inductive invariant and what follows from it.                       *)

LEMMA InvInit ==
  ASSUME Init
  PROVE  IInv
<1>1. TypeOK
  BY BoundAssumption DEF Init, TypeOK, Writers
<1>2. ASSUME NEW w \in Writers PROVE KindInv(w) /\ OwnInv(w)
  BY <1>2, WritersAssumption
  DEF Init, KindInv, OnlyPublishers, OwnInv, Writers, WithBundle, InApproval
<1>3. ASSUME NEW w \in Writers PROVE OutcomeInv(w) /\ CleanInv(w)
  BY <1>3, WritersAssumption
  DEF Init, OutcomeInv, CleanInv, Rolled, InHandler, InFinally, Kept, Writers
<1> QED
  BY <1>1, <1>2, <1>3 DEF IInv

(* Every step keeps the inductive invariant.                               *)
LEMMA InvStep ==
  ASSUME IInv, [Next]_vars
  PROVE  IInv'
<1>1. CASE \E w \in Writers : Step(w)
  <2>1. PICK w \in Writers : Step(w)
    BY <1>1
  <2>2. TypeOK' /\ KindInv(w)' /\ OwnInv(w)' /\ OutcomeInv(w)' /\ CleanInv(w)'
    BY <2>1, TypeStep, KindStep, OwnStep, OutcomeStep, CleanStep DEF IInv
  <2>3. ASSUME NEW v \in Writers \ {w}
        PROVE  KindInv(v)' /\ OwnInv(v)' /\ OutcomeInv(v)' /\ CleanInv(v)'
    <3>1. Undisturbed(v) /\ KindInv(v) /\ OwnInv(v) /\ OutcomeInv(v) /\ CleanInv(v)
      BY <2>1, <2>3, Frame DEF IInv
    <3>2. KindInv(v)' /\ OwnInv(v)'
      BY <3>1 DEF Undisturbed, KindInv, OwnInv
    <3>3. OutcomeInv(v)'
      BY <3>1 DEF Undisturbed, OutcomeInv, InPlace
    <3>4. CleanInv(v)'
      BY <3>1 DEF Undisturbed, CleanInv
    <3> QED
      BY <3>2, <3>3, <3>4
  <2> QED
    BY <2>2, <2>3 DEF IInv
<1>2. CASE RemoveLock
  BY <1>2, BoundAssumption, WritersAssumption
  DEF RemoveLock, IInv, TypeOK, KindInv, OwnInv, OutcomeInv, InPlace, CleanInv, Fault
<1>3. CASE UNCHANGED vars
  BY <1>3 DEF vars, paths, IInv, TypeOK, KindInv, OwnInv, OutcomeInv, InPlace, CleanInv
<1> QED
  BY <1>1, <1>2, <1>3 DEF Next, Step

(* In every reachable state every variable has its type and OwnInv holds   *)
(* of every writer.                                                        *)
THEOREM Inductive == Spec => []IInv
<1>1. Init => IInv
  BY InvInit
<1>2. IInv /\ [Next]_vars => IInv'
  BY InvStep
<1> QED
  BY <1>1, <1>2, PTL DEF Spec

(* An anchor vouches for a bundle that is there and complete at every      *)
(* moment, with any number of writers, faults, kills and interrupts, and   *)
(* also when an operator removes the lock of a running publisher.          *)
THEOREM AnchorAlwaysVouches == Spec => []AnchorVouchesForBundle
<1>1. IInv => AnchorVouchesForBundle
  BY DEF IInv, OwnInv, AnchorVouchesForBundle, Writers
<1> QED
  BY <1>1, Inductive, PTL

(* What a writer reports is what it leaves: `ok` its complete outputs, an   *)
(* ordinary failure nothing of them, and no end but an interrupt, a kill   *)
(* or an OSError of the cleanup a staged file or the lock, the three named *)
(* leaks apart.                                                            *)
THEOREM OutcomeAlwaysTrue == Spec => []OutcomeIsTrue
<1>1. ASSUME IInv PROVE OutcomeIsTrue
  <2>1. SUFFICES ASSUME NEW w \in Writers, pc[w] = "done"
                 PROVE  /\ result[w] = "ok" => InPlace(w)
                        /\ result[w] = "failed" =>
                             bundle # w /\ (anchor # w \/ "approval" \in leaked[w])
                        /\ result[w] \in {"ok", "failed", "unverified"} =>
                             /\ staged[w] \subseteq leaked[w]
                             /\ lock # w \/ "lock" \in leaked[w]
    BY DEF OutcomeIsTrue
  <2>2. staged[w] \subseteq {"bundle", "anchor"} /\ OutcomeInv(w) /\ CleanInv(w)
    BY <1>1 DEF IInv, TypeOK
  <2> QED
    BY <2>1, <2>2 DEF OutcomeInv, CleanInv, Kept
<1> QED
  BY <1>1, Inductive, PTL

(* No rename and no rollback ever replaces or removes what another writer  *)
(* put at the destination or at the file path, with or without the lock.   *)
THEOREM OnlyOwnOutputsTouched == Spec => TouchesOnlyItsOwn
<1>1. ASSUME IInv, [Next]_vars
      PROVE  [\A w \in Writers : pc'[w] # pc[w] =>
                /\ bundle' # bundle => bundle \in {w, NoFile}
                /\ anchor' # anchor => anchor \in {w, NoFile}]_vars
  <2>1. CASE \E w \in Writers : Step(w)
    <3>1. PICK w \in Writers : Step(w)
      BY <2>1
    <3>2. \A v \in Writers \ {w} : pc'[v] = pc[v]
      BY <1>1, <3>1, Frame DEF IInv, Undisturbed
    <3>3. /\ bundle' # bundle => bundle \in {w, NoFile}
          /\ anchor' # anchor => anchor \in {w, NoFile}
      BY <1>1, <3>1, Frame DEF IInv
    <3> QED
      BY <3>2, <3>3
  <2>2. CASE RemoveLock
    BY <2>2 DEF RemoveLock
  <2>3. CASE UNCHANGED vars
    BY <2>3
  <2> QED
    BY <1>1, <2>1, <2>2, <2>3 DEF Next, Step
<1> QED
  BY <1>1, Inductive, PTL DEF Spec, TouchesOnlyItsOwn
=============================================================================
