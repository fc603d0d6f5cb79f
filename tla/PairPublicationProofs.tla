------------------------- MODULE PairPublicationProofs -------------------------
(***************************************************************************)
(* Proofs about PairPublication for any number of writers of each kind,    *)
(* with any number of failures, kills and interrupts: the four properties  *)
(* its run checks.  They rest on where a writer stands: what its flags     *)
(* say, what it has put where, and that a writer beside which no other     *)
(* --force writer runs finds its own files where it put them.              *)
(***************************************************************************)
EXTENDS PairPublication, TLAPS

Step(w) == Publish(w) \/ Interrupt(w) \/ Crash(w)

\* Nothing of this writer has been at a destination yet.
Before ==
  {"idle", "look_recording", "look_evidence", "stage", "link_recording", "find_original",
   "link_backup", "replace_recording"}
Fresh(w) == pc[w] \in Before \/ (pc[w] = "handler" /\ published[w] = {})

\* Its Recording is at the destination, or was until another writer came.
HasRecording(w) ==
  \/ pc[w] \in {"mark_recording", "link_evidence", "replace_evidence", "mark_evidence"}
  \/ pc[w] = "handler" /\ published[w] # {}
  \/ pc[w] = "finally" /\ "evidence" \in published[w]
HasEvidence(w) ==
  \/ pc[w] = "mark_evidence"
  \/ pc[w] = "finally" /\ "evidence" \in published[w]

\* A backup that the finally block would unlink while nothing was replaced.
Untouched(w) ==
  /\ held[w]
  /\ \/ Fresh(w)
     \/ pc[w] = "finally" /\ published[w] = {} /\ result[w] # "interrupted_unmarked"

\* An ordinary failure of write_live_outputs, reported or about to be.
Failed(w) ==
  w \notin Publishers /\ result[w] = "error" /\ pc[w] \in {"finally", "done"}

(* Which statements a writer of each kind has.                             *)
KindInv(w) ==
  /\ w \in CreateOnly =>
       pc[w] \notin {"find_original", "link_backup", "replace_recording", "replace_evidence"}
  /\ w \in Forcers =>
       pc[w] \notin {"look_recording", "look_evidence", "link_recording", "link_evidence"}

(* The flags, the result and the private files, from where a writer is.    *)
FlagInv(w) ==
  /\ pc[w] \in Before \cup {"mark_recording"} => published[w] = {}
  /\ pc[w] \in {"link_evidence", "replace_evidence", "mark_evidence"} =>
       published[w] = {"recording"}
  /\ pc[w] = "handler" => published[w] \in {{}, {"recording"}}
  /\ pc[w] \notin {"handler", "finally", "done"} => result[w] = "none"
  /\ pc[w] = "handler" => result[w] = "error"
  /\ pc[w] \in Before \ {"replace_recording"} => ~held[w]
  /\ pc[w] \in {"idle", "look_recording", "look_evidence"} => staged[w] = {}
  /\ pc[w] # "done" => (backup[w] # NoFile <=> held[w])
  /\ pc[w] = "finally" =>
       /\ result[w] = "ok" => published[w] = Files
       /\ result[w] = "error" /\ held[w] => published[w] = {}
       /\ result[w] = "rollback_failed" => published[w] = {"recording"}
       /\ published[w] \in {{}, {"recording"}, Files}
       /\ result[w] # "none"
  /\ pc[w] = "done" /\ result[w] \in {"ok", "error", "rollback_failed"} =>
       /\ staged[w] = {}
       /\ backup[w] # NoFile <=> held[w] /\ result[w] = "rollback_failed"

(* What a writer has at the destinations.                                  *)
PlaceInv(w) ==
  /\ Fresh(w) => at["recording"] # w /\ at["evidence"] # w /\ \A v \in Writers : backup[v] # w
  /\ pc[w] \notin {"mark_evidence", "finally", "done"} => at["evidence"] # w
  /\ ~overlapped =>
       /\ HasRecording(w) => at["recording"] = w
       /\ HasEvidence(w) => at["evidence"] = w
       /\ Untouched(w) => backup[w] = at["recording"]
       /\ pc[w] = "replace_recording" /\ ~held[w] => at["recording"] = NoFile
       /\ pc[w] # "done" \/ Failed(w) => \A v \in Writers : backup[v] # w
       /\ Failed(w) => at["recording"] # w /\ at["evidence"] # w

(* Beside an active --force writer nobody else is active.                  *)
AloneInv ==
  ~overlapped => \A v, w \in Writers :
                   v # w /\ Active(v) /\ Active(w) => {v, w} \cap Forcers = {}

(* EvidenceKeepsItsRecording, but an interrupt between a replacement and   *)
(* its flag does harm only once the finally block has run.                 *)
KeptInv ==
  at["evidence"] # NoFile =>
    \/ at["evidence"] = at["recording"]
    \/ \E w \in Writers : backup[w] = at["evidence"]
    \/ overlapped
    \/ \E w \in Writers : InterruptedBeforeMark(w) /\ pc[w] = "done"

WithoutTyped == without \in [LiveWriters -> [Files -> Contents]]

\* Its Recording is at the destination, its Evidence is not.
Half(w) ==
  \/ pc[w] \in {"mark_recording", "link_evidence", "replace_evidence"}
  \/ pc[w] = "handler" /\ published[w] # {}

(* What the paths would hold without a writer: what they do hold before it *)
(* came and after it failed, what its rollback restores in between.        *)
WithoutInv(w) ==
  ~overlapped =>
    /\ Fresh(w) \/ Failed(w) => \A f \in Files : at[f] = without[w][f]
    /\ Half(w) =>
         /\ at["evidence"] = without[w]["evidence"]
         /\ without[w]["recording"] = IF held[w] THEN backup[w] ELSE NoFile

IInv ==
  /\ TypeOK
  /\ WithoutTyped
  /\ AloneInv
  /\ KeptInv
  /\ \A w \in Writers : KindInv(w) /\ FlagInv(w) /\ PlaceInv(w)
  /\ \A w \in LiveWriters : WithoutInv(w)

-----------------------------------------------------------------------------
(* Every step keeps the types.                                             *)
LEMMA TypeStep ==
  ASSUME TypeOK, NEW w \in Writers, KindInv(w), Step(w)
  PROVE  TypeOK'
<1> USE WritersAssumption, BoundAssumption
    DEF TypeOK, KindInv, Writers, CreateOnly, Origins, Contents, Files, Locations, Goto, Raise,
        Fault
<1>1. CASE Begin(w)
  BY <1>1 DEF Begin
<1>2. CASE Look(w, "look_recording", "recording", "look_evidence")
  BY <1>2 DEF Look
<1>3. CASE Look(w, "look_evidence", "evidence", "stage")
  BY <1>3 DEF Look
<1>4. CASE Stage(w)
  BY <1>4 DEF Stage
<1>5. CASE LinkRecording(w)
  BY <1>5 DEF LinkRecording
<1>6. CASE LinkEvidence(w)
  BY <1>6 DEF LinkEvidence
<1>7. CASE FindOriginal(w)
  BY <1>7 DEF FindOriginal
<1>8. CASE LinkBackup(w)
  <2>1. at["recording"] \in Contents /\ w \notin CreateOnly
    BY <1>8 DEF LinkBackup
  <2>2. backup' \in [Writers -> Contents] /\ held' \in [Writers -> BOOLEAN]
    BY <1>8, <2>1 DEF LinkBackup
  <2> QED
    BY <1>8, <2>1, <2>2 DEF LinkBackup
<1>9. CASE Replace(w, "replace_recording", "recording", "mark_recording")
  BY <1>9 DEF Replace
<1>10. CASE Replace(w, "replace_evidence", "evidence", "mark_evidence")
  BY <1>10 DEF Replace
<1>11. CASE MarkRecording(w)
  BY <1>11 DEF MarkRecording
<1>12. CASE MarkEvidence(w)
  BY <1>12 DEF MarkEvidence
<1>13. CASE NothingToRollBack(w)
  BY <1>13 DEF NothingToRollBack
<1>14. CASE RollBack(w)
  BY <1>14 DEF RollBack
<1>15. CASE RollBackFails(w)
  BY <1>15 DEF RollBackFails
<1>16. CASE Finally(w)
  BY <1>16 DEF Finally, DropsBackup
<1>17. CASE Interrupt(w)
  BY <1>17 DEF Interrupt
<1>18. CASE Crash(w)
  BY <1>18 DEF Crash
<1> QED
  BY <1>1, <1>2, <1>3, <1>4, <1>5, <1>6, <1>7, <1>8, <1>9,
     <1>10, <1>11, <1>12, <1>13, <1>14, <1>15, <1>16, <1>17, <1>18
  DEF Step, Publish

(* A step of one writer leaves the locals of every other as they are.      *)
LEMMA Frame ==
  ASSUME TypeOK, NEW w \in Writers, NEW v \in Writers \ {w}, Step(w)
  PROVE  /\ pc'[v] = pc[v] /\ published'[v] = published[v] /\ held'[v] = held[v]
         /\ backup'[v] = backup[v] /\ staged'[v] = staged[v] /\ result'[v] = result[v]
<1> USE DEF TypeOK, Goto, Raise, Fault
<1>1. CASE Begin(w)
  BY <1>1 DEF Begin
<1>2. CASE Look(w, "look_recording", "recording", "look_evidence")
  BY <1>2 DEF Look
<1>3. CASE Look(w, "look_evidence", "evidence", "stage")
  BY <1>3 DEF Look
<1>4. CASE Stage(w)
  BY <1>4 DEF Stage
<1>5. CASE LinkRecording(w)
  BY <1>5 DEF LinkRecording
<1>6. CASE LinkEvidence(w)
  BY <1>6 DEF LinkEvidence
<1>7. CASE FindOriginal(w)
  BY <1>7 DEF FindOriginal
<1>8. CASE LinkBackup(w)
  BY <1>8 DEF LinkBackup
<1>9. CASE Replace(w, "replace_recording", "recording", "mark_recording")
  BY <1>9 DEF Replace
<1>10. CASE Replace(w, "replace_evidence", "evidence", "mark_evidence")
  BY <1>10 DEF Replace
<1>11. CASE MarkRecording(w)
  BY <1>11 DEF MarkRecording
<1>12. CASE MarkEvidence(w)
  BY <1>12 DEF MarkEvidence
<1>13. CASE NothingToRollBack(w)
  BY <1>13 DEF NothingToRollBack
<1>14. CASE RollBack(w)
  BY <1>14 DEF RollBack
<1>15. CASE RollBackFails(w)
  BY <1>15 DEF RollBackFails
<1>16. CASE Finally(w)
  BY <1>16 DEF Finally, DropsBackup
<1>17. CASE Interrupt(w)
  BY <1>17 DEF Interrupt
<1>18. CASE Crash(w)
  BY <1>18 DEF Crash
<1> QED
  BY <1>1, <1>2, <1>3, <1>4, <1>5, <1>6, <1>7, <1>8, <1>9,
     <1>10, <1>11, <1>12, <1>13, <1>14, <1>15, <1>16, <1>17, <1>18
  DEF Step, Publish

(* Once a --force writer has run beside another, it has.                   *)
LEMMA OverlapStays ==
  ASSUME NEW w \in Writers, Step(w), overlapped
  PROVE  overlapped'
<1> USE DEF Goto, Raise, Fault
<1>1. CASE Begin(w)
  BY <1>1 DEF Begin
<1>2. CASE Look(w, "look_recording", "recording", "look_evidence")
  BY <1>2 DEF Look
<1>3. CASE Look(w, "look_evidence", "evidence", "stage")
  BY <1>3 DEF Look
<1>4. CASE Stage(w)
  BY <1>4 DEF Stage
<1>5. CASE LinkRecording(w)
  BY <1>5 DEF LinkRecording
<1>6. CASE LinkEvidence(w)
  BY <1>6 DEF LinkEvidence
<1>7. CASE FindOriginal(w)
  BY <1>7 DEF FindOriginal
<1>8. CASE LinkBackup(w)
  BY <1>8 DEF LinkBackup
<1>9. CASE Replace(w, "replace_recording", "recording", "mark_recording")
  BY <1>9 DEF Replace
<1>10. CASE Replace(w, "replace_evidence", "evidence", "mark_evidence")
  BY <1>10 DEF Replace
<1>11. CASE MarkRecording(w)
  BY <1>11 DEF MarkRecording
<1>12. CASE MarkEvidence(w)
  BY <1>12 DEF MarkEvidence
<1>13. CASE NothingToRollBack(w)
  BY <1>13 DEF NothingToRollBack
<1>14. CASE RollBack(w)
  BY <1>14 DEF RollBack
<1>15. CASE RollBackFails(w)
  BY <1>15 DEF RollBackFails
<1>16. CASE Finally(w)
  BY <1>16 DEF Finally, DropsBackup
<1>17. CASE Interrupt(w)
  BY <1>17 DEF Interrupt
<1>18. CASE Crash(w)
  BY <1>18 DEF Crash
<1> QED
  BY <1>1, <1>2, <1>3, <1>4, <1>5, <1>6, <1>7, <1>8, <1>9,
     <1>10, <1>11, <1>12, <1>13, <1>14, <1>15, <1>16, <1>17, <1>18
  DEF Step, Publish

(* What a step may put at the destinations and into a backup: its own      *)
(* files, where nothing is or by force; a rollback, what was there before. *)
LEMMA PathStep ==
  ASSUME TypeOK, NEW w \in Writers, KindInv(w), Step(w)
  PROVE  /\ at'["evidence"] # at["evidence"] =>
              /\ at'["evidence"] = w /\ Active(w)
              /\ w \in Forcers \/ at["evidence"] = NoFile
         /\ at'["recording"] # at["recording"] =>
              /\ Active(w)
              /\ \/ at'["recording"] = w /\ (w \in Forcers \/ at["recording"] = NoFile)
                 \/ /\ pc[w] = "handler" /\ published[w] = {"recording"}
                    /\ at'["recording"] = (IF held[w] THEN backup[w] ELSE NoFile)
         /\ backup'[w] # backup[w] =>
              \/ backup'[w] = NoFile
              \/ w \in Forcers /\ Active(w) /\ backup'[w] = at["recording"]
<1> USE DEF TypeOK, KindInv, Writers, CreateOnly, Files, Active, Goto, Raise, Fault, NeedsRollback
<1>1. CASE Begin(w)
  BY <1>1 DEF Begin
<1>2. CASE Look(w, "look_recording", "recording", "look_evidence")
  BY <1>2 DEF Look
<1>3. CASE Look(w, "look_evidence", "evidence", "stage")
  BY <1>3 DEF Look
<1>4. CASE Stage(w)
  BY <1>4 DEF Stage
<1>5. CASE LinkRecording(w)
  BY <1>5 DEF LinkRecording
<1>6. CASE LinkEvidence(w)
  BY <1>6 DEF LinkEvidence
<1>7. CASE FindOriginal(w)
  BY <1>7 DEF FindOriginal
<1>8. CASE LinkBackup(w)
  BY <1>8 DEF LinkBackup
<1>9. CASE Replace(w, "replace_recording", "recording", "mark_recording")
  BY <1>9 DEF Replace
<1>10. CASE Replace(w, "replace_evidence", "evidence", "mark_evidence")
  BY <1>10 DEF Replace
<1>11. CASE MarkRecording(w)
  BY <1>11 DEF MarkRecording
<1>12. CASE MarkEvidence(w)
  BY <1>12 DEF MarkEvidence
<1>13. CASE NothingToRollBack(w)
  BY <1>13 DEF NothingToRollBack
<1>14. CASE RollBack(w)
  BY <1>14 DEF RollBack
<1>15. CASE RollBackFails(w)
  BY <1>15 DEF RollBackFails
<1>16. CASE Finally(w)
  BY <1>16 DEF Finally, DropsBackup
<1>17. CASE Interrupt(w)
  BY <1>17 DEF Interrupt
<1>18. CASE Crash(w)
  BY <1>18 DEF Crash
<1> QED
  BY <1>1, <1>2, <1>3, <1>4, <1>5, <1>6, <1>7, <1>8, <1>9,
     <1>10, <1>11, <1>12, <1>13, <1>14, <1>15, <1>16, <1>17, <1>18
  DEF Step, Publish

(* Every step keeps what kind of statements its writer has.                *)
LEMMA KindStep ==
  ASSUME TypeOK, NEW w \in Writers, KindInv(w), Step(w)
  PROVE  KindInv(w)'
<1> USE WritersAssumption DEF TypeOK, KindInv, Writers, CreateOnly, Goto, Raise, Fault
<1>1. CASE Begin(w)
  BY <1>1 DEF Begin
<1>2. CASE Look(w, "look_recording", "recording", "look_evidence")
  BY <1>2 DEF Look
<1>3. CASE Look(w, "look_evidence", "evidence", "stage")
  BY <1>3 DEF Look
<1>4. CASE Stage(w)
  BY <1>4 DEF Stage
<1>5. CASE LinkRecording(w)
  BY <1>5 DEF LinkRecording
<1>6. CASE LinkEvidence(w)
  BY <1>6 DEF LinkEvidence
<1>7. CASE FindOriginal(w)
  BY <1>7 DEF FindOriginal
<1>8. CASE LinkBackup(w)
  BY <1>8 DEF LinkBackup
<1>9. CASE Replace(w, "replace_recording", "recording", "mark_recording")
  BY <1>9 DEF Replace
<1>10. CASE Replace(w, "replace_evidence", "evidence", "mark_evidence")
  BY <1>10 DEF Replace
<1>11. CASE MarkRecording(w)
  BY <1>11 DEF MarkRecording
<1>12. CASE MarkEvidence(w)
  BY <1>12 DEF MarkEvidence
<1>13. CASE NothingToRollBack(w)
  BY <1>13 DEF NothingToRollBack
<1>14. CASE RollBack(w)
  BY <1>14 DEF RollBack
<1>15. CASE RollBackFails(w)
  BY <1>15 DEF RollBackFails
<1>16. CASE Finally(w)
  BY <1>16 DEF Finally, DropsBackup
<1>17. CASE Interrupt(w)
  BY <1>17 DEF Interrupt
<1>18. CASE Crash(w)
  BY <1>18 DEF Crash
<1> QED
  BY <1>1, <1>2, <1>3, <1>4, <1>5, <1>6, <1>7, <1>8, <1>9,
     <1>10, <1>11, <1>12, <1>13, <1>14, <1>15, <1>16, <1>17, <1>18
  DEF Step, Publish

(* Every step keeps what the flags of its writer say.                      *)
LEMMA FlagStep ==
  ASSUME TypeOK, NEW w \in Writers, KindInv(w), FlagInv(w), Step(w)
  PROVE  FlagInv(w)'
<1> USE WritersAssumption
    DEF TypeOK, Active, Locations, KindInv, FlagInv, Before, Writers,
         CreateOnly, Origins, Contents, Files,
        Goto, Raise, Fault, NeedsRollback
<1>1. CASE Begin(w)
  BY <1>1 DEF Begin
<1>2. CASE Look(w, "look_recording", "recording", "look_evidence")
  BY <1>2 DEF Look
<1>3. CASE Look(w, "look_evidence", "evidence", "stage")
  BY <1>3 DEF Look
<1>4. CASE Stage(w)
  BY <1>4 DEF Stage
<1>5. CASE LinkRecording(w)
  BY <1>5 DEF LinkRecording
<1>6. CASE LinkEvidence(w)
  BY <1>6 DEF LinkEvidence
<1>7. CASE FindOriginal(w)
  BY <1>7 DEF FindOriginal
<1>8. CASE LinkBackup(w)
  BY <1>8 DEF LinkBackup
<1>9. CASE Replace(w, "replace_recording", "recording", "mark_recording")
  BY <1>9 DEF Replace
<1>10. CASE Replace(w, "replace_evidence", "evidence", "mark_evidence")
  BY <1>10 DEF Replace
<1>11. CASE MarkRecording(w)
  BY <1>11 DEF MarkRecording
<1>12. CASE MarkEvidence(w)
  BY <1>12 DEF MarkEvidence
<1>13. CASE NothingToRollBack(w)
  BY <1>13 DEF NothingToRollBack
<1>14. CASE RollBack(w)
  BY <1>14 DEF RollBack
<1>15. CASE RollBackFails(w)
  BY <1>15 DEF RollBackFails
<1>16. CASE Finally(w)
  BY <1>16 DEF Finally, DropsBackup
<1>17. CASE Interrupt(w)
  BY <1>17 DEF Interrupt
<1>18. CASE Crash(w)
  BY <1>18 DEF Crash
<1> QED
  BY <1>1, <1>2, <1>3, <1>4, <1>5, <1>6, <1>7, <1>8, <1>9,
     <1>10, <1>11, <1>12, <1>13, <1>14, <1>15, <1>16, <1>17, <1>18
  DEF Step, Publish

(* Every step of a writer keeps what it has at the destinations.           *)
LEMMA PlaceStep ==
  ASSUME TypeOK, AloneInv, NEW w \in Writers, KindInv(w), FlagInv(w), PlaceInv(w), Step(w)
  PROVE  PlaceInv(w)'
<1> USE WritersAssumption
    DEF TypeOK, Active, Locations, KindInv, FlagInv, PlaceInv, Fresh,
         HasRecording, HasEvidence, Untouched,
        Failed, Before, Writers, CreateOnly, Origins, Contents, Files, Goto, Raise, Fault,
        NeedsRollback
<1>1. CASE Begin(w)
  BY <1>1 DEF Begin
<1>2. CASE Look(w, "look_recording", "recording", "look_evidence")
  BY <1>2 DEF Look
<1>3. CASE Look(w, "look_evidence", "evidence", "stage")
  BY <1>3 DEF Look
<1>4. CASE Stage(w)
  BY <1>4 DEF Stage
<1>5. CASE LinkRecording(w)
  BY <1>5 DEF LinkRecording
<1>6. CASE LinkEvidence(w)
  BY <1>6 DEF LinkEvidence
<1>7. CASE FindOriginal(w)
  BY <1>7 DEF FindOriginal
<1>8. CASE LinkBackup(w)
  BY <1>8 DEF LinkBackup
<1>9. CASE Replace(w, "replace_recording", "recording", "mark_recording")
  BY <1>9 DEF Replace
<1>10. CASE Replace(w, "replace_evidence", "evidence", "mark_evidence")
  BY <1>10 DEF Replace
<1>11. CASE MarkRecording(w)
  BY <1>11 DEF MarkRecording
<1>12. CASE MarkEvidence(w)
  BY <1>12 DEF MarkEvidence
<1>13. CASE NothingToRollBack(w)
  BY <1>13 DEF NothingToRollBack
<1>14. CASE RollBack(w)
  BY <1>14 DEF RollBack
<1>15. CASE RollBackFails(w)
  BY <1>15 DEF RollBackFails
<1>16. CASE Finally(w)
  BY <1>16 DEF Finally, DropsBackup
<1>17. CASE Interrupt(w)
  BY <1>17 DEF Interrupt
<1>18. CASE Crash(w)
  BY <1>18 DEF Crash
<1> QED
  BY <1>1, <1>2, <1>3, <1>4, <1>5, <1>6, <1>7, <1>8, <1>9,
     <1>10, <1>11, <1>12, <1>13, <1>14, <1>15, <1>16, <1>17, <1>18
  DEF Step, Publish

(* Every step keeps --force writers alone or remembers that they were not. *)
LEMMA AloneStep ==
  ASSUME TypeOK, AloneInv, NEW w \in Writers, Step(w)
  PROVE  AloneInv'
<1> USE DEF TypeOK, AloneInv, Active, Goto, Raise, Fault
<1>1. CASE Begin(w)
  BY <1>1 DEF Begin
<1>2. CASE Look(w, "look_recording", "recording", "look_evidence")
  BY <1>2 DEF Look
<1>3. CASE Look(w, "look_evidence", "evidence", "stage")
  BY <1>3 DEF Look
<1>4. CASE Stage(w)
  BY <1>4 DEF Stage
<1>5. CASE LinkRecording(w)
  BY <1>5 DEF LinkRecording
<1>6. CASE LinkEvidence(w)
  BY <1>6 DEF LinkEvidence
<1>7. CASE FindOriginal(w)
  BY <1>7 DEF FindOriginal
<1>8. CASE LinkBackup(w)
  BY <1>8 DEF LinkBackup
<1>9. CASE Replace(w, "replace_recording", "recording", "mark_recording")
  BY <1>9 DEF Replace
<1>10. CASE Replace(w, "replace_evidence", "evidence", "mark_evidence")
  BY <1>10 DEF Replace
<1>11. CASE MarkRecording(w)
  BY <1>11 DEF MarkRecording
<1>12. CASE MarkEvidence(w)
  BY <1>12 DEF MarkEvidence
<1>13. CASE NothingToRollBack(w)
  BY <1>13 DEF NothingToRollBack
<1>14. CASE RollBack(w)
  BY <1>14 DEF RollBack
<1>15. CASE RollBackFails(w)
  BY <1>15 DEF RollBackFails
<1>16. CASE Finally(w)
  BY <1>16 DEF Finally, DropsBackup
<1>17. CASE Interrupt(w)
  BY <1>17 DEF Interrupt
<1>18. CASE Crash(w)
  BY <1>18 DEF Crash
<1> QED
  BY <1>1, <1>2, <1>3, <1>4, <1>5, <1>6, <1>7, <1>8, <1>9,
     <1>10, <1>11, <1>12, <1>13, <1>14, <1>15, <1>16, <1>17, <1>18
  DEF Step, Publish

(* Every step keeps the Recording that the Evidence was derived from.      *)
LEMMA KeptStep ==
  ASSUME TypeOK, KeptInv, NEW w \in Writers, KindInv(w), FlagInv(w), PlaceInv(w), Step(w)
  PROVE  KeptInv'
<1> USE WritersAssumption
    DEF TypeOK, Active, Locations, KindInv, FlagInv, PlaceInv, KeptInv,
         InterruptedBeforeMark, Fresh,
        HasRecording, HasEvidence, Untouched, Before, Writers, CreateOnly, Origins,
        Contents, Files, Goto, Raise, Fault, NeedsRollback
<1>1. CASE Begin(w)
  BY <1>1 DEF Begin
<1>2. CASE Look(w, "look_recording", "recording", "look_evidence")
  BY <1>2 DEF Look
<1>3. CASE Look(w, "look_evidence", "evidence", "stage")
  BY <1>3 DEF Look
<1>4. CASE Stage(w)
  BY <1>4 DEF Stage
<1>5. CASE LinkRecording(w)
  BY <1>5 DEF LinkRecording
<1>6. CASE LinkEvidence(w)
  BY <1>6 DEF LinkEvidence
<1>7. CASE FindOriginal(w)
  BY <1>7 DEF FindOriginal
<1>8. CASE LinkBackup(w)
  BY <1>8 DEF LinkBackup
<1>9. CASE Replace(w, "replace_recording", "recording", "mark_recording")
  BY <1>9 DEF Replace
<1>10. CASE Replace(w, "replace_evidence", "evidence", "mark_evidence")
  BY <1>10 DEF Replace
<1>11. CASE MarkRecording(w)
  BY <1>11 DEF MarkRecording
<1>12. CASE MarkEvidence(w)
  BY <1>12 DEF MarkEvidence
<1>13. CASE NothingToRollBack(w)
  BY <1>13 DEF NothingToRollBack
<1>14. CASE RollBack(w)
  BY <1>14 DEF RollBack
<1>15. CASE RollBackFails(w)
  BY <1>15 DEF RollBackFails
<1>16. CASE Finally(w)
  BY <1>16 DEF Finally, DropsBackup
<1>17. CASE Interrupt(w)
  BY <1>17 DEF Interrupt
<1>18. CASE Crash(w)
  BY <1>18 DEF Crash
<1> QED
  BY <1>1, <1>2, <1>3, <1>4, <1>5, <1>6, <1>7, <1>8, <1>9,
     <1>10, <1>11, <1>12, <1>13, <1>14, <1>15, <1>16, <1>17, <1>18
  DEF Step, Publish

(* A step of one writer keeps what is true of every other: a --force       *)
(* writer acts beside none of them, and a create-only one takes back only  *)
(* what is its own.                                                        *)
LEMMA OtherStep ==
  ASSUME TypeOK, AloneInv,
         NEW w \in Writers, KindInv(w), FlagInv(w), PlaceInv(w), Step(w),
         NEW v \in Writers \ {w}, KindInv(v), FlagInv(v), PlaceInv(v)
  PROVE  KindInv(v)' /\ FlagInv(v)' /\ PlaceInv(v)'
<1>1. /\ pc'[v] = pc[v] /\ published'[v] = published[v] /\ held'[v] = held[v]
      /\ backup'[v] = backup[v] /\ staged'[v] = staged[v] /\ result'[v] = result[v]
  BY Frame
<1>2. \A u \in Writers \ {w} : backup'[u] = backup[u]
  BY Frame
<1>3. ~overlapped' => ~overlapped
  BY OverlapStays
<1>4. v \notin {w, NoFile}
  BY WritersAssumption DEF Writers
<1>5. ~overlapped /\ Active(v) /\ Active(w) => v \notin Forcers /\ w \notin Forcers
  BY DEF AloneInv
<1>6. KindInv(v)' /\ FlagInv(v)'
  BY <1>1 DEF KindInv, FlagInv
<1>7. Fresh(v)' = Fresh(v) /\ HasRecording(v)' = HasRecording(v)
      /\ HasEvidence(v)' = HasEvidence(v) /\ Untouched(v)' = Untouched(v)
      /\ Failed(v)' = Failed(v)
  BY <1>1 DEF Fresh, HasRecording, HasEvidence, Untouched, Failed
<1>8. at'["evidence"] = v => at["evidence"] = v
  BY <1>4, PathStep
<1>9. ASSUME ~overlapped, Active(v)
      PROVE  at'["evidence"] # at["evidence"] => at["evidence"] = NoFile
  BY <1>5, <1>9, PathStep
<1>10. ASSUME ~overlapped, Active(v)
       PROVE  at'["recording"] # at["recording"] => at["recording"] \in {w, NoFile}
  BY <1>5, <1>10, PathStep DEF PlaceInv, HasRecording
<1>11. ASSUME \A u \in Writers : backup[u] # v, at["recording"] # v
       PROVE  at'["recording"] # v /\ \A u \in Writers : backup'[u] # v
  BY <1>2, <1>4, <1>11, PathStep
<1>12. Fresh(v) => Active(v) \/ pc[v] = "idle"
  BY DEF Fresh, Before, Active
<1>13. HasRecording(v) \/ HasEvidence(v) => Active(v)
  BY DEF HasRecording, HasEvidence, Active
<1>14. ASSUME ~overlapped, pc[v] # "done" \/ Failed(v)
       PROVE  \A u \in Writers : backup'[u] # v
  <2>1. \A u \in Writers : backup[u] # v
    BY <1>14 DEF PlaceInv
  <2>2. backup'[w] # backup[w] /\ backup'[w] # NoFile =>
          w \in Forcers /\ Active(w) /\ backup'[w] = at["recording"]
    BY PathStep
  <2>3. CASE pc[v] = "idle" \/ Failed(v)
    BY <1>11, <1>14, <2>1, <2>3 DEF PlaceInv, Fresh, Before
  <2>4. CASE Active(v)
    BY <1>2, <1>4, <1>5, <1>14, <2>1, <2>2, <2>4
  <2> QED
    BY <1>14, <2>3, <2>4 DEF Active
<1>15. ASSUME ~overlapped, Failed(v)
       PROVE  at'["recording"] # v /\ at'["evidence"] # v
  BY <1>8, <1>11, <1>15 DEF PlaceInv
<1>16. ASSUME ~overlapped, Untouched(v)
       PROVE  backup'[v] = at'["recording"]
  <2>1. Active(v) /\ v \in Writers /\ held[v]
    BY <1>16 DEF Untouched, Fresh, FlagInv, Before, Active
  <2>2. v \in Forcers
    BY <2>1 DEF TypeOK, CreateOnly, Writers
  <2>3. at'["recording"] = at["recording"]
    BY <1>5, <1>16, <2>1, <2>2, PathStep
  <2> QED
    BY <1>1, <1>16, <2>3 DEF PlaceInv
<1>17. ASSUME ~overlapped, pc[v] = "replace_recording", ~held[v]
       PROVE  at'["recording"] = NoFile
  <2>1. v \in Forcers /\ Active(v) /\ at["recording"] = NoFile
    BY <1>17 DEF KindInv, PlaceInv, CreateOnly, Writers, Active
  <2> QED
    BY <1>5, <1>17, <2>1, PathStep
<1>18. ~overlapped' /\ HasRecording(v)' => at'["recording"] = v
  BY <1>3, <1>4, <1>7, <1>10, <1>13 DEF PlaceInv
<1>19. ~overlapped' /\ HasEvidence(v)' => at'["evidence"] = v
  BY <1>3, <1>4, <1>7, <1>9, <1>13 DEF PlaceInv
<1>20. Fresh(v)' => at'["recording"] # v /\ at'["evidence"] # v
                    /\ \A u \in Writers : backup'[u] # v
  BY <1>7, <1>8, <1>11 DEF PlaceInv
<1>21. PlaceInv(v)'
  BY <1>1, <1>3, <1>7, <1>8, <1>14, <1>15, <1>16, <1>17, <1>18, <1>19, <1>20
  DEF PlaceInv
<1> QED
  BY <1>6, <1>21

(* A step of a live writer keeps what the paths would hold without it.     *)
LEMMA WithoutStep ==
  ASSUME TypeOK, WithoutTyped, NEW w \in LiveWriters, KindInv(w), FlagInv(w), PlaceInv(w),
         WithoutInv(w), Step(w), Witnessed(w)
  PROVE  WithoutInv(w)'
<1>0. w \in Writers /\ w \notin Publishers /\ \A f \in Files : without'[w][f] = without[w][f]
  BY WritersAssumption DEF LiveWriters, Writers, Witnessed, WithoutTyped
<1> USE <1>0, WritersAssumption
    DEF TypeOK, KindInv, FlagInv, PlaceInv, WithoutInv, Fresh, Half, HasRecording, Untouched,
        Failed, Before, CreateOnly, Files, Goto, Raise, Fault, NeedsRollback, LiveWriters
<1>1. CASE Begin(w)
  BY <1>1 DEF Begin
<1>2. CASE Look(w, "look_recording", "recording", "look_evidence")
  BY <1>2 DEF Look
<1>3. CASE Look(w, "look_evidence", "evidence", "stage")
  BY <1>3 DEF Look
<1>4. CASE Stage(w)
  BY <1>4 DEF Stage
<1>5. CASE LinkRecording(w)
  BY <1>5 DEF LinkRecording
<1>6. CASE LinkEvidence(w)
  BY <1>6 DEF LinkEvidence
<1>7. CASE FindOriginal(w)
  BY <1>7 DEF FindOriginal
<1>8. CASE LinkBackup(w)
  BY <1>8 DEF LinkBackup
<1>9. CASE Replace(w, "replace_recording", "recording", "mark_recording")
  BY <1>9 DEF Replace
<1>10. CASE Replace(w, "replace_evidence", "evidence", "mark_evidence")
  BY <1>10 DEF Replace
<1>11. CASE MarkRecording(w)
  BY <1>11 DEF MarkRecording
<1>12. CASE MarkEvidence(w)
  BY <1>12 DEF MarkEvidence
<1>13. CASE NothingToRollBack(w)
  BY <1>13 DEF NothingToRollBack
<1>14. CASE RollBack(w)
  BY <1>14 DEF RollBack
<1>15. CASE RollBackFails(w)
  BY <1>15 DEF RollBackFails
<1>16. CASE Finally(w)
  BY <1>16 DEF Finally, DropsBackup
<1>17. CASE Interrupt(w)
  BY <1>17 DEF Interrupt
<1>18. CASE Crash(w)
  BY <1>18 DEF Crash
<1> QED
  BY <1>1, <1>2, <1>3, <1>4, <1>5, <1>6, <1>7, <1>8, <1>9,
     <1>10, <1>11, <1>12, <1>13, <1>14, <1>15, <1>16, <1>17, <1>18
  DEF Step, Publish

(* So does a step of another writer: what it changes counts as its own,    *)
(* and it does not come upon the Recording of this one.                    *)
LEMMA WithoutOther ==
  ASSUME TypeOK, WithoutTyped, AloneInv,
         NEW w \in Writers, KindInv(w), FlagInv(w), PlaceInv(w), Step(w), Witnessed(w),
         NEW v \in LiveWriters \ {w}, FlagInv(v), PlaceInv(v), WithoutInv(v)
  PROVE  WithoutInv(v)'
<1>0. v \in Writers \ {w}
  BY DEF LiveWriters, Writers
<1>1. /\ pc'[v] = pc[v] /\ published'[v] = published[v] /\ held'[v] = held[v]
      /\ backup'[v] = backup[v] /\ result'[v] = result[v]
  BY <1>0, Frame
<1>2. \A f \in Files :
        without'[v][f] = IF at'[f] = at[f] THEN without[v][f] ELSE at'[f]
  BY DEF Witnessed
<1>3. ~overlapped' => ~overlapped
  BY OverlapStays
<1>4. Fresh(v)' = Fresh(v) /\ Failed(v)' = Failed(v) /\ Half(v)' = Half(v)
  BY <1>1 DEF Fresh, Failed, Half
<1>5. ASSUME ~overlapped, Half(v)
      PROVE  at'["recording"] = at["recording"]
  <2>1. Active(v) /\ at["recording"] = v
    BY <1>0, <1>5 DEF Half, Active, PlaceInv, HasRecording
  <2>2. w \notin Forcers \/ ~Active(w)
    BY <1>0, <1>5, <2>1 DEF AloneInv
  <2>3. v \notin {w, NoFile}
    BY <1>0, WritersAssumption DEF Writers
  <2> QED
    BY <1>5, <2>1, <2>2, <2>3, PathStep DEF PlaceInv, HasRecording
<1>6. ASSUME ~overlapped, Fresh(v) \/ Failed(v), NEW f \in Files
      PROVE  at'[f] = without'[v][f]
  BY <1>2, <1>6 DEF WithoutInv
<1>7. ASSUME ~overlapped, Half(v)
      PROVE  /\ at'["evidence"] = without'[v]["evidence"]
             /\ without'[v]["recording"] = IF held'[v] THEN backup'[v] ELSE NoFile
  BY <1>1, <1>2, <1>5, <1>7 DEF WithoutInv, Files
<1> QED
  BY <1>3, <1>4, <1>6, <1>7 DEF WithoutInv

-----------------------------------------------------------------------------
(* The invariant holds at the start.                                       *)
LEMMA InitHolds == Init => IInv
<1> SUFFICES ASSUME Init PROVE IInv
  OBVIOUS
<1>1. /\ at["recording"] = at["evidence"]
      /\ \A w \in Writers : at["recording"] # w /\ at["evidence"] # w /\ backup[w] \notin Writers
  BY WritersAssumption DEF Init, Writers, Files
<1>2. TypeOK
  <2>1. at \in [Files -> Contents]
    BY DEF Init, Contents, Origins
  <2>2. backup \in [Writers -> Contents]
    BY DEF Init, Contents
  <2>3. pc \in [Writers -> Locations]
    BY DEF Init, Locations
  <2>4. faults \in 0 .. MaxFaults
    BY BoundAssumption DEF Init
  <2> QED
    BY <2>1, <2>2, <2>3, <2>4 DEF Init, TypeOK, Writers, CreateOnly
<1>3. AloneInv /\ KeptInv
  BY <1>1 DEF Init, AloneInv, KeptInv, Active
<1>4. \A w \in Writers : KindInv(w) /\ FlagInv(w)
  BY DEF Init, KindInv, FlagInv, Before
<1>5. \A w \in Writers : PlaceInv(w)
  BY <1>1 DEF Init, PlaceInv, Fresh, HasRecording, HasEvidence, Untouched, Failed, Before
<1>6. WithoutTyped /\ \A w \in LiveWriters : WithoutInv(w)
  BY <1>2 DEF Init, TypeOK, WithoutTyped, WithoutInv, Half, Writers, LiveWriters
<1> QED
  BY <1>2, <1>3, <1>4, <1>5, <1>6 DEF IInv

(* Every step keeps the invariant.                                         *)
LEMMA NextKeeps == IInv /\ [Next]_vars => IInv'
<1> SUFFICES ASSUME IInv, [Next]_vars PROVE IInv'
  OBVIOUS
<1>1. CASE UNCHANGED vars
  BY <1>1
  DEF IInv, TypeOK, AloneInv, KeptInv, KindInv, FlagInv, PlaceInv, Fresh, HasRecording,
      HasEvidence, Untouched, Failed, Active, InterruptedBeforeMark, WithoutTyped, WithoutInv,
      Half, vars, program
<1>2. ASSUME NEW w \in Writers, Step(w), Witnessed(w)
      PROVE  IInv'
  <2> USE <1>2 DEF IInv
  <2>1. TypeOK'
    BY TypeStep
  <2>2. AloneInv'
    BY AloneStep
  <2>3. KeptInv'
    BY KeptStep
  <2>4. KindInv(w)' /\ FlagInv(w)' /\ PlaceInv(w)'
    BY KindStep, FlagStep, PlaceStep
  <2>5. \A v \in Writers \ {w} : KindInv(v)' /\ FlagInv(v)' /\ PlaceInv(v)'
    BY OtherStep
  <2>6. WithoutTyped'
    BY <2>1 DEF WithoutTyped, Witnessed, TypeOK
  <2>7. ASSUME NEW v \in LiveWriters
        PROVE  WithoutInv(v)'
    <3>1. v \in Writers
      BY DEF LiveWriters, Writers
    <3>2. CASE v = w
      BY <3>1, <3>2, WithoutStep
    <3>3. CASE v # w
      BY <3>1, <3>3, WithoutOther
    <3> QED
      BY <3>2, <3>3
  <2> QED
    BY <2>1, <2>2, <2>3, <2>4, <2>5, <2>6, <2>7
<1> QED
  BY <1>1, <1>2 DEF Next, Step

(* The inductive invariant holds of every behaviour.                       *)
THEOREM Inductive == Spec => []IInv
BY InitHolds, NextKeeps, PTL DEF Spec

(* Through failures, kills and interrupts the Recording the Evidence was   *)
(* derived from is at its path or in a backup, the two named gaps apart.   *)
THEOREM RecordingIsKept == Spec => []EvidenceKeepsItsRecording
<1>1. IInv => EvidenceKeepsItsRecording
  BY DEF IInv, KeptInv, EvidenceKeepsItsRecording
<1> QED
  BY <1>1, Inductive, PTL

(* After write_live_outputs has reported an ordinary failure, both paths   *)
(* hold what they would hold if it had not run.                            *)
THEOREM FailureLeavesThePair == Spec => []FailureChangesNothing
<1>1. ASSUME IInv, NEW w \in LiveWriters, result[w] = "error", pc[w] = "done", ~overlapped
      PROVE  at = without[w]
  <2>1. Failed(w)
    BY <1>1, WritersAssumption DEF Failed, LiveWriters
  <2>2. \A f \in Files : at[f] = without[w][f]
    BY <1>1, <2>1 DEF IInv, WithoutInv
  <2>3. at \in [Files -> Contents] /\ without[w] \in [Files -> Contents]
    BY <1>1 DEF IInv, TypeOK, WithoutTyped
  <2> QED
    BY <2>2, <2>3
<1>2. IInv => FailureChangesNothing
  BY <1>1 DEF FailureChangesNothing
<1> QED
  BY <1>2, Inductive, PTL

(* A writer that returns leaves no temporary file, and a backup exactly    *)
(* when its rollback failed.                                               *)
THEOREM NothingIsLeft == Spec => []NoLeftovers
<1>1. IInv => NoLeftovers
  BY DEF IInv, FlagInv, NoLeftovers
<1> QED
  BY <1>1, Inductive, PTL

(* A create-only writer touches only free paths and its own files.         *)
THEOREM OnlyOwnFilesTouched == Spec => CreateOnlyTouchesItsOwn
<1>1. ASSUME IInv, Next, NEW v \in CreateOnly, NEW f \in Files, pc'[v] # pc[v], at'[f] # at[f]
      PROVE  at[f] \in {v, NoFile} \/ overlapped
  <2>1. PICK w \in Writers : Step(w)
    BY <1>1 DEF Next, Step
  <2>2. v = w /\ w \notin Forcers
    BY <1>1, <2>1, Frame, WritersAssumption DEF IInv, CreateOnly, Writers
  <2>3. CASE f = "evidence"
    BY <1>1, <2>1, <2>2, <2>3, PathStep DEF IInv
  <2>4. CASE f = "recording"
    BY <1>1, <2>1, <2>2, <2>4, PathStep DEF IInv, PlaceInv, HasRecording
  <2> QED
    BY <2>3, <2>4 DEF Files
<1>2. IInv /\ [Next]_vars =>
        [\A w \in CreateOnly, f \in Files :
           (pc'[w] # pc[w] /\ at'[f] # at[f]) => at[f] \in {w, NoFile} \/ overlapped]_vars
  BY <1>1
<1> QED
  BY <1>2, Inductive, PTL DEF Spec, CreateOnlyTouchesItsOwn

=============================================================================
