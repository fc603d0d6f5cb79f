---------------------------- MODULE CampaignJournal ----------------------------
(***************************************************************************)
(* What a Campaign promises, without files, counters or exceptions: the    *)
(* runs of a Plan are taken strictly in order; a run is announced before   *)
(* its Provider is called; the Provider is called at most once per run and *)
(* never for a run declared not_run; once the first run is skipped no      *)
(* later run starts; and a closed Campaign, in which every run has exactly *)
(* one fate, never changes again. An execution may stop anywhere (a crash) *)
(* and nothing resumes it.                                                 *)
(***************************************************************************)
EXTENDS Integers

CONSTANT RunCount

VARIABLES
  status,   \* of the Campaign: "absent", "open" or "closed"
  phase,    \* of each run: "planned", "started", "ended" or "not_run"
  called    \* Provider calls made for each run

journalVars == << status, phase, called >>

Runs == 1 .. RunCount

Init ==
  /\ status = "absent"
  /\ phase = [r \in Runs |-> "planned"]
  /\ called = [r \in Runs |-> 0]

Open ==
  /\ status = "absent"
  /\ status' = "open"
  /\ UNCHANGED << phase, called >>

Advance(r, from, to) ==
  /\ status = "open"
  /\ phase[r] = from
  /\ phase' = [phase EXCEPT ![r] = to]
  /\ UNCHANGED << status, called >>

Start(r) ==
  /\ \A s \in 1 .. r - 1 : phase[s] = "ended"
  /\ Advance(r, "planned", "started")

Call(r) ==
  /\ status = "open"
  /\ phase[r] = "started"
  /\ called[r] = 0
  /\ called' = [called EXCEPT ![r] = 1]
  /\ UNCHANGED << status, phase >>

End(r) == Advance(r, "started", "ended")

Skip(r) ==
  /\ \A s \in 1 .. r - 1 : phase[s] \in {"ended", "not_run"}
  /\ Advance(r, "planned", "not_run")

Close ==
  /\ status = "open"
  /\ \A r \in Runs : phase[r] \in {"ended", "not_run"}
  /\ status' = "closed"
  /\ UNCHANGED << phase, called >>

Next ==
  \/ Open \/ Close
  \/ \E r \in Runs : Start(r) \/ Call(r) \/ End(r) \/ Skip(r)

Spec == Init /\ [][Next]_journalVars
=============================================================================
