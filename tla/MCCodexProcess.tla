---------------------------- MODULE MCCodexProcess ----------------------------
(* The streams of the model-checked instance: a completed turn, a failed   *)
(* one without its last newline, more after the terminal event than the    *)
(* total limit allows, a line that is no JSON, one on which the JSON       *)
(* library raises, in the middle and as the unfinished last line, and a    *)
(* turn that does not end.                                                 *)
EXTENDS CodexProcess

Turn == << "thread", NL, "turn", NL >>

MCScripts ==
  {Turn \o << "completed", NL >>,
   Turn \o << "failed" >>,
   Turn \o << "completed", NL, "item", NL >>,
   << "bad", NL >> \o Turn,
   << "thread", NL, "deep", NL >>,
   << "deep" >>,
   Turn}

(* For liveness: what is on the stream hardly matters.                     *)
MCShortScripts == {<< "bad", NL >>}
=============================================================================
