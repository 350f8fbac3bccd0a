----------------------------- MODULE MCScheduler -----------------------------
(***************************************************************************)
(* Instances of Scheduler: two routers that share a prefix and are probed; *)
(* one whose key expires; the DERP map and the records file, with the loop *)
(* shared between them.                                                    *)
(***************************************************************************)
EXTENDS Scheduler

mcRouter ==
  [user |-> 0, tagged |-> TRUE, addr |-> "a", announced |-> {Prefix}, approved |-> {Prefix},
   online |-> FALSE, unhealthy |-> FALSE, name |-> [base |-> "web", bumps |-> <<>>],
   endpoint |-> "e"]

Source(m) == [answers |-> TRUE, parses |-> TRUE, map |-> m]
Unreachable == [answers |-> FALSE, parses |-> FALSE, map |-> <<>>]
ErrorPage == [answers |-> TRUE, parses |-> FALSE, map |-> <<>>]

NoWork ==
  [routers |-> {1}, up |-> TRUE, probes |-> FALSE, sessions |-> 0, silences |-> 0, slow |-> 0, approvals |-> 0,
   expiries |-> 0, edits |-> 0, derp |-> 0, stops |-> 0, sources |-> <<Source([r \in {1} |-> "a"])>>,
   published |-> {}]

mcJoining == [NoWork EXCEPT !.routers = {1, 2}, !.up = FALSE, !.probes = TRUE, !.sessions = 2,
                            !.silences = 1]
mcProbed == [NoWork EXCEPT !.routers = {1, 2}, !.probes = TRUE, !.sessions = 1, !.silences = 1]
mcSlow == [mcProbed EXCEPT !.sessions = 0, !.silences = 2, !.slow = 1]
mcApproved == [mcProbed EXCEPT !.sessions = 0, !.approvals = 2]
mcStopped == [mcProbed EXCEPT !.sessions = 0, !.stops = 1]
mcExpiring == [NoWork EXCEPT !.sessions = 1, !.expiries = 2]
mcSourced == [NoWork EXCEPT !.derp = 2, !.edits = 2, !.stops = 1,
                            !.sources = <<Source([r \in {1} |-> "a"]), Source([r \in {1, 2} |-> "b"])>>,
                            !.published = {Unreachable, ErrorPage, Source([r \in {3} |-> "c"]), Source([r \in {1, 3} |-> "null"])}]
mcFiles == [NoWork EXCEPT !.edits = 4, !.stops = 1]

mcSetups == {mcJoining, mcProbed, mcSlow, mcApproved, mcStopped, mcExpiring, mcSourced, mcFiles}
mcRecovering == {[mcProbed EXCEPT !.silences = 2]}
=============================================================================
