---------------------------- MODULE RelayRegistry ----------------------------
(***************************************************************************)
(* What the discovery pipeline promises: a relay is admitted first (it is  *)
(* a seed, or a persisted set records it) and monitored only afterwards,   *)
(* under the monitor's spelling.  A restart forgets what is monitored and  *)
(* nothing of what is admitted.                                            *)
(***************************************************************************)
CONSTANTS
  Relays,           \* every spelling of every relay
  Seeds,            \* the configured relays
  Spelling(_)       \* the spelling under which a relay is monitored

VARIABLES
  admitted,         \* the relays ever recorded as discovered or configured
  monitored         \* the spellings being monitored

Init ==
  /\ admitted = Seeds
  /\ monitored = {}

Admit(u) ==
  /\ admitted' = admitted \cup {u}
  /\ UNCHANGED monitored

Monitor(u) ==
  /\ u \in admitted
  /\ monitored' = monitored \cup {Spelling(u)}
  /\ UNCHANGED admitted

Unmonitor(u) ==
  /\ monitored' = monitored \ {Spelling(u)}
  /\ UNCHANGED admitted

Restart ==
  /\ monitored' = {}
  /\ UNCHANGED admitted

Next ==
  \/ \E u \in Relays : Admit(u) \/ Monitor(u) \/ Unmonitor(u)
  \/ Restart

Spec == Init /\ [][Next]_<<admitted, monitored>>
=============================================================================
