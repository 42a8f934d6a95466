---------------------------- MODULE MCEventBuilder ----------------------------
(* Values for the constants of EventBuilder. *)
EXTENDS EventBuilder

MCEventIds == 0..3
MCFrames ==
  [evt : MCEventIds, kind : {"ok"}]
    \cup {[evt |-> 0, kind |-> "fatal"], [evt |-> 1, kind |-> "deadfpn"]}
=============================================================================
