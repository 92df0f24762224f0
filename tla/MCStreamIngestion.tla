-------------------------- MODULE MCStreamIngestion --------------------------
(***************************************************************************)
(* Instances of StreamIngestion for TLC: one field of each kind, and one   *)
(* record that passes the gate next to one that does not.  GateDecides     *)
(* quantifies over every record whatever the producers send.               *)
(***************************************************************************)
EXTENDS StreamIngestion, TLC

CONSTANTS p1, p2

MCPartition == {p1, p2}
MCField == {"event_id", "event_time"}
MCTimeField == {"event_time"}

Document(map, id, time) == [map |-> map, field |-> "event_id" :> id @@ "event_time" :> time]
Good     == Document("known", "conforming", "zoned")
NullId   == Document("known", "null", "zoned")
MCRecords == {Good, NullId}
=============================================================================
