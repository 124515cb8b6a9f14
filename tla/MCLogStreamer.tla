----------------------------- MODULE MCLogStreamer -----------------------------
(* Three streamer objects.  The model tells severities apart only by       *)
(* whether they are kFatal and by the label a message carries, so kWarning *)
(* and kError are given the label of kInfo: the four factories then       *)
(* construct at the two severities kInfo and kFatal.                       *)
EXTENDS LogStreamer

CONSTANTS a, b, c

MCSlots == {a, b, c}
MCSeverities == {kInfo, kFatal}
MCNonFatal == kInfo

=============================================================================
