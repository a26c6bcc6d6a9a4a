----------------------------- MODULE MCWebSocket -----------------------------
(* A peer with whole messages and with one in two frames, masked or not, a  *)
(* ping, a close frame, and a frame that is too long.                      *)
EXTENDS WebSocket

F(op, fin, masked, length) == [op |-> op, fin |-> fin, masked |-> masked, length |-> length]

MCFrames ==
    {F("text", TRUE, TRUE, "short"), F("binary", FALSE, TRUE, "long"),
     F("continuation", TRUE, FALSE, "short"), F("ping", TRUE, TRUE, "short"),
     F("close", TRUE, TRUE, "short"), F("text", TRUE, TRUE, "huge")}
=============================================================================
