--------------------------- MODULE MCAmqpReceive ---------------------------
(* Small instances of AmqpReceive.                                         *)
EXTENDS AmqpReceive

AllModes == 0..2
AllAnswers == {"none", "ack", "requeue", "discard"}
Settling == {"ack", "discard"}
=============================================================================
