------------------------------ MODULE MCFfPlayer ------------------------------
(* A small instance of FfPlayer for TLC. *)
EXTENDS FfPlayer

Packet(s, t) == [stream |-> s, track |-> t]
MixedFile == <<Packet("video", 1), Packet("video", 1), Packet("audio", 2)>>
=============================================================================
