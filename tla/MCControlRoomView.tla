-------------------------- MODULE MCControlRoomView --------------------------
(* Model-checking instances of ControlRoomView. *)
EXTENDS ControlRoomView
=============================================================================
