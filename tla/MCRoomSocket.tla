---------------------------- MODULE MCRoomSocket ----------------------------
(* RoomSocket on a small instance. *)
EXTENDS RoomSocket
===============================================================================
