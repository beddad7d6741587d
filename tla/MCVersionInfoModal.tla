------------------------ MODULE MCVersionInfoModal ------------------------
(* Two app versions the shell can offer, so the offer can change to       *)
(* another version as well as appear and disappear while the modal is     *)
(* open; a robot older than the app and one at its version, and every     *)
(* update type and null.                                                  *)
EXTENDS VersionInfoModal
=============================================================================
