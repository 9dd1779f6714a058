---------------------------- MODULE MCNativeHost ----------------------------
(* Instances of NativeHost for TLC. *)
EXTENDS NativeHost

=============================================================================
