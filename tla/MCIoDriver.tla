------------------------------- MODULE MCIoDriver ------------------------------
(* Instances of IoDriver for TLC. *)
EXTENDS IoDriver

================================================================================
