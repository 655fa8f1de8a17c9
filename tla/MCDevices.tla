----------------------------- MODULE MCDevices ------------------------------
(* The instance of Devices that TLC checks; a cfg file has no negative     *)
(* numbers.                                                                *)
EXTENDS Devices

(* One argument that becomes a huge __u32 and one above the threshold that *)
(* init_tempstat sets.                                                     *)
ToolArgs == {-1, 101}

=============================================================================
