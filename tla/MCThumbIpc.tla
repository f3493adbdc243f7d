----------------------------- MODULE MCThumbIpc -----------------------------
(***************************************************************************)
(* Constants for checking ThumbIpc: two calls of one application, where a  *)
(* descriptor number can be used again.                                    *)
(***************************************************************************)
EXTENDS ThumbIpc, TLC

CONSTANTS pic, other, saved, app

OneApp == [c \in Clients |-> app]

OneMedium == {pic}
TwoMedia == {pic, other}
OneImage == pic :> "image"
TwoImages == pic :> "image" @@ other :> "image"
OneUpright == pic :> 0
TwoUpright == pic :> 0 @@ other :> 0

\* The client's own system calls fail, and the server goes down.
ServiceFaults ==
    {"reject", "socket", "setsockopt", "recvfrom", "power_off", "reboot"}
CloseFaults == {"reject", "socket", "sendto", "recvfrom", "foreign", "power_off"}

SendFault == {"sendto"}
NoFaults == {}

\* Every path an original's thumbnail can have is too long for the buffer.
AllHashPaths == HashPaths
=============================================================================
