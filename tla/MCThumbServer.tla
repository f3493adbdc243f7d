--------------------------- MODULE MCThumbServer ----------------------------
(***************************************************************************)
(* Constants for checking ThumbServer.  Two originals are images without   *)
(* EXIF data; ThumbJob's own runs look at the other kinds.                 *)
(***************************************************************************)
EXTENDS ThumbServer, TLC

CONSTANTS pic, other, saved

OneMedium == {pic}
TwoMedia == {pic, other}
OneImage == pic :> "image"
TwoImages == pic :> "image" @@ other :> "image"
OneUpright == pic :> 0
TwoUpright == pic :> 0 @@ other :> 0

\* Selections fail, and the server goes down and comes back.
QueueFaults == {"select", "crash", "power_off", "reboot"}

\* Jobs fail, other programs step in, server and device go down.
JobFaults == {"generate", "save", "media_removed", "thumb_deleted",
              "crash", "power_off", "power_cut", "reboot"}

NoFaults == {}
=============================================================================
