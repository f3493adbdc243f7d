----------------------------- MODULE MCThumbJob -----------------------------
(***************************************************************************)
(* Constants for checking ThumbJob on its own: one or two originals of     *)
(* chosen kinds, and the sets of faults of each run.                       *)
(***************************************************************************)
EXTENDS ThumbJob, TLC

CONSTANTS pic, other, saved

OneMedium == {pic}
TwoMedia == {pic, other}

\* A JPEG taken sideways, with an EXIF thumbnail,
ExifKind == pic :> "exif"
Sideways == pic :> 1

\* ... or one that is upside down, whose sides are not exchanged,
DownAndUpright == pic :> 2 @@ other :> 0

\* ... and a file that is neither image nor video.
ExifAndNone == pic :> "exif" @@ other :> "none"

\* What the job's own operations and its machine may suffer, but for queries
\* and fsync failing, and the steps of other programs that leave the
\* thumbnails alone.
DurableFaults ==
    {"connect", "generate", "save", "write", "crash", "power_cut",
     "media_removed", "unmounted"}

\* Failures that leave the machine running and the files to the jobs.
FileFaults == {"generate", "save", "query", "crash"}

ConnectFault == {"connect"}
=============================================================================
