---------------------------- MODULE MCSteamDriver ----------------------------
(* SteamDriver with a Rift CV1 (devices 0, 1, 2 of one headset) and a null   *)
(* controller (5) behind it, and with an HMD (3) that has a separate tracker *)
(* (4), found by itself or by the configuration.                             *)
EXTENDS SteamDriver

Behind == [d \in 0 .. 5 |-> IF d < 3 THEN 0 ELSE d]

Device(d, class, left, right, positional) == Listed(d, class, left, right, FALSE, positional)

Rift == Append(RiftList(0, 1, 2), Device(5, "controller", TRUE, FALSE, TRUE))
TrackedHmd ==
  <<Device(4, "tracker", FALSE, FALSE, TRUE), Device(3, "hmd", FALSE, FALSE, FALSE)>>
OneController ==
  <<Device(5, "tracker", TRUE, FALSE, FALSE), Device(3, "hmd", FALSE, FALSE, FALSE)>>

FromList == [r \in Roles |-> 0]
OwnTracker == [FromList EXCEPT !.tracker = 2]

AllSetups ==
  {[list |-> Rift, config |-> FromList],
   [list |-> TrackedHmd, config |-> FromList],
   [list |-> TrackedHmd, config |-> OwnTracker],
   [list |-> OneController, config |-> FromList]}
=============================================================================
