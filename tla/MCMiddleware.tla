---------------------------- MODULE MCMiddleware ----------------------------
(***************************************************************************)
(* Model-checking instances of Middleware.  The queues have the steps of   *)
(* engineer_steps_list.yaml in small: a chassis move relative to base_link *)
(* before an arm motion, a chassis target with a gpio command, arm motions *)
(* beside and before playbacks, and an empty queue.                        *)
(***************************************************************************)
EXTENDS Middleware

Move(kinds, xy, yaw) == [kinds |-> kinds, pose |-> [xy |-> xy, yaw |-> yaw]]

DriveQueues ==
    [drive |-> <<Move({"chassis"}, 1, 1), Move({"chassis_target", "gpio"}, 0, 0)>>,
     none  |-> << >>]

HangQueues ==
    [grab  |-> <<Move({"arm", "playback"}, 0, 0), Move({"end_effector"}, 0, 0)>>,
     teach |-> <<Move({"arm"}, 0, 0), Move({"playback"}, 0, 0)>>]
=============================================================================
