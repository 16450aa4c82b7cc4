------------------------ MODULE MCManualCalibration ------------------------
(***************************************************************************)
(* Model-checking instances of ManualCalibration.  The engineer2 one has   *)
(* the shape of rm_config's engineer2.yaml: one entry that takes the       *)
(* lifter (a main controller) and the arm's gravity compensation (a state  *)
(* controller) away while it homes a lifter joint and an arm joint; the    *)
(* lifter one is its half with one calibration controller, for the run     *)
(* with every disturbance; the two-entry one has the shape of              *)
(* engineer.yaml: two entries that take the same arm controller away.      *)
(***************************************************************************)
EXTENDS ManualCalibration

CONSTANTS chassis, lifter, gravity, lifterCal, armCal, wristCal

Engineer2Gather ==
    <<[start |-> {lifterCal, armCal}, stop |-> {lifter, gravity}]>>

LifterGather == <<[start |-> {lifterCal}, stop |-> {lifter, gravity}]>>

TwoEntryGather ==
    <<[start |-> {lifterCal, armCal}, stop |-> {lifter, gravity}],
      [start |-> {wristCal}, stop |-> {gravity}]>>

JointClaims ==
    [c \in Controllers |->
        CASE c \in {lifter, lifterCal} -> {"lifter_joint"}
          [] c = gravity               -> {"joint1", "joint2"}
          [] c = armCal                -> {"joint1"}
          [] c = wristCal              -> {"joint2"}
          [] OTHER                     -> {"wheels"}]
=============================================================================
