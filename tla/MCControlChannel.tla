---------------------------- MODULE MCControlChannel ----------------------------
(* An instance of ControlChannel for TLC: a snapshot, a jump and a focus    *)
(* subscription, and notices that are kept, that end the channel, that are  *)
(* passed on.                                                               *)
EXTENDS ControlChannel

TwoKinds == [c \in Calls |-> IF c = "s" THEN "snapshot" ELSE IF c = "j" THEN "jump" ELSE "focus"]

SomeNotices ==
    {Line("%session-changed", 0, "$1"), Line("%exit", 0, ""), Line("%layout-change", 0, "")}
=============================================================================
