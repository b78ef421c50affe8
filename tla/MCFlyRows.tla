----------------------------- MODULE MCFlyRows -----------------------------
(***************************************************************************)
(* Fly scans of two or three rows, one kind of flight each: a stage that   *)
(* returns for every row and one on zig-zag, with and without a speed to   *)
(* put back; a driven stage that guesses its direction wrong; a ramp.      *)
(***************************************************************************)
EXTENDS FlyRows

\* Of two rows, in which nothing fails and nothing else moves the stage.
Plain(path) ==
  [path |-> path, outer |-> <<2>>, zig |-> <<FALSE>>, back |-> FALSE,
   speed |-> "none", against |-> FALSE, watched |-> TRUE, breaks |-> {}, also |-> {}]

ZigZag == [Plain("stage") EXCEPT !.back = TRUE, !.speed = "known"]

\* A stage or a ramp on zig-zag whose rows do not fail in flight.
MCScans ==
  { [Plain("stage") EXCEPT !.speed = "known", !.also = {"outer", "routine", "person"},
                           !.breaks = {"approach", "start", "flight", "routine", "stop"}],
    [ZigZag EXCEPT !.outer = <<2, 2>>, !.zig = <<FALSE, TRUE>>, !.breaks = {"outer", "approach"}],
    [ZigZag EXCEPT !.speed = "unread", !.outer = <<3>>, !.watched = FALSE,
                   !.breaks = {"speed", "routine"}],
    [ZigZag EXCEPT !.also = {"outer", "routine", "person"}, !.breaks = {"speed", "stop"}],
    [Plain("driven") EXCEPT !.speed = "known", !.against = TRUE, !.breaks = {"flight", "stop"}],
    [Plain("ramp") EXCEPT !.breaks = {"start", "flight", "outer", "stop"}, !.also = {"outer"}],
    [Plain("ramp") EXCEPT !.back = TRUE, !.outer = <<3>>, !.breaks = {"outer"}] }

\* A zig-zag row that fails in flight.
MCBreaking == {[ZigZag EXCEPT !.breaks = {"flight"}]}

=============================================================================
