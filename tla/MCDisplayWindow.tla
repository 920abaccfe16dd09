--------------------------- MODULE MCDisplayWindow ---------------------------
(* DisplayWindow on a panel of a few pixels, for TLC. *)
EXTENDS DisplayWindow

None == <<0, 0>>

\* The whole panel, from a display of twice its size.
Whole(align, fullWindow, resets) ==
  [align |-> align, fullWindow |-> fullWindow, resets |-> resets, crop |-> FALSE,
   stretch |-> FALSE, before |-> None, behind |-> None,
   source |-> <<2 * PanelWidth, 2 * PanelHeight>>]

\* A cover on the left; what does not fit is cropped, or squeezed.
Narrow(align) ==
  [Whole(align, FALSE, TRUE) EXCEPT !.before = <<1, 0>>, !.crop = ~align, !.stretch = align,
                                    !.source = <<2 * PanelWidth + 1, PanelHeight>>]

\* A wide display, with a bar above and below or only one of them.
Low == [Whole(FALSE, TRUE, TRUE) EXCEPT !.before = <<0, 1>>,
                                        !.source = <<4 * PanelWidth, 3 * PanelHeight - 1>>]
Letterbox == [Whole(FALSE, FALSE, TRUE) EXCEPT !.source = <<4 * PanelWidth, PanelHeight>>]

\* A display less wide than the panel: a bar beside the frame.
Pillarbox(align, fullWindow, resets) ==
  [Whole(align, fullWindow, resets) EXCEPT !.source = <<PanelWidth, 2 * PanelHeight>>]

\* A full window with a cover at the left.
Shifted == [Whole(FALSE, TRUE, TRUE) EXCEPT !.before = <<1, 0>>]

\* No span is widened beyond the frame, and a controller that keeps its cursor gets all columns.
LandingSetups ==
  {Whole(FALSE, FALSE, TRUE), Whole(FALSE, TRUE, TRUE), Whole(FALSE, TRUE, FALSE),
   Whole(TRUE, FALSE, TRUE), Narrow(FALSE), Narrow(TRUE), Low, Letterbox,
   Pillarbox(FALSE, FALSE, TRUE), Shifted}

\* A build that aligns its tasks, with a bar beside the frame.
WidenSetups == {Pillarbox(TRUE, FALSE, TRUE)}
=============================================================================
