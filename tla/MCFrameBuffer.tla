--------------------------- MODULE MCFrameBuffer ---------------------------
(* Areas that cover the screen and that reach over its right and bottom edges. *)
EXTENDS FrameBuffer
Area(ox, oy, w, h) == [off_x |-> ox, off_y |-> oy, width |-> w, height |-> h]
ScreenAndCorner == {Area(0, 0, 4, 2), Area(3, 0, 2, 3)}
=============================================================================
