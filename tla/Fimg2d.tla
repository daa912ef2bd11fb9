------------------------------- MODULE Fimg2d -------------------------------
(***************************************************************************)
(* The 2D engine of Exynos (exynos_fimg2d.c).  An operation clips its area *)
(* to the images, appends register writes to a command buffer of fixed     *)
(* size and hands the buffer to the kernel as one command list; g2d_exec   *)
(* starts the lists.  The operations ignore what g2d_add_cmd and g2d_flush *)
(* answer, so a buffer that is full, or was not flushed, goes unnoticed.   *)
(***************************************************************************)
EXTENDS Integers, FiniteSets

CONSTANTS
  G2dBits,             \* the width of unsigned; 32 in the build
  G2D_MAX_CMD_NR,      \* 64 in the code
  G2D_MAX_GEM_CMD_NR,  \* 64
  G2D_MAX_CMD_LIST_NR, \* 64
  G2dCalls             \* what is asked: corners sat and dat, extents sext and dext,
                       \* and the images simg and dimg

VARIABLE g2d
  (* cmd, buf: cmd_nr and cmd_buf_nr; lists: cmdlist_nr; left: why the     *)
  (* buffers are not empty between operations; sent: the last list the     *)
  (* kernel took and what its operation wrote; areas: what the last        *)
  (* operation addressed, as asked and as clipped.                         *)

NoList == [cmd |-> 0, buf |-> 0, need |-> [cmd |-> 0, buf |-> 0], left |-> {}]

G2dInit ==
  g2d = [cmd |-> 0, buf |-> 0, lists |-> 0, left |-> {}, sent |-> NoList, areas |-> {}]

-----------------------------------------------------------------------------
U(n) == n % (2 ^ G2dBits)

Least(a, b) == IF a < b THEN a ELSE b

(* g2d_add_cmd for n register writes, m of them addresses; what does not   *)
(* fit is dropped.                                                         *)
g2d_add_cmd(g, need) ==
  [g EXCEPT !.cmd = Least(@ + need.cmd, G2D_MAX_CMD_NR), !.buf = Least(@ + need.buf, G2D_MAX_GEM_CMD_NR)]

(* The buffers are emptied and a soft reset waits for the next list.       *)
g2d_reset(g) ==
  [g EXCEPT !.cmd = Least(1, G2D_MAX_CMD_NR), !.buf = 0, !.left = @ \cup {"reset"}]

Emptied(g) == [g EXCEPT !.cmd = 0, !.buf = 0, !.left = {}]

(* The outcomes of g2d_flush: too many lists and nothing happens; the      *)
(* kernel refuses the list and it is lost; or it takes it.                 *)
g2d_flush(g, need) ==
  IF g.cmd = 0 /\ g.buf = 0 THEN {g}
  ELSE IF g.lists >= G2D_MAX_CMD_LIST_NR THEN {[g EXCEPT !.left = @ \cup {"full"}]}
  ELSE {Emptied(g),
        [Emptied(g) EXCEPT !.lists = @ + 1,
           !.sent = [cmd |-> g.cmd, buf |-> g.buf, need |-> need, left |-> g.left]]}

(* The end of every operation that was not refused.                        *)
Finish(need, areas) ==
  g2d' \in {[x EXCEPT !.areas = areas] : x \in g2d_flush(g2d_add_cmd(g2d, need), need)}

(* g2d_exec starts the lists, or the kernel refuses and they stay.         *)
g2d_exec ==
  /\ g2d.lists > 0
  /\ g2d' = [g2d EXCEPT !.lists = 0]

-----------------------------------------------------------------------------
(* One axis of g2d_solid_fill, g2d_copy_with_scale and g2d_blend: the      *)
(* length is cut where the image ends.  An unsigned sum may wrap around.   *)
Clip(x, w, size) == IF U(x + w) > size THEN U(size - x) ELSE w

(* g2d_copy compares the start and the size of the image with the length,  *)
(* so it copies all the rest of the image whatever was asked.              *)
CopyClip(x, w, size, default) == IF U(x + size) > w THEN U(size - x) ELSE default

(* What an operation addresses in an image: from the corner to the         *)
(* corner plus the clipped extent.                                         *)
Area(at, ext, img, asked) ==
  [x |-> at.x, y |-> at.y, right |-> U(at.x + ext.w), bottom |-> U(at.y + ext.h),
   img |-> img, asked |-> asked]

ClipExtent(at, ext, img) == [w |-> Clip(at.x, ext.w, img.width), h |-> Clip(at.y, ext.h, img.height)]

Meet(a, b) == [w |-> Least(a.w, b.w), h |-> Least(a.h, b.h)]

(* w <= 0 || h <= 0: on unsigned values only zero is caught.               *)
Hollow(ext) == ext.w = 0 \/ ext.h = 0

g2d_solid_fill(at, ext, img) ==
  Finish([cmd |-> 7, buf |-> 1], {Area(at, ClipExtent(at, ext, img), img, ext)})

(* An area that comes out empty resets the buffer.                         *)
Refuse == g2d' = [g2d_reset(g2d) EXCEPT !.areas = {}]

(* dst_h starts as w; the comparison nearly always replaces it.            *)
g2d_copy(sat, dat, ext, simg, dimg) ==
  LET s == [w |-> CopyClip(sat.x, ext.w, simg.width, ext.w),
            h |-> CopyClip(sat.y, ext.h, simg.height, ext.h)]
      d == [w |-> CopyClip(dat.x, ext.w, dimg.width, ext.w),
            h |-> CopyClip(dat.y, ext.h, dimg.height, ext.w)]
  IN  IF Hollow(Meet(s, d)) THEN Refuse
      ELSE Finish([cmd |-> 11, buf |-> 2], {})

g2d_copy_with_scale(sat, sext, dat, dext, simg, dimg, negative) ==
  LET s == ClipExtent(sat, sext, simg)
      d == ClipExtent(dat, dext, dimg)
      scale == sext # dext
  IN  IF Hollow(s) \/ Hollow(d) THEN Refuse
      ELSE Finish([cmd |-> 10 + (IF negative THEN 2 ELSE 1) + (IF scale THEN 3 ELSE 0), buf |-> 2],
                  {Area(sat, s, simg, sext), Area(dat, d, dimg, dext)})

(* The source is an image, a colour, or a mode nobody knows: then the      *)
(* writes made so far stay in the buffer.                                  *)
g2d_blend(sat, dat, ext, simg, dimg, select) ==
  LET e == Meet(ClipExtent(sat, ext, simg), ClipExtent(dat, ext, dimg))
  IN  CASE select = "unknown" ->
             g2d' = [g2d_add_cmd(g2d, [cmd |-> 5, buf |-> 1]) EXCEPT !.left = @ \cup {"select"}, !.areas = {}]
        [] Hollow(e) /\ select # "unknown" -> Refuse
        [] OTHER -> Finish([cmd |-> 12, buf |-> IF select = "normal" THEN 2 ELSE 1],
                           {Area(sat, e, simg, ext), Area(dat, e, dimg, ext)})

G2dNext ==
  \/ g2d_exec
  \/ \E c \in G2dCalls :
       \/ g2d_solid_fill(c.dat, c.dext, c.dimg)
       \/ g2d_copy(c.sat, c.dat, c.sext, c.simg, c.dimg)
       \/ \E select \in {"normal", "colour", "unknown"} :
            g2d_blend(c.sat, c.dat, c.sext, c.simg, c.dimg, select)
       \/ \E negative \in BOOLEAN :
            g2d_copy_with_scale(c.sat, c.sext, c.dat, c.dext, c.simg, c.dimg, negative)

-----------------------------------------------------------------------------
(* g2d_solid_fill, g2d_copy_with_scale and g2d_blend stay inside both      *)
(* images: the clipping against two images in turn, and the smaller of the *)
(* two results, never ends beyond an edge, provided that the start is in   *)
(* the image and the sum does not wrap.                                    *)
AreasInside ==
  \A a \in g2d.areas :
    (/\ a.x <= a.img.width /\ a.x + a.asked.w < 2 ^ G2dBits
     /\ a.y <= a.img.height /\ a.y + a.asked.h < 2 ^ G2dBits)
      => a.right <= a.img.width /\ a.bottom <= a.img.height

(* A list that the kernel took holds the register writes of its operation, *)
(* all of them and no others, unless an earlier operation was refused and  *)
(* left its writes behind: the buffers are empty between operations.       *)
ListsAreWhole ==
  /\ g2d.sent.left = {} => [cmd |-> g2d.sent.cmd, buf |-> g2d.sent.buf] = g2d.sent.need
  /\ g2d.left = {} => g2d.cmd = 0 /\ g2d.buf = 0
=============================================================================
