--------------------------- MODULE RadeonSurface ----------------------------
(* radeon/radeon_surface.c: where the mipmap levels of a texture or a      *)
(* depth and stencil buffer lie in a buffer object, for the four families  *)
(* r6 (r600, r700), eg (evergreen), si and cik.  What is computed in C's   *)
(* unsigned is taken modulo 2^SurfBits; ALIGN is modelled for powers of    *)
(* two, so bytes per element must be one.  tiling_index is left out.       *)
EXTENDS Integers, Sequences, SequencesExt

CONSTANTS
  SurfBits,     \* the width of unsigned; 32 in the build
  SurfMaxPix,   \* the largest dimension accepted; 8192 or 16384 in the code
  SurfConfigs,  \* what the kernel says of a device: [gen, rv770, recent, pipes, banks,
                \* group, row, tiles, macros], see HwInfo
  SurfAsks      \* the surfaces a program asks for, see NewSurf

VARIABLE srf
  (* man: the manager; surf: the structure; ret: what the last call said;  *)
  (* best: radeon_surface_best was content; tree: the levels laid out, the *)
  (* stencil's last; odd: laid out in 2D although that was refused.        *)

NoTree == [lv |-> << >>, offset |-> 0, raw |-> 0, size |-> 0, align |-> 0, mode |-> "linear", wide |-> FALSE, ok |-> TRUE]

SrfInit == srf = [man |-> {}, surf |-> {}, ret |-> "none", best |-> FALSE, tree |-> NoTree, odd |-> FALSE]

-----------------------------------------------------------------------------
Wide(n) == n % (2 ^ SurfBits)
Larger(a, b) == IF a > b THEN a ELSE b
Smaller(a, b) == IF a < b THEN a ELSE b
AlignTo(n, a) == ((n + a - 1) \div a) * a
UpDiv(n, d) == (n + d - 1) \div d

next_power_of_two(n) ==
  CHOOSE p \in {2 ^ k : k \in 0..14} : p >= n /\ (p = 1 \/ p \div 2 < n)

mip_minify(n, level) ==
  LET v == Larger(1, n \div (2 ^ level)) IN IF level > 0 THEN next_power_of_two(v) ELSE v

log2_int(n) == IF n < 2 THEN 0 ELSE CHOOSE k \in 1..14 : 2 ^ k <= n /\ 2 ^ (k + 1) > n

-----------------------------------------------------------------------------
(* A field of the tiling configuration; a value nobody knows forbids 2D.   *)
Field(code, values, default) ==
  IF code < Len(values) THEN [v |-> values[code + 1], ok |-> TRUE] ELSE [v |-> default, ok |-> FALSE]

HwInfo(pipes, banks, group, row, recent) ==
  [num_pipes |-> pipes.v, num_banks |-> banks.v, group_bytes |-> group.v, row_size |-> row.v,
   allow_2d |-> recent /\ pipes.ok /\ banks.ok /\ group.ok /\ row.ok]

Pipes(c) == Field(c.pipes, <<1, 2, 4, 8>>, 8)
Groups(c) == Field(c.group, <<256, 512>>, 256)

r6_init_hw_info(c) == HwInfo(Pipes(c), Field(c.banks, <<4, 8>>, 8), Groups(c), [v |-> 0, ok |-> TRUE], c.recent)

eg_init_hw_info(c) ==
  HwInfo(Pipes(c), Field(c.banks, <<4, 8, 16>>, 8), Groups(c), Field(c.row, <<1024, 2048, 4096>>, 4096), c.recent)

(* The tables of tile modes are read as well; zeros if the kernel has none.*)
si_init_hw_info(c) == eg_init_hw_info(c)
cik_init_hw_info(c) == eg_init_hw_info(c)

(* The fields of a tile mode.                                              *)
si_gb_tile_mode(r) ==
  [num_pipes |-> IF r.pipe_config \in 4..7 THEN 4 ELSE IF r.pipe_config \in 8..14 THEN 8 ELSE 2,
   num_banks |-> 2 ^ (r.num_banks + 1), mtilea |-> 2 ^ r.aspect, bankw |-> 2 ^ r.bank_w, bankh |-> 2 ^ r.bank_h,
   tile_split |-> IF r.tile_split \in 0..6 THEN 64 * 2 ^ r.tile_split ELSE 64]

(* cik: the split depends on the format, and the rest comes from a second  *)
(* table, at the place that the bytes of a tile say.                       *)
cik_get_2d_params(man, bpe, nsamples, is_color, mode) ==
  LET r == man.tiles[mode]
      one == 64 * bpe
      split == IF is_color THEN Larger(256, (2 ^ r.sample_split) * one)
               ELSE IF r.tile_split \in 0..6 THEN 64 * 2 ^ r.tile_split ELSE 64
      row == Smaller(man.hw.row_size, split)
      macro == man.macros[log2_int(Smaller(row, nsamples * one) \div 64) + 1]
  IN  [num_pipes |-> IF r.pipe_config \in {16, 17} THEN 16 ELSE si_gb_tile_mode(r).num_pipes,
       tile_split |-> row, num_banks |-> 2 ^ (macro.num_banks + 1), mtilea |-> 2 ^ macro.aspect,
       bankw |-> 2 ^ macro.bank_w, bankh |-> 2 ^ macro.bank_h]

-----------------------------------------------------------------------------
(* One level after the other: minify lays out level i at t.offset and      *)
(* leaves its end in t.size; only level 1 is aligned anew.                 *)
Settled(t, i, align) ==
  [t EXCEPT !.raw = t.size, !.offset = IF i = 0 THEN AlignTo(t.size, align) ELSE t.size]

Build(s, t, step(_, _)) == FoldLeft(step, t, [k \in 1..(s.last_level + 1) |-> k - 1])

Pixels(s, i) == [x |-> mip_minify(s.npix_x, i), y |-> mip_minify(s.npix_y, i), z |-> mip_minify(s.npix_z, i)]

Blocks(s, n) == [x |-> UpDiv(n.x, s.blk_w), y |-> UpDiv(n.y, s.blk_h), z |-> UpDiv(n.z, s.blk_d)]

(* The level is placed and counted.  The offset is passed as an unsigned.  *)
Placed(s, t, n, b, bpe, pitch, slice) ==
  LET at == Wide(t.offset)
      size == Wide(slice)
  IN  [t EXCEPT !.lv = Append(@, [offset |-> at, slice_size |-> size, npix |-> n, nblk |-> b, pitch_bytes |-> Wide(pitch),
                                  mode |-> t.mode, bpe |-> bpe, align |-> 1]),
                !.size = at + size * b.z * s.array_size,
                !.wide = @ \/ t.offset >= 2 ^ SurfBits \/ slice >= 2 ^ SurfBits]

surf_minify(s, t, i, bpe, xalign, yalign) ==
  LET n == Pixels(s, i)
      b == [Blocks(s, n) EXCEPT !.x = AlignTo(@, xalign), !.y = AlignTo(@, yalign)]
      pitch == b.x * bpe * s.nsamples
  IN  Placed(s, t, n, b, bpe, pitch, pitch * b.y)

(* A level that is smaller than a macro tile is not worth one.             *)
TooSmall(s, b, w, h) == s.nsamples = 1 /\ "fmask" \notin s.flags /\ (b.x < w \/ b.y < h)

ScanoutAlign(s, bpe, x) == IF "scanout" \in s.flags THEN Larger(IF bpe = 1 THEN 64 ELSE 32, x) ELSE x

BaseAlign(man) == Larger(256, man.hw.group_bytes)

r6_surface_init_linear(man, s) ==
  LET xalign == ScanoutAlign(s, s.bpe, Larger(1, man.hw.group_bytes \div s.bpe))
      t == [NoTree EXCEPT !.align = BaseAlign(man), !.mode = "linear"]
  IN  Build(s, t, LAMBDA u, i : Settled(surf_minify(s, u, i, s.bpe, xalign, 1), i, u.align))

r6_surface_init_linear_aligned(man, s) ==
  LET xalign == Larger(64, man.hw.group_bytes \div s.bpe)
      t == [NoTree EXCEPT !.align = BaseAlign(man), !.mode = "linear aligned"]
  IN  Build(s, t, LAMBDA u, i : Settled(surf_minify(s, u, i, s.bpe, xalign, 1), i, u.align))

(* One level of the 1D mode of r6 and eg.                                  *)
Level1d(man, s, bpe, t, i) ==
  LET xalign == ScanoutAlign(s, bpe, Larger(8, man.hw.group_bytes \div (8 * bpe * s.nsamples)))
  IN  Settled(surf_minify(s, t, i, bpe, xalign, 8), i, t.align)

(* r6 enters the 1D mode at level i; at level 0 with a new alignment.      *)
r6_surface_init_1d(man, t, i) ==
  [t EXCEPT !.mode = "1D", !.align = IF i = 0 THEN BaseAlign(man) ELSE @]

r6_surface_init_2d(man, s) ==
  LET wide == (man.hw.group_bytes * man.hw.num_banks) \div (8 * s.bpe * s.nsamples)
      xalign == ScanoutAlign(s, s.bpe, Larger(8 * man.hw.num_banks, wide))
      yalign == 8 * man.hw.num_pipes
      align == s.nsamples * s.bpe * Larger(man.hw.num_pipes * man.hw.num_banks * 64, xalign * yalign)
      step(u, i) ==
        IF u.mode = "1D" THEN Level1d(man, s, s.bpe, u, i)
        ELSE IF TooSmall(s, Blocks(s, Pixels(s, i)), xalign, yalign)
        THEN Level1d(man, s, s.bpe, r6_surface_init_1d(man, u, i), i)
        ELSE Settled(surf_minify(s, u, i, s.bpe, xalign, yalign), i, u.align)
  IN  Build(s, [NoTree EXCEPT !.align = align, !.mode = "2D"], step)

-----------------------------------------------------------------------------
(* eg: the macro tile for a format and a tile split.                       *)
Macro(s, bpe, split, pipes, banks) ==
  LET whole == 64 * bpe * s.nsamples
      pt == IF whole > split /\ split # 0 THEN whole \div split ELSE 1
      w == 8 * s.bankw * pipes * s.mtilea
      h == (8 * s.bankh * banks) \div s.mtilea
  IN  [slice_pt |-> pt, w |-> w, h |-> h, bytes |-> (w \div 8) * (h \div 8) * (whole \div pt)]

(* A tree starts, or goes on, with an alignment of its own.                *)
Aligned(t, alignment) == [t EXCEPT !.align = Larger(@, alignment), !.offset = AlignTo(@, alignment)]

(* Tiles of a level that is aligned to whole macro tiles.                  *)
Tiled(s, t, bpe, m, n, b) ==
  LET c == [b EXCEPT !.x = AlignTo(@, m.w), !.y = AlignTo(@, m.h)]
      tiles == ((c.x \div m.w) * c.y) \div m.h
      u == Placed(s, t, n, c, bpe, c.x * bpe * m.slice_pt, tiles * m.bytes * m.slice_pt)
  IN  [u EXCEPT !.lv[Len(u.lv)].align = m.bytes]

eg_surf_minify(s, t, i, bpe, m) == Tiled(s, t, bpe, m, Pixels(s, i), Blocks(s, Pixels(s, i)))

eg_surface_init_1d(man, t, i) ==
  LET u == [t EXCEPT !.mode = "1D"] IN IF i = 0 THEN Aligned(u, BaseAlign(man)) ELSE u

eg_surface_init_2d(man, s, t, bpe, split) ==
  LET m == Macro(s, bpe, split, man.hw.num_pipes, man.hw.num_banks)
      step(u, i) ==
        IF u.mode = "1D" THEN Level1d(man, s, bpe, u, i)
        ELSE IF TooSmall(s, Blocks(s, Pixels(s, i)), m.w, m.h)
        THEN Level1d(man, s, bpe, eg_surface_init_1d(man, u, i), i)
        ELSE Settled(eg_surf_minify(s, u, i, bpe, m), i, u.align)
  IN  Build(s, Aligned([t EXCEPT !.mode = "2D"], Larger(256, m.bytes)), step)

(* The stencil's tree starts where the first one ends.                     *)
After(t) == [t EXCEPT !.offset = t.size, !.raw = t.size]

DepthAndStencil(s) == {"z", "s"} \subseteq s.flags

(* What the trees of a surface are made of: the one, or depth and stencil. *)
Formats(s, both, mode, stencil) ==
  LET first == [bpe |-> s.bpe, split |-> s.tile_split, mode |-> mode]
  IN  IF both THEN <<first, [bpe |-> 1, split |-> s.stencil_tile_split, mode |-> stencil]>> ELSE <<first>>

EgFormats(s) == Formats(s, DepthAndStencil(s), "none", "none")

eg_surface_init_1d_miptrees(man, s) ==
  LET tree(t, f) == Build(s, eg_surface_init_1d(man, After(t), 0), LAMBDA u, i : Level1d(man, s, f.bpe, u, i))
  IN  FoldLeft(tree, NoTree, EgFormats(s))

eg_surface_init_2d_miptrees(man, s) ==
  FoldLeft(LAMBDA t, f : eg_surface_init_2d(man, s, After(t), f.bpe, f.split), NoTree, EgFormats(s))
-----------------------------------------------------------------------------
(* si and cik: mipmaps are padded to powers of two.                        *)
SiPixels(s, i) ==
  [Pixels(s, i) EXCEPT !.x = IF i = 0 THEN s.npix_x ELSE mip_minify(next_power_of_two(s.npix_x), i)]

SiBlocks(s, i) ==
  LET n == SiPixels(s, i)
  IN  Blocks(s, IF i = 0 /\ s.last_level > 0 THEN [d \in {"x", "y", "z"} |-> next_power_of_two(n[d])] ELSE n)

SiPlaced(s, t, i, bpe, b, pitch, slice_align) ==
  Placed(s, t, SiPixels(s, i), b, bpe, pitch, AlignTo(pitch * b.y, slice_align))

SiWidened(s, t, i, bpe, xalign, b, slice_align) ==
  LET wider == IF i = 0 /\ s.last_level = 0 THEN slice_align \div s.bpe
               ELSE IF t.mode = "linear aligned" THEN (slice_align \div bpe) \div b.y ELSE 0
  IN  [b EXCEPT !.x = AlignTo(@, Larger(xalign, wider))]

si_surf_minify(s, t, i, bpe, xalign, yalign, slice_align) ==
  LET high == [SiBlocks(s, i) EXCEPT !.y = AlignTo(@, yalign)]
      b == SiWidened(s, t, i, bpe, xalign, high, slice_align)
  IN  SiPlaced(s, t, i, bpe, b, b.x * bpe * s.nsamples, slice_align)

si_surf_minify_2d(s, t, i, bpe, m) == Tiled(s, t, bpe, m, SiPixels(s, i), SiBlocks(s, i))

si_surface_init_linear_aligned(man, s) ==
  LET slice_align == Larger(64 * s.bpe, man.hw.group_bytes)
      t == [NoTree EXCEPT !.align = BaseAlign(man), !.mode = "linear aligned"]
      step(u, i) == Settled(si_surf_minify(s, u, i, s.bpe, Larger(8, 64 \div s.bpe), 1, slice_align), i, u.align)
  IN  Build(s, t, step)

(* One level of the 1D mode of si and cik; entered at level 0 or 1 it is   *)
(* aligned, from where the last level ended.                               *)
SiLevel1d(man, s, bpe, t, i) ==
  LET xalign == ScanoutAlign(s, bpe, 8)
  IN  Settled(si_surf_minify(s, t, i, bpe, xalign, 8, man.hw.group_bytes), i, BaseAlign(man))

si_surface_init_1d(man, t, i) ==
  LET u == [t EXCEPT !.mode = "1D", !.offset = t.raw] IN IF i <= 1 THEN Aligned(u, BaseAlign(man)) ELSE u

HasStencil(s) == "s" \in s.flags

si_surface_init_1d_miptrees(man, s) ==
  LET tree(t, f) == Build(s, si_surface_init_1d(man, After(t), 0), LAMBDA u, i : SiLevel1d(man, s, f.bpe, u, i))
  IN  FoldLeft(tree, NoTree, Formats(s, HasStencil(s), "none", "none"))

(* When a level is too small the tile mode must have a 1D counterpart.     *)
si_surface_init_2d(man, s, t, bpe, m, falls) ==
  LET step(u, i) ==
        IF ~u.ok THEN u
        ELSE IF u.mode = "1D" THEN SiLevel1d(man, s, bpe, u, i)
        ELSE IF TooSmall(s, SiBlocks(s, i), m.w, m.h)
        THEN IF falls THEN SiLevel1d(man, s, bpe, si_surface_init_1d(man, u, i), i) ELSE [u EXCEPT !.ok = FALSE]
        ELSE Settled(si_surf_minify_2d(s, u, i, bpe, m), i, u.align)
  IN  Build(s, Aligned([t EXCEPT !.mode = "2D"], Larger(256, m.bytes)), step)

SiFalls(mode) == mode \in {"color8", "color16", "color32", "color64", "scan16", "scan32", "depth"}

si_surface_init_2d_miptrees(man, s, mode, stencil) ==
  LET p == si_gb_tile_mode(man.tiles[mode])
      tree(t, f) ==
        IF ~t.ok THEN t
        ELSE si_surface_init_2d(man, s, After(t), f.bpe, Macro(s, f.bpe, f.split, p.num_pipes, p.num_banks), SiFalls(f.mode))
  IN  FoldLeft(tree, NoTree, Formats(s, HasStencil(s), mode, stencil))

CikFalls(mode) == mode \in {"color", "scan", "split64", "split128", "split256"}

(* A row of memory limits the split; the levels are those of si.           *)
cik_surface_init_2d(man, s, t, f, p) ==
  si_surface_init_2d(man, s, t, f.bpe, Macro(s, f.bpe, Smaller(man.hw.row_size, f.split), p.num_pipes, p.num_banks),
                     CikFalls(f.mode))

ZOrS(s) == s.flags \cap {"z", "s"} # {}

cik_surface_init_2d_miptrees(man, s, mode, stencil) ==
  LET p == cik_get_2d_params(man, s.bpe, s.nsamples, ~ZOrS(s), mode)
  IN  FoldLeft(LAMBDA t, f : IF t.ok THEN cik_surface_init_2d(man, s, After(t), f, p) ELSE t,
               NoTree, Formats(s, HasStencil(s), mode, stencil))

-----------------------------------------------------------------------------
(* What a check makes of the structure, and whether it is content; si and  *)
(* cik also choose the tile modes.                                         *)
Says(s, ok) == [s |-> s, ok |-> ok, mode |-> "linear", stencil |-> "none"]

Dimensions(s, pixels, levels) ==
  s.npix_x <= pixels /\ s.npix_y <= pixels /\ s.npix_z <= pixels /\ s.last_level <= levels

(* The kernel cannot do 2D: 1D, in the flags and in a variable of the      *)
(* check, unless multisampling forbids that.                               *)
Force1d(s, allowed) == IF s.mode = "2D" /\ ~allowed THEN [s EXCEPT !.mode = "1D"] ELSE s

eg_surface_sanity(man, s) ==
  LET u == Force1d(s, man.hw.allow_2d)
      tileb == Smaller(s.tile_split, 64 * s.bpe * s.nsamples)
  IN  IF ~Dimensions(s, 2 * SurfMaxPix, 15) \/ (u # s /\ s.nsamples > 1) THEN Says(s, FALSE)
      ELSE Says(u, u.mode = "2D" =>
                     /\ s.tile_split \in {64, 128, 256, 512, 1024, 2048, 4096}
                     /\ {s.mtilea, s.bankw, s.bankh} \subseteq {1, 2, 4, 8}
                     /\ man.hw.num_banks >= s.mtilea
                     /\ tileb * s.bankh * s.bankw >= man.hw.group_bytes)

(* The common beginning of the checks of si and cik, with the default      *)
(* values for a structure that has none.                                   *)
Defaulted(s) ==
  IF s.tile_split # 0 THEN s
  ELSE [s EXCEPT !.mtilea = 1, !.bankw = 1, !.bankh = 1, !.tile_split = 64, !.stencil_tile_split = 64]

SiBegin(man, s) ==
  LET u == Force1d(s, man.hw.allow_2d /\ "index" \in s.flags)
  IN  IF ~Dimensions(s, 2 * SurfMaxPix, 15) \/ (u # s /\ s.nsamples > 1) THEN Says(s, FALSE)
      ELSE IF s.nsamples > 1 /\ u.mode # "2D" THEN Says(u, FALSE)
      ELSE Says(Defaulted(u), TRUE)

SiMode2d(s) ==
  CASE "z" \in s.flags -> IF s.nsamples = 1 THEN "depth" ELSE "depthAA"
    [] "z" \notin s.flags /\ "scanout" \in s.flags ->
         (CASE s.bpe = 2 -> "scan16" [] s.bpe = 4 -> "scan32" [] OTHER -> "none")
    [] OTHER -> (CASE s.bpe = 1 -> "color8" [] s.bpe = 2 -> "color16" [] s.bpe = 4 -> "color32"
                   [] s.bpe \in {8, 16} -> "color64" [] OTHER -> "none")

Mode1d(s) == IF "z" \in s.flags THEN "depth1D" ELSE IF "scanout" \in s.flags THEN "scan1D" ELSE "color1D"

Mode2d(s, p, mode, stencil) ==
  [s |-> [s EXCEPT !.mtilea = p.mtilea, !.bankw = p.bankw, !.bankh = p.bankh, !.tile_split = p.tile_split],
   ok |-> TRUE, mode |-> mode, stencil |-> stencil]

SiChosen2d(man, s, mode) ==
  LET stencil == IF s.nsamples = 1 THEN "depth" ELSE "depthAA"
      v == IF HasStencil(s) THEN [s EXCEPT !.stencil_tile_split = si_gb_tile_mode(man.tiles[stencil]).tile_split] ELSE s
  IN  IF mode = "none" THEN Says(v, FALSE) ELSE Mode2d(v, si_gb_tile_mode(man.tiles[mode]), mode, stencil)

SiChosen(man, c) ==
  IF ~c.ok \/ c.s.mode \in {"linear", "linear aligned"} THEN c
  ELSE IF c.s.mode = "1D" THEN [c EXCEPT !.mode = Mode1d(c.s), !.stencil = "depth1D"]
  ELSE SiChosen2d(man, c.s, SiMode2d(c.s))

si_surface_sanity(man, s) == SiChosen(man, SiBegin(man, s))

CikMode2d(s) ==
  CASE ZOrS(s) -> (CASE s.nsamples = 1 -> "split64" [] s.nsamples \in {2, 4} -> "split128" [] OTHER -> "split256")
    [] ~ZOrS(s) /\ "scanout" \in s.flags -> "scan"
    [] OTHER -> "color"

CikChosen2d(man, s, mode) ==
  LET stencil == IF HasStencil(s) THEN cik_get_2d_params(man, 1, s.nsamples, FALSE, mode).tile_split ELSE s.stencil_tile_split
  IN  Mode2d([s EXCEPT !.stencil_tile_split = stencil],
             cik_get_2d_params(man, s.bpe, s.nsamples, ~ZOrS(s), mode), mode, mode)

CikChosen(man, c) ==
  IF ~c.ok \/ c.s.mode \in {"linear", "linear aligned"} THEN c
  ELSE IF c.s.mode = "1D" THEN [c EXCEPT !.mode = Mode1d(c.s), !.stencil = "depth1D"]
  ELSE CikChosen2d(man, c.s, CikMode2d(c.s))

cik_surface_sanity(man, s) == CikChosen(man, SiBegin(man, s))

-----------------------------------------------------------------------------
(* The beginning of every init: multisampling is 2D only, and a depth or   *)
(* stencil buffer is tiled.                                                *)
Prepared(s) ==
  LET u == IF s.nsamples > 1 THEN [s EXCEPT !.mode = "2D"] ELSE s
  IN  IF ZOrS(u) /\ u.mode \notin {"1D", "2D"} THEN [u EXCEPT !.mode = "1D"] ELSE u

(* What init returns: the structure, the levels, and whether they are laid *)
(* out in a mode that the check refused, which only its own variable says. *)
Returns(c, tree, mode) == [s |-> c.s, ok |-> c.ok /\ tree.ok, tree |-> tree, odd |-> c.ok /\ c.s.mode # mode]

(* r6 checks for itself, and keeps the mode it checked.                    *)
r6_surface_init(man, s) ==
  LET u == Prepared(s)
      v == Force1d(u, man.hw.allow_2d)
      ok == Dimensions(s, SurfMaxPix, 14)
  IN  IF v # u /\ s.nsamples > 1 THEN Returns(Says(u, FALSE), NoTree, u.mode)
      ELSE IF ~ok THEN Returns(Says(v, FALSE), NoTree, v.mode)
      ELSE Returns(Says(v, TRUE),
             CASE v.mode = "linear" -> r6_surface_init_linear(man, v)
               [] v.mode = "linear aligned" -> r6_surface_init_linear_aligned(man, v)
               [] v.mode = "1D" -> Build(v, r6_surface_init_1d(man, NoTree, 0), LAMBDA t, i : Level1d(man, v, v.bpe, t, i))
               [] v.mode = "2D" -> r6_surface_init_2d(man, v), v.mode)

r6_surface_best(man, s) == Says(s, TRUE)

(* A macro tile without an aspect traps: the height is divided by it.      *)
Trap == [NoTree EXCEPT !.ok = FALSE, !.mode = "trap"]

(* The levels, in the mode of before the check c.                          *)
EgLevels(man, c, mode) ==
  IF ~c.ok THEN Returns(c, NoTree, mode)
  ELSE Returns(c,
         CASE mode = "linear" -> r6_surface_init_linear(man, c.s)
           [] mode = "linear aligned" -> r6_surface_init_linear_aligned(man, c.s)
           [] mode = "1D" -> eg_surface_init_1d_miptrees(man, c.s)
           [] mode = "2D" -> IF c.s.mtilea = 0 THEN Trap ELSE eg_surface_init_2d_miptrees(man, c.s), mode)

eg_surface_init(man, s) == EgLevels(man, eg_surface_sanity(man, Prepared(s)), Prepared(s).mode)

SiLevels(man, c, mode, tree2d) ==
  IF ~c.ok THEN Returns(c, NoTree, mode)
  ELSE Returns(c,
         CASE mode = "linear" -> r6_surface_init_linear(man, c.s)
           [] mode = "linear aligned" -> si_surface_init_linear_aligned(man, c.s)
           [] mode = "1D" -> si_surface_init_1d_miptrees(man, c.s)
           [] mode = "2D" -> tree2d, mode)

SiInit(man, c, mode) == SiLevels(man, c, mode, si_surface_init_2d_miptrees(man, c.s, c.mode, c.stencil))
CikInit(man, c, mode) == SiLevels(man, c, mode, cik_surface_init_2d_miptrees(man, c.s, c.mode, c.stencil))

si_surface_init(man, s) == SiInit(man, si_surface_sanity(man, Prepared(s)), Prepared(s).mode)
cik_surface_init(man, s) == CikInit(man, cik_surface_sanity(man, Prepared(s)), Prepared(s).mode)

(* bankh is doubled until a tile of all its banks fills a group, or is 16. *)
Heights(man, bankh, tileb) ==
  LET h == {b \in {1, 2, 4, 8} : b >= bankh /\ tileb * b >= man.hw.group_bytes}
  IN  IF h = {} THEN 16 ELSE CHOOSE b \in h : \A c \in h : b <= c

(* A first guess that passes the check, and then the values that suit the  *)
(* surface.                                                                *)
eg_surface_best(man, s) ==
  LET guess == [s EXCEPT !.tile_split = 1024, !.bankw = 1, !.mtilea = Smaller(8, man.hw.num_banks),
                         !.bankh = Heights(man, 1, Smaller(1024, 64 * s.bpe * s.nsamples))]
      c == eg_surface_sanity(man, guess)
      deep == s.nsamples > 1 /\ ZOrS(s)
      split == IF s.nsamples = 1 THEN man.hw.row_size
               ELSE IF ZOrS(s) THEN (IF s.nsamples = 8 THEN 256 ELSE 128)
               ELSE Smaller(4096, Larger(256, s.nsamples * s.bpe * 64))
      stencil == IF deep THEN 64 ELSE IF s.nsamples = 1 THEN man.hw.row_size \div 2 ELSE s.stencil_tile_split
      tileb == Smaller(split, 64 * s.nsamples * (IF HasStencil(s) THEN 1 ELSE s.bpe))
      bankh == Heights(man, CASE tileb = 64 -> 4 [] tileb \in {128, 256} -> 2 [] OTHER -> 1, tileb)
      ratio == (bankh * man.hw.num_banks) \div man.hw.num_pipes
  IN  IF ~c.ok \/ s.mode # "2D" THEN c
      ELSE Says([c.s EXCEPT !.tile_split = split, !.stencil_tile_split = stencil, !.bankw = 1, !.bankh = bankh,
                            !.mtilea = 2 ^ (log2_int(ratio) \div 2)], TRUE)

(* Without an index of tile modes a depth or stencil buffer becomes 1D,    *)
(* while the check still looks at the mode asked for: what it makes of the *)
(* flags is the same in the end.                                           *)
OldDepth(c, s) == IF ZOrS(s) /\ "index" \notin s.flags THEN [c EXCEPT !.s.mode = "1D"] ELSE c

si_surface_best(man, s) == OldDepth(si_surface_sanity(man, s), s)
cik_surface_best(man, s) == OldDepth(cik_surface_sanity(man, s), s)

-----------------------------------------------------------------------------
radeon_surface_manager_new(c) ==
  /\ srf.man = {}
  /\ srf' = [srf EXCEPT !.man =
       {[gen |-> c.gen, rv770 |-> c.rv770, tiles |-> c.tiles, macros |-> c.macros,
         hw |-> CASE c.gen = "r6" -> r6_init_hw_info(c) [] c.gen = "eg" -> eg_init_hw_info(c)
                  [] c.gen = "si" -> si_init_hw_info(c) [] c.gen = "cik" -> cik_init_hw_info(c)]}]

radeon_surface_manager_free ==
  /\ srf.man # {}
  /\ srf' = [srf EXCEPT !.man = {}, !.surf = {}, !.best = FALSE, !.ret = "none", !.tree = NoTree, !.odd = FALSE]

(* The program fills in a structure.                                       *)
SurfAsk(a) ==
  /\ srf.man # {} /\ srf.surf = {}
  /\ srf' = [srf EXCEPT !.surf = {a}]

radeon_surface_sanity(man, s) ==
  LET whole == s.npix_x > 0 /\ s.npix_y > 0 /\ s.npix_z > 0 /\ s.blk_w > 0 /\ s.blk_h > 0 /\ s.blk_d > 0 /\ s.array_size > 0
      u == [s EXCEPT !.array_size = next_power_of_two(@)]
      flat == /\ s.type \in {"1D", "1D array"} => s.npix_y <= 1
              /\ s.type \in {"1D", "2D", "cubemap"} => s.npix_z <= 1
  IN  CASE ~whole -> Says(s, FALSE)
        [] whole /\ (s.nsamples \notin {1, 2, 4, 8} \/ ~flat) -> Says(u, FALSE)
        [] whole /\ s.nsamples \in {1, 2, 4, 8} /\ flat /\ s.type = "cubemap" ->
             Says([s EXCEPT !.array_size = IF man.rv770 THEN 8 ELSE 6], TRUE)
        [] OTHER -> Says(u, TRUE)

BestFor(man, c) ==
  IF ~c.ok THEN c
  ELSE CASE man.gen = "r6" -> r6_surface_best(man, c.s) [] man.gen = "eg" -> eg_surface_best(man, c.s)
         [] man.gen = "si" -> si_surface_best(man, c.s) [] man.gen = "cik" -> cik_surface_best(man, c.s)

GivesBest(r) ==
  srf' = [srf EXCEPT !.surf = {r.s}, !.ret = IF r.ok THEN "best" ELSE "error", !.best = r.ok,
                     !.tree = NoTree, !.odd = FALSE]

radeon_surface_best ==
  \E man \in srf.man, s \in srf.surf : GivesBest(BestFor(man, radeon_surface_sanity(man, s)))

InitFor(man, c) ==
  IF ~c.ok THEN Returns(c, NoTree, c.s.mode)
  ELSE CASE man.gen = "r6" -> r6_surface_init(man, c.s) [] man.gen = "eg" -> eg_surface_init(man, c.s)
         [] man.gen = "si" -> si_surface_init(man, c.s) [] man.gen = "cik" -> cik_surface_init(man, c.s)

GivesLevels(r) ==
  srf' = [srf EXCEPT !.surf = {r.s}, !.tree = r.tree, !.odd = @ \/ r.odd,
                     !.ret = IF r.ok THEN "ok" ELSE IF r.tree.mode = "trap" THEN "trap" ELSE "error"]

radeon_surface_init ==
  \E man \in srf.man, s \in srf.surf :
    /\ srf.ret # "trap"
    /\ GivesLevels(InitFor(man, radeon_surface_sanity(man, s)))

SrfNext ==
  \/ \E c \in SurfConfigs : radeon_surface_manager_new(c)
  \/ \E a \in SurfAsks : SurfAsk(a)
  \/ radeon_surface_best \/ radeon_surface_init \/ radeon_surface_manager_free

-----------------------------------------------------------------------------
LevelEnd(s, l) == l.offset + l.slice_size * l.nblk.z * s.array_size

Rank(mode) == CASE mode = "linear" -> 0 [] mode = "linear aligned" -> 1 [] mode = "1D" -> 2 [] mode = "2D" -> 3

TreeStart(s, k) == k = 1 \/ k = s.last_level + 2

(* The levels of a surface that init accepted, and of its stencil, lie one *)
(* after the other without overlap and inside bo_size; each holds all the  *)
(* blocks of its picture; the first two of a tree and every 2D level are   *)
(* aligned for the hardware; and no level is tiled more than the one       *)
(* before, nor than the flags say.  Sizes beyond 32 bits are excepted, and *)
(* the surfaces laid out in 2D after the check went back to 1D.            *)
LevelsAreApart ==
  \A s \in srf.surf :
    LET t == srf.tree
    IN  srf.ret = "ok" /\ ~t.wide /\ ~srf.odd =>
      /\ \A k \in DOMAIN t.lv :
           LET l == t.lv[k]
               i == (k - 1) % (s.last_level + 1)
           IN  /\ LevelEnd(s, l) <= IF k = Len(t.lv) THEN t.size ELSE t.lv[k + 1].offset
               /\ l.npix.x >= s.npix_x \div 2 ^ i /\ l.npix.y >= s.npix_y \div 2 ^ i
               /\ l.nblk.x * s.blk_w >= l.npix.x /\ l.nblk.y * s.blk_h >= l.npix.y /\ l.nblk.z * s.blk_d >= l.npix.z
               /\ l.slice_size >= l.nblk.x * l.nblk.y * l.bpe * s.nsamples
               /\ l.offset % l.align = 0
               /\ i <= 1 => l.offset % 256 = 0
               /\ Rank(l.mode) <= IF TreeStart(s, k) THEN Rank(s.mode) ELSE Rank(t.lv[k - 1].mode)
      /\ Len(t.lv) \in {s.last_level + 1, 2 * (s.last_level + 1)}

(* What radeon_surface_best makes of a structure is accepted by init, from *)
(* eg on: the two checks agree although best guesses before it looks.      *)
(* Excepted is multisampling where eg cannot do 2D and the flags did not   *)
(* ask for it: best then has nothing to do, and only init turns to 2D.     *)
BestIsAccepted ==
  \A man \in srf.man, s \in srf.surf :
    srf.best /\ man.gen # "r6" /\ (s.nsamples = 1 \/ man.hw.allow_2d)
      => srf.ret \in {"best", "ok"} /\ ~srf.odd
=============================================================================
