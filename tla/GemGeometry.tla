---------------------------- MODULE GemGeometry -----------------------------
(* intel_bufmgr_gem.c: the pitch, height and size of a tiled buffer on the *)
(* generations of the hardware, the buckets that sizes are rounded up to,  *)
(* and the buckets' caches, as far as sizes go: which buffer serves which  *)
(* request.  All numbers are those of the code.                            *)
EXTENDS Integers, Sequences

CONSTANTS
  GeoChips,   \* [gen, is_915, relaxed]: the chips
  GeoAsks,    \* [x, y, cpp, tiling]: the pictures a program asks for
  GeoSizes,   \* the sizes of plain buffers
  GeoMaxBos   \* bound: buffers that are live or cached

VARIABLE geo   \* chip; live: the buffers in use; cache: the sizes in each bucket

GeoInit == geo \in {[chip |-> c, live |-> << >>, cache |-> << >>] : c \in GeoChips}

-----------------------------------------------------------------------------
GeoAlign(n, a) == ((n + a - 1) \div a) * a

(* for (i = low; i < n; i <<= 1)                                           *)
Doubled(low, n) == low * CHOOSE p \in {2 ^ k : k \in 0..8} : low * p >= n /\ (p = 1 \/ low * (p \div 2) < n)

(* Both functions may give up tiling, in the caller's variable.            *)
drm_intel_gem_bo_tile_size(chip, size, tiling) ==
  LET min_size == IF chip.gen = 3 THEN 1048576 ELSE 524288
  IN  IF tiling = "none" THEN [v |-> size, tiling |-> tiling]
      ELSE IF chip.gen >= 4 THEN [v |-> GeoAlign(size, 4096), tiling |-> tiling]
      ELSE IF size > 128 * min_size THEN [v |-> size, tiling |-> "none"]
      ELSE [v |-> IF chip.relaxed THEN GeoAlign(size, 4096) ELSE Doubled(min_size, size), tiling |-> tiling]

TileWidth(chip, tiling) == IF tiling = "x" \/ (chip.is_915 /\ tiling = "y") THEN 512 ELSE 128

drm_intel_gem_bo_tile_pitch(chip, pitch, tiling) ==
  LET width == TileWidth(chip, tiling)
  IN  IF tiling = "none" THEN [v |-> GeoAlign(pitch, 64), tiling |-> tiling]
      ELSE IF chip.gen >= 4 THEN [v |-> GeoAlign(pitch, width), tiling |-> tiling]
      ELSE IF pitch > 8192 THEN [v |-> GeoAlign(pitch, 64), tiling |-> "none"]
      ELSE [v |-> Doubled(width, pitch), tiling |-> tiling]

HeightAlignment(chip, tiling) ==
  CASE tiling = "none" -> 2
    [] tiling # "none" /\ chip.gen = 2 -> 16
    [] tiling # "none" /\ chip.gen # 2 -> IF TileWidth(chip, tiling) = 512 THEN 8 ELSE 32

(* Once around the loop of alloc_tiled.                                    *)
Attempt(chip, a, tiling) ==
  LET pitch == drm_intel_gem_bo_tile_pitch(chip, a.x * a.cpp, tiling)
      size == drm_intel_gem_bo_tile_size(chip, pitch.v * GeoAlign(a.y, HeightAlignment(chip, tiling)), pitch.tiling)
  IN  [pitch |-> pitch.v, size |-> size.v, tiling |-> size.tiling]

(* The loop ends when the mode has not changed, and it changes only once.  *)
Geometry(chip, a) ==
  LET r == Attempt(chip, a, a.tiling) IN IF r.tiling = a.tiling THEN r ELSE Attempt(chip, a, r.tiling)

-----------------------------------------------------------------------------
(* Three buckets, then four from every power of two up to 64 MiB.          *)
init_cache_buckets ==
  [i \in 1..55 |-> IF i <= 3 THEN 4096 * i ELSE (4 + ((i - 4) % 4)) * (2 ^ (12 + ((i - 4) \div 4)))]

drm_intel_gem_bo_bucket_for_size(size) ==
  LET fits == {i \in DOMAIN init_cache_buckets : init_cache_buckets[i] >= size}
  IN  IF fits = {} THEN 0 ELSE CHOOSE i \in fits : \A j \in fits : i <= j

(* What is asked of the kernel: a bucket's size, or at least a page.       *)
BoSize(size) ==
  LET i == drm_intel_gem_bo_bucket_for_size(size)
  IN  IF i # 0 THEN init_cache_buckets[i] ELSE IF size < 4096 THEN 4096 ELSE size

Leaving(s, k) == [i \in 1..(Len(s) - 1) |-> IF i < k THEN s[i] ELSE s[i + 1]]

(* A buffer out of the bucket, or a new one when the bucket is empty, its  *)
(* first buffer is busy, or the kernel has taken the pages away.           *)
drm_intel_gem_bo_alloc_internal(want, size, stride, tiling) ==
  LET b == drm_intel_gem_bo_bucket_for_size(size)
      bo(s) == [want |-> want, asked |-> size, size |-> s, pitch |-> stride, tiling |-> tiling]
  IN  \/ geo' = [geo EXCEPT !.live = Append(@, bo(BoSize(size)))]
      \/ \E k \in DOMAIN geo.cache :
            /\ geo.cache[k].bucket = b
            /\ geo' = [geo EXCEPT !.live = Append(@, bo(geo.cache[k].size)), !.cache = Leaving(@, k)]

GeoRoom == Len(geo.live) + Len(geo.cache) < GeoMaxBos

drm_intel_gem_bo_alloc_tiled(a) ==
  LET r == Geometry(geo.chip, a)
  IN  /\ GeoRoom
      /\ drm_intel_gem_bo_alloc_internal(a, r.size, r.pitch, r.tiling)

drm_intel_gem_bo_alloc(size) ==
  /\ GeoRoom
  /\ drm_intel_gem_bo_alloc_internal([x |-> size, y |-> 1, cpp |-> 1, tiling |-> "none"], size, size, "none")

(* The last reference: the buffer enters the bucket of its own size.       *)
drm_intel_gem_bo_unreference_final(k) ==
  LET size == geo.live[k].size
      b == drm_intel_gem_bo_bucket_for_size(size)
  IN  /\ k \in DOMAIN geo.live
      /\ geo' = [geo EXCEPT !.live = Leaving(@, k),
                            !.cache = IF b = 0 THEN @ ELSE Append(@, [bucket |-> b, size |-> size])]

(* A cached buffer grows old, or its pages are gone.                       *)
drm_intel_gem_cleanup_bo_cache(k) ==
  /\ k \in DOMAIN geo.cache
  /\ geo' = [geo EXCEPT !.cache = Leaving(@, k)]

GeoNext ==
  \/ \E a \in GeoAsks : drm_intel_gem_bo_alloc_tiled(a)
  \/ \E size \in GeoSizes : drm_intel_gem_bo_alloc(size)
  \/ \E k \in 1..GeoMaxBos : drm_intel_gem_bo_unreference_final(k) \/ drm_intel_gem_cleanup_bo_cache(k)

-----------------------------------------------------------------------------
PowerOfTwo(n) == \E k \in 0..27 : n = 2 ^ k

(* A buffer holds the picture it was made for, whether new or from a cache *)
(* that buffers of other sizes went through: a row in the pitch, all rows  *)
(* of whole tiles in the size.  Tiled, its pitch and size obey the limits  *)
(* of the chip.  At most a quarter beyond a page's worth is wasted.        *)
TiledPictureFits ==
  \A k \in DOMAIN geo.live :
    LET b == geo.live[k]
        c == geo.chip
    IN  /\ b.size >= b.asked
        /\ b.size < 4096 + b.asked + b.asked \div 4
        /\ b.pitch >= b.want.x * b.want.cpp
        /\ b.size >= b.pitch * b.want.y
        /\ b.tiling \in {b.want.tiling, "none"}
        /\ b.tiling # "none" =>
             /\ b.size >= b.pitch * GeoAlign(b.want.y, HeightAlignment(c, b.tiling))
             /\ b.pitch % TileWidth(c, b.tiling) = 0
             /\ c.gen < 4 => b.pitch <= 8192 /\ PowerOfTwo(b.pitch) /\ (~c.relaxed => PowerOfTwo(b.size))

(* A cached buffer has exactly the size of its bucket.                     *)
BucketsAreExact ==
  \A k \in DOMAIN geo.cache : geo.cache[k].size = init_cache_buckets[geo.cache[k].bucket]
=============================================================================
