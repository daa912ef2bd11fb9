----------------------------- MODULE MCDrivers ------------------------------
(* The libraries of the other drivers and libkms, the sizes of the Intel   *)
(* buffers and the list of their managers, one of them at a time.          *)
EXTENDS DriverHandles, FdMsm, FdKgsl, NvPush, RadeonCs, RadeonSurface, Fimg2d, Bof,
        GemGeometry, GemAub

CONSTANTS a1, a2, a3, b1, b2, k1, k2, w1, w2, w3, p1, p2, r1, r2, r3

(* A buffer of one unit and one of two.                                    *)
UnitSize(b) == IF b = b2 THEN 2 ELSE 1

(* r2 is a target ring of r1.                                              *)
Parent(r) == IF r = r2 THEN r1 ELSE r
RingBo(r) == CASE r = r1 -> w1 [] r = r2 -> w2 [] r = r3 -> w3

PushBo(p) == IF p = p1 THEN w1 ELSE w2

(* What the memories have room for.  A submission that is refused leaves   *)
(* less of it, or nothing when it is refused before the kernel has looked. *)
Limits == [vram |-> 1, gart |-> 3]

Agreed == [taken |-> TRUE, left |-> Limits]
Refused(v, g) == [taken |-> FALSE, left |-> [vram |-> v, gart |-> g]]

VramRead == [dom |-> {"VRAM"}, acc |-> {"RD"}]
AnyWrite == [dom |-> {"VRAM", "GART"}, acc |-> {"WR"}]

(* Two push buffers that share a buffer, and one that moves two buffers.   *)
Programs ==
  {[pushes |-> {p1, p2}, bufs |-> {b1}, refs |-> 1, flags |-> {AnyWrite},
    answers |-> {Agreed, Refused(0, 0)}],
   [pushes |-> {p1}, bufs |-> {b1, b2}, refs |-> 1, flags |-> {VramRead, AnyWrite},
    answers |-> {Agreed, Refused(1, 2), Refused(0, 0)}]}

(* Attribute lists of libkms, in and out of order, and incomplete.         *)
AttributeLists ==
  {<< <<"width", w>>, <<"height", h>> >> : w \in {3, 15}, h \in {1, 3}} \cup
  {<< <<"width", w>>, <<"height", 2>>, <<"type", "cursor">> >> : w \in {2, 3}} \cup
  {<< <<"height", 1>>, <<"width", 2>>, <<"type", "other">> >>, << <<"pitch", 1>> >>}

Pt(x, y) == [x |-> x, y |-> y]
Ext(w, h) == [w |-> w, h |-> h]
Img(width, height) == [width |-> width, height |-> height]

(* Copies and blends inside, across and outside of the images.             *)
Calls ==
  {[sat |-> Pt(5, 1), dat |-> Pt(1, 1), sext |-> e, dext |-> Ext(2, 2),
    simg |-> Img(4, 3), dimg |-> Img(4, 3)] : e \in {Ext(3, 2), Ext(7, 1)}} \cup
  {[sat |-> Pt(0, 0), dat |-> Pt(1, 1), sext |-> Ext(2, 2), dext |-> Ext(2, 2),
    simg |-> Img(2, 4), dimg |-> Img(4, 3)],
   [sat |-> Pt(0, 0), dat |-> Pt(3, 1), sext |-> Ext(2, 0), dext |-> Ext(2, 2),
    simg |-> Img(4, 3), dimg |-> Img(4, 3)],
   [sat |-> Pt(0, 0), dat |-> Pt(3, 1), sext |-> Ext(2, 2), dext |-> Ext(2, 2),
    simg |-> Img(4, 3), dimg |-> Img(3, 3)]}

(* Tables of tile modes: two pipes and small macro tiles, or eight pipes   *)
(* and tall ones.                                                          *)
TileModes == {"depth", "depthAA", "scan16", "scan32", "color8", "color16", "color32", "color64",
              "split64", "split128", "split256", "scan", "color", "depth1D", "scan1D", "color1D", "linear"}

Tiles(pipe, wide) ==
  [t \in TileModes |-> [pipe_config |-> pipe, num_banks |-> 1 + wide, aspect |-> wide, bank_w |-> 0, bank_h |-> wide,
                        tile_split |-> IF t \in {"depth", "split64"} THEN 0 ELSE 2, sample_split |-> wide]]

Macros(wide) == [k \in 1..16 |-> [num_banks |-> 1 + wide, aspect |-> wide, bank_w |-> wide, bank_h |-> 0]]

Card(gen, code, recent, tiles, macros) ==
  [gen |-> gen, rv770 |-> gen # "r6", recent |-> recent, pipes |-> code, banks |-> code, group |-> code % 2, row |-> code,
   tiles |-> tiles, macros |-> macros]

Cards ==
  {Card(gen, code, TRUE, Tiles(4 * code, code), Macros(code)) : gen \in {"r6", "eg", "si", "cik"}, code \in {0, 1}} \cup
  {Card(gen, 1, FALSE, Tiles(0, 0), Macros(0)) : gen \in {"r6", "eg", "si"}} \cup
  {Card("eg", 5, TRUE, Tiles(0, 0), Macros(0))}

Plain == [npix_x |-> 40, npix_y |-> 36, npix_z |-> 1, blk_w |-> 1, blk_h |-> 1, blk_d |-> 1, array_size |-> 1,
          last_level |-> 0, bpe |-> 4, nsamples |-> 1, type |-> "2D", mode |-> "2D", flags |-> {"index"},
          bankw |-> 0, bankh |-> 0, mtilea |-> 0, tile_split |-> 0, stencil_tile_split |-> 0]

Asks ==
  {[Plain EXCEPT !.npix_x = x, !.last_level = l, !.bpe = b, !.nsamples = n, !.mode = m, !.flags = f] :
     x \in {20, 150}, l \in {0, 2}, b \in {1, 4}, n \in {1, 2}, m \in {"linear", "linear aligned", "1D", "2D"},
     f \in {{"index"}, {}, {"z", "s", "index"}, {"z", "s"}, {"scanout", "index"}}} \cup
  {[Plain EXCEPT !.npix_x = 70, !.npix_y = 80, !.npix_z = z, !.type = t, !.array_size = 3, !.last_level = 3, !.mode = m] :
     z \in {1, 3}, t \in {"1D", "2D", "3D", "cubemap", "2D array"}, m \in {"1D", "2D"}} \cup
  {[Plain EXCEPT !.npix_x = x, !.blk_w = 4, !.blk_h = 4, !.bpe = 16, !.last_level = l, !.mode = m,
                 !.flags = f, !.tile_split = 1024, !.bankw = 1, !.bankh = 2, !.mtilea = 1] :
     x \in {300, 600, 2000}, l \in {0, 4, 15}, m \in {"linear aligned", "2D"}, f \in {{"index"}, {"s", "index"}, {"fmask"}}} \cup
  {[Plain EXCEPT !.nsamples = n, !.npix_z = z] : n \in {3, 8}, z \in {0, 1}}

Leaves == {[type |-> "int32", len |-> 4], [type |-> "blob", len |-> 0]}

(* A buffer of three words among smaller ones, with annotations that go    *)
(* beyond its end and back.                                                *)
Words(b) == IF b = a2 THEN 3 ELSE 1

Note(type, end) == [type |-> type, ending_offset |-> end]

Notes(b) == IF b = a2 THEN {<< >>, <<Note("state", 1), Note("surface", 9), Note("state", 2)>>} ELSE {}

(* Chips of all generations, and pictures narrow, wide and beyond limits.  *)
Chips ==
  {[gen |-> 2, is_915 |-> FALSE, relaxed |-> FALSE], [gen |-> 3, is_915 |-> TRUE, relaxed |-> FALSE],
   [gen |-> 3, is_915 |-> FALSE, relaxed |-> TRUE], [gen |-> 4, is_915 |-> FALSE, relaxed |-> FALSE]}

Pictures ==
  {[x |-> x, y |-> y, cpp |-> cpp, tiling |-> tiling] :
     x \in {33, 1500, 2049}, y \in {1, 17, 9000}, cpp \in {1, 4}, tiling \in {"none", "x", "y"}}

StreamLibraries ==
  {"msm", "kgsl", "push", "stream", "section", "fimg2d", "surface", "bof", "geometry", "aub"}

Init ==
  /\ driver \in HandleLibraries \cup StreamLibraries
  /\ LibrariesInit
  /\ MsmInit /\ KgslInit /\ NvpInit /\ RadInit /\ SecInit /\ G2dInit /\ SrfInit /\ BofInit /\ GeoInit /\ AubInit
  /\ driver # "push" => nvp.use = CHOOSE use \in Programs : TRUE
  /\ driver # "stream" => rcs.others = {}
  /\ driver # "geometry" => geo.chip = CHOOSE c \in GeoChips : TRUE
  /\ driver # "kms" => kms.dev = CHOOSE dev \in KmsDevices : TRUE

Streams == <<msm, kg, nvp, rcs, sec, g2d, srf, bof, geo, aub>>

StreamsNext ==
  /\ UNCHANGED <<driver, handleVars>>
  /\ \/ driver = "msm" /\ MsmNext /\ UNCHANGED <<kg, nvp, rcs, sec, g2d, srf, bof, geo, aub>>
     \/ driver = "kgsl" /\ KgslNext /\ UNCHANGED <<msm, nvp, rcs, sec, g2d, srf, bof, geo, aub>>
     \/ driver = "push" /\ NvpNext /\ UNCHANGED <<msm, kg, rcs, sec, g2d, srf, bof, geo, aub>>
     \/ driver = "stream" /\ RadNext /\ UNCHANGED <<msm, kg, nvp, sec, g2d, srf, bof, geo, aub>>
     \/ driver = "section" /\ SecNext /\ UNCHANGED <<msm, kg, nvp, rcs, g2d, srf, bof, geo, aub>>
     \/ driver = "fimg2d" /\ G2dNext /\ UNCHANGED <<msm, kg, nvp, rcs, sec, srf, bof, geo, aub>>
     \/ driver = "surface" /\ SrfNext /\ UNCHANGED <<msm, kg, nvp, rcs, sec, g2d, bof, geo, aub>>
     \/ driver = "bof" /\ BofNext /\ UNCHANGED <<msm, kg, nvp, rcs, sec, g2d, srf, geo, aub>>
     \/ driver = "geometry" /\ GeoNext /\ UNCHANGED <<msm, kg, nvp, rcs, sec, g2d, srf, bof, aub>>
     \/ driver = "aub" /\ AubNext /\ UNCHANGED <<msm, kg, nvp, rcs, sec, g2d, srf, bof, geo>>

Next ==
  \/ HandlesNext /\ UNCHANGED Streams
  \/ StreamsNext

-----------------------------------------------------------------------------
(* What a stream refers to is in its lists, at the place its words say,    *)
(* and kept until the device is done with it; the trace of an Intel batch  *)
(* can be replayed, and the parts of a radeon dump are kept as long as it. *)
SubmissionsHold ==
  CASE driver = "stream" -> StreamsHoldTheirBuffers
    [] driver = "msm" -> MsmIndicesAreRight
    [] driver = "push" -> ContextIsListed /\ WaitIsOver
    [] driver = "kgsl" -> KgslRetains
    [] driver = "aub" -> AubReplays
    [] driver = "bof" -> BofCounted
    [] OTHER -> TRUE

(* Nothing is written beyond what was allocated, and no limit of the       *)
(* kernel is exceeded: streams, push buffers, pictures, copied areas, the  *)
(* levels of surfaces and tiled buffers; and no radeon dump is read back   *)
(* but as it was written (what the reader's error path does is left open). *)
EverythingFits ==
  CASE driver = "section" -> StreamFits
    [] driver = "push" -> PushFits
    [] driver = "kms" -> PictureFits
    [] driver = "fimg2d" -> AreasInside /\ ListsAreWhole
    [] driver = "surface" -> LevelsAreApart /\ BestIsAccepted
    [] driver = "bof" -> BofRoundTrip
    [] driver = "geometry" -> TiledPictureFits /\ BucketsAreExact
    [] OTHER -> TRUE

(* The totals of the radeon streams (see RadeonCs).                        *)
SpaceSuffices == driver = "stream" => SpaceIsConservative
=============================================================================
