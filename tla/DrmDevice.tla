----------------------------- MODULE DrmDevice ------------------------------
(***************************************************************************)
(* Opening and closing device files (xf86drm.c): the search for a device   *)
(* by bus id or by driver name, the table of connections that drmOpenOnce  *)
(* shares between callers, and the tags that a process keeps with the      *)
(* contexts of a device; apart from these, the calls that wait.            *)
(***************************************************************************)
EXTENDS Integers, FiniteSets, Sequences

CONSTANTS
  DRM_MAX_MINOR,  \* minors are 0 .. DRM_MAX_MINOR - 1
  DRM_MAX_FDS,    \* connections that drmOpenOnce remembers; 16 in the code
  DvFds,          \* bound: descriptors the process may have open
  DvMachines,     \* machines: [bus, driver, ver], functions on the minors
  DvContexts,     \* contexts
  DvMaxRefs       \* bound: outstanding drmOpenOnce of a descriptor

ASSUME DeviceAssumption ==
  /\ DvFds \subseteq Nat
  /\ \A hw \in DvMachines : DOMAIN hw.bus \subseteq Nat

VARIABLE dv
  (* hw: the machine; bus[m] = [dom, slot] is a device's bus id, ver[m]    *)
  (* the interface version it lets this process set, "1.4", "1.1" or       *)
  (* "none"; a minor outside DOMAIN bus cannot be opened.                  *)
  (* fds: the device of every open descriptor; claimed: devices that have  *)
  (* been told their bus id; conn: connection[]; held: drmOpenOnce calls   *)
  (* not yet undone, per descriptor; ent: the tag tables in drmHashTable.  *)

DvInit ==
  dv \in {[hw |-> hw, fds |-> << >>, claimed |-> {}, conn |-> << >>, held |-> << >>, ent |-> << >>] :
            hw \in DvMachines}

DvWith(f, x, y) == [z \in DOMAIN f \cup {x} |-> IF z = x THEN y ELSE f[z]]
DvDrop(f, x) == [z \in DOMAIN f \ {x} |-> f[z]]

Minors == 0..(DRM_MAX_MINOR - 1)
Present(d) == DOMAIN d.hw.bus

FreeFds(d) == DvFds \ DOMAIN d.fds
NextFd(d) == CHOOSE f \in FreeFds(d) : \A g \in FreeFds(d) : f <= g

(* Devices with an open descriptor.                                        *)
Opened(d) == {d.fds[f] : f \in DOMAIN d.fds}

-----------------------------------------------------------------------------
(* pci_domain_ok is cleared by the first minor that refuses version 1.4    *)
(* and stays cleared for the minors after it.                              *)
DomainIgnored(d, m) == \E n \in Present(d) : n <= m /\ d.hw.ver[n] # "1.4"

(* drmMatchBusID                                                           *)
MatchBusid(a, b, domainOk) == a = b \/ (~domainOk /\ a.slot = b.slot)

(* Setting a version makes the kernel give the device its bus id           *)
(* (external); without one drmGetBusid reports an empty string.            *)
HasBusid(d, m) == d.hw.ver[m] # "none" \/ m \in d.claimed

Candidates(d, bus) ==
  {m \in Present(d) : HasBusid(d, m) /\ MatchBusid(d.hw.bus[m], bus, ~DomainIgnored(d, m))}

LowestOf(s) == CHOOSE m \in s : \A n \in s : m <= n

(* drmOpenByBusid probes the minors in turn and keeps the first that       *)
(* matches; a device it only probed keeps the bus id if it is open         *)
(* elsewhere.                                                              *)
OpenByBusid(d, bus) ==
  LET found == Candidates(d, bus)
      probed == {m \in Present(d) : (found # {} => m <= LowestOf(found)) /\ d.hw.ver[m] # "none"}
      told == [d EXCEPT !.claimed = @ \cup (probed \cap Opened(d))]
      f == NextFd(d)
  IN  IF found = {} THEN [fd |-> -1, d |-> told]
      ELSE [fd |-> f, d |-> [told EXCEPT !.fds = DvWith(@, f, LowestOf(found)),
                               !.claimed = @ \cup (probed \cap {LowestOf(found)})]]

(* drmOpenByName keeps the first device of that driver without a bus id,   *)
(* for one that has it is in use.  (The search of /proc is not modelled.)  *)
OpenByName(d, name) ==
  LET found == {m \in Present(d) : d.hw.driver[m] = name /\ m \notin d.claimed}
      f == NextFd(d)
  IN  IF found = {} THEN [fd |-> -1, d |-> d]
      ELSE [fd |-> f, d |-> [d EXCEPT !.fds = DvWith(@, f, LowestOf(found))]]

(* drmOpen falls back on the name, if there is one.                        *)
Open(d, name, bus) ==
  LET r == OpenByBusid(d, bus)
  IN  IF r.fd >= 0 \/ name = "" THEN r ELSE OpenByName(r.d, name)

(* close(2): the last descriptor of a device takes its bus id along        *)
(* (external).                                                             *)
CloseFd(d, f) ==
  LET e == [d EXCEPT !.fds = DvDrop(@, f)]
  IN  [e EXCEPT !.claimed = @ \cap Opened(e)]

(* drmClose destroys the tag table of the device, which is found by        *)
(* st_rdev: all descriptors of a device share it.                          *)
Closed(d, f) == CloseFd([d EXCEPT !.ent = DvDrop(@, d.fds[f])], f)

-----------------------------------------------------------------------------
drmOpen(name, bus) ==
  /\ FreeFds(dv) # {}
  /\ dv' = Open(dv, name, bus).d

(* A descriptor that drmOpenOnce does not remember is closed by drmClose.  *)
drmClose(f) ==
  /\ f \in DOMAIN dv.fds
  /\ \A i \in DOMAIN dv.conn : dv.conn[i].fd # f
  /\ dv' = [Closed(dv, f) EXCEPT !.held = DvDrop(@, f)]

Known(bus) == {i \in DOMAIN dv.conn : dv.conn[i].bus = bus}

Holders(f) == IF f \in DOMAIN dv.held THEN dv.held[f] ELSE 0

(* A bus id seen before shares its descriptor.  A new one is remembered    *)
(* unless the table is full, or the descriptor is 0, which is taken for an *)
(* error.                                                                  *)
drmOpenOnce(name, bus) ==
  \/ \E i \in Known(bus) :
       LET f == dv.conn[i].fd
       IN  /\ Holders(f) < DvMaxRefs
           /\ dv' = [dv EXCEPT !.conn[i].refcount = @ + 1, !.held = DvWith(@, f, Holders(f) + 1)]
  \/ /\ Known(bus) = {}
     /\ FreeFds(dv) # {}
     /\ LET r == Open(dv, name, bus)
            new == [bus |-> bus, fd |-> r.fd, refcount |-> 1, named |-> r.fd # OpenByBusid(dv, bus).fd]
        IN  dv' = IF r.fd <= 0 \/ Len(dv.conn) = DRM_MAX_FDS THEN r.d
                  ELSE [r.d EXCEPT !.conn = Append(@, new), !.held = DvWith(@, r.fd, 1)]

MovedNever(s, i) == SubSeq(s, 1, Len(s) - 1)   \* mutation: the last entry is not moved

(* if (i < --nr_fds) connection[i] = connection[nr_fds]                    *)
MovedDown(s, i) ==
  [j \in 1..(Len(s) - 1) |-> IF j = i THEN s[Len(s)] ELSE s[j]]

(* drmCloseOnce of a descriptor it does not know does nothing.             *)
drmCloseOnce(f) ==
  /\ f \in DOMAIN dv.held
  /\ \E i \in DOMAIN dv.conn :
       /\ dv.conn[i].fd = f
       /\ dv' = IF dv.conn[i].refcount > 1
                THEN [dv EXCEPT !.conn[i].refcount = @ - 1, !.held = DvWith(@, f, Holders(f) - 1)]
                ELSE [Closed(dv, f) EXCEPT !.conn = MovedDown(@, i), !.held = DvDrop(@, f)]

(* drmAddContextTag and drmDelContextTag; drmGetEntry makes the table.     *)
Tags(m) == IF m \in DOMAIN dv.ent THEN dv.ent[m] ELSE {}

drmAddContextTag(f, ctx) ==
  /\ f \in DOMAIN dv.fds
  /\ dv' = [dv EXCEPT !.ent = DvWith(@, dv.fds[f], Tags(dv.fds[f]) \cup {ctx})]

drmDelContextTag(f, ctx) ==
  /\ f \in DOMAIN dv.fds
  /\ dv' = [dv EXCEPT !.ent = DvWith(@, dv.fds[f], Tags(dv.fds[f]) \ {ctx})]

DvNext ==
  \/ \E bus \in UNION {{hw.bus[m] : m \in DOMAIN hw.bus} : hw \in DvMachines},
        name \in {""} \cup UNION {{hw.driver[m] : m \in DOMAIN hw.bus} : hw \in DvMachines} :
       drmOpen(name, bus) \/ drmOpenOnce(name, bus)
  \/ \E f \in DvFds : drmClose(f) \/ drmCloseOnce(f)
  \/ \E f \in DvFds, ctx \in DvContexts : drmAddContextTag(f, ctx) \/ drmDelContextTag(f, ctx)

DvSpec == DvInit /\ [][DvNext]_dv

-----------------------------------------------------------------------------
(* A connection counts exactly its holders, its descriptor is open and no  *)
(* other entry has it or its bus id, while entries are moved down as       *)
(* others are closed; and the device it stands for is the one asked for,   *)
(* unless some device refused version 1.4 or the name was fallen back on.  *)
ConnectionsExact ==
  \A i \in DOMAIN dv.conn :
    LET x == dv.conn[i]
    IN  /\ x.fd \in DOMAIN dv.fds
        /\ x.refcount = Holders(x.fd)
        /\ \A j \in DOMAIN dv.conn \ {i} : dv.conn[j].fd # x.fd /\ dv.conn[j].bus # x.bus
        /\ (~x.named /\ \A m \in Present(dv) : dv.hw.ver[m] = "1.4")
             => dv.hw.bus[dv.fds[x.fd]] = x.bus

(* A tag table never outlives the last descriptor of its device, so a      *)
(* device that is opened again starts without tags.                        *)
NoStaleTags == DOMAIN dv.ent \subseteq Opened(dv)

(* The shared connections and the tags stay true to the devices that are   *)
(* open, and every holder that drmOpenOnce remembers has an entry.         *)
DevicesSound ==
  /\ ConnectionsExact
  /\ NoStaleTags
  /\ \A f \in DOMAIN dv.held : \E i \in DOMAIN dv.conn : dv.conn[i].fd = f

-----------------------------------------------------------------------------
(* The calls of xf86drm.c that repeat an ioctl: drmWaitVBlank goes on      *)
(* after a signal until a second or so has passed, drmDMA tries again a    *)
(* number of times while the kernel is busy, and drmGetLock, like drmIoctl *)
(* after EINTR and EAGAIN, repeats without end.                            *)
CONSTANTS
  WTicks,         \* clock ticks in a second
  WMaxTime,       \* bound: the clock
  WMaxFrames,     \* bound: frames to wait for
  DRM_DMA_RETRY   \* 16 in the code

ASSUME WaitAssumption == WTicks \in Nat \ {0} /\ WMaxFrames \in Nat

VARIABLE wait
  (* now: the monotonic clock; frame: the vblank counter; call: the call   *)
  (* in progress, with where it is, when it began, vbl->request, the frame *)
  (* the first ioctl meant (goal) and drmDMA's counter i; res: how the     *)
  (* last ioctl ended, how long after the call began (since), and whether  *)
  (* in the clock's second after the one of the deadline (late).           *)

NoCall == [pc |-> "idle", start |-> 0, relative |-> FALSE, sequence |-> 0, goal |-> -1, i |-> 0]

WaitInit == wait = [now |-> 0, frame |-> 0, call |-> NoCall,
                    res |-> [what |-> "none", since |-> 0, late |-> FALSE]]

(* Time passes, and the display starts a frame or not.                     *)
Tick ==
  /\ wait.now < WMaxTime
  /\ \E df \in 0..1 : wait' = [wait EXCEPT !.now = @ + 1, !.frame = @ + df]

Sec(t) == t \div WTicks
Nsec(t) == t % WTicks

drmWaitVBlank(rel, n) ==
  /\ wait.call.pc = "idle"
  /\ wait' = [wait EXCEPT !.call = [NoCall EXCEPT !.pc = "vblank", !.start = wait.now,
                                      !.relative = rel, !.sequence = n]]

(* The ioctl begins; the kernel counts a relative request from now and     *)
(* writes the sum back (external).                                         *)
VBlankBegin ==
  /\ wait.call.pc = "vblank"
  /\ LET target == wait.call.sequence + (IF wait.call.relative THEN wait.frame ELSE 0)
     IN  wait' = [wait EXCEPT !.call.pc = "blocked", !.call.sequence = target,
                    !.call.goal = IF @ = -1 THEN target ELSE @]

(* mutation of Repeated: the request stays relative                        *)
RepeatedRelative(call) == [call EXCEPT !.pc = "vblank"]

(* vbl->request.type &= ~DRM_VBLANK_RELATIVE, and once more                *)
Repeated(call) == [call EXCEPT !.pc = "vblank", !.relative = FALSE]

(* The test after a signal; timeout is a second after the start.  From the *)
(* next full second on it is false again for a second.                     *)
TimedOut(begun, now) ==
  LET timeout == begun + WTicks
  IN  \/ Sec(now) > Sec(timeout) + 1
      \/ Sec(now) = Sec(timeout) /\ Nsec(now) >= Nsec(timeout)

Ended(w, what) == [what |-> what, since |-> w.now - w.call.start,
                   late |-> Sec(w.now) = Sec(w.call.start + WTicks) + 1]

(* The ioctl ends at the frame, or a signal ends it.                       *)
VBlankDone ==
  /\ wait.call.pc = "blocked"
  /\ wait.frame >= wait.call.sequence
  /\ wait' = [wait EXCEPT !.call = NoCall, !.res = Ended(wait, "frame")]

VBlankSignal ==
  /\ wait.call.pc = "blocked"
  /\ wait.frame < wait.call.sequence
  /\ wait' = IF TimedOut(wait.call.start, wait.now)
             THEN [wait EXCEPT !.call = NoCall, !.res = Ended(wait, "EBUSY")]
             ELSE [wait EXCEPT !.call = Repeated(@), !.res = Ended(wait, "repeated")]

drmDMA ==
  /\ wait.call.pc = "idle"
  /\ wait' = [wait EXCEPT !.call = [NoCall EXCEPT !.pc = "dma"]]

(* while (ret && errno == EAGAIN && i++ < DRM_DMA_RETRY)                   *)
DmaAttempt ==
  /\ wait.call.pc = "dma"
  /\ \/ wait' = [wait EXCEPT !.call = NoCall, !.res = Ended(wait, "dma")]
     \/ wait' = IF wait.call.i < DRM_DMA_RETRY THEN [wait EXCEPT !.call.i = @ + 1]
                ELSE [wait EXCEPT !.call = NoCall, !.res = Ended(wait, "EAGAIN")]

WaitNext ==
  \/ Tick
  \/ \E rel \in BOOLEAN, n \in 0..WMaxFrames : drmWaitVBlank(rel, n)
  \/ VBlankBegin
  \/ VBlankDone
  \/ VBlankSignal
  \/ drmDMA
  \/ DmaAttempt

WaitSpec == WaitInit /\ [][WaitNext]_wait

(* However many signals interrupt it, drmWaitVBlank reports EBUSY only     *)
(* after a second; it repeats the ioctl within that second and, because    *)
(* seconds and nanoseconds are tested apart, in the clock's second after   *)
(* the one of the deadline, which is within three seconds, and never       *)
(* otherwise; and a relative wait ends at the frame counted from its first *)
(* ioctl, not from the last.                                               *)
WaitsAreBounded ==
  /\ wait.res.what = "EBUSY" => wait.res.since >= WTicks /\ ~wait.res.late
  /\ wait.res.what = "repeated" =>
       wait.res.since < WTicks \/ (wait.res.late /\ wait.res.since < 3 * WTicks)
  /\ wait.call.pc = "blocked" => wait.call.sequence = wait.call.goal

(* "Timeout after 1s" (xf86drm.c:1957): a signal later than that ends the  *)
(* wait.                                                                   *)
TimesOutAfterASecond == wait.res.what = "repeated" => wait.res.since < WTicks
=============================================================================
