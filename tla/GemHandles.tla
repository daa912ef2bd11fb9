----------------------------- MODULE GemHandles -----------------------------
(* The part of the kernel that the drivers' buffer objects rest on         *)
(* (external): the GEM handles of one open device file.  A handle is a     *)
(* number, the lowest free one, and refers to an object; closed handles    *)
(* are given out again.  An object lives as long as a handle, in this      *)
(* process or another, refers to it.  Flink names and dma-buf descriptors  *)
(* stand for the object itself.                                            *)
EXTENDS Integers, FiniteSets

NoHandle == 0

(* open: the object of every open handle; prime: the handles that          *)
(* PRIME_FD_TO_HANDLE finds again; shared: objects that other processes    *)
(* know by name or descriptor; born: the objects created so far.           *)
Kernel(foreign) ==
  [open |-> [h \in {} |-> foreign], prime |-> {}, shared |-> foreign, born |-> foreign]

Bind(f, x, y) == [z \in DOMAIN f \cup {x} |-> IF z = x THEN y ELSE f[z]]

Unbind(f, x) == [z \in DOMAIN f \ {x} |-> f[z]]

FreeHandle(k) ==
  CHOOSE h \in 1..(Cardinality(DOMAIN k.open) + 1) :
    /\ h \notin DOMAIN k.open
    /\ \A g \in 1..(h - 1) : g \in DOMAIN k.open

HandlesOf(k, o) == {h \in DOMAIN k.open : k.open[h] = o}

(* GEM_OPEN gives a new handle at every call.                              *)
GemOpen(k, o) ==
  LET h == FreeHandle(k)
  IN  [k |-> [k EXCEPT !.open = Bind(@, h, o)], handle |-> h]

(* The drivers' own ioctls that create an object.                          *)
GemCreate(k, o) ==
  LET r == GemOpen(k, o)
  IN  [r EXCEPT !.k.born = @ \cup {o}]

(* PRIME_FD_TO_HANDLE gives the handle that the object was exported or     *)
(* imported under before, if it is still open.                             *)
PrimeOpen(k, o) ==
  LET known == HandlesOf(k, o) \cap k.prime
      r == GemOpen(k, o)
  IN  IF known # {} THEN [k |-> k, handle |-> CHOOSE h \in known : TRUE]
      ELSE [r EXCEPT !.k.prime = @ \cup {r.handle}]

GemFlink(k, h) == [k EXCEPT !.shared = @ \cup {k.open[h]}]

PrimeExport(k, h) ==
  [k EXCEPT !.shared = @ \cup {k.open[h]}, !.prime = @ \cup {h}]

GemClose(k, h) == [k EXCEPT !.open = Unbind(@, h), !.prime = @ \ {h}]
=============================================================================
