------------------------------ MODULE DrmHash -------------------------------
(* xf86drmHash.c: a fixed number of buckets, each a singly linked list     *)
(* that every successful search reorganises, and one iterator inside the   *)
(* table.  The statistics (hits, partials, misses, entries) are left out.  *)
EXTENDS DrmLists, SequencesExt, FiniteSets

CONSTANTS HASH_SIZE, HashKeys, HashValues, HashNull

ASSUME HashAssumption ==
  HASH_SIZE \in Nat \ {0, 1} /\ HashKeys \subseteq Nat /\ HashNull \notin HashKeys

VARIABLES
  live,     \* the table exists
  buckets,  \* buckets[h] : the keys of bucket h, in list order
  vals,     \* the value of every key in the table
  p0, p1,   \* iterator: next bucket, and next entry or HashNull
  hans,     \* what the last call delivered
  seen,     \* history: how often the running iteration delivered each key
  quiet     \* history: nothing was inserted or reorganised since drmHashFirst

hashVars == <<live, buckets, vals, p0, p1, hans, seen, quiet>>

R == INSTANCE DrmRandom WITH Seeds <- {37}, seed <- 0, start <- 37, draws <- 0
M == INSTANCE KeyMap WITH Keys <- HashKeys, Values <- HashValues,
                          Nothing <- HashNull, Gives <- "value",
                          map <- vals, answer <- hans

(* 256 random numbers, drawn by the first search of the process.           *)
Scatter(i) == R!Drawn(37, i + 1)

(* The bytes of the key, lowest first, scattered.  The shift and the sum   *)
(* wrap in unsigned long, which HASH_SIZE divides.                         *)
HashHash(key) ==
  LET hash[tmp \in Nat, h \in Nat] ==
        IF tmp = 0 THEN h
        ELSE hash[tmp \div 256, (2 * h + (Scatter(tmp % 256) % HASH_SIZE)) % HASH_SIZE]
  IN  hash[key, 0]

HashOf == [k \in HashKeys |-> HashHash(k)]

(* hash %= HASH_SIZE: the index is inside the table.                       *)
ASSUME HashRange == HashOf \in [HashKeys -> 0..(HASH_SIZE - 1)]

NeverSeen == [k \in HashKeys |-> 0]

(* The history of an iteration that is no longer quiet is dropped.         *)
Disturbed(changed) ==
  /\ quiet' = (quiet /\ ~changed)
  /\ seen' = IF quiet' THEN seen ELSE NeverSeen

HashInit ==
  /\ live = FALSE
  /\ buckets = [h \in 0..(HASH_SIZE - 1) |-> <<>>]
  /\ vals = [k \in {} |-> HashNull]
  /\ p0 = HASH_SIZE /\ p1 = HashNull
  /\ hans = M!NoAnswer
  /\ seen = NeverSeen
  /\ quiet = TRUE

drmHashCreate ==
  /\ ~live
  /\ live' = TRUE
  /\ UNCHANGED <<buckets, vals, p0, p1, hans, seen, quiet>>

(* Frees the entries of every bucket, then the table.                      *)
drmHashDestroy ==
  /\ live
  /\ live' = FALSE
  /\ buckets' = [h \in DOMAIN buckets |-> <<>>]
  /\ vals' = [k \in {} |-> HashNull]
  /\ p0' = HASH_SIZE /\ p1' = HashNull
  /\ hans' = M!NoAnswer
  /\ seen' = NeverSeen
  /\ quiet' = TRUE

MoveToFront(list, k) == <<k>> \o RemoveItem(list, k)

(* The list of the key's bucket after a search for it.                     *)
Searched(k) ==
  LET list == buckets[HashOf[k]]
  IN  IF k \in Items(list) THEN MoveToFront(list, k) ELSE list

\* mutation of HashFind: only the first entry of the bucket is compared
HashFindFirst(k) == buckets[HashOf[k]] # <<>> /\ Head(buckets[HashOf[k]]) = k

(* HashFind: whether the key is there.  Its bucket becomes Searched(k).    *)
HashFind(k) == k \in Items(buckets[HashOf[k]])

drmHashLookup(k) ==
  /\ live
  /\ buckets' = [buckets EXCEPT ![HashOf[k]] = Searched(k)]
  /\ hans' = IF HashFind(k) THEN M!Answer("lookup", k, "found", vals[k])
             ELSE M!Answer("lookup", k, "absent", HashNull)
  /\ Disturbed(Searched(k) # buckets[HashOf[k]])
  /\ UNCHANGED <<live, vals, p0, p1>>

(* memory: whether HASH_ALLOC succeeds.                                    *)
drmHashInsert(k, v, memory) ==
  /\ live
  /\ IF HashFind(k) \/ ~memory
     THEN /\ buckets' = [buckets EXCEPT ![HashOf[k]] = Searched(k)]
          /\ hans' = M!Answer("insert", k,
                              IF HashFind(k) THEN "present" ELSE "no memory", HashNull)
          /\ Disturbed(Searched(k) # buckets[HashOf[k]])
          /\ UNCHANGED vals
     ELSE /\ buckets' = [buckets EXCEPT ![HashOf[k]] = <<k>> \o @]
          /\ vals' = M!Added(vals, k, v)
          /\ hans' = M!Answer("insert", k, "added", HashNull)
          /\ Disturbed(TRUE)
  /\ UNCHANGED <<live, p0, p1>>

(* drmHashDelete drops the head of the bucket, where HashFind has put the  *)
(* entry.                                                                  *)
Unlinked(k) == Tail(Searched(k))

(* The iterator keeps a pointer to the entry it will deliver next, so the  *)
(* caller must not delete that one; the entry just delivered is fine.      *)
drmHashDelete(k) ==
  /\ live
  /\ k # p1
  /\ IF HashFind(k)
     THEN /\ buckets' = [buckets EXCEPT ![HashOf[k]] = Unlinked(k)]
          /\ vals' = M!Without(vals, k)
          /\ hans' = M!Answer("delete", k, "deleted", HashNull)
     ELSE /\ hans' = M!Answer("delete", k, "absent", HashNull)
          /\ UNCHANGED <<buckets, vals>>
  /\ UNCHANGED <<live, p0, p1, seen, quiet>>

First(list) == IF list = <<>> THEN HashNull ELSE Head(list)

NextOf(k) ==
  LET list == buckets[HashOf[k]]
      at == CHOOSE i \in DOMAIN list : list[i] = k
  IN  IF at = Len(list) THEN HashNull ELSE list[at + 1]

(* The bucket in which a search from bucket b to bucket e ends: the first  *)
(* that has entries, or e.                                                 *)
NextFilled(b, e) == Min({i \in b..e : buckets[i] # <<>> \/ i = e})

\* mutation of Advance: the loop ends a bucket early
AdvanceShort(b, e) ==
  IF b >= HASH_SIZE - 1 \/ e # HashNull
  THEN [p0 |-> IF b >= HASH_SIZE - 1 THEN HASH_SIZE ELSE b, p1 |-> e]
  ELSE LET n == NextFilled(b, HASH_SIZE - 2)
       IN  [p0 |-> IF n = HASH_SIZE - 2 THEN HASH_SIZE ELSE n + 1, p1 |-> First(buckets[n])]

(* The loop of drmHashNext from bucket b and entry e: the state in which   *)
(* it stops.  With p0 at HASH_SIZE it stops before it looks at the entry.  *)
Advance(b, e) ==
  IF b = HASH_SIZE \/ e # HashNull THEN [p0 |-> b, p1 |-> e]
  ELSE LET n == NextFilled(b, HASH_SIZE - 1)
       IN  [p0 |-> n + 1, p1 |-> First(buckets[n])]

Deliver(at, counts) ==
  /\ p0' = at.p0
  /\ IF at.p0 = HASH_SIZE
     THEN /\ p1' = at.p1
          /\ hans' = M!NoAnswer
          /\ seen' = counts
     ELSE /\ p1' = NextOf(at.p1)
          /\ hans' = M!Answer("next", at.p1, "entry", vals[at.p1])
          /\ seen' = IF quiet' THEN [counts EXCEPT ![at.p1] = @ + 1] ELSE counts

drmHashFirst ==
  /\ live
  /\ quiet' = TRUE
  /\ Deliver(Advance(0, First(buckets[0])), NeverSeen)
  /\ UNCHANGED <<live, buckets, vals>>

(* Called again while the iteration has more to look at.                   *)
drmHashNext ==
  /\ live
  /\ p0 < HASH_SIZE
  /\ UNCHANGED <<live, buckets, vals, quiet>>
  /\ Deliver(Advance(p0, p1), seen)

HashNext ==
  \/ drmHashCreate
  \/ drmHashDestroy
  \/ \E k \in HashKeys : drmHashLookup(k)
  \/ \E k \in HashKeys, v \in HashValues, memory \in BOOLEAN : drmHashInsert(k, v, memory)
  \/ \E k \in HashKeys : drmHashDelete(k)
  \/ drmHashFirst
  \/ drmHashNext

HashSpec == HashInit /\ [][HashNext]_hashVars

(* The self-organising table implements the map: every answer of a lookup, *)
(* insertion or deletion is the one the map gives.                         *)
HashImplementsMap == M!MapSpec

(* What one undisturbed iteration delivers, the caller deleting entries as *)
(* it gets them or not: every entry still present once, except that        *)
(* drmHashFirst makes drmHashNext go through bucket 0 twice, and that the  *)
(* loop stops when it has loaded the last bucket without looking at it.    *)
TimesDelivered(k) ==
  CASE HashOf[k] = HASH_SIZE - 1 -> 0
    [] HashOf[k] = 0 -> 2
    [] OTHER -> 1

IterationIsExact ==
  p0 = HASH_SIZE /\ hans = M!NoAnswer /\ quiet =>
    \A k \in DOMAIN vals : seen[k] = TimesDelivered(k)
=============================================================================
