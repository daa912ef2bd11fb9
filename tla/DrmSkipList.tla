---------------------------- MODULE DrmSkipList -----------------------------
(* xf86drmSL.c: a skip list with forward pointers per level, a head entry  *)
(* and one iterator inside the list.  Keys name entries.  The list of the  *)
(* code has SL_MAX_LEVEL = 16; levels are random, so every height from 1   *)
(* is possible.  Memory may run out; an entry is used without a look at it *)
(* and the program ends.  drmSLLookupNeighbors, which reads an array that  *)
(* it never fills, and the debugging dump change nothing and are left out. *)
EXTENDS Integers, FiniteSets

CONSTANTS SL_MAX_LEVEL, SLKeys, SLValues, SLNull

ASSUME SkipListAssumption == SL_MAX_LEVEL \in Nat \ {0} /\ SLKeys \subseteq Nat

VARIABLES
  sllive,  \* the list exists: "no", "yes", or "crashed"
  fwd,     \* fwd[e][i] : forward[i] of entry e, or SLNull
  level,   \* SkipList.level
  count,   \* SkipList.count
  slvals,  \* SLEntry.value of every entry
  spos,    \* SkipList.p0
  sans     \* what the last call delivered

slVars == <<sllive, fwd, level, count, slvals, spos, sans>>

SLHead == -1
Unset == -2   \* spos before the first drmSLFirst, which the code leaves unset
Entries == DOMAIN fwd
Levels == 0..SL_MAX_LEVEL
NoForward == [i \in Levels |-> SLNull]

(* drmSLLookup stores the entry, not its value, through its argument.      *)
SLMap == INSTANCE KeyMap WITH Keys <- SLKeys, Values <- SLValues,
                              Nothing <- SLNull, Gives <- "entry",
                              map <- slvals, answer <- sans

HeadAlone == [e \in {SLHead} |-> NoForward]

SLInit ==
  /\ sllive = "no"
  /\ fwd = HeadAlone
  /\ level = 0 /\ count = 0
  /\ slvals = [k \in {} |-> SLNull]
  /\ spos = Unset
  /\ sans = SLMap!NoAnswer

(* Without memory for the head the list crashes as it is made.             *)
drmSLCreate ==
  /\ sllive = "no"
  /\ sllive' \in {"yes", "crashed"}
  /\ fwd' = HeadAlone
  /\ level' = 0 /\ count' = 0
  /\ spos' = Unset
  /\ UNCHANGED <<slvals, sans>>

drmSLDestroy ==
  /\ sllive = "yes"
  /\ sllive' = "no"
  /\ fwd' = HeadAlone
  /\ level' = 0 /\ count' = 0
  /\ slvals' = [k \in {} |-> SLNull]
  /\ spos' = Unset
  /\ sans' = SLMap!NoAnswer

\* mutation of StepsOver: the search stops one entry too late
StepsOnto(next, key) == next # SLNull /\ next <= key

(* Whether the search for the key moves on to the next entry of a level.   *)
StepsOver(next, key) == next # SLNull /\ next < key

(* SLLocate: on every level, from the top one, the last entry before the   *)
(* key.  What it returns is the entry after Update(key)[0].                *)
Update(key) ==
  LET walk[e \in Entries, i \in Levels] ==
        IF StepsOver(fwd[e][i], key) THEN walk[fwd[e][i], i] ELSE e
      update[i \in 0..level] ==
        IF i = level THEN walk[SLHead, i] ELSE walk[update[i + 1], i]
  IN  update

SLLocate(key) == fwd[Update(key)[0]][0]

(* A new entry raises the list by one level at most, however high the      *)
(* level that SLRandomLevel draws.                                         *)
NewLevel(drawn) == IF drawn > level THEN level + 1 ELSE drawn

drmSLInsert(k, v, drawn) ==
  /\ sllive = "yes"
  /\ IF SLLocate(k) = k
     THEN /\ sans' = SLMap!Answer("insert", k, "present", SLNull)
          /\ UNCHANGED <<fwd, level, count, slvals>>
     ELSE LET top == NewLevel(drawn)
              at(i) == IF i > level THEN SLHead ELSE Update(k)[i]
              linked == [e \in Entries |-> [i \in Levels |->
                           IF i <= top /\ at(i) = e THEN k ELSE fwd[e][i]]]
              entry == [i \in Levels |-> IF i <= top THEN fwd[at(i)][i] ELSE SLNull]
          IN  /\ fwd' = SLMap!Added(linked, k, entry)
              /\ level' = IF top > level THEN top ELSE level
              /\ count' = count + 1
              /\ slvals' = SLMap!Added(slvals, k, v)
              /\ sans' = SLMap!Answer("insert", k, "added", SLNull)
  /\ UNCHANGED <<sllive, spos>>

(* forward[i] of entry e once entry k is unlinked from every level.        *)
Bypass(k, e, i) ==
  IF i <= level /\ e = Update(k)[i] /\ fwd[e][i] = k THEN fwd[k][i] ELSE fwd[e][i]

(* The list is lowered to its highest level in use.                        *)
Lowered(forward) ==
  LET down[i \in Levels] ==
        IF i > 0 /\ forward[SLHead][i] = SLNull THEN down[i - 1] ELSE i
  IN  down[level]

(* There is no memory for the entry: the list has been raised before       *)
(* drmSLInsert writes through the null pointer.                            *)
drmSLInsert_nomem(k, drawn) ==
  /\ sllive = "yes"
  /\ SLLocate(k) # k
  /\ sllive' = "crashed"
  /\ level' = IF NewLevel(drawn) > level THEN NewLevel(drawn) ELSE level
  /\ UNCHANGED <<fwd, count, slvals, spos, sans>>

(* As with the hash table, the caller must not delete the entry that the   *)
(* iterator will deliver next.                                             *)
drmSLDelete(k) ==
  /\ sllive = "yes"
  /\ k # spos
  /\ IF SLLocate(k) # k
     THEN /\ sans' = SLMap!Answer("delete", k, "absent", SLNull)
          /\ UNCHANGED <<fwd, level, count, slvals>>
     ELSE LET rest == [e \in Entries \ {k} |-> [i \in Levels |-> Bypass(k, e, i)]]
          IN  /\ fwd' = rest
              /\ level' = Lowered(rest)
              /\ count' = count - 1
              /\ slvals' = SLMap!Without(slvals, k)
              /\ sans' = SLMap!Answer("delete", k, "deleted", SLNull)
  /\ UNCHANGED <<sllive, spos>>

drmSLLookup(k) ==
  /\ sllive = "yes"
  /\ sans' = IF SLLocate(k) = k THEN SLMap!Answer("lookup", k, "found", k)
             ELSE SLMap!Answer("lookup", k, "absent", SLNull)
  /\ UNCHANGED <<sllive, fwd, level, count, slvals, spos>>

(* drmSLNext from entry e.                                                 *)
DeliverFrom(e) ==
  IF e = SLNull
  THEN spos' = SLNull /\ sans' = SLMap!NoAnswer
  ELSE spos' = fwd[e][0] /\ sans' = SLMap!Answer("next", e, "entry", slvals[e])

drmSLFirst ==
  /\ sllive = "yes"
  /\ DeliverFrom(fwd[SLHead][0])
  /\ UNCHANGED <<sllive, fwd, level, count, slvals>>

drmSLNext ==
  /\ sllive = "yes"
  /\ spos # Unset
  /\ DeliverFrom(spos)
  /\ UNCHANGED <<sllive, fwd, level, count, slvals>>

SLNext ==
  \/ drmSLCreate
  \/ drmSLDestroy
  \/ \E k \in SLKeys, v \in SLValues, drawn \in 1..SL_MAX_LEVEL : drmSLInsert(k, v, drawn)
  \/ \E k \in SLKeys, drawn \in 1..SL_MAX_LEVEL : drmSLInsert_nomem(k, drawn)
  \/ \E k \in SLKeys : drmSLDelete(k) \/ drmSLLookup(k)
  \/ drmSLFirst
  \/ drmSLNext

(* The skip list implements a map whose lookups give the entry: searching  *)
(* down the levels finds exactly the keys inserted and not deleted, and    *)
(* iterations deliver their values.  That a lookup hands out the library's *)
(* own SLEntry, which nobody outside can read, is in the map (Gives).      *)
SkipListImplementsMap == SLMap!MapSpec

=============================================================================
