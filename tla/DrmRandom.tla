----------------------------- MODULE DrmRandom ------------------------------
(* xf86drmRandom.c: the "minimal standard" generator, with the arithmetic  *)
(* of the code: no intermediate result exceeds 32 bits.                    *)
EXTENDS Integers

CONSTANT Seeds   \* what programs pass to drmRandomCreate

ASSUME SeedsAssumption == Seeds \subseteq Int

VARIABLES seed,   \* RandomState.seed
          start,  \* history: the seed given to drmRandomCreate
          draws   \* history: numbers drawn since drmRandomCreate

rndVars == <<seed, start, draws>>

RandomA == 48271
RandomM == 2147483647
RandomQ == RandomM \div RandomA
RandomR == RandomM % RandomA
RandomCheck == 399268537   \* the number after CheckDraws draws from 1
CheckDraws == 10000

(* drmRandomCreate moves an illegal seed to the nearest legal one.         *)
LegalSeed(s) == IF s <= 0 THEN 1 ELSE IF s >= RandomM THEN RandomM - 1 ELSE s

\* mutation of Draw: the correction for a negative result is dropped
DrawUncorrected(s) == RandomA * (s % RandomQ) - RandomR * (s \div RandomQ)

(* Schrage's decomposition of (a * s) mod m.                               *)
Draw(s) ==
  LET next == RandomA * (s % RandomQ) - RandomR * (s \div RandomQ)
  IN  IF next <= 0 THEN next + RandomM ELSE next

(* The n-th number drawn from a generator created with seed s.             *)
Drawn(s, n) ==
  LET draw[i \in 0..n] == IF i = 0 THEN LegalSeed(s) ELSE Draw(draw[i - 1])
  IN  draw[n]

RandomInit ==
  /\ start \in Seeds
  /\ seed = LegalSeed(start)
  /\ draws = 0

drmRandom ==
  /\ draws < CheckDraws
  /\ seed' = Draw(seed)
  /\ draws' = draws + 1
  /\ UNCHANGED start

(* drmRandomDestroy and a new generator with another seed, after as many   *)
(* draws as are followed here.                                             *)
drmRandomCreate(s) ==
  /\ draws = CheckDraws
  /\ start' = s
  /\ seed' = LegalSeed(s)
  /\ draws' = 0

RandomNext == drmRandom \/ \E s \in Seeds : drmRandomCreate(s)

RandomSpec == RandomInit /\ [][RandomNext]_rndVars

(* The generator stays within 1..m-1, the numbers its period runs over, so *)
(* that it never sticks at zero, and from seed 1 its ten thousandth number *)
(* is the published check value that drmRandomCreate records.              *)
RandomIsMinimalStandard ==
  /\ seed \in 1..(RandomM - 1)
  /\ draws = CheckDraws /\ start = 1 => seed = RandomCheck
=============================================================================
