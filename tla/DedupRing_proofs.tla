--------------------------- MODULE DedupRing_proofs ---------------------------
(***************************************************************************)
(* Facts about the duplicate-suppression ring, for every size and every    *)
(* set of keys.                                                            *)
(***************************************************************************)
EXTENDS DedupRing, TLAPS

(* dedup_add keeps the ring well formed: the cursor stays inside it.       *)
LEMMA RingAddType ==
  ASSUME NEW N \in Nat \ {0}, NEW Keys, NEW ring \in RingType(N, Keys),
         NEW k \in Keys
  PROVE  RingAdd(N, ring, k) \in RingType(N, Keys)
<1>1. ring.head \in 0 .. N - 1 /\ ring.slot \in [0 .. N - 1 -> Keys \cup {NoKey}]
  BY DEF RingType
<1>2. [ring.slot EXCEPT ![ring.head] = k] \in [0 .. N - 1 -> Keys \cup {NoKey}]
  BY <1>1
<1>3. (IF ring.head = N - 1 THEN 0 ELSE ring.head + 1) \in 0 .. N - 1
  BY <1>1
<1> QED BY <1>2, <1>3 DEF RingAdd, RingType

(* Clearing the entries of one source keeps the ring well formed.          *)
LEMMA RingClearType ==
  ASSUME NEW N \in Nat \ {0}, NEW Keys, NEW ring \in RingType(N, Keys), NEW s
  PROVE  RingClear(N, ring, s) \in RingType(N, Keys)
BY DEF RingClear, RingType

(* A new ring is well formed.                                              *)
LEMMA EmptyRingType ==
  ASSUME NEW N \in Nat \ {0}, NEW Keys
  PROVE  EmptyRing(N) \in RingType(N, Keys)
BY DEF EmptyRing, RingType

(* The slot of the k-th most recent add exists, and within one turn of the *)
(* ring it is not the slot that the next add overwrites, except the last.  *)
LEMMA RingBackInside ==
  ASSUME NEW N \in Nat \ {0}, NEW Keys, NEW ring \in RingType(N, Keys),
         NEW k \in 1 .. N
  PROVE  /\ RingBack(N, ring, k) \in 0 .. N - 1
         /\ k < N => RingBack(N, ring, k) # ring.head
BY DEF RingBack, RingType

(* dedup_add puts the new key first and moves every other entry one place  *)
(* back without changing it; only the oldest is lost.                      *)
LEMMA RingAddShifts ==
  ASSUME NEW N \in Nat \ {0}, NEW Keys, NEW ring \in RingType(N, Keys),
         NEW k \in Keys
  PROVE  LET new == RingAdd(N, ring, k)
         IN  /\ new.slot[RingBack(N, new, 1)] = k
             /\ \A j \in 1 .. N - 1 :
                  new.slot[RingBack(N, new, j + 1)] = ring.slot[RingBack(N, ring, j)]
<1> DEFINE new == RingAdd(N, ring, k)
<1>1. ring.head \in 0 .. N - 1 /\ ring.slot \in [0 .. N - 1 -> Keys \cup {NoKey}]
  BY DEF RingType
<1>2. /\ new.head = IF ring.head = N - 1 THEN 0 ELSE ring.head + 1
      /\ new.slot = [ring.slot EXCEPT ![ring.head] = k]
  BY DEF RingAdd
<1>3. RingBack(N, new, 1) = ring.head
  BY <1>1, <1>2 DEF RingBack
<1>4. new.slot[RingBack(N, new, 1)] = k
  BY <1>1, <1>2, <1>3
<1>5. ASSUME NEW j \in 1 .. N - 1
      PROVE  new.slot[RingBack(N, new, j + 1)] = ring.slot[RingBack(N, ring, j)]
  <2>1. RingBack(N, new, j + 1) = RingBack(N, ring, j)
    BY <1>1, <1>2 DEF RingBack
  <2>2. RingBack(N, ring, j) \in 0 .. N - 1 /\ RingBack(N, ring, j) # ring.head
    BY RingBackInside
  <2> QED BY <1>1, <1>2, <2>1, <2>2
<1> QED BY <1>4, <1>5

(* Clearing a source leaves the entries of every other source as they are. *)
LEMMA RingClearKeeps ==
  ASSUME NEW N \in Nat \ {0}, NEW Keys, NEW ring \in RingType(N, Keys),
         NEW s, NEW p \in 0 .. N - 1, ring.slot[p].src # s
  PROVE  RingClear(N, ring, s).slot[p] = ring.slot[p]
BY DEF RingClear, RingType

(* Clearing does not move the cursor, so the places stay the same.         *)
LEMMA RingClearBack ==
  ASSUME NEW N \in Nat \ {0}, NEW Keys, NEW ring \in RingType(N, Keys),
         NEW s, NEW k \in 1 .. N
  PROVE  RingBack(N, RingClear(N, ring, s), k) = RingBack(N, ring, k)
BY DEF RingClear, RingBack, RingType
==============================================================================
