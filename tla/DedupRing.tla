------------------------------ MODULE DedupRing ------------------------------
(***************************************************************************)
(* The duplicate-suppression cache that every mesh node and the gateway    *)
(* keep: a ring of N entries (SRC_ID, SEQ_NUM, valid) and a write cursor.  *)
(* The node's copy is s_dedup/s_dedup_head (N = MESH_DEDUP_CACHE_SIZE),    *)
(* the gateway's is gw_dedup/gw_dedup_head (N = GW_DEDUP_SIZE); the two    *)
(* are the same algorithm with a different size.                           *)
(*                                                                         *)
(* A key stands for the pair (SRC_ID, SEQ_NUM): a record with fields src   *)
(* and seq.  A slot whose valid bit is clear holds NoKey.                  *)
(***************************************************************************)
EXTENDS Integers

NoKey == [src |-> "none", seq |-> -1]

RingType(N, Keys) == [slot : [0 .. N - 1 -> Keys \cup {NoKey}], head : 0 .. N - 1]

EmptyRing(N) == [slot |-> [p \in 0 .. N - 1 |-> NoKey], head |-> 0]

(* dedup_seen, gw_dedup_seen: a valid entry with this source and number.   *)
RingSeen(N, ring, k) == \E p \in 0 .. N - 1 : ring.slot[p] = k

(* dedup_add, gw_dedup_add: overwrite the oldest slot, advance the cursor. *)
RingAddStuck(N, ring, k) ==    \* variant: the cursor does not advance
  [ring EXCEPT !.slot[ring.head] = k]

RingAdd(N, ring, k) ==
  [slot |-> [ring.slot EXCEPT ![ring.head] = k],
   head |-> IF ring.head = N - 1 THEN 0 ELSE ring.head + 1]

(* gw_dedup_clear_src, and the relay's loop over the gateway's entries:    *)
(* clear the valid bit of every entry of one source; the cursor stays.     *)
RingClear(N, ring, s) ==
  [ring EXCEPT !.slot =
     [p \in 0 .. N - 1 |-> IF ring.slot[p].src = s THEN NoKey ELSE ring.slot[p]]]

(* The slot written by the k-th most recent add, 1 <= k <= N.              *)
RingBack(N, ring, k) ==
  IF ring.head >= k THEN ring.head - k ELSE ring.head - k + N
==============================================================================
