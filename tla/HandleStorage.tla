---------------------------- MODULE HandleStorage ----------------------------
(* skynet_handle.c: the open hash table from handles to contexts.  Handles   *)
(* count up from 1 and are not used again before they wrap at HANDLE_MASK,   *)
(* 2^24 - 1, which the bounded number of launches never reaches: a context   *)
(* is known by its handle.  Each operation runs under the storage's lock.    *)
EXTENDS Naturals

CONSTANTS
  DefaultSlotSize,   \* DEFAULT_SLOT_SIZE, 4 in the code: a power of two
  Nil

handle_init ==
  [handle_index |-> 1, slot_size |-> DefaultSlotSize,
   slot |-> [i \in 0 .. DefaultSlotSize - 1 |-> Nil]]

Hash(s, h) == h % s.slot_size

(* The handles whose slots are free, counting up from handle_index. *)
Candidates(s) ==
  {h \in s.handle_index .. s.handle_index + s.slot_size - 1 : s.slot[Hash(s, h)] = Nil}

Full(s) == Candidates(s) = {}

(* Twice the slots: each context moves to the slot of handle[ctx], which is  *)
(* what the context says of itself at that moment.                           *)
Grow(s, handle) ==
  LET size == 2 * s.slot_size
      Lands(j) == {i \in DOMAIN s.slot : handle[s.slot[i]] % size = j}
  IN  [s EXCEPT !.slot_size = size,
                !.slot = [j \in 0 .. size - 1 |->
                            IF Lands(j) = {} THEN Nil
                            ELSE s.slot[CHOOSE i \in Lands(j) : TRUE]]]

(* The least of them is given out. *)
Given(s) ==
  CHOOSE h \in Candidates(s) : \A k \in Candidates(s) : h <= k

(* The bug of counting the handle up before the slot is computed from it. *)
handle_register_next(s) ==
  LET h == Given(s)
  IN  [s EXCEPT !.slot[Hash(s, h + 1)] = h, !.handle_index = h + 1]
handle_register(s) ==
  LET h == Given(s)
  IN  [s EXCEPT !.slot[Hash(s, h)] = h, !.handle_index = h + 1]

Registered(s, h) == s.slot[Hash(s, h)] = h

handle_retire(s, h) == [s EXCEPT !.slot[Hash(s, h)] = Nil]
=============================================================================
