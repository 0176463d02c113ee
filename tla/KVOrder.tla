------------------------------- MODULE KVOrder -------------------------------
(***************************************************************************)
(* The ordered key-value engine (RocksDB) as the object store uses it.     *)
(* It is an external collaborator, not code of this repository: this       *)
(* module states the library semantics the store relies on.               *)
(*                                                                         *)
(* A key is a byte string, a sequence of integers in 0..255, ordered       *)
(* bytewise with a proper prefix before its extensions (the default        *)
(* BytewiseComparator).  A database state is a function from the present   *)
(* keys to their values.  An iterator is created over an implicit snapshot *)
(* of the key set; its position is a set holding at most one key, empty    *)
(* when the iterator is not Valid().                                       *)
(***************************************************************************)
EXTENDS Integers, Sequences, Functions, TLC

RECURSIVE BytewiseLess(_, _)
BytewiseLess(a, b) ==
  IF a = <<>> THEN b # <<>>
  ELSE IF b = <<>> THEN FALSE
  ELSE IF Head(a) # Head(b) THEN Head(a) < Head(b)
  ELSE BytewiseLess(Tail(a), Tail(b))

BytewiseLeq(a, b) == a = b \/ BytewiseLess(a, b)

\* The least key of a set of keys, as a set of at most one element.
Least(S) == LET T == S IN {k \in T : \A j \in T : BytewiseLeq(k, j)}

\* Iterator::Seek(target) over the key set `keys`.
Seek(keys, target) == Least({k \in keys : BytewiseLeq(target, k)})

\* Iterator::Next() from the key `k`.
After(keys, k) == LET from == k IN Least({j \in keys : BytewiseLess(from, j)})

Valid(pos) == pos # {}

KeyAt(pos) == CHOOSE k \in pos : TRUE

\* Slice::starts_with, i.e. string_view::rfind(p, 0) == 0.
StartsWith(s, p) == Len(p) <= Len(s) /\ SubSeq(s, 1, Len(p)) = p

\* DB::Put and a WriteBatch of puts, DB::Delete and a batch of deletes.
PutKeys(db, kvs) == kvs @@ db
DeleteKeys(db, ks) == Restrict(db, DOMAIN db \ ks)
=============================================================================
