--------------------------------- MODULE DB ---------------------------------
(***************************************************************************)
(* pkg/db: the key-value file that keeps the corpus of a manager and of    *)
(* the hub.  A database is a record: the user version, the records in      *)
(* memory (by key, the sequence number; the key is the hash of the value), *)
(* the file, what is pending for it, and the number of entries in both.    *)
(* A file is its version and the sequence of its entries; an entry that a  *)
(* crash has cut off is not one of them, because reading ends there.       *)
(***************************************************************************)
EXTENDS Integers, Sequences, FiniteSets

CONSTANTS
  Key,
  CompactUnit, CompactKeep  \* bound: 10 and 9 in the code, scaled down for TLC

(* Both a key without a record and the sequence number of a deletion. *)
seqDeleted == -1

NoRecords == [k \in Key |-> seqDeleted]
Keys(records) == {k \in Key : records[k] # seqDeleted}

Entry(key, seq) == [key |-> key, seq |-> seq]

(* deserializeDB: the last entry of a key decides. *)
Deserialize(entries) ==
  [k \in Key |->
    LET at == {i \in DOMAIN entries : entries[i].key = k}
    IN IF at = {} THEN seqDeleted ELSE entries[CHOOSE i \in at : \A j \in at : j <= i].seq]

(* The elements of a finite set as a sequence, in any order: a map gives   *)
(* its elements in no order of their own.                                  *)
Distinct(s) == \A i, j \in DOMAIN s : s[i] = s[j] => i = j
Orders(S) == {s \in [1 .. Cardinality(S) -> S] : Distinct(s)}
InSomeOrder(S) == CHOOSE s \in [1 .. Cardinality(S) -> S] : Distinct(s)

(* The entries that compact writes, in the order the map gives. *)
Listed(records) == InSomeOrder({Entry(k, records[k]) : k \in Keys(records)})

(* compact: a new file is written and renamed over the old one. *)
Compact(db) ==
  [db EXCEPT !.file = [version |-> db.version, entries |-> Listed(db.records)],
             !.pending = <<>>, !.uncompacted = Cardinality(Keys(db.records))]

(* Open with repair: the entries up to the first that cannot be read. *)
Open(file) ==
  LET records == Deserialize(file.entries)
  IN Compact([version |-> file.version, records |-> records, file |-> file, pending |-> <<>>, uncompacted |-> 0])

(* os.OpenFile creates the file. *)
NoFile == [version |-> 0, entries |-> <<>>]

Write(db, key, seq) ==
  [db EXCEPT !.records[key] = seq, !.pending = Append(@, Entry(key, seq)), !.uncompacted = @ + 1]

Save(db, key, seq) == IF db.records[key] = seq THEN db ELSE Write(db, key, seq)

(* Delete, of several keys. *)
DeleteAll(db, keys) ==
  LET gone == keys \cap Keys(db.records)
  IN [db EXCEPT !.records = [k \in Key |-> IF k \in gone THEN seqDeleted ELSE @[k]],
                !.pending = @ \o InSomeOrder({Entry(k, seqDeleted) : k \in gone}),
                !.uncompacted = @ + Cardinality(gone)]

NeedCompact(db) == (db.uncompacted \div CompactUnit) * CompactKeep > Cardinality(Keys(db.records))

Appended(file, entries) == [file EXCEPT !.entries = @ \o entries]

Flush(db) ==
  IF NeedCompact(db) THEN Compact(db)
  ELSE [db EXCEPT !.file = Appended(@, db.pending), !.pending = <<>>]

BumpVersion(db, version) ==
  IF db.version = version THEN Flush(db) ELSE Compact([db EXCEPT !.version = version])

(* The files that a crash in the middle of Flush can leave: the old or the *)
(* new one around a rename, some of the pending entries otherwise.         *)
FlushCrash(db) ==
  IF NeedCompact(db) THEN {db.file, Compact(db).file}
  ELSE {Appended(db.file, SubSeq(db.pending, 1, n)) : n \in 0 .. Len(db.pending)}

(* What the file holds is what Open would read from it. *)
OnDisk(db) == Keys(Deserialize(db.file.entries))
=============================================================================
