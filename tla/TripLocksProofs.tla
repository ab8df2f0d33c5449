-------------------------- MODULE TripLocksProofs ---------------------------
(****************************************************************************)
(* Proofs about the transactions of the store (TripLocks), for any number of *)
(* transactions at a time, of Runs, of artifacts and of keys.                *)
(****************************************************************************)
EXTENDS Services, SequenceTheorems, TLAPS

-----------------------------------------------------------------------------
(* Lists of statements *)

\* The rows that a list locks, and whether it shares the Trip.
LockRows(q) == {q[i].row : i \in {j \in 1 .. Len(q) : q[j].do = "lock"}}
NoShare(q)  == \A i \in 1 .. Len(q) : q[i].do # "share"

\* A list that keeps to the rules after the rows H were locked, and perhaps the Trip read.
Good(q, H) == q \in Seq(Locks!Statements) /\ Locks!InOrder(q, H) /\ Locks!OnTheTrip(q, H, Locks!Trip \in H)

\* Every lock of the Trip is followed by a check of the access.
Strict(q) == \A i \in 1 .. Len(q) : Locks!Locks(q, i, Locks!Trip) =>
                \E j \in i + 1 .. Len(q) : q[j].do \in Locks!Checks

\* A statement of two lists in a row is one of the first or one of the second.
LEMMA Joined ==
    ASSUME NEW p \in Seq(Locks!Statements), NEW q \in Seq(Locks!Statements)
    PROVE  /\ p \o q \in Seq(Locks!Statements) /\ Len(p \o q) = Len(p) + Len(q)
           /\ \A i \in 1 .. Len(p) : i \in 1 .. Len(p \o q) /\ (p \o q)[i] = p[i]
           /\ \A i \in 1 .. Len(q) : Len(p) + i \in 1 .. Len(p \o q) /\ (p \o q)[Len(p) + i] = q[i]
           /\ \A i \in 1 .. Len(p \o q) : \/ i \in 1 .. Len(p)
                                          \/ \E j \in 1 .. Len(q) : i = Len(p) + j
<1>1. p \o q \in Seq(Locks!Statements) /\ Len(p \o q) = Len(p) + Len(q)
  OBVIOUS
<1>2. ASSUME NEW i \in 1 .. Len(p) PROVE i \in 1 .. Len(p \o q) /\ (p \o q)[i] = p[i]
  OBVIOUS
<1>3. ASSUME NEW i \in 1 .. Len(q)
      PROVE  Len(p) + i \in 1 .. Len(p \o q) /\ (p \o q)[Len(p) + i] = q[i]
  OBVIOUS
<1>4. ASSUME NEW i \in 1 .. Len(p \o q), i \notin 1 .. Len(p)
      PROVE  \E j \in 1 .. Len(q) : i = Len(p) + j
  <2>1. i - Len(p) \in 1 .. Len(q) /\ i = Len(p) + (i - Len(p)) BY <1>1, <1>4
  <2> QED BY <2>1
<1> QED BY <1>1, <1>2, <1>3, <1>4

\* Lists are put together in order.
LEMMA Composed ==
    ASSUME NEW p, NEW q, NEW H, NoShare(p), Good(p, H), Good(q, H \cup LockRows(p))
    PROVE  /\ Good(p \o q, H) /\ LockRows(p \o q) = LockRows(p) \cup LockRows(q)
           /\ NoShare(q) => NoShare(p \o q)
           /\ Strict(p) /\ Strict(q) => Strict(p \o q)
<1> DEFINE r == p \o q
           G == H \cup LockRows(p)
<1>1. p \in Seq(Locks!Statements) /\ q \in Seq(Locks!Statements) BY DEF Good
<1>2. Len(p) \in Nat /\ Len(q) \in Nat BY <1>1
<1>3. /\ r \in Seq(Locks!Statements) /\ Len(r) = Len(p) + Len(q)
      /\ \A i \in 1 .. Len(p) : i \in 1 .. Len(r) /\ r[i] = p[i]
      /\ \A i \in 1 .. Len(q) : Len(p) + i \in 1 .. Len(r) /\ r[Len(p) + i] = q[i]
      /\ \A i \in 1 .. Len(r) : i \in 1 .. Len(p) \/ \E j \in 1 .. Len(q) : i = Len(p) + j
  BY <1>1, Joined
<1> HIDE DEF r
<1>4. LockRows(r) = LockRows(p) \cup LockRows(q)
  <2>1. ASSUME NEW i \in 1 .. Len(r), r[i].do = "lock"
        PROVE  r[i].row \in LockRows(p) \cup LockRows(q)
    <3>1. CASE i \in 1 .. Len(p) BY <1>3, <2>1, <3>1 DEF LockRows
    <3>2. ASSUME NEW k \in 1 .. Len(q), i = Len(p) + k PROVE r[i].row \in LockRows(q)
      BY <1>3, <2>1, <3>2 DEF LockRows
    <3> QED BY <1>3, <3>1, <3>2
  <2>2. ASSUME NEW i \in 1 .. Len(p), p[i].do = "lock" PROVE p[i].row \in LockRows(r)
    BY <1>3, <2>2 DEF LockRows
  <2>3. ASSUME NEW i \in 1 .. Len(q), q[i].do = "lock" PROVE q[i].row \in LockRows(r)
    <3>1. Len(p) + i \in 1 .. Len(r) /\ r[Len(p) + i] = q[i] BY <1>3
    <3> QED BY <2>3, <3>1 DEF LockRows
  <2>4. LockRows(r) \subseteq LockRows(p) \cup LockRows(q) BY <2>1 DEF LockRows
  <2>5. LockRows(p) \subseteq LockRows(r) BY <2>2 DEF LockRows
  <2>6. LockRows(q) \subseteq LockRows(r) BY <2>3 DEF LockRows
  <2> QED BY <2>4, <2>5, <2>6
<1>5. ASSUME NoShare(q) PROVE NoShare(r)
  <2> SUFFICES ASSUME NEW i \in 1 .. Len(r) PROVE r[i].do # "share"
    BY DEF NoShare
  <2>1. CASE i \in 1 .. Len(p) BY <1>3, <2>1 DEF NoShare
  <2>2. ASSUME NEW k \in 1 .. Len(q), i = Len(p) + k PROVE r[i].do # "share"
    BY <1>3, <1>5, <2>2 DEF NoShare
  <2> QED BY <1>3, <2>1, <2>2
<1>6. ASSUME NEW i \in 1 .. Len(q), NEW row, Locks!LockedBy(q, i, G, row)
      PROVE  Locks!LockedBy(r, Len(p) + i, H, row)
  <2>1. CASE row \in H BY <2>1 DEF Locks!LockedBy
  <2>2. CASE row \in LockRows(p)
    <3>1. PICK j \in 1 .. Len(p) : p[j].do = "lock" /\ p[j].row = row BY <2>2 DEF LockRows
    <3>2. j \in 1 .. (Len(p) + i) - 1 /\ Locks!Locks(r, j, row) BY <1>2, <1>3, <3>1 DEF Locks!Locks
    <3> QED BY <3>2 DEF Locks!LockedBy
  <2>3. CASE \E j \in 1 .. i - 1 : Locks!Locks(q, j, row)
    <3>1. PICK j \in 1 .. i - 1 : Locks!Locks(q, j, row) BY <2>3
    <3>2. j \in 1 .. Len(q) /\ Len(p) + j \in 1 .. (Len(p) + i) - 1 BY <1>2
    <3>3. Locks!Locks(r, Len(p) + j, row) BY <1>3, <3>1, <3>2 DEF Locks!Locks
    <3> QED BY <3>2, <3>3 DEF Locks!LockedBy
  <2> QED BY <1>6, <2>1, <2>2, <2>3 DEF Locks!LockedBy
<1>7. ASSUME NEW i \in 1 .. Len(p), NEW row, Locks!LockedBy(p, i, H, row)
      PROVE  Locks!LockedBy(r, i, H, row)
  <2>1. ASSUME NEW j \in 1 .. i - 1, Locks!Locks(p, j, row) PROVE Locks!Locks(r, j, row)
    <3>1. j \in 1 .. Len(p) BY <1>2
    <3> QED BY <1>3, <2>1, <3>1 DEF Locks!Locks
  <2> QED BY <1>7, <2>1 DEF Locks!LockedBy
<1>8. Locks!InOrder(r, H)
  <2> SUFFICES ASSUME NEW i \in 1 .. Len(r), r[i].do \in {"lock", "share", "update"}
               PROVE  IF Locks!Guarded(r[i].row) THEN Locks!LockedBy(r, i, H, Locks!Trip)
                      ELSE \/ Locks!LockedBy(r, i, H, r[i].row)
                           \/ /\ \A row \in H : Locks!Rank(row) < Locks!Rank(r[i].row)
                              /\ \A j \in 1 .. i - 1 :
                                    r[j].do = "lock" => Locks!Rank(r[j].row) < Locks!Rank(r[i].row)
    BY DEF Locks!InOrder
  <2>1. CASE i \in 1 .. Len(p)
    <3>1. \A j \in 1 .. i - 1 : j \in 1 .. Len(p) /\ r[j] = p[j] BY <1>2, <1>3, <2>1
    <3>2. r[i] = p[i] BY <1>3, <2>1
    <3> QED BY <1>7, <2>1, <3>1, <3>2 DEF Good, Locks!InOrder
  <2>2. ASSUME NEW k \in 1 .. Len(q), i = Len(p) + k
        PROVE  IF Locks!Guarded(r[i].row) THEN Locks!LockedBy(r, i, H, Locks!Trip)
               ELSE \/ Locks!LockedBy(r, i, H, r[i].row)
                    \/ /\ \A row \in H : Locks!Rank(row) < Locks!Rank(r[i].row)
                       /\ \A j \in 1 .. i - 1 :
                             r[j].do = "lock" => Locks!Rank(r[j].row) < Locks!Rank(r[i].row)
    <3>1. r[i] = q[k] BY <1>3, <2>2
    <3>2. IF Locks!Guarded(q[k].row) THEN Locks!LockedBy(q, k, G, Locks!Trip)
          ELSE \/ Locks!LockedBy(q, k, G, q[k].row)
               \/ /\ \A row \in G : Locks!Rank(row) < Locks!Rank(q[k].row)
                  /\ \A j \in 1 .. k - 1 : q[j].do = "lock" => Locks!Rank(q[j].row) < Locks!Rank(q[k].row)
      BY <3>1 DEF Good, Locks!InOrder
    <3>3. ASSUME \A row \in G : Locks!Rank(row) < Locks!Rank(q[k].row),
                 \A j \in 1 .. k - 1 : q[j].do = "lock" => Locks!Rank(q[j].row) < Locks!Rank(q[k].row),
                 NEW j \in 1 .. i - 1, r[j].do = "lock"
          PROVE  Locks!Rank(r[j].row) < Locks!Rank(r[i].row)
      <4>1. CASE j \in 1 .. Len(p)
        <5>1. r[j].row \in LockRows(p) BY <1>3, <3>3, <4>1 DEF LockRows
        <5> QED BY <3>1, <3>3, <5>1
      <4>2. CASE j \notin 1 .. Len(p)
        <5>1. j - Len(p) \in 1 .. k - 1 /\ j - Len(p) \in 1 .. Len(q) BY <1>2, <2>2, <4>2
        <5>2. r[Len(p) + (j - Len(p))] = q[j - Len(p)] BY <1>3, <5>1
        <5>3. Len(p) + (j - Len(p)) = j BY <1>2
        <5> QED BY <3>1, <3>3, <5>1, <5>2, <5>3
      <4> QED BY <4>1, <4>2
    <3> QED BY <1>6, <2>2, <3>1, <3>2, <3>3
  <2> QED BY <1>3, <2>1, <2>2
<1>9. Locks!OnTheTrip(r, H, Locks!Trip \in H)
  <2> SUFFICES ASSUME NEW i \in 1 .. Len(r)
               PROVE  /\ r[i].do \in {"share", "update"} => r[i].row = Locks!Trip
                      /\ r[i].do = "share" => i = Len(r)
                      /\ r[i].do = "update" => \/ Locks!Trip \in H
                                               \/ \E j \in 1 .. i - 1 : Locks!Locks(r, j, Locks!Trip)
    BY DEF Locks!OnTheTrip
  <2>1. CASE i \in 1 .. Len(p)
    <3>1. r[i] = p[i] BY <1>3, <2>1
    <3>2. ASSUME NEW j \in 1 .. i - 1, Locks!Locks(p, j, Locks!Trip) PROVE Locks!Locks(r, j, Locks!Trip)
      <4>1. j \in 1 .. Len(p) BY <1>2, <2>1
      <4> QED BY <1>3, <3>2, <4>1 DEF Locks!Locks
    <3> QED BY <2>1, <3>1, <3>2 DEF Good, Locks!OnTheTrip, NoShare
  <2>2. ASSUME NEW k \in 1 .. Len(q), i = Len(p) + k
        PROVE  /\ r[i].do \in {"share", "update"} => r[i].row = Locks!Trip
               /\ r[i].do = "share" => i = Len(r)
               /\ r[i].do = "update" => \/ Locks!Trip \in H
                                        \/ \E j \in 1 .. i - 1 : Locks!Locks(r, j, Locks!Trip)
    <3>1. r[i] = q[k] BY <1>3, <2>2
    <3>2. /\ q[k].do \in {"share", "update"} => q[k].row = Locks!Trip
          /\ q[k].do = "share" => k = Len(q)
          /\ q[k].do = "update" => \/ Locks!Trip \in G
                                   \/ \E j \in 1 .. k - 1 : Locks!Locks(q, j, Locks!Trip)
      BY DEF Good, Locks!OnTheTrip
    <3>3. ASSUME NEW j \in 1 .. k - 1, Locks!Locks(q, j, Locks!Trip)
          PROVE  \E m \in 1 .. i - 1 : Locks!Locks(r, m, Locks!Trip)
      <4>1. j \in 1 .. Len(q) /\ Len(p) + j \in 1 .. i - 1 BY <1>2, <2>2
      <4>2. Locks!Locks(r, Len(p) + j, Locks!Trip) BY <1>3, <3>3, <4>1 DEF Locks!Locks
      <4> QED BY <4>1, <4>2
    <3>4. ASSUME Locks!Trip \in LockRows(p) PROVE \E m \in 1 .. i - 1 : Locks!Locks(r, m, Locks!Trip)
      <4>1. PICK j \in 1 .. Len(p) : p[j].do = "lock" /\ p[j].row = Locks!Trip BY <3>4 DEF LockRows
      <4>2. j \in 1 .. i - 1 /\ Locks!Locks(r, j, Locks!Trip)
        BY <1>2, <1>3, <2>2, <4>1 DEF Locks!Locks
      <4> QED BY <4>2
    <3> QED BY <1>3, <2>2, <3>1, <3>2, <3>3, <3>4
  <2> QED BY <1>3, <2>1, <2>2
<1>10. ASSUME Strict(p), Strict(q) PROVE Strict(r)
  <2> SUFFICES ASSUME NEW i \in 1 .. Len(r), Locks!Locks(r, i, Locks!Trip)
               PROVE  \E j \in i + 1 .. Len(r) : r[j].do \in Locks!Checks
    BY DEF Strict
  <2>1. CASE i \in 1 .. Len(p)
    <3>1. PICK j \in i + 1 .. Len(p) : p[j].do \in Locks!Checks
      BY <1>3, <1>10, <2>1 DEF Strict, Locks!Locks
    <3>2. j \in 1 .. Len(p) /\ j \in i + 1 .. Len(r) BY <1>2, <1>3
    <3> QED BY <1>3, <3>1, <3>2
  <2>2. ASSUME NEW k \in 1 .. Len(q), i = Len(p) + k
        PROVE  \E j \in i + 1 .. Len(r) : r[j].do \in Locks!Checks
    <3>1. PICK j \in k + 1 .. Len(q) : q[j].do \in Locks!Checks
      BY <1>3, <1>10, <2>2 DEF Strict, Locks!Locks
    <3>2. j \in 1 .. Len(q) /\ Len(p) + j \in i + 1 .. Len(r) BY <1>2, <1>3, <2>2
    <3> QED BY <1>3, <3>1, <3>2
  <2> QED BY <1>3, <2>1, <2>2
<1> QED BY <1>1, <1>3, <1>4, <1>5, <1>8, <1>9, <1>10 DEF Good, r

\* A part of a list: it keeps to the rules after the rows H, shares nothing, checks the access
\* after it locks the Trip, and locks the rows R.
Piece(q, H, R) == Good(q, H) /\ NoShare(q) /\ Strict(q) /\ LockRows(q) = R

\* Parts make a part.
LEMMA Chained ==
    ASSUME NEW p, NEW q, NEW H, NEW P, NEW Q, Piece(p, H, P), Piece(q, H \cup P, Q)
    PROVE  Piece(p \o q, H, P \cup Q)
BY Composed DEF Piece

\* The same for the first statements of a transaction, which holds nothing yet, ...
LEMMA Followed ==
    ASSUME NEW p, NEW q, NEW P, NEW Q, Piece(p, {}, P), Piece(q, P, Q)
    PROVE  Piece(p \o q, {}, P \cup Q)
<1>1. {} \cup P = P OBVIOUS
<1> QED BY <1>1, Chained

\* ... and for a part that locks nothing.
LEMMA Continued ==
    ASSUME NEW p, NEW q, NEW H, NEW P, NEW G, Piece(p, H, P), Piece(q, G, {}), G = H \cup P
    PROVE  Piece(p \o q, H, P)
<1>1. P \cup {} = P OBVIOUS
<1> QED BY <1>1, Chained

\* No statement at all.
LEMMA Nothing == ASSUME NEW H PROVE Piece(<<>>, H, {})
<1>1. <<>> \in Seq(Locks!Statements) /\ Len(<<>>) = 0 OBVIOUS
<1> QED BY <1>1 DEF Piece, Good, Locks!InOrder, Locks!OnTheTrip, NoShare, Strict, LockRows

\* One statement.
LEMMA Single ==
    ASSUME NEW s \in Locks!Statements, NEW H,
           s.do \in {"lock", "share", "update"} =>
             IF Locks!Guarded(s.row) THEN Locks!Trip \in H
             ELSE s.row \in H \/ \A row \in H : Locks!Rank(row) < Locks!Rank(s.row),
           s.do \in {"share", "update"} => s.row = Locks!Trip,
           s.do = "update" => Locks!Trip \in H
    PROVE  /\ Good(<<s>>, H) /\ LockRows(<<s>>) = IF s.do = "lock" THEN {s.row} ELSE {}
           /\ s.do # "share" => NoShare(<<s>>)
           /\ ~(s.do = "lock" /\ s.row = Locks!Trip) => Strict(<<s>>)
<1> DEFINE q == <<s>>
<1>1. q \in Seq(Locks!Statements) /\ Len(q) = 1 /\ q[1] = s OBVIOUS
<1>2. \A i \in 1 .. Len(q) : i = 1 BY <1>1
<1> HIDE DEF q
<1>3. Locks!InOrder(q, H) BY <1>1, <1>2 DEF Locks!InOrder, Locks!LockedBy
<1>4. Locks!OnTheTrip(q, H, Locks!Trip \in H) BY <1>1, <1>2 DEF Locks!OnTheTrip
<1>5. LockRows(q) = IF s.do = "lock" THEN {s.row} ELSE {} BY <1>1, <1>2 DEF LockRows
<1>6. s.do # "share" => NoShare(q) BY <1>1, <1>2 DEF NoShare
<1>7. ~(s.do = "lock" /\ s.row = Locks!Trip) => Strict(q) BY <1>1, <1>2 DEF Strict, Locks!Locks
<1> QED BY <1>1, <1>3, <1>4, <1>5, <1>6, <1>7 DEF Good, q

Ids == Runs \cup Artifacts \cup Keys \cup {""}

\* The Trip is a row, with its place in the order.
LEMMA TripRow == Locks!Trip \in Locks!Rows /\ ~Locks!Guarded(Locks!Trip) /\ Locks!Rank(Locks!Trip) = 2
BY DEF Locks!Trip, Locks!Rows, Locks!Kinds, Locks!Guarded, Locks!Rank

\* A lock of another row than the Trip.
LEMMA LockPiece ==
    ASSUME NEW kind \in Locks!Kinds \ {"trip"}, NEW id \in Ids, NEW H,
           IF Locks!Guarded(<<kind, id>>) THEN Locks!Trip \in H
           ELSE <<kind, id>> \in H \/ \A row \in H : Locks!Rank(row) < Locks!Rank(<<kind, id>>)
    PROVE  Piece(Locks!Lock(kind, id), H, {<<kind, id>>})
<1> DEFINE s == [do |-> "lock", row |-> <<kind, id>>]
<1>1. s \in Locks!Statements /\ s.do = "lock" /\ s.row = <<kind, id>> /\ s.row # Locks!Trip
  BY DEF Locks!Statements, Locks!Rows, Ids, Locks!Trip
<1>2. Locks!Lock(kind, id) = <<s>> BY DEF Locks!Lock
<1> HIDE DEF s
<1> QED BY <1>1, <1>2, Single DEF Piece

\* A check of the access.
LEMMA AccessPiece ==
    ASSUME NEW needs \in Locks!Checks, NEW H
    PROVE  Piece(Locks!Access(needs), H, {})
<1> DEFINE s == [do |-> needs, row |-> Locks!Trip]
<1>1. s \in Locks!Statements /\ s.do = needs /\ needs \notin {"lock", "share", "update"}
  BY TripRow DEF Locks!Statements, Locks!Checks
<1>2. Locks!Access(needs) = <<s>> BY DEF Locks!Access
<1> HIDE DEF s
<1> QED BY <1>1, <1>2, Single DEF Piece

\* An update of the Trip that is locked.
LEMMA UpdatePiece ==
    ASSUME NEW H, Locks!Trip \in H
    PROVE  Piece(Locks!UpdateTrip, H, {})
<1> DEFINE s == [do |-> "update", row |-> Locks!Trip]
<1>1. s \in Locks!Statements /\ s.do = "update" /\ s.row = Locks!Trip
  BY TripRow DEF Locks!Statements
<1>2. Locks!UpdateTrip = <<s>> BY DEF Locks!UpdateTrip
<1> HIDE DEF s
<1> QED BY <1>1, <1>2, TripRow, Single DEF Piece

\* _get_trip_tx, without and with its lock.
LEMMA SeeTripPiece ==
    ASSUME NEW needs \in Locks!Checks, NEW H
    PROVE  Piece(Locks!GetTrip(needs, FALSE), H, {})
<1> DEFINE s == [do |-> "see", row |-> Locks!Trip]
<1>1. s \in Locks!Statements /\ s.do = "see" /\ s.row = Locks!Trip BY TripRow DEF Locks!Statements
<1>2. Locks!GetTrip(needs, FALSE) = <<s>> \o Locks!Access(needs) BY DEF Locks!GetTrip
<1> HIDE DEF s
<1>3. Piece(<<s>>, H, {}) BY <1>1, Single DEF Piece
<1>4. Piece(Locks!Access(needs), H, {}) BY AccessPiece
<1>5. H = H \cup {} OBVIOUS
<1> QED BY <1>2, <1>3, <1>4, <1>5, Continued

\* _get_trip_tx with the row's lock: nothing locked before it comes after the Trip in the
\* order, unless the Trip is locked already.
LEMMA LockTripPiece ==
    ASSUME NEW needs \in Locks!Checks, NEW H, Locks!Trip \in H \/ \A row \in H : Locks!Rank(row) < 2
    PROVE  Piece(Locks!GetTrip(needs, TRUE), H, {Locks!Trip})
<1> DEFINE s == [do |-> "lock", row |-> Locks!Trip]
           c == [do |-> needs, row |-> Locks!Trip]
           q == <<s>> \o <<c>>
<1>1. s \in Locks!Statements /\ s.do = "lock" /\ s.row = Locks!Trip BY TripRow DEF Locks!Statements
<1>2. Locks!GetTrip(needs, TRUE) = <<s>> \o Locks!Access(needs) BY DEF Locks!GetTrip
<1> HIDE DEF s
<1>3. Good(<<s>>, H) /\ LockRows(<<s>>) = {Locks!Trip} /\ NoShare(<<s>>)
  BY <1>1, TripRow, Single
<1>4. Piece(Locks!Access(needs), H \cup {Locks!Trip}, {}) BY AccessPiece
<1>5. /\ Good(<<s>> \o Locks!Access(needs), H) /\ NoShare(<<s>> \o Locks!Access(needs))
      /\ LockRows(<<s>> \o Locks!Access(needs)) = {Locks!Trip}
  <2>1. Good(Locks!Access(needs), H \cup LockRows(<<s>>)) BY <1>3, <1>4 DEF Piece
  <2>2. NoShare(Locks!Access(needs)) /\ LockRows(Locks!Access(needs)) = {} BY <1>4 DEF Piece
  <2>3. LockRows(<<s>>) \cup {} = {Locks!Trip} BY <1>3
  <2> QED BY <1>3, <2>1, <2>2, <2>3, Composed
<1>6. Strict(<<s>> \o Locks!Access(needs))
  <2>1. Locks!Access(needs) = <<c>> /\ c \in Locks!Statements /\ c.do = needs
    BY TripRow DEF Locks!Access, Locks!Statements, Locks!Checks
  <2> HIDE DEF c
  <2>2. <<s>> \in Seq(Locks!Statements) /\ <<c>> \in Seq(Locks!Statements) BY <1>1, <2>1
  <2>3. Len(q) = 2 /\ q[1] = s /\ q[2] = c BY <2>2
  <2> HIDE DEF q
  <2>4. Strict(q)
    <3>1. \A i \in 1 .. Len(q) : i = 1 \/ i = 2 BY <2>3
    <3>2. 2 \in 1 + 1 .. Len(q) BY <2>3
    <3>3. c.do \in Locks!Checks /\ c.do # "lock" BY <2>1 DEF Locks!Checks
    <3> QED BY <2>3, <3>1, <3>2, <3>3 DEF Strict, Locks!Locks
  <2> QED BY <2>1, <2>4 DEF q
<1> QED BY <1>2, <1>5, <1>6 DEF Piece

-----------------------------------------------------------------------------
(* The transactions *)

\* _get_run_tx with its lock.
LEMMA RunPiece ==
    ASSUME NEW r \in Runs
    PROVE  Piece(Locks!GetRun(r, TRUE), {}, {<<"run", r>>})
<1>1. Piece(Locks!Lock("run", r), {}, {<<"run", r>>})
  BY LockPiece DEF Ids, Locks!Kinds, Locks!Guarded
<1>2. Piece(Locks!GetTrip("read", FALSE), {<<"run", r>>}, {}) BY SeeTripPiece DEF Locks!Checks
<1>3. Locks!GetRun(r, TRUE) = Locks!Lock("run", r) \o Locks!GetTrip("read", FALSE)
  BY DEF Locks!GetRun
<1>4. {<<"run", r>>} = {} \cup {<<"run", r>>} OBVIOUS
<1> QED BY <1>1, <1>2, <1>3, <1>4, Continued

\* A plan's artifact and version, under the Trip's lock.
LEMMA PlanPiece ==
    ASSUME NEW a \in Artifacts, NEW H, Locks!Trip \in H
    PROVE  /\ Piece(Locks!Lock("artifact", a), H, {<<"artifact", a>>})
           /\ Piece(Locks!Lock("version", a), H, {<<"version", a>>})
           /\ \E R : Piece(Locks!Lock("artifact", a) \o Locks!Lock("version", a), H, R)
<1>1. \A G : Locks!Trip \in G => /\ Piece(Locks!Lock("artifact", a), G, {<<"artifact", a>>})
                                 /\ Piece(Locks!Lock("version", a), G, {<<"version", a>>})
  BY LockPiece DEF Ids, Locks!Kinds, Locks!Guarded
<1>2. Piece(Locks!Lock("version", a), H \cup {<<"artifact", a>>}, {<<"version", a>>}) BY <1>1
<1>3. Piece(Locks!Lock("artifact", a), H, {<<"artifact", a>>}) BY <1>1
<1> QED BY <1>1, <1>2, <1>3, Chained

\* _get_artifact_tx with its locks.
LEMMA ArtifactPiece ==
    ASSUME NEW a \in Artifacts, NEW H, \A row \in H : Locks!Rank(row) < 2
    PROVE  \E R : Piece(Locks!GetArtifact(a, TRUE), H, {Locks!Trip} \cup R)
<1>1. Piece(Locks!GetTrip("write", TRUE), H, {Locks!Trip}) BY LockTripPiece DEF Locks!Checks
<1>2. PICK R : Piece(Locks!Lock("artifact", a) \o Locks!Lock("version", a), H \cup {Locks!Trip}, R)
  BY PlanPiece
<1>3. Locks!GetArtifact(a, TRUE)
        = Locks!GetTrip("write", TRUE) \o (Locks!Lock("artifact", a) \o Locks!Lock("version", a))
  BY DEF Locks!GetArtifact
<1>4. Piece(Locks!GetTrip("write", TRUE) \o (Locks!Lock("artifact", a) \o Locks!Lock("version", a)), H,
            {Locks!Trip} \cup R)
  BY <1>1, <1>2, Chained
<1> QED BY <1>3, <1>4

\* The other plan's version, if there is another plan.
LEMMA SupersedePiece ==
    ASSUME NEW a \in Artifacts, NEW H, Locks!Trip \in H
    PROVE  \E R : Piece(Locks!Supersede(a), H, R)
<1>1. CASE Artifacts = {a} BY <1>1, Nothing DEF Locks!Supersede
<1>2. CASE Artifacts # {a}
  <2> DEFINE b == CHOOSE x \in Artifacts : x # a
  <2>1. b \in Artifacts BY <1>2
  <2>2. Locks!Supersede(a) = Locks!Lock("version", b) BY <1>2 DEF Locks!Supersede
  <2> HIDE DEF b
  <2> QED BY <2>1, <2>2, PlanPiece
<1> QED BY <1>1, <1>2

\* What every transaction starts with: a list that keeps to the rules.
Starts(q) == Good(q, {}) /\ Locks!CheckedAfter(q, None)

\* A list that keeps to the rules after nothing was locked may start a transaction.
LEMMA PieceStarts ==
    ASSUME NEW q, NEW R, Piece(q, {}, R)
    PROVE  Starts(q)
BY DEF Starts, Piece, Strict, Locks!CheckedAfter

\* The methods that lock the Trip first: patch_trip, the membership changes, create_run.
LEMMA TripTransactions ==
    /\ Starts(Locks!PatchTrip) /\ Starts(Locks!ManageMember) /\ Locks!Trip \in LockRows(Locks!ManageMember)
    /\ \A k \in Keys : Starts(Locks!CreateRun(k))
<1>1. Piece(Locks!GetTrip("write", TRUE), {}, {Locks!Trip}) BY LockTripPiece DEF Locks!Checks
<1>2. Starts(Locks!PatchTrip)
  <2>1. Piece(Locks!UpdateTrip, {Locks!Trip}, {}) BY UpdatePiece
  <2> QED BY <1>1, <2>1, Followed, PieceStarts DEF Locks!PatchTrip
<1>3. Starts(Locks!ManageMember) /\ Locks!Trip \in LockRows(Locks!ManageMember)
  <2>1. Piece(Locks!Access("own"), {Locks!Trip}, {}) BY AccessPiece DEF Locks!Checks
  <2>2. Piece(Locks!GetTrip("write", TRUE) \o Locks!Access("own"), {}, {Locks!Trip})
    <3>1. {Locks!Trip} = {} \cup {Locks!Trip} OBVIOUS
    <3> QED BY <1>1, <2>1, <3>1, Continued
  <2>3. /\ \A row \in {Locks!Trip} : Locks!Rank(row) < Locks!Rank(<<"member", "">>)
        /\ ~Locks!Guarded(<<"member", "">>) /\ "member" \in Locks!Kinds \ {"trip"} /\ "" \in Ids
    BY TripRow DEF Locks!Rank, Locks!Guarded, Locks!Kinds, Ids
  <2>4. Piece(Locks!Lock("member", ""), {Locks!Trip}, {<<"member", "">>}) BY <2>3, LockPiece
  <2>5. Piece(Locks!ManageMember, {}, {Locks!Trip} \cup {<<"member", "">>})
    BY <2>2, <2>4, Followed DEF Locks!ManageMember
  <2> QED BY <2>5, PieceStarts DEF Piece
<1>4. ASSUME NEW k \in Keys PROVE Starts(Locks!CreateRun(k))
  <2>1. Locks!Rank(<<"create", k>>) = 3 BY DEF Locks!Rank
  <2>2. \A row \in {Locks!Trip} : Locks!Rank(row) < Locks!Rank(<<"create", k>>) BY <2>1, TripRow
  <2>3. ~Locks!Guarded(<<"create", k>>) /\ "create" \in Locks!Kinds \ {"trip"} /\ k \in Ids
    BY DEF Locks!Guarded, Locks!Kinds, Ids
  <2>4. Piece(Locks!Lock("create", k), {Locks!Trip}, {<<"create", k>>}) BY <2>2, <2>3, LockPiece
  <2> QED BY <1>1, <2>4, Followed, PieceStarts DEF Locks!CreateRun
<1> QED BY <1>2, <1>3, <1>4

\* The methods that start from a Run: they lock it before its Trip.
LEMMA RunTransactions ==
    ASSUME NEW r \in Runs
    PROVE  /\ Starts(Locks!MutateRun(r)) /\ Starts(Locks!RenewExecution(r)) /\ Starts(Locks!CreateArtifact(r))
           /\ \A k \in Keys : Starts(Locks!ResumeRun(r, k))
           /\ \A a \in Artifacts : Starts(Locks!PublishResult(r, a))
<1> DEFINE R == {<<"run", r>>}
<1>1. Piece(Locks!GetRun(r, TRUE), {}, R) /\ R = {} \cup R BY RunPiece
<1>2. \A row \in R : Locks!Rank(row) = 1 /\ Locks!Rank(row) < 2 BY DEF Locks!Rank
<1> HIDE DEF R
<1>3. Starts(Locks!MutateRun(r)) BY <1>1, PieceStarts DEF Locks!MutateRun
<1>4. Piece(Locks!GetRun(r, TRUE) \o Locks!GetTrip("write", FALSE), {}, R)
  <2>1. Piece(Locks!GetTrip("write", FALSE), R, {}) BY SeeTripPiece DEF Locks!Checks
  <2> QED BY <1>1, <2>1, Continued
<1>5. Starts(Locks!RenewExecution(r))
  <2>1. Piece(Locks!GetTrip("read", FALSE), {}, {}) BY SeeTripPiece DEF Locks!Checks
  <2>2. {} = {} \cup {} OBVIOUS
  <2>3. Piece(<<>> \o Locks!GetTrip("read", FALSE), {}, {}) BY <2>1, <2>2, Nothing, Continued
  <2>4. Locks!GetRun(r, FALSE) = <<>> \o Locks!GetTrip("read", FALSE) BY DEF Locks!GetRun
  <2>5. Piece(Locks!Lock("run", r), {}, {<<"run", r>>})
    BY LockPiece DEF Ids, Locks!Kinds, Locks!Guarded
  <2> QED BY <2>3, <2>4, <2>5, Followed, PieceStarts DEF Locks!RenewExecution
<1>6. ASSUME NEW k \in Keys PROVE Starts(Locks!ResumeRun(r, k))
  <2>1. Locks!Rank(<<"resume", k>>) = 3 BY DEF Locks!Rank
  <2>2. \A row \in R : Locks!Rank(row) < Locks!Rank(<<"resume", k>>) BY <1>2, <2>1
  <2>3. ~Locks!Guarded(<<"resume", k>>) /\ "resume" \in Locks!Kinds \ {"trip"} /\ k \in Ids
    BY DEF Locks!Guarded, Locks!Kinds, Ids
  <2>4. Piece(Locks!Lock("resume", k), R, {<<"resume", k>>}) BY <2>2, <2>3, LockPiece
  <2> QED BY <1>4, <2>4, Followed, PieceStarts DEF Locks!ResumeRun
<1>7. Starts(Locks!CreateArtifact(r))
  <2> DEFINE s == [do |-> "share", row |-> Locks!Trip]
             p == Locks!GetRun(r, TRUE) \o Locks!GetTrip("write", FALSE)
  <2>1. s \in Locks!Statements /\ s.do = "share" /\ s.row = Locks!Trip
    BY TripRow DEF Locks!Statements
  <2>2. Locks!ShareTrip = <<s>> BY DEF Locks!ShareTrip
  <2> HIDE DEF s, p
  <2>3. Good(<<s>>, R) /\ Strict(<<s>>)
    <3>1. \A row \in R : Locks!Rank(row) < Locks!Rank(Locks!Trip) BY <1>2, TripRow
    <3> QED BY <2>1, <3>1, TripRow, Single
  <2>4. Good(p, {}) /\ NoShare(p) /\ Strict(p) /\ {} \cup LockRows(p) = R
    BY <1>1, <1>4 DEF Piece, p
  <2>5. Good(p \o <<s>>, {}) /\ Strict(p \o <<s>>) BY <2>3, <2>4, Composed
  <2> QED BY <2>2, <2>5 DEF Locks!CreateArtifact, Starts, Strict, Locks!CheckedAfter, p
<1>8. ASSUME NEW a \in Artifacts PROVE Starts(Locks!PublishResult(r, a))
  <2>1. Piece(Locks!GetTrip("write", TRUE), R, {Locks!Trip}) BY <1>2, LockTripPiece DEF Locks!Checks
  <2>2. Piece(Locks!GetRun(r, TRUE) \o Locks!GetTrip("write", TRUE), {}, R \cup {Locks!Trip})
    BY <1>1, <2>1, Followed
  <2>3. PICK P : /\ Locks!Trip \in P
                 /\ Piece(Locks!GetRun(r, TRUE) \o Locks!GetTrip("write", TRUE) \o Locks!Lock("artifact", a), {}, P)
    <3>1. Piece(Locks!Lock("artifact", a), R \cup {Locks!Trip}, {<<"artifact", a>>}) BY PlanPiece
    <3> QED BY <2>2, <3>1, Followed
  <2>4. PICK Q : /\ Locks!Trip \in Q
                 /\ Piece(Locks!GetRun(r, TRUE) \o Locks!GetTrip("write", TRUE) \o Locks!Lock("artifact", a)
                            \o Locks!Lock("version", a), {}, Q)
    <3>1. Piece(Locks!Lock("version", a), P, {<<"version", a>>}) BY <2>3, PlanPiece
    <3> QED BY <2>3, <3>1, Followed
  <2>5. PICK S : Piece(Locks!Supersede(a), Q, S) BY <2>4, SupersedePiece
  <2>6. Piece(Locks!GetRun(r, TRUE) \o Locks!GetTrip("write", TRUE) \o Locks!Lock("artifact", a)
                \o Locks!Lock("version", a) \o Locks!Supersede(a), {}, Q \cup S)
    BY <2>4, <2>5, Followed
  <2>7. Piece(Locks!UpdateTrip, Q \cup S, {}) BY <2>4, UpdatePiece
  <2> QED BY <2>6, <2>7, Followed, PieceStarts DEF Locks!PublishResult
<1> QED BY <1>3, <1>5, <1>6, <1>7, <1>8

\* The methods that start from an artifact: they lock its Trip before it.
LEMMA ArtifactTransactions ==
    ASSUME NEW a \in Artifacts
    PROVE  Starts(Locks!PatchArtifact(a)) /\ \A k \in Keys : Starts(Locks!CommandArtifact(a, k))
<1>1. Starts(Locks!PatchArtifact(a)) BY ArtifactPiece, PieceStarts DEF Locks!PatchArtifact
<1>2. ASSUME NEW k \in Keys PROVE Starts(Locks!CommandArtifact(a, k))
  <2> DEFINE J == {<<"journal", k>>}
  <2>1. Piece(Locks!GetArtifact(a, FALSE), {}, {})
    <3>1. Piece(Locks!GetTrip("write", FALSE), {}, {}) BY SeeTripPiece DEF Locks!Checks
    <3>2. {} = {} \cup {} OBVIOUS
    <3>3. Locks!GetArtifact(a, FALSE) = Locks!GetTrip("write", FALSE) \o <<>>
      BY DEF Locks!GetArtifact
    <3> QED BY <3>1, <3>2, <3>3, Nothing, Continued
  <2>2. Piece(Locks!Lock("journal", k), {}, J) BY LockPiece DEF Ids, Locks!Kinds, Locks!Guarded
  <2>3. {} \cup J = J /\ \A row \in J : Locks!Rank(row) < 2 BY DEF Locks!Rank
  <2> HIDE DEF J
  <2>4. Piece(Locks!GetArtifact(a, FALSE) \o Locks!Lock("journal", k), {}, J)
    BY <2>1, <2>2, <2>3, Followed
  <2>5. PICK R : Piece(Locks!GetArtifact(a, TRUE), J, {Locks!Trip} \cup R) BY <2>3, ArtifactPiece
  <2>6. PICK P : /\ Locks!Trip \in P
                 /\ Piece(Locks!GetArtifact(a, FALSE) \o Locks!Lock("journal", k) \o Locks!GetArtifact(a, TRUE),
                          {}, P)
    <3>1. Piece(Locks!GetArtifact(a, FALSE) \o Locks!Lock("journal", k) \o Locks!GetArtifact(a, TRUE), {},
                J \cup ({Locks!Trip} \cup R))
      BY <2>4, <2>5, Followed
    <3> QED BY <3>1
  <2>7. Piece(Locks!GetTrip("write", TRUE), P, {Locks!Trip}) BY <2>6, LockTripPiece DEF Locks!Checks
  <2>8. Piece(Locks!GetArtifact(a, FALSE) \o Locks!Lock("journal", k) \o Locks!GetArtifact(a, TRUE)
                \o Locks!GetTrip("write", TRUE), {}, P \cup {Locks!Trip})
    BY <2>6, <2>7, Followed
  <2>9. PICK S : Piece(Locks!Supersede(a), P \cup {Locks!Trip}, S) BY SupersedePiece
  <2>10. Piece(Locks!GetArtifact(a, FALSE) \o Locks!Lock("journal", k) \o Locks!GetArtifact(a, TRUE)
                 \o Locks!GetTrip("write", TRUE) \o Locks!Supersede(a), {}, P \cup {Locks!Trip} \cup S)
    BY <2>8, <2>9, Followed
  <2>11. Piece(Locks!UpdateTrip, P \cup {Locks!Trip} \cup S, {}) BY UpdatePiece
  <2> QED BY <2>10, <2>11, Followed, PieceStarts DEF Locks!CommandArtifact
<1> QED BY <1>1, <1>2

\* The access to a share's Trip is checked before the transaction, so its list has locks only.
AllLocks(q) == \A i \in 1 .. Len(q) : q[i].do = "lock"

\* create_share locks its key, the Trip and the source, in this order.
LEMMA ShareTransactions ==
    ASSUME NEW a \in Artifacts, NEW k \in Keys
    PROVE  Starts(Locks!CreateShare(a, k))
<1>1. ASSUME NEW p \in Seq(Locks!Statements), NEW q \in Seq(Locks!Statements), AllLocks(p), AllLocks(q)
      PROVE  AllLocks(p \o q)
  BY <1>1, Joined DEF AllLocks
<1>2. ASSUME NEW kind, NEW id PROVE AllLocks(Locks!Lock(kind, id))
  <2>1. Len(Locks!Lock(kind, id)) = 1 /\ Locks!Lock(kind, id)[1].do = "lock" BY DEF Locks!Lock
  <2>2. \A i \in 1 .. 1 : i = 1 OBVIOUS
  <2> QED BY <2>1, <2>2 DEF AllLocks
<1>3. Good(Locks!Lock("share", k), {}) /\ LockRows(Locks!Lock("share", k)) = {<<"share", k>>}
      /\ NoShare(Locks!Lock("share", k))
  BY LockPiece DEF Ids, Locks!Kinds, Locks!Guarded, Piece
<1>4. /\ Good(Locks!Lock("trip", ""), {<<"share", k>>}) /\ LockRows(Locks!Lock("trip", "")) = {Locks!Trip}
      /\ NoShare(Locks!Lock("trip", ""))
  <2> DEFINE s == [do |-> "lock", row |-> Locks!Trip]
  <2>1. s \in Locks!Statements /\ s.do = "lock" /\ s.row = Locks!Trip
    BY TripRow DEF Locks!Statements
  <2>2. Locks!Lock("trip", "") = <<s>> BY DEF Locks!Lock, Locks!Trip
  <2>3. Locks!Rank(<<"share", k>>) < Locks!Rank(Locks!Trip) BY TripRow DEF Locks!Rank
  <2> HIDE DEF s
  <2> QED BY <2>1, <2>2, <2>3, TripRow, Single
<1>5. PICK P : /\ Locks!Trip \in P /\ Good(Locks!Lock("share", k) \o Locks!Lock("trip", ""), {})
               /\ LockRows(Locks!Lock("share", k) \o Locks!Lock("trip", "")) = P
               /\ NoShare(Locks!Lock("share", k) \o Locks!Lock("trip", ""))
  <2> DEFINE p == Locks!Lock("share", k)
             q == Locks!Lock("trip", "")
  <2>1. {} \cup {<<"share", k>>} = {<<"share", k>>} OBVIOUS
  <2>2. Good(q, {} \cup LockRows(p)) BY <1>3, <1>4, <2>1
  <2> HIDE DEF p, q
  <2>3. Good(p \o q, {}) /\ NoShare(p \o q) /\ LockRows(p \o q) = LockRows(p) \cup LockRows(q)
    BY <1>3, <1>4, <2>2, Composed DEF p, q
  <2>4. Locks!Trip \in LockRows(p) \cup LockRows(q) BY <1>4 DEF q
  <2> QED BY <2>3, <2>4 DEF p, q
<1>6. PICK Q : /\ Locks!Trip \in Q
               /\ Good(Locks!Lock("share", k) \o Locks!Lock("trip", "") \o Locks!Lock("artifact", a), {})
               /\ LockRows(Locks!Lock("share", k) \o Locks!Lock("trip", "") \o Locks!Lock("artifact", a)) = Q
               /\ NoShare(Locks!Lock("share", k) \o Locks!Lock("trip", "") \o Locks!Lock("artifact", a))
  <2>1. {} \cup P = P OBVIOUS
  <2>2. Piece(Locks!Lock("artifact", a), P, {<<"artifact", a>>}) BY <1>5, PlanPiece
  <2> QED BY <1>5, <2>1, <2>2, Composed DEF Piece
<1>7. Good(Locks!CreateShare(a, k), {})
  <2>1. {} \cup Q = Q OBVIOUS
  <2>2. Piece(Locks!Lock("version", a), Q, {<<"version", a>>}) BY <1>6, PlanPiece
  <2> QED BY <1>6, <2>1, <2>2, Composed DEF Piece, Locks!CreateShare
<1>8. AllLocks(Locks!CreateShare(a, k))
  <2>1. Good(Locks!Lock("version", a), {Locks!Trip}) BY PlanPiece DEF Piece
  <2>2. Good(Locks!Lock("artifact", a), {Locks!Trip}) BY PlanPiece DEF Piece
  <2>3. /\ Locks!Lock("share", k) \in Seq(Locks!Statements) /\ Locks!Lock("trip", "") \in Seq(Locks!Statements)
        /\ Locks!Lock("version", a) \in Seq(Locks!Statements) /\ Locks!Lock("artifact", a) \in Seq(Locks!Statements)
    BY <1>3, <1>4, <2>1, <2>2 DEF Good
  <2>4. AllLocks(Locks!Lock("share", k) \o Locks!Lock("trip", ""))
    BY <1>1, <1>2, <2>3
  <2>5. AllLocks(Locks!Lock("share", k) \o Locks!Lock("trip", "") \o Locks!Lock("artifact", a))
    BY <1>1, <1>2, <1>5, <2>3, <2>4 DEF Good
  <2> QED BY <1>1, <1>2, <1>6, <2>3, <2>5 DEF Good, Locks!CreateShare
<1>9. Locks!CheckedAfter(Locks!CreateShare(a, k), None)
  BY <1>8 DEF Locks!CheckedAfter, AllLocks, Locks!Checks
<1> QED BY <1>7, <1>9 DEF Starts

\* Every transaction of the store keeps to the rules, and a change of the members locks the
\* Trip.
LEMMA CallsStart ==
    ASSUME NEW c \in Locks!Calls
    PROVE  /\ c.op \in Locks!Operations /\ Starts(c.todo)
           /\ c.op = "manage_member" => Locks!Trip \in LockRows(c.todo)
BY TripTransactions, RunTransactions, ArtifactTransactions, ShareTransactions
   DEF Locks!Calls, Locks!Call, Locks!Operations

-----------------------------------------------------------------------------
(* Steps *)

\* The rest of a list keeps to the rules that the list kept to, once its first statement has
\* been executed.
LEMMA Advancing ==
    ASSUME NEW q \in Seq(Locks!Statements), q # <<>>, NEW H, NEW G, NEW m, NEW n,
           NEW f \in BOOLEAN, NEW g \in BOOLEAN,
           Locks!InOrder(q, H), Locks!OnTheTrip(q, H, f), Locks!CheckedAfter(q, m),
           G = IF q[1].do = "lock" THEN H \cup {q[1].row} ELSE H,
           f \/ Locks!Locks(q, 1, Locks!Trip) => g,
           n = IF q[1].do \in Locks!Checks THEN q[1].do ELSE m
    PROVE  /\ Locks!InOrder(Tail(q), G) /\ Locks!OnTheTrip(Tail(q), G, g) /\ Locks!CheckedAfter(Tail(q), n)
           /\ Locks!LockedBy(q, Len(q) + 1, H, Locks!Trip) =>
                Locks!LockedBy(Tail(q), Len(Tail(q)) + 1, G, Locks!Trip)
<1> DEFINE r == Tail(q)
<1>1. /\ r \in Seq(Locks!Statements) /\ Len(r) = Len(q) - 1 /\ Len(q) \in Nat \ {0}
      /\ \A i \in 1 .. Len(r) : i + 1 \in 1 .. Len(q) /\ r[i] = q[i + 1]
  OBVIOUS
<1> HIDE DEF r
<1>2. ASSUME NEW i \in 1 .. Len(q), NEW row, Locks!LockedBy(q, i + 1, H, row)
      PROVE  Locks!LockedBy(r, i, G, row)
  <2>1. CASE row \in H BY <2>1 DEF Locks!LockedBy
  <2>2. ASSUME NEW j \in 1 .. (i + 1) - 1, Locks!Locks(q, j, row) PROVE Locks!LockedBy(r, i, G, row)
    <3>1. CASE j = 1 BY <2>2, <3>1 DEF Locks!Locks, Locks!LockedBy
    <3>2. CASE j # 1
      <4>1. j - 1 \in 1 .. i - 1 /\ j - 1 \in 1 .. Len(r) BY <1>1, <3>2
      <4>2. r[j - 1] = q[(j - 1) + 1] /\ (j - 1) + 1 = j BY <1>1, <4>1
      <4>3. Locks!Locks(r, j - 1, row) BY <2>2, <4>2 DEF Locks!Locks
      <4> QED BY <4>1, <4>3 DEF Locks!LockedBy
    <3> QED BY <3>1, <3>2
  <2> QED BY <1>2, <2>1, <2>2 DEF Locks!LockedBy
<1>3. Locks!InOrder(r, G)
  <2> SUFFICES ASSUME NEW i \in 1 .. Len(r), r[i].do \in {"lock", "share", "update"}
               PROVE  IF Locks!Guarded(r[i].row) THEN Locks!LockedBy(r, i, G, Locks!Trip)
                      ELSE \/ Locks!LockedBy(r, i, G, r[i].row)
                           \/ /\ \A row \in G : Locks!Rank(row) < Locks!Rank(r[i].row)
                              /\ \A j \in 1 .. i - 1 :
                                    r[j].do = "lock" => Locks!Rank(r[j].row) < Locks!Rank(r[i].row)
    BY DEF Locks!InOrder
  <2>1. i \in 1 .. Len(q) /\ i + 1 \in 1 .. Len(q) /\ r[i] = q[i + 1] BY <1>1
  <2>2. IF Locks!Guarded(r[i].row) THEN Locks!LockedBy(q, i + 1, H, Locks!Trip)
        ELSE \/ Locks!LockedBy(q, i + 1, H, r[i].row)
             \/ /\ \A row \in H : Locks!Rank(row) < Locks!Rank(r[i].row)
                /\ \A j \in 1 .. (i + 1) - 1 :
                      q[j].do = "lock" => Locks!Rank(q[j].row) < Locks!Rank(r[i].row)
    BY <2>1 DEF Locks!InOrder
  <2>3. ASSUME \A row \in H : Locks!Rank(row) < Locks!Rank(r[i].row),
               \A j \in 1 .. (i + 1) - 1 : q[j].do = "lock" => Locks!Rank(q[j].row) < Locks!Rank(r[i].row)
        PROVE  /\ \A row \in G : Locks!Rank(row) < Locks!Rank(r[i].row)
               /\ \A j \in 1 .. i - 1 : r[j].do = "lock" => Locks!Rank(r[j].row) < Locks!Rank(r[i].row)
    <3>1. 1 \in 1 .. (i + 1) - 1 BY <1>1
    <3>2. \A row \in G : Locks!Rank(row) < Locks!Rank(r[i].row) BY <2>3, <3>1
    <3>3. \A j \in 1 .. i - 1 : j + 1 \in 1 .. (i + 1) - 1 /\ r[j] = q[j + 1]
      <4>1. i \in Nat /\ Len(r) \in Nat /\ i <= Len(r) BY <1>1
      <4>2. \A j \in 1 .. i - 1 : j + 1 \in 1 .. (i + 1) - 1 /\ j \in 1 .. Len(r) BY <4>1
      <4> QED BY <1>1, <4>2
    <3> QED BY <2>3, <3>2, <3>3
  <2> QED BY <1>2, <2>1, <2>2, <2>3
<1>4. Locks!OnTheTrip(r, G, g)
  <2> SUFFICES ASSUME NEW i \in 1 .. Len(r)
               PROVE  /\ r[i].do \in {"share", "update"} => r[i].row = Locks!Trip
                      /\ r[i].do = "share" => i = Len(r)
                      /\ r[i].do = "update" => \/ Locks!Trip \in G /\ g
                                               \/ \E j \in 1 .. i - 1 : Locks!Locks(r, j, Locks!Trip)
    BY DEF Locks!OnTheTrip
  <2>1. i + 1 \in 1 .. Len(q) /\ r[i] = q[i + 1] BY <1>1
  <2>2. /\ r[i].do \in {"share", "update"} => r[i].row = Locks!Trip
        /\ r[i].do = "share" => i + 1 = Len(q)
        /\ r[i].do = "update" => \/ Locks!Trip \in H /\ f
                                 \/ \E j \in 1 .. (i + 1) - 1 : Locks!Locks(q, j, Locks!Trip)
    BY <2>1 DEF Locks!OnTheTrip
  <2>3. ASSUME NEW j \in 1 .. (i + 1) - 1, Locks!Locks(q, j, Locks!Trip)
        PROVE  (Locks!Trip \in G /\ g) \/ \E k \in 1 .. i - 1 : Locks!Locks(r, k, Locks!Trip)
    <3>1. CASE j = 1 BY <2>3, <3>1 DEF Locks!Locks
    <3>2. CASE j # 1
      <4>1. j - 1 \in 1 .. i - 1 /\ j - 1 \in 1 .. Len(r) BY <1>1, <3>2
      <4>2. r[j - 1] = q[(j - 1) + 1] /\ (j - 1) + 1 = j BY <1>1, <4>1
      <4>3. Locks!Locks(r, j - 1, Locks!Trip) BY <2>3, <4>2 DEF Locks!Locks
      <4> QED BY <4>1, <4>3
    <3> QED BY <3>1, <3>2
  <2>4. Locks!Trip \in H /\ f => Locks!Trip \in G /\ g OBVIOUS
  <2>5. r[i].do = "share" => i = Len(r) BY <1>1, <2>2
  <2> QED BY <2>2, <2>3, <2>4, <2>5
<1>5. Locks!CheckedAfter(r, n)
  <2> SUFFICES ASSUME NEW i \in 1 .. Len(r), Locks!Locks(r, i, Locks!Trip)
               PROVE  \/ \E j \in i + 1 .. Len(r) : r[j].do \in Locks!Checks
                      \/ n = None /\ \A j \in 1 .. Len(r) : r[j].do \notin Locks!Checks
    BY DEF Locks!CheckedAfter
  <2>1. i + 1 \in 1 .. Len(q) /\ Locks!Locks(q, i + 1, Locks!Trip) BY <1>1 DEF Locks!Locks
  <2>2. \/ \E j \in (i + 1) + 1 .. Len(q) : q[j].do \in Locks!Checks
        \/ m = None /\ \A j \in 1 .. Len(q) : q[j].do \notin Locks!Checks
    BY <2>1 DEF Locks!CheckedAfter
  <2>3. ASSUME NEW j \in (i + 1) + 1 .. Len(q), q[j].do \in Locks!Checks
        PROVE  \E k \in i + 1 .. Len(r) : r[k].do \in Locks!Checks
    <3>1. j - 1 \in i + 1 .. Len(r) /\ j - 1 \in 1 .. Len(r) BY <1>1
    <3>2. r[j - 1] = q[(j - 1) + 1] /\ (j - 1) + 1 = j BY <1>1, <3>1
    <3> QED BY <2>3, <3>1, <3>2
  <2>4. ASSUME m = None, \A j \in 1 .. Len(q) : q[j].do \notin Locks!Checks
        PROVE  n = None /\ \A j \in 1 .. Len(r) : r[j].do \notin Locks!Checks
    <3>1. 1 \in 1 .. Len(q) BY <1>1
    <3> QED BY <1>1, <2>4, <3>1
  <2> QED BY <2>2, <2>3, <2>4
<1>6. ASSUME Locks!LockedBy(q, Len(q) + 1, H, Locks!Trip) PROVE Locks!LockedBy(r, Len(r) + 1, G, Locks!Trip)
  <2>1. Len(q) \in 1 .. Len(q) /\ Len(r) + 1 = Len(q) BY <1>1
  <2> QED BY <1>2, <1>6, <2>1
<1> QED BY <1>3, <1>4, <1>5, <1>6 DEF r

\* WritersStayAllowed, of one transaction.
Entitled(t) ==
    /\ txns[t] # None /\ Locks!Trip \in held[t] /\ txns[t].may \in {"write", "own"}
    /\ \A i \in DOMAIN txns[t].todo : txns[t].todo[i].do \notin {"read", "write", "own"}
    => Locks!Allowed(txns[t].user, txns[t].may)

\* What a transaction is to do, and may do, is a matter of its own state alone.
LEMMA Unmoved ==
    ASSUME NEW u \in Txns, txns'[u] = txns[u], held'[u] = held[u], u \in shared' => u \in shared
    PROVE  /\ Locks!Disciplined(u) => Locks!Disciplined(u)'
           /\ Entitled(u) /\ role' = role => Entitled(u)'
<1>1. ASSUME Locks!Disciplined(u) PROVE Locks!Disciplined(u)' BY <1>1 DEF Locks!Disciplined
<1>2. ASSUME Entitled(u), role' = role PROVE Entitled(u)' BY <1>2 DEF Entitled, Locks!Allowed
<1> QED BY <1>1, <1>2

\* What is known of a transaction that has a statement to execute.
LEMMA OneStatement ==
    ASSUME Locks!IndInv, NEW t \in Txns, txns[t] # None, txns[t].todo # <<>>
    PROVE  /\ txns[t] \in Locks!Transactions /\ txns[t].todo \in Seq(Locks!Statements)
           /\ Head(txns[t].todo) = txns[t].todo[1] /\ txns[t].todo[1] \in Locks!Statements
           /\ Len(txns[t].todo) \in Nat \ {0} /\ Tail(txns[t].todo) \in Seq(Locks!Statements)
           /\ held[t] \in SUBSET Locks!Rows /\ t \notin shared /\ Locks!Disciplined(t) /\ Entitled(t)
<1>1. txns[t] \in Locks!Transactions /\ held[t] \in SUBSET Locks!Rows
  BY DEF Locks!IndInv, Locks!TypeOK
<1>2. txns[t].todo \in Seq(Locks!Statements) BY <1>1 DEF Locks!Transactions
<1>3. /\ Head(txns[t].todo) = txns[t].todo[1] /\ txns[t].todo[1] \in Locks!Statements
      /\ Len(txns[t].todo) \in Nat \ {0} /\ Tail(txns[t].todo) \in Seq(Locks!Statements)
  BY <1>2
<1>4. Locks!Disciplined(t) /\ Entitled(t) BY DEF Locks!IndInv, Locks!WritersStayAllowed, Entitled
<1>5. t \notin shared BY <1>4 DEF Locks!Disciplined
<1> QED BY <1>1, <1>2, <1>3, <1>4, <1>5

\* Whoever executes its next statement, without having to wait, keeps the invariant.
LEMMA Executing ==
    ASSUME Locks!IndInv, NEW t \in Txns, txns[t] # None, txns[t].todo # <<>>, Locks!Waits(t) = {},
           NEW y \in Locks!Transactions, txns' = [txns EXCEPT ![t] = y], role' = role,
           held' = [held EXCEPT ![t] = IF txns[t].todo[1].do = "lock"
                                       THEN @ \cup {txns[t].todo[1].row} ELSE @],
           shared' = IF txns[t].todo[1].do = "share" THEN shared \cup {t} ELSE shared,
           y.op = txns[t].op, y.user = txns[t].user, y.todo = Tail(txns[t].todo),
           txns[t].fresh \/ Locks!Locks(txns[t].todo, 1, Locks!Trip) => y.fresh,
           y.may = IF txns[t].todo[1].do \in Locks!Checks THEN txns[t].todo[1].do ELSE txns[t].may,
           y.wrote => txns[t].wrote \/ txns[t].todo[1].do = "update",
           txns[t].todo[1].do \in Locks!Checks => Locks!Allowed(txns[t].user, txns[t].todo[1].do),
           Locks!LockAssumption
    PROVE  Locks!IndInv'
<1> DEFINE x == txns[t]
           q == x.todo
           H == held[t]
           G == IF q[1].do = "lock" THEN H \cup {q[1].row} ELSE H
<1>1. /\ x \in Locks!Transactions /\ q \in Seq(Locks!Statements) /\ Head(q) = q[1] /\ q[1] \in Locks!Statements
      /\ Len(q) \in Nat \ {0} /\ Tail(q) \in Seq(Locks!Statements)
      /\ H \in SUBSET Locks!Rows /\ t \notin shared /\ Locks!Disciplined(t) /\ Entitled(t)
  BY OneStatement
<1>2. /\ held \in [Txns -> SUBSET Locks!Rows] /\ txns \in [Txns -> Locks!Transactions \cup {None}]
      /\ shared \subseteq Txns /\ role \in {"editor", "viewer", None}
  BY DEF Locks!IndInv, Locks!TypeOK
<1>3. /\ txns'[t] = y /\ held'[t] = G
      /\ \A u \in Txns : u # t => txns'[u] = txns[u] /\ held'[u] = held[u]
      /\ \A u \in Txns : u # t => (u \in shared' <=> u \in shared)
      /\ t \in shared' <=> q[1].do = "share"
  BY <1>1, <1>2
<1>4. y # None /\ q # <<>> BY DEF Locks!LockAssumption
<1>5. q[1].row \in Locks!Rows /\ G \in SUBSET Locks!Rows BY <1>1 DEF Locks!Statements
<1>6. Locks!TypeOK'
  <2>1. txns' \in [Txns -> Locks!Transactions \cup {None}] BY <1>2
  <2>2. held' \in [Txns -> SUBSET Locks!Rows] BY <1>2, <1>5
  <2>3. shared' \subseteq Txns BY <1>2
  <2> QED BY <1>2, <2>1, <2>2, <2>3 DEF Locks!TypeOK
<1>7. ASSUME NEW u \in Txns, u # t, q[1].do \in {"lock", "share", "update"}
      PROVE  q[1].row \notin held[u] /\ (q[1].row = Locks!Trip /\ q[1].do # "share" => u \notin shared)
  BY <1>1, <1>7 DEF Locks!Waits, Locks!Doing
<1>8. /\ \A i \in 1 .. Len(q) : q[i].do \in {"share", "update"} => q[i].row = Locks!Trip
      /\ \A i \in 1 .. Len(q) : q[i].do = "share" => i = Len(q)
      /\ Locks!InOrder(q, H) /\ Locks!OnTheTrip(q, H, x.fresh) /\ Locks!CheckedAfter(q, x.may)
      /\ x.op = "manage_member" => Locks!LockedBy(q, Len(q) + 1, H, Locks!Trip)
      /\ x.wrote => Locks!Trip \in H
      /\ \A row \in H : Locks!Guarded(row) => Locks!Trip \in H
  BY <1>1 DEF Locks!Disciplined, Locks!OnTheTrip
<1>9. 1 \in 1 .. Len(q) BY <1>1
<1>10. Locks!LocksExclude'
  <2>1. Locks!LocksExclude BY DEF Locks!IndInv
  <2>2. ASSUME NEW u \in Txns, u # t PROVE G \cap held[u] = {}
    BY <1>7, <2>1, <2>2 DEF Locks!LocksExclude
  <2>3. \A u \in Txns : txns'[u] = None => held'[u] = {} /\ u \notin shared'
    BY <1>3, <1>4, <2>1 DEF Locks!LocksExclude
  <2>4. \A u, v \in Txns : u # v => held'[u] \cap held'[v] = {}
    BY <1>3, <2>1, <2>2 DEF Locks!LocksExclude
  <2>5. ASSUME Locks!Trip \in G, NEW v \in shared', v # t PROVE FALSE
    <3>1. v \in shared /\ v \in Txns BY <1>2, <1>3, <2>5
    <3>2. CASE Locks!Trip \in H BY <2>1, <2>5, <3>1, <3>2 DEF Locks!LocksExclude
    <3>3. CASE Locks!Trip \notin H
      <4>1. q[1].do = "lock" /\ q[1].row = Locks!Trip BY <2>5, <3>3
      <4> QED BY <1>7, <2>5, <3>1, <4>1
    <3> QED BY <3>2, <3>3
  <2>6. ASSUME NEW u \in Txns, u # t, Locks!Trip \in held[u], NEW v \in shared', v # u PROVE FALSE
    <3>1. shared \subseteq {u} BY <2>1, <2>6 DEF Locks!LocksExclude
    <3>2. v = t /\ q[1].do = "share" BY <1>3, <2>6, <3>1
    <3>3. q[1].row = Locks!Trip BY <1>8, <1>9, <3>2
    <3> QED BY <1>7, <2>6, <3>2, <3>3
  <2>7. \A u \in Txns : Locks!Trip \in held'[u] => shared' \subseteq {u} BY <1>3, <2>5, <2>6
  <2> QED BY <2>3, <2>4, <2>7 DEF Locks!LocksExclude
<1>11. Entitled(t)'
  <2> SUFFICES ASSUME Locks!Trip \in G, y.may \in {"write", "own"},
                      \A i \in DOMAIN Tail(q) : Tail(q)[i].do \notin {"read", "write", "own"}
               PROVE  Locks!Allowed(y.user, y.may)'
    BY <1>3 DEF Entitled
  <2>1. Locks!Allowed(y.user, y.may)' <=> Locks!Allowed(x.user, y.may) BY DEF Locks!Allowed
  <2>2. CASE q[1].do \in Locks!Checks BY <2>1, <2>2
  <2>3. CASE q[1].do \notin Locks!Checks
    <3>1. y.may = x.may BY <2>3
    <3>2. \A i \in 1 .. Len(q) : q[i].do \notin Locks!Checks
      <4>1. ASSUME NEW i \in 1 .. Len(q), i # 1 PROVE q[i].do \notin Locks!Checks
        <5>1. /\ i - 1 \in 1 .. Len(Tail(q)) /\ Tail(q)[i - 1] = q[i]
              /\ DOMAIN Tail(q) = 1 .. Len(Tail(q))
          BY <1>1, <4>1
        <5> QED BY <5>1 DEF Locks!Checks
      <4> QED BY <2>3, <4>1
    <3>3. CASE Locks!Trip \in H
      <4>1. DOMAIN q = 1 .. Len(q) BY <1>1
      <4>2. Locks!Allowed(x.user, x.may)
        BY <1>1, <1>4, <3>1, <3>2, <3>3, <4>1 DEF Entitled, Locks!Checks
      <4> QED BY <2>1, <3>1, <4>2
    <3>4. CASE Locks!Trip \notin H
      <4>1. Locks!Locks(q, 1, Locks!Trip) BY <3>4 DEF Locks!Locks
      <4>2. \/ \E j \in 1 + 1 .. Len(q) : q[j].do \in Locks!Checks
            \/ x.may = None
        BY <1>8, <1>9, <4>1 DEF Locks!CheckedAfter
      <4>3. \A j \in 1 + 1 .. Len(q) : j \in 1 .. Len(q) BY <1>1
      <4>4. x.may = None BY <3>2, <4>2, <4>3
      <4> QED BY <3>1, <4>4 DEF Locks!LockAssumption, Locks!Checks
    <3> QED BY <3>3, <3>4
  <2> QED BY <2>2, <2>3
<1>12. Locks!Disciplined(t)'
  <2>1. x.fresh \in BOOLEAN /\ y.fresh \in BOOLEAN BY <1>1 DEF Locks!Transactions
  <2>2. /\ Locks!InOrder(Tail(q), G) /\ Locks!OnTheTrip(Tail(q), G, y.fresh) /\ Locks!CheckedAfter(Tail(q), y.may)
        /\ Locks!LockedBy(q, Len(q) + 1, H, Locks!Trip) => Locks!LockedBy(Tail(q), Len(Tail(q)) + 1, G, Locks!Trip)
    BY <1>1, <1>4, <1>8, <2>1, Advancing
  <2>3. y.wrote => Locks!Trip \in G
    <3>1. ASSUME q[1].do = "update" PROVE Locks!Trip \in H
      <4>1. ~ \E j \in 1 .. 1 - 1 : Locks!Locks(q, j, Locks!Trip) OBVIOUS
      <4> QED BY <1>8, <1>9, <3>1, <4>1 DEF Locks!OnTheTrip
    <3> QED BY <1>8, <3>1
  <2>4. t \in shared' => Tail(q) = <<>>
    <3>1. ASSUME t \in shared' PROVE Tail(q) = <<>>
      <4>1. 1 = Len(q) BY <1>3, <1>8, <1>9, <3>1
      <4>2. Len(Tail(q)) = 0 BY <1>1, <4>1
      <4> QED BY <1>1, <4>2, EmptySeq
    <3> QED BY <3>1
  <2>5. \A row \in G : Locks!Guarded(row) => Locks!Trip \in G
    <3>1. ASSUME q[1].do = "lock", Locks!Guarded(q[1].row) PROVE Locks!Trip \in H
      <4>1. Locks!LockedBy(q, 1, H, Locks!Trip) BY <1>8, <1>9, <3>1 DEF Locks!InOrder
      <4> QED BY <4>1 DEF Locks!LockedBy
    <3> QED BY <1>8, <3>1
  <2>6. y.op = "manage_member" => Locks!LockedBy(Tail(q), Len(Tail(q)) + 1, G, Locks!Trip)
    BY <1>8, <2>2
  <2> HIDE DEF G
  <2> QED BY <1>3, <2>2, <2>3, <2>4, <2>5, <2>6 DEF Locks!Disciplined
<1>13. ASSUME NEW u \in Txns, u # t PROVE Entitled(u)' /\ (txns'[u] # None => Locks!Disciplined(u)')
  <2>1. Entitled(u) /\ (txns[u] # None => Locks!Disciplined(u))
    BY DEF Locks!IndInv, Locks!WritersStayAllowed, Entitled
  <2> QED BY <1>3, <1>13, <2>1, Unmoved
<1>14. \A u \in Txns : Entitled(u)' /\ (txns'[u] # None => Locks!Disciplined(u)')
  BY <1>11, <1>12, <1>13
<1>15. Locks!WritersStayAllowed' BY <1>14 DEF Locks!WritersStayAllowed, Entitled
<1> QED BY <1>6, <1>10, <1>14, <1>15 DEF Locks!IndInv

\* Whoever ends a transaction, having changed the members or the Trip under its lock only,
\* keeps the invariant.
LEMMA Ending ==
    ASSUME Locks!IndInv, NEW t \in Txns, txns[t] # None, Locks!End(t), Locks!LockAssumption,
           txns' \in [Txns -> Locks!Transactions \cup {None}], txns'[t] = None,
           \A u \in Txns \ {t} :
                \/ txns'[u] = txns[u]
                \/ txns[u] # None /\ txns[t].wrote /\ txns'[u] = [txns[u] EXCEPT !.fresh = FALSE],
           role' \in {"editor", "viewer", None}, role' = role \/ Locks!Trip \in held[t]
    PROVE  Locks!IndInv'
<1>1. /\ held \in [Txns -> SUBSET Locks!Rows] /\ txns \in [Txns -> Locks!Transactions \cup {None}]
      /\ shared \subseteq Txns /\ Locks!LocksExclude
  BY DEF Locks!IndInv, Locks!TypeOK
<1>2. /\ held'[t] = {} /\ \A u \in Txns : u # t => held'[u] = held[u]
      /\ shared' \subseteq shared /\ t \notin shared'
  BY <1>1 DEF Locks!End
<1>3. Locks!TypeOK'
  <2>1. held' \in [Txns -> SUBSET Locks!Rows] BY <1>1 DEF Locks!End
  <2>2. shared' \subseteq Txns BY <1>1, <1>2
  <2> QED BY <2>1, <2>2 DEF Locks!TypeOK
<1>4. txns[t].wrote => Locks!Trip \in held[t] BY DEF Locks!IndInv, Locks!Disciplined
<1>5. ASSUME NEW u \in Txns, u # t, Locks!Trip \in held[t] PROVE Locks!Trip \notin held[u]
  BY <1>1, <1>5 DEF Locks!LocksExclude
<1>6. ASSUME NEW u \in Txns, u # t, txns'[u] # txns[u]
      PROVE  /\ txns[u] \in Locks!Transactions /\ txns'[u] \in Locks!Transactions /\ txns'[u] # None
             /\ Locks!Trip \notin held[u] /\ txns'[u].op = txns[u].op /\ txns'[u].todo = txns[u].todo
             /\ txns'[u].may = txns[u].may /\ txns'[u].wrote = txns[u].wrote
             /\ txns[u] # None
  <2>1. /\ txns[u] # None /\ txns[t].wrote /\ txns'[u] = [txns[u] EXCEPT !.fresh = FALSE]
        /\ txns[u] \in Locks!Transactions
    BY <1>1, <1>6
  <2>2. txns'[u] \in Locks!Transactions BY <2>1 DEF Locks!Transactions
  <2> QED BY <1>4, <1>5, <1>6, <2>1, <2>2 DEF Locks!Transactions, Locks!LockAssumption
<1>7. Locks!LocksExclude'
  <2>1. ASSUME NEW u \in Txns, txns'[u] = None PROVE held'[u] = {} /\ u \notin shared'
    BY <1>1, <1>2, <1>6, <2>1 DEF Locks!LocksExclude
  <2>2. \A u, v \in Txns : u # v => held'[u] \cap held'[v] = {} BY <1>1, <1>2 DEF Locks!LocksExclude
  <2>3. \A u \in Txns : Locks!Trip \in held'[u] => shared' \subseteq {u}
    BY <1>1, <1>2 DEF Locks!LocksExclude
  <2> QED BY <2>1, <2>2, <2>3 DEF Locks!LocksExclude
<1>8. ASSUME NEW u \in Txns PROVE Entitled(u)'
  <2>1. CASE u = t BY <1>2, <2>1 DEF Entitled
  <2>2. CASE u # t /\ Locks!Trip \notin held[u] BY <1>2, <2>2 DEF Entitled
  <2>3. CASE u # t /\ Locks!Trip \in held[u]
    <3>1. txns'[u] = txns[u] /\ role' = role BY <1>5, <1>6, <2>3
    <3>2. Entitled(u) BY DEF Locks!IndInv, Locks!WritersStayAllowed, Entitled
    <3> QED BY <1>2, <2>3, <3>1, <3>2, Unmoved
  <2> QED BY <2>1, <2>2, <2>3
<1>9. ASSUME NEW u \in Txns, txns'[u] # None PROVE Locks!Disciplined(u)'
  <2>1. u # t BY <1>9
  <2>2. CASE txns'[u] = txns[u] BY <1>2, <1>9, <2>1, <2>2, Unmoved DEF Locks!IndInv
  <2>3. CASE txns'[u] # txns[u]
    <3>1. Locks!Disciplined(u) BY <1>6, <2>1, <2>3 DEF Locks!IndInv
    <3>2. Locks!OnTheTrip(txns[u].todo, held[u], txns'[u].fresh)
      BY <1>6, <2>1, <2>3, <3>1 DEF Locks!Disciplined, Locks!OnTheTrip
    <3> QED BY <1>2, <1>6, <2>1, <2>3, <3>1, <3>2 DEF Locks!Disciplined
  <2> QED BY <2>2, <2>3
<1>10. Locks!WritersStayAllowed' BY <1>8 DEF Locks!WritersStayAllowed, Entitled
<1> QED BY <1>3, <1>7, <1>9, <1>10 DEF Locks!IndInv

\* A transaction begins with a list that keeps to the rules.
LEMMA Beginning ==
    ASSUME Locks!IndInv, Locks!LockAssumption, NEW t \in Txns, Locks!Begin(t)
    PROVE  Locks!IndInv'
<1>1. PICK c \in Locks!Calls, user \in Locks!Users :
        txns' = [txns EXCEPT ![t] = [op |-> c.op, user |-> user, todo |-> c.todo,
                                     fresh |-> FALSE, may |-> None, wrote |-> FALSE]]
  BY DEF Locks!Begin
<1> DEFINE y == [op |-> c.op, user |-> user, todo |-> c.todo,
                 fresh |-> FALSE, may |-> None, wrote |-> FALSE]
<1>2. /\ held \in [Txns -> SUBSET Locks!Rows] /\ txns \in [Txns -> Locks!Transactions \cup {None}]
      /\ shared \subseteq Txns /\ role \in {"editor", "viewer", None} /\ Locks!LocksExclude
  BY DEF Locks!IndInv, Locks!TypeOK
<1>3. txns[t] = None /\ role' = role /\ held' = held /\ shared' = shared BY DEF Locks!Begin
<1>4. held[t] = {} /\ t \notin shared BY <1>2, <1>3 DEF Locks!LocksExclude
<1>5. /\ c.op \in Locks!Operations /\ c.todo \in Seq(Locks!Statements) /\ Locks!InOrder(c.todo, {})
      /\ Locks!OnTheTrip(c.todo, {}, Locks!Trip \in {}) /\ Locks!CheckedAfter(c.todo, None)
      /\ c.op = "manage_member" => Locks!Trip \in LockRows(c.todo)
  BY CallsStart DEF Starts, Good
<1>6. y \in Locks!Transactions BY <1>5 DEF Locks!Transactions
<1>7. y # None BY <1>6 DEF Locks!LockAssumption
<1>8. txns'[t] = y /\ \A u \in Txns : u # t => txns'[u] = txns[u] BY <1>1, <1>2
<1>9. txns' \in [Txns -> Locks!Transactions \cup {None}] BY <1>1, <1>2, <1>6
<1>10. Locks!OnTheTrip(c.todo, {}, FALSE) BY <1>5 DEF Locks!OnTheTrip
<1>11. c.op = "manage_member" => Locks!LockedBy(c.todo, Len(c.todo) + 1, {}, Locks!Trip)
  <2>1. ASSUME NEW i \in 1 .. Len(c.todo), c.todo[i].do = "lock", c.todo[i].row = Locks!Trip
        PROVE  Locks!LockedBy(c.todo, Len(c.todo) + 1, {}, Locks!Trip)
    <3>1. Len(c.todo) \in Nat BY <1>5
    <3>2. i \in 1 .. (Len(c.todo) + 1) - 1 BY <3>1
    <3> QED BY <2>1, <3>2 DEF Locks!LockedBy, Locks!Locks
  <2> QED BY <1>5, <2>1 DEF LockRows
<1> HIDE DEF y
<1>12. y.op = c.op /\ y.todo = c.todo /\ y.fresh = FALSE /\ y.may = None /\ y.wrote = FALSE
  BY DEF y
<1>13. Locks!LocksExclude' BY <1>2, <1>3, <1>4, <1>8 DEF Locks!LocksExclude
<1>14. ASSUME NEW u \in Txns PROVE Entitled(u)' /\ (txns'[u] # None => Locks!Disciplined(u)')
  <2>1. CASE u = t
    <3>1. Entitled(u)' BY <1>3, <1>4, <2>1 DEF Entitled
    <3>2. Locks!Disciplined(u)'
      BY <1>3, <1>4, <1>5, <1>8, <1>10, <1>11, <1>12, <2>1 DEF Locks!Disciplined
    <3> QED BY <3>1, <3>2
  <2>2. CASE u # t
    <3>1. Entitled(u) /\ (txns[u] # None => Locks!Disciplined(u))
      BY DEF Locks!IndInv, Locks!WritersStayAllowed, Entitled
    <3> QED BY <1>3, <1>8, <2>2, <3>1, Unmoved
  <2> QED BY <2>1, <2>2
<1>15. Locks!WritersStayAllowed' BY <1>14 DEF Locks!WritersStayAllowed, Entitled
<1>16. Locks!TypeOK' BY <1>2, <1>3, <1>9 DEF Locks!TypeOK
<1> QED BY <1>13, <1>14, <1>15, <1>16 DEF Locks!IndInv

\* Every step keeps the invariant.
LEMMA StepKeeps ==
    ASSUME Locks!LockAssumption, Locks!IndInv, [Locks!Next]_(Locks!vars)
    PROVE  Locks!IndInv'
<1>1. CASE UNCHANGED Locks!vars
  <2>1. role' = role /\ txns' = txns /\ held' = held /\ shared' = shared BY <1>1 DEF Locks!vars
  <2>2. Locks!TypeOK' /\ Locks!LocksExclude'
    BY <2>1 DEF Locks!IndInv, Locks!TypeOK, Locks!LocksExclude
  <2>3. Locks!WritersStayAllowed' BY <2>1 DEF Locks!IndInv, Locks!WritersStayAllowed, Locks!Allowed
  <2>4. ASSUME NEW u \in Txns, txns'[u] # None PROVE Locks!Disciplined(u)'
    BY <2>1, <2>4, Unmoved DEF Locks!IndInv
  <2> QED BY <2>2, <2>3, <2>4 DEF Locks!IndInv
<1>2. ASSUME NEW t \in Txns, Locks!Begin(t) PROVE Locks!IndInv' BY <1>2, Beginning
<1>3. ASSUME NEW t \in Txns, Locks!TakeLock(t) PROVE Locks!IndInv'
  <2> DEFINE q == txns[t].todo
             y == Locks!After(t)
  <2>1. /\ txns[t] # None /\ q # <<>> /\ Locks!Waits(t) = {} /\ txns' = [txns EXCEPT ![t] = y]
        /\ role' = role /\ Head(q).do \in {"lock", "see", "share"}
    BY <1>3 DEF Locks!TakeLock, Locks!Doing
  <2>2. /\ txns[t] \in Locks!Transactions /\ q \in Seq(Locks!Statements) /\ Head(q) = q[1]
        /\ Tail(q) \in Seq(Locks!Statements) /\ held \in [Txns -> SUBSET Locks!Rows]
    BY <2>1, OneStatement DEF Locks!IndInv, Locks!TypeOK
  <2>3. held' = [held EXCEPT ![t] = IF q[1].do = "lock" THEN @ \cup {q[1].row} ELSE @]
    <3>1. CASE q[1].do = "lock" BY <1>3, <2>1, <2>2, <3>1 DEF Locks!TakeLock, Locks!Doing
    <3>2. CASE q[1].do # "lock"
      <4>1. held' = held BY <1>3, <2>1, <2>2, <3>2 DEF Locks!TakeLock, Locks!Doing
      <4> QED BY <2>2, <3>2, <4>1
    <3> QED BY <3>1, <3>2
  <2>4. shared' = IF q[1].do = "share" THEN shared \cup {t} ELSE shared
    BY <1>3, <2>1, <2>2 DEF Locks!TakeLock, Locks!Doing
  <2>5. (txns[t].fresh \/ q[1].row = Locks!Trip) \in BOOLEAN OBVIOUS
  <2>6. /\ y \in Locks!Transactions /\ y.op = txns[t].op /\ y.user = txns[t].user /\ y.todo = Tail(q)
        /\ y.may = txns[t].may /\ y.wrote = txns[t].wrote
    BY <2>2, <2>5 DEF Locks!After, Locks!Transactions
  <2>7. txns[t].fresh \/ q[1].row = Locks!Trip => y.fresh
    BY <2>2 DEF Locks!After, Locks!Transactions
  <2>8. q[1].do \notin Locks!Checks BY <2>1, <2>2 DEF Locks!Checks
  <2>9. txns[t].fresh \/ Locks!Locks(q, 1, Locks!Trip) => y.fresh BY <2>7 DEF Locks!Locks
  <2>10. y.wrote => txns[t].wrote BY <2>6
  <2> HIDE DEF y
  <2> QED BY <2>1, <2>3, <2>4, <2>6, <2>8, <2>9, <2>10, Executing
<1>4. ASSUME NEW t \in Txns, Locks!CheckAccess(t) PROVE Locks!IndInv'
  <2> DEFINE q == txns[t].todo
             y == [txns[t] EXCEPT !.todo = Tail(q), !.may = Head(q).do]
  <2>1. /\ txns[t] # None /\ q # <<>> /\ role' = role /\ held' = held /\ shared' = shared
        /\ Head(q).do \in Locks!Checks /\ Locks!Allowed(txns[t].user, Head(q).do)
    BY <1>4 DEF Locks!CheckAccess, Locks!Doing, Locks!Checks
  <2>2. /\ txns[t] \in Locks!Transactions /\ q \in Seq(Locks!Statements) /\ Head(q) = q[1]
        /\ Tail(q) \in Seq(Locks!Statements) /\ held \in [Txns -> SUBSET Locks!Rows]
        /\ txns \in [Txns -> Locks!Transactions \cup {None}]
    BY <2>1, OneStatement DEF Locks!IndInv, Locks!TypeOK
  <2>3. txns' = [txns EXCEPT ![t] = y] BY <1>4, <2>2 DEF Locks!CheckAccess
  <2>4. /\ y \in Locks!Transactions /\ y.op = txns[t].op /\ y.user = txns[t].user /\ y.todo = Tail(q)
        /\ y.may = q[1].do /\ y.wrote = txns[t].wrote /\ y.fresh = txns[t].fresh
    BY <2>1, <2>2 DEF Locks!Transactions
  <2>5. Locks!Waits(t) = {} BY <2>1 DEF Locks!Waits, Locks!Doing, Locks!Checks
  <2>6. q[1].do # "lock" /\ q[1].do # "share" /\ q[1].do # "update" BY <2>1, <2>2 DEF Locks!Checks
  <2>7. held' = [held EXCEPT ![t] = IF q[1].do = "lock" THEN @ \cup {q[1].row} ELSE @]
    BY <2>1, <2>2, <2>6
  <2>8. shared' = IF q[1].do = "share" THEN shared \cup {t} ELSE shared BY <2>1, <2>6
  <2>9. txns[t].fresh \/ Locks!Locks(q, 1, Locks!Trip) => y.fresh BY <2>4, <2>6 DEF Locks!Locks
  <2>10. y.wrote => txns[t].wrote BY <2>4
  <2> HIDE DEF y
  <2> QED BY <2>1, <2>2, <2>3, <2>4, <2>5, <2>7, <2>8, <2>9, <2>10, Executing
<1>5. ASSUME NEW t \in Txns, Locks!WriteTrip(t) PROVE Locks!IndInv'
  <2> DEFINE q == txns[t].todo
             y == [txns[t] EXCEPT !.todo = Tail(q), !.wrote = TRUE]
  <2>1. /\ txns[t] # None /\ q # <<>> /\ role' = role /\ shared' = shared /\ Locks!Waits(t) = {}
        /\ Head(q).do = "update"
    BY <1>5 DEF Locks!WriteTrip, Locks!Doing
  <2>2. /\ txns[t] \in Locks!Transactions /\ q \in Seq(Locks!Statements) /\ Head(q) = q[1]
        /\ Tail(q) \in Seq(Locks!Statements) /\ held \in [Txns -> SUBSET Locks!Rows] /\ Len(q) \in Nat \ {0}
        /\ txns \in [Txns -> Locks!Transactions \cup {None}] /\ Locks!OnTheTrip(q, held[t], txns[t].fresh)
    BY <2>1, OneStatement DEF Locks!IndInv, Locks!TypeOK, Locks!Disciplined
  <2>3. txns' = [txns EXCEPT ![t] = y] BY <1>5, <2>2 DEF Locks!WriteTrip
  <2>4. /\ y \in Locks!Transactions /\ y.op = txns[t].op /\ y.user = txns[t].user /\ y.todo = Tail(q)
        /\ y.may = txns[t].may /\ y.fresh = txns[t].fresh
    BY <2>1, <2>2 DEF Locks!Transactions
  <2>5. Locks!Trip \in held[t]
    <3>1. 1 \in 1 .. Len(q) /\ ~ \E j \in 1 .. 1 - 1 : Locks!Locks(q, j, Locks!Trip) BY <2>2
    <3> QED BY <2>1, <2>2, <3>1 DEF Locks!OnTheTrip
  <2>6. held[t] \cup {Locks!Trip} = held[t] BY <2>5
  <2>7. held' = held BY <1>5, <2>2, <2>6 DEF Locks!WriteTrip
  <2>8. q[1].do # "lock" /\ q[1].do # "share" /\ q[1].do \notin Locks!Checks /\ q[1].do = "update"
    BY <2>1, <2>2 DEF Locks!Checks
  <2>9. held' = [held EXCEPT ![t] = IF q[1].do = "lock" THEN @ \cup {q[1].row} ELSE @]
    BY <2>2, <2>7, <2>8
  <2>10. shared' = IF q[1].do = "share" THEN shared \cup {t} ELSE shared BY <2>1, <2>8
  <2>11. txns[t].fresh \/ Locks!Locks(q, 1, Locks!Trip) => y.fresh BY <2>4, <2>8 DEF Locks!Locks
  <2> HIDE DEF y
  <2> QED BY <2>1, <2>3, <2>4, <2>8, <2>9, <2>10, <2>11, Executing
<1>6. ASSUME NEW t \in Txns, Locks!Commit(t) PROVE Locks!IndInv'
  <2>1. /\ txns[t] # None /\ txns[t].todo = <<>> /\ Locks!End(t)
        /\ txns \in [Txns -> Locks!Transactions \cup {None}] /\ role \in {"editor", "viewer", None}
    BY <1>6 DEF Locks!Commit, Locks!IndInv, Locks!TypeOK
  <2>2. txns'[t] = None BY <1>6 DEF Locks!Commit
  <2>3. ASSUME NEW u \in Txns \ {t}
        PROVE  /\ txns'[u] \in Locks!Transactions \cup {None}
               /\ \/ txns'[u] = txns[u]
                  \/ /\ txns[u] # None /\ txns[t].wrote
                     /\ txns'[u] = [txns[u] EXCEPT !.fresh = FALSE]
    <3>1. CASE txns[u] # None /\ txns[t].wrote
      <4>1. txns'[u] = [txns[u] EXCEPT !.fresh = FALSE] BY <1>6, <3>1 DEF Locks!Commit
      <4>2. txns[u] \in Locks!Transactions BY <2>1, <3>1
      <4>3. txns'[u] \in Locks!Transactions BY <4>1, <4>2 DEF Locks!Transactions
      <4> QED BY <3>1, <4>1, <4>3
    <3>2. CASE ~(txns[u] # None /\ txns[t].wrote)
      <4>1. txns'[u] = txns[u] BY <1>6, <3>2 DEF Locks!Commit
      <4> QED BY <2>1, <4>1
    <3> QED BY <3>1, <3>2
  <2>4. txns' = [u \in Txns |-> txns'[u]] BY <1>6 DEF Locks!Commit
  <2>5. \A u \in Txns : txns'[u] \in Locks!Transactions \cup {None} BY <2>2, <2>3
  <2>6. txns' \in [Txns -> Locks!Transactions \cup {None}] BY <2>4, <2>5
  <2>7. role' \in {"editor", "viewer", None} BY <1>6, <2>1 DEF Locks!Commit
  <2>8. ASSUME role' # role PROVE Locks!Trip \in held[t]
    <3>1. txns[t].op = "manage_member" BY <1>6, <2>8 DEF Locks!Commit
    <3>2. Locks!LockedBy(<<>>, Len(<<>>) + 1, held[t], Locks!Trip)
      BY <2>1, <3>1 DEF Locks!IndInv, Locks!Disciplined
    <3>3. ~ \E j \in 1 .. (Len(<<>>) + 1) - 1 : Locks!Locks(<<>>, j, Locks!Trip) OBVIOUS
    <3> QED BY <3>2, <3>3 DEF Locks!LockedBy
  <2> QED BY <2>1, <2>2, <2>3, <2>6, <2>7, <2>8, Ending
<1>7. ASSUME NEW t \in Txns, Locks!Rollback(t) PROVE Locks!IndInv'
  <2>1. /\ txns[t] # None /\ Locks!End(t) /\ txns' = [txns EXCEPT ![t] = None] /\ role' = role
        /\ txns \in [Txns -> Locks!Transactions \cup {None}] /\ role \in {"editor", "viewer", None}
    BY <1>7 DEF Locks!Rollback, Locks!IndInv, Locks!TypeOK
  <2>2. txns' \in [Txns -> Locks!Transactions \cup {None}] BY <2>1
  <2>3. txns'[t] = None /\ \A u \in Txns \ {t} : txns'[u] = txns[u] BY <2>1
  <2> QED BY <2>1, <2>2, <2>3, Ending
<1> QED BY <1>1, <1>2, <1>3, <1>4, <1>5, <1>6, <1>7 DEF Locks!Next

-----------------------------------------------------------------------------
(* What follows from the invariant *)

\* The row a transaction waits for.
Wanted(t) == txns[t].todo[1].row

\* Of transactions that all wait for one another, each waits for a row that comes later in
\* the order than the row that another waits for it to release.
LEMMA Climbing ==
    ASSUME Locks!IndInv, NEW t \in Txns, NEW u \in Locks!Waits(t), NEW v \in Locks!Waits(u), Locks!Waits(v) # {}
    PROVE  Locks!Rank(Wanted(t)) < Locks!Rank(Wanted(u))
<1>1. Locks!LocksExclude BY DEF Locks!IndInv
<1>2. ASSUME NEW s \in Txns, Locks!Waits(s) # {}
      PROVE  /\ txns[s] # None /\ txns[s].todo # <<>> /\ s \notin shared /\ Locks!Disciplined(s)
             /\ Head(txns[s].todo) = txns[s].todo[1] /\ 1 \in 1 .. Len(txns[s].todo)
             /\ txns[s].todo[1].do \in {"lock", "share", "update"}
  <2>1. txns[s] # None /\ txns[s].todo # <<>> /\ Locks!Doing(s, {"lock", "share", "update"})
    BY <1>2 DEF Locks!Waits, Locks!Doing
  <2>2. /\ Head(txns[s].todo) = txns[s].todo[1] /\ Len(txns[s].todo) \in Nat \ {0}
        /\ s \notin shared /\ Locks!Disciplined(s)
    BY <2>1, OneStatement
  <2> QED BY <2>1, <2>2 DEF Locks!Doing
<1>3. ASSUME NEW s \in Txns, NEW w \in Locks!Waits(s), Locks!Waits(w) # {}
      PROVE  w \in Txns /\ w # s /\ Wanted(s) \in held[w]
  <2>1. w \in Txns /\ w # s BY <1>3 DEF Locks!Waits
  <2>2. Head(txns[s].todo) = txns[s].todo[1] /\ w \notin shared BY <1>2, <1>3, <2>1
  <2> QED BY <2>1, <2>2 DEF Locks!Waits, Wanted
<1>4. u \in Txns /\ Wanted(t) \in held[u] BY <1>3
<1>5. v \in Txns /\ v # u /\ Wanted(u) \in held[v] BY <1>3, <1>4
<1>6. Wanted(u) \notin held[u] /\ ~(Locks!Trip \in held[u] /\ Locks!Trip \in held[v])
  BY <1>1, <1>4, <1>5 DEF Locks!LocksExclude
<1>7. Locks!Disciplined(u) /\ Locks!Disciplined(v) BY <1>2, <1>4, <1>5
<1>8. /\ Locks!InOrder(txns[u].todo, held[u]) /\ 1 \in 1 .. Len(txns[u].todo)
      /\ txns[u].todo[1].do \in {"lock", "share", "update"}
  BY <1>2, <1>4, <1>7 DEF Locks!Disciplined
<1>9. \A H, row : Locks!LockedBy(txns[u].todo, 1, H, row) => row \in H BY DEF Locks!LockedBy
<1>10. ~Locks!Guarded(Wanted(u))
  <2>1. ASSUME Locks!Guarded(Wanted(u)) PROVE FALSE
    <3>1. Locks!Trip \in held[v] BY <1>5, <1>7, <2>1 DEF Locks!Disciplined
    <3>2. Locks!Trip \in held[u] BY <1>8, <1>9, <2>1 DEF Locks!InOrder, Wanted
    <3> QED BY <1>6, <3>1, <3>2
  <2> QED BY <2>1
<1>11. \A row \in held[u] : Locks!Rank(row) < Locks!Rank(Wanted(u))
  BY <1>6, <1>8, <1>9, <1>10 DEF Locks!InOrder, Wanted
<1> QED BY <1>4, <1>11

\* Every row has one of three ranks, so nobody climbs for ever.
LEMMA NobodyIsStuck ==
    ASSUME Locks!IndInv
    PROVE  Locks!NoDeadlock
<1> SUFFICES ASSUME NEW W \in SUBSET Txns, W # {}, \A t \in W : Locks!Waits(t) \cap W # {}
             PROVE  FALSE
  BY DEF Locks!NoDeadlock
<1>1. PICK a \in W : TRUE OBVIOUS
<1>2. PICK b \in W : b \in Locks!Waits(a) OBVIOUS
<1>3. PICK c \in W : c \in Locks!Waits(b) OBVIOUS
<1>4. PICK d \in W : d \in Locks!Waits(c) OBVIOUS
<1>5. PICK e \in W : e \in Locks!Waits(d) OBVIOUS
<1>6. \A t \in W : t \in Txns /\ Locks!Waits(t) # {} OBVIOUS
<1>7. Locks!Rank(Wanted(a)) < Locks!Rank(Wanted(b)) BY <1>2, <1>3, <1>6, Climbing
<1>8. Locks!Rank(Wanted(b)) < Locks!Rank(Wanted(c)) BY <1>3, <1>4, <1>6, Climbing
<1>9. Locks!Rank(Wanted(c)) < Locks!Rank(Wanted(d)) BY <1>4, <1>5, <1>6, Climbing
<1>10. \A row : Locks!Rank(row) \in 1 .. 3 BY DEF Locks!Rank
<1> QED BY <1>7, <1>8, <1>9, <1>10

\* An update finds the Trip row as its transaction has read it.
LEMMA UpdatesHit ==
    ASSUME Locks!IndInv
    PROVE  Locks!TripUpdateHits
<1> SUFFICES ASSUME NEW t \in Txns, Locks!Doing(t, {"update"})
             PROVE  txns[t].fresh
  BY DEF Locks!TripUpdateHits
<1>1. txns[t] # None /\ txns[t].todo # <<>> /\ Head(txns[t].todo).do = "update" BY DEF Locks!Doing
<1>2. /\ Head(txns[t].todo) = txns[t].todo[1] /\ Len(txns[t].todo) \in Nat \ {0}
      /\ Locks!Disciplined(t)
  BY <1>1, OneStatement
<1>3. 1 \in 1 .. Len(txns[t].todo) /\ ~ \E j \in 1 .. 1 - 1 : Locks!Locks(txns[t].todo, j, Locks!Trip)
  BY <1>2
<1> QED BY <1>1, <1>2, <1>3 DEF Locks!Disciplined, Locks!OnTheTrip

\* The invariant holds at the start, when nobody has begun.
LEMMA InitHolds == ASSUME Locks!LockAssumption, Locks!Init PROVE Locks!IndInv
<1>1. /\ role = "editor" /\ txns = [t \in Txns |-> None] /\ held = [t \in Txns |-> {}]
      /\ shared = {}
  BY DEF Locks!Init
<1>2. \A t \in Txns : txns[t] = None /\ held[t] = {} BY <1>1
<1>3. Locks!TypeOK BY <1>1 DEF Locks!TypeOK
<1>4. Locks!LocksExclude BY <1>1, <1>2 DEF Locks!LocksExclude
<1>5. Locks!WritersStayAllowed BY <1>2 DEF Locks!WritersStayAllowed
<1> QED BY <1>2, <1>3, <1>4, <1>5 DEF Locks!IndInv

\* However many of the transactions of PostgresPlatformStore and ShareService run at a time,
\* row locks exclude, and every list of statements still to be executed keeps to the order
\* of locking, of reading the Trip before its update, and of checking the access after it.
THEOREM LockInvariance == Locks!LockAssumption => (Locks!Spec => []Locks!IndInv)
<1> SUFFICES ASSUME Locks!LockAssumption PROVE Locks!Spec => []Locks!IndInv OBVIOUS
<1>1. Locks!Init => Locks!IndInv BY InitHolds
<1>2. Locks!IndInv /\ [Locks!Next]_(Locks!vars) => Locks!IndInv' BY StepKeeps
<1> QED BY <1>1, <1>2, PTL DEF Locks!Spec

\* No set of transactions, of whatever number, waits for each other; the UPDATE of a Trip
\* finds the row that was read; and nobody writes by a right it has lost.
THEOREM LockSafety == Locks!LockAssumption => (Locks!Spec => []Locks!TransactionsAreSafe)
<1> SUFFICES ASSUME Locks!LockAssumption PROVE Locks!Spec => []Locks!TransactionsAreSafe OBVIOUS
<1>1. Locks!Spec => []Locks!IndInv BY LockInvariance
<1>2. Locks!IndInv => Locks!TransactionsAreSafe
  BY NobodyIsStuck, UpdatesHit DEF Locks!TransactionsAreSafe, Locks!IndInv
<1> QED BY <1>1, <1>2, PTL

\* So it is of the specification that TLC checks: no set of the store's transactions, of
\* whatever number, deadlocks; updates of the Trip hit; nobody writes by a right it has lost.
THEOREM TransactionsCorrect == Spec => []TransactionsAreSafe
<1>1. Spec => Locks!Spec
  <2>1. Init => Locks!Init BY DEF Init
  <2>2. [Next]_vars => [Locks!Next]_(Locks!vars)
    <3> SUFFICES ASSUME [Next]_vars PROVE [Locks!Next]_(Locks!vars) OBVIOUS
    <3>1. Locks!Next \/ UNCHANGED lockVars BY DEF Next, vars
    <3> QED BY <3>1 DEF lockVars, Locks!vars
  <2> QED BY <2>1, <2>2, PTL DEF Spec, Locks!Spec
<1>2. Locks!Spec => []Locks!TransactionsAreSafe BY LockConstants, LockSafety
<1> QED BY <1>1, <1>2, PTL DEF TransactionsAreSafe
=============================================================================
