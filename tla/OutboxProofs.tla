---------------------------- MODULE OutboxProofs ----------------------------
(***************************************************************************)
(* What Outbox promises for any number of rows, dispatchers and faults:    *)
(* the claims stay apart, every published row has exactly one event, and   *)
(* publication is final.  None of that depends on the order of the queue   *)
(* or on the backoff, so its inductive invariant leaves both out; a second *)
(* one, on top of it, keeps the queue in the order of the table.           *)
(***************************************************************************)
EXTENDS Outbox, TLAPS, WellFoundedInduction

(* The columns and program counters the argument reads; a dispatcher past  *)
(* its claim has a row.                                                    *)
Columns ==
    /\ status \in [Rows -> {"absent", "pending", "published"}]
    /\ attempts \in [Rows -> Nat]
    /\ errored \in [Rows -> BOOLEAN]
    /\ events \in [Rows -> 0..1]
    /\ disp \in [Dispatchers ->
            [pc : {"sleeping", "polling", "claimed", "written", "failing"},
             row : Rows \cup {None}, left : Int]]
    /\ \A d \in Dispatchers :
        disp[d].pc \in {"claimed", "written", "failing"} => disp[d].row \in Rows

Inv == Columns /\ ClaimsApart /\ PublishedOnce

(* The empty table satisfies the invariant. *)
LEMMA InitInv == Init => Inv
  <1> SUFFICES ASSUME Init PROVE Inv
    OBVIOUS
  <1>1. Sleeping.pc = "sleeping" /\ Sleeping \in
            [pc : {"sleeping", "polling", "claimed", "written", "failing"},
             row : Rows \cup {None}, left : Int]
    BY DEF Sleeping
  <1>2. Columns
    BY <1>1 DEF Init, Columns
  <1>3. ClaimsApart /\ PublishedOnce
    BY <1>1 DEF Init, ClaimsApart, PublishedOnce
  <1> QED
    BY <1>2, <1>3 DEF Inv

(* A step that only moves dispatcher d, to a place where it holds no lock, *)
(* keeps the invariant.                                                    *)
LEMMA Releases ==
    ASSUME Inv, NEW d \in Dispatchers,
           NEW to \in [pc : {"sleeping", "polling", "failing"},
                       row : Rows \cup {None}, left : Int],
           to.pc = "failing" => to.row \in Rows,
           disp' = [disp EXCEPT ![d] = to],
           UNCHANGED <<status, attempts, errored, events>>
    PROVE  Inv'
  <1>1. Columns'
    BY DEF Inv, Columns
  <1>2. ClaimsApart'
    BY DEF Inv, Columns, ClaimsApart
  <1>3. PublishedOnce'
    BY DEF Inv, PublishedOnce
  <1> QED
    BY <1>1, <1>2, <1>3 DEF Inv

(* Making the claimed row of d published, while d lets go of it, keeps the *)
(* invariant: the row was unpublished, so it had no event, and nobody else *)
(* had claimed it.                                                         *)
LEMMA Publishes ==
    ASSUME Inv, NEW d \in Dispatchers, disp[d].pc = "written",
           NEW to \in [pc : {"sleeping", "polling"},
                       row : Rows \cup {None}, left : Int],
           Published(disp[d].row),
           disp' = [disp EXCEPT ![d] = to],
           UNCHANGED attempts
    PROVE  Inv'
  <1> DEFINE r == disp[d].row
  <1>1. r \in Rows /\ status[r] = "pending" /\ events[r] = 0
    BY DEF Inv, Columns, ClaimsApart, PublishedOnce
  <1>2. /\ status' = [status EXCEPT ![r] = "published"]
        /\ errored' = [errored EXCEPT ![r] = FALSE]
        /\ events' = [events EXCEPT ![r] = 1]
    BY <1>1 DEF Published, Inv, Columns
  <1> HIDE DEF r
  <1>3. Columns'
    BY <1>1, <1>2 DEF Inv, Columns
  <1>4. \A e \in Dispatchers \ {d} :
            disp[e].pc \in {"claimed", "written"} => disp[e].row # r
    BY DEF Inv, ClaimsApart, r
  <1>5. ClaimsApart'
    BY <1>1, <1>2, <1>4 DEF Inv, Columns, ClaimsApart
  <1>6. PublishedOnce'
    BY <1>1, <1>2 DEF Inv, Columns, PublishedOnce
  <1> QED
    BY <1>3, <1>5, <1>6 DEF Inv

(* A dispatcher that sleeps holds no row. *)
LEMMA SleepingTyped ==
    Sleeping \in [pc : {"sleeping"}, row : {None}, left : Int]
  BY DEF Sleeping

(* One attempt less is left in the pass of d. *)
LEMMA NextAttemptMoves ==
    ASSUME Columns, NEW d \in Dispatchers, disp' = NextAttempt(d)
    PROVE  \E to \in [pc : {"polling"}, row : {None}, left : Int] :
                disp' = [disp EXCEPT ![d] = to]
  <1> DEFINE to == [pc |-> "polling", row |-> None, left |-> disp[d].left - 1]
  <1>1. to \in [pc : {"polling"}, row : {None}, left : Int]
    BY DEF Columns
  <1>2. disp' = [disp EXCEPT ![d] = to]
    BY DEF NextAttempt
  <1> QED
    BY <1>1, <1>2

(* Every step keeps the invariant. *)
LEMMA NextInv == Inv /\ [Next]_vars => Inv'
  <1> SUFFICES ASSUME Inv, [Next]_vars PROVE Inv'
    OBVIOUS
  <1> USE DEF Inv
  <1>1. ASSUME NEW r \in Rows, enqueue(r) PROVE Inv'
    <2>1. Columns'
      BY <1>1 DEF enqueue, Columns
    <2>2. ClaimsApart' /\ PublishedOnce'
      BY <1>1 DEF enqueue, Columns, ClaimsApart, PublishedOnce
    <2> QED
      BY <2>1, <2>2
  <1>2. ASSUME NEW d \in Dispatchers, Wake(d) PROVE Inv'
    <2>1. BatchSize \in Int
      BY BoundsAssumption
    <2> QED
      BY <1>2, <2>1, Releases DEF Wake
  <1>3. ASSUME NEW d \in Dispatchers, Claim(d) PROVE Inv'
    <2>1. PICK r \in Rows :
            FirstDue(r) /\ disp' = [disp EXCEPT ![d] = [@ EXCEPT !.pc = "claimed", !.row = r]]
      BY <1>3 DEF Claim
    <2>2. status[r] = "pending"
      BY <2>1 DEF FirstDue, Due
    <2>3. \A e \in Dispatchers : disp[e].pc \in {"claimed", "written"} => disp[e].row # r
      BY <2>1 DEF FirstDue, Due, Locked
    <2>4. UNCHANGED <<status, attempts, errored, events>>
      BY <1>3 DEF Claim
    <2>5. Columns'
      <3> DEFINE to == [disp[d] EXCEPT !.pc = "claimed", !.row = r]
      <3>1. /\ to \in [pc : {"claimed"}, row : Rows, left : Int]
            /\ disp' = [disp EXCEPT ![d] = to]
        BY <2>1 DEF Columns
      <3> HIDE DEF to
      <3> QED
        BY <3>1, <2>4 DEF Columns
    <2>6. disp'[d].pc = "claimed" /\ disp'[d].row = r
      BY <2>1 DEF Columns
    <2>7. \A e \in Dispatchers \ {d} : disp'[e] = disp[e]
      BY <2>1 DEF Columns
    <2>8. ClaimsApart'
      BY <2>2, <2>3, <2>4, <2>6, <2>7 DEF ClaimsApart
    <2>9. PublishedOnce'
      BY <2>4 DEF PublishedOnce
    <2> QED
      BY <2>5, <2>8, <2>9
  <1>4. ASSUME NEW d \in Dispatchers, PassEnds(d) PROVE Inv'
    BY <1>4, SleepingTyped, Releases DEF PassEnds
  <1>5. ASSUME NEW d \in Dispatchers, publish(d) PROVE Inv'
    <2>1. Columns' /\ PublishedOnce'
      BY <1>5 DEF publish, Columns, PublishedOnce
    <2>2. disp'[d].row = disp[d].row /\ \A e \in Dispatchers \ {d} : disp'[e] = disp[e]
      BY <1>5 DEF publish, Columns
    <2>3. ClaimsApart'
      BY <1>5, <2>2 DEF publish, ClaimsApart
    <2> QED
      BY <2>1, <2>3
  <1>6. ASSUME NEW d \in Dispatchers, PublishFails(d) PROVE Inv'
    <2> DEFINE to == [disp[d] EXCEPT !.pc = "failing"]
    <2>1. /\ to \in [pc : {"sleeping", "polling", "failing"}, row : Rows \cup {None}, left : Int]
          /\ to.row \in Rows
      BY <1>6 DEF PublishFails, Columns
    <2>2. disp' = [disp EXCEPT ![d] = to]
      BY <1>6 DEF PublishFails
    <2>3. UNCHANGED <<status, attempts, errored, events>>
      BY <1>6 DEF PublishFails
    <2> HIDE DEF to
    <2> QED
      BY <2>1, <2>2, <2>3, Releases
  <1>7. ASSUME NEW d \in Dispatchers, Commit(d) PROVE Inv'
    <2>1. PICK to \in [pc : {"polling"}, row : {None}, left : Int] :
            disp' = [disp EXCEPT ![d] = to]
      BY <1>7, NextAttemptMoves DEF Commit
    <2> QED
      BY <1>7, <2>1, Publishes DEF Commit
  <1>8. ASSUME NEW d \in Dispatchers, CommitUnheard(d) PROVE Inv'
    BY <1>8, SleepingTyped, Publishes DEF CommitUnheard
  <1>9. ASSUME NEW d \in Dispatchers, record_failure(d) PROVE Inv'
    <2>1. Columns'
      <3>1. PICK to \in [pc : {"polling"}, row : {None}, left : Int] :
              disp' = [disp EXCEPT ![d] = to]
        BY <1>9, NextAttemptMoves DEF record_failure
      <3>2. \A n \in Nat : CountedAttempt(n) \in Nat
        BY DEF CountedAttempt
      <3>3. attempts' \in [Rows -> Nat]
        BY <1>9, <3>2 DEF record_failure, Columns
      <3>4. errored' \in [Rows -> BOOLEAN]
        BY <1>9 DEF record_failure, Columns
      <3> QED
        BY <1>9, <3>1, <3>3, <3>4 DEF record_failure, Columns
    <2>2. UNCHANGED <<status, events>>
      BY <1>9 DEF record_failure
    <2>3. disp'[d].pc = "polling" /\ \A e \in Dispatchers \ {d} : disp'[e] = disp[e]
      BY <1>9 DEF record_failure, NextAttempt, Columns
    <2>4. ClaimsApart'
      BY <2>2, <2>3 DEF ClaimsApart
    <2>5. PublishedOnce'
      BY <2>2 DEF PublishedOnce
    <2> QED
      BY <2>1, <2>4, <2>5
  <1>10. ASSUME NEW d \in Dispatchers, PassAborts(d) PROVE Inv'
    BY <1>10, SleepingTyped, Releases DEF PassAborts
  <1>11. CASE Second
    BY <1>11 DEF Second, Columns, ClaimsApart, PublishedOnce
  <1>12. CASE UNCHANGED vars
    BY <1>12 DEF vars, Columns, ClaimsApart, PublishedOnce
  <1> QED
    BY <1>1, <1>2, <1>3, <1>4, <1>5, <1>6, <1>7, <1>8, <1>9, <1>10, <1>11, <1>12
    DEF Next, Dispatch

(* Two dispatchers never hold one row, and a held row is unpublished, for  *)
(* any number of replicas, rows, restarts and database errors.             *)
THEOREM ClaimsStayApart == Spec => []ClaimsApart
  <1>1. Inv => ClaimsApart
    BY DEF Inv
  <1> QED
    BY <1>1, InitInv, NextInv, PTL DEF Spec

(* A row is published exactly when its one event exists. *)
THEOREM OneEventPerRow == Spec => []PublishedOnce
  <1>1. Inv => PublishedOnce
    BY DEF Inv
  <1> QED
    BY <1>1, InitInv, NextInv, PTL DEF Spec

(* A published row never gets an attempt or an error code again, also not  *)
(* from a failure recorded after another dispatcher published the row.     *)
THEOREM PublicationFinal == Spec => PublishedIsFinal
  <1> DEFINE Final == \A r \in Rows : status[r] = "published" =>
                /\ status'[r] = "published"
                /\ attempts'[r] = attempts[r]
                /\ errored'[r] = errored[r]
  <1>1. Inv /\ [Next]_vars => [Final]_vars
    <2> SUFFICES ASSUME Inv, Next PROVE Final
      BY DEF Inv, Columns
    <2> SUFFICES ASSUME NEW r \in Rows, status[r] = "published"
                 PROVE  /\ status'[r] = "published"
                        /\ attempts'[r] = attempts[r]
                        /\ errored'[r] = errored[r]
      OBVIOUS
    <2>1. ASSUME NEW s \in Rows, enqueue(s)
          PROVE  status'[r] = "published" /\ UNCHANGED <<attempts, errored>>
      BY <2>1 DEF enqueue, Inv, Columns
    <2>2. ASSUME NEW d \in Dispatchers, Commit(d) \/ CommitUnheard(d)
          PROVE  status'[r] = "published" /\ UNCHANGED attempts /\ errored'[r] = errored[r]
      <3>1. disp[d].row # r /\ disp[d].row \in Rows
        BY <2>2 DEF Inv, Columns, ClaimsApart, Commit, CommitUnheard
      <3>2. /\ status' = [status EXCEPT ![disp[d].row] = "published"]
            /\ errored' = [errored EXCEPT ![disp[d].row] = FALSE]
            /\ UNCHANGED attempts
        BY <2>2 DEF Commit, CommitUnheard, Published
      <3> QED
        BY <3>1, <3>2 DEF Inv, Columns
    <2>3. ASSUME NEW d \in Dispatchers, record_failure(d)
          PROVE  UNCHANGED status /\ attempts'[r] = attempts[r] /\ errored'[r] = errored[r]
      <3>1. CASE disp[d].row = r
        BY <2>3, <3>1 DEF record_failure
      <3>2. CASE disp[d].row # r
        BY <2>3, <3>2 DEF record_failure, Inv, Columns
      <3> QED
        BY <3>1, <3>2
    <2>4. ASSUME NEW d \in Dispatchers,
                 Wake(d) \/ Claim(d) \/ PassEnds(d) \/ publish(d) \/ PublishFails(d) \/ PassAborts(d)
          PROVE  UNCHANGED <<status, attempts, errored>>
      BY <2>4 DEF Wake, Claim, PassEnds, publish, PublishFails, PassAborts
    <2>5. CASE Second
      BY <2>5 DEF Second
    <2> QED
      BY <2>1, <2>2, <2>3, <2>4, <2>5 DEF Next, Dispatch
  <1>2. PublishedIsFinal <=> [][Final]_vars
    BY DEF PublishedIsFinal
  <1> QED
    BY <1>1, <1>2, InitInv, NextInv, PTL DEF Spec

-----------------------------------------------------------------------------
(* The queue *)

(* Every non-empty set of naturals has a least element. *)
LEMMA LeastNatural ==
    ASSUME NEW T \in SUBSET Nat, T # {}
    PROVE  \E x \in T : \A y \in T : x <= y
  <1>1. IsWellFoundedOn(OpToRel(<, Nat), Nat)
    BY NatLessThanWellFounded
  <1>2. PICK x \in T : \A y \in T : ~(<<y, x>> \in OpToRel(<, Nat))
    BY <1>1, WFMin
  <1>3. \A y \in T : ~(y < x)
    BY <1>2 DEF OpToRel
  <1> QED
    BY <1>3

(* q lists the rows of P, each once, in the order of what is left of them  *)
(* to wait.                                                                *)
Ordered(q, P, w) ==
    /\ q \in Seq(Rows)
    /\ \A i, j \in 1..Len(q) : q[i] = q[j] => i = j
    /\ \A r \in Rows : r \in P <=> \E i \in 1..Len(q) : q[i] = r
    /\ \A i, j \in 1..Len(q) : i < j => w[q[i]] <= w[q[j]]

(* rest is q without the row at position p. *)
Dropped(q, p, rest) ==
    /\ rest \in Seq(Rows)
    /\ Len(rest) = Len(q) - 1
    /\ \A j \in 1..Len(rest) : rest[j] = IF j < p THEN q[j] ELSE q[j + 1]

(* What a concatenation is made of. *)
LEMMA Concatenated ==
    ASSUME NEW S, NEW a \in Seq(S), NEW b \in Seq(S)
    PROVE  /\ a \o b \in Seq(S)
           /\ Len(a) \in Nat /\ Len(b) \in Nat /\ Len(a \o b) = Len(a) + Len(b)
           /\ \A j \in 1..(Len(a) + Len(b)) :
                 (a \o b)[j] = IF j <= Len(a) THEN a[j] ELSE b[j - Len(a)]
  OBVIOUS

(* RemoveFirst leaves out one position where the row is, if there is one.  *)
LEMMA RemoveFirstDrops ==
    ASSUME NEW q \in Seq(Rows), NEW r
    PROVE  \/ (\A i \in 1..Len(q) : q[i] # r) /\ RemoveFirst(q, r) = q
           \/ \E p \in 1..Len(q) : q[p] = r /\ Dropped(q, p, RemoveFirst(q, r))
  <1>1. CASE \A i \in 1..Len(q) : q[i] # r
    BY <1>1 DEF RemoveFirst
  <1>2. CASE \E i \in 1..Len(q) : q[i] = r
    <2> DEFINE I == {i \in 1..Len(q) : q[i] = r}
    <2>1. I \in SUBSET Nat /\ I # {}
      BY <1>2
    <2>2. PICK p : p = Min(I)
      OBVIOUS
    <2>3. p \in I
      <3> HIDE DEF I
      <3>1. \E x \in I : \A y \in I : x <= y
        BY <2>1, LeastNatural
      <3> QED
        BY <2>2, <3>1 DEF Min
    <2>4. SelectInSeq(q, LAMBDA v : v = r) = p
      BY <2>1, <2>2 DEF SelectInSeq
    <2>5. RemoveFirst(q, r) = RemoveAt(q, p)
      BY <1>2, <2>4 DEF RemoveFirst
    <2>6. p \in 1..Len(q) /\ q[p] = r
      BY <2>3
    <2> HIDE DEF I
    <2> DEFINE a == SubSeq(q, 1, p - 1)
               b == SubSeq(q, p + 1, Len(q))
    <2>7. /\ a \in Seq(Rows) /\ Len(a) = p - 1 /\ \A j \in 1..(p - 1) : a[j] = q[j]
          /\ b \in Seq(Rows) /\ Len(b) = Len(q) - p /\ \A j \in 1..(Len(q) - p) : b[j] = q[p + j]
      BY <2>6
    <2> HIDE DEF a, b
    <2>8. Dropped(q, p, a \o b)
      <3>0. a \in Seq(Rows) /\ b \in Seq(Rows)
        BY <2>7
      <3>1. Len(q) \in Nat /\ a \o b \in Seq(Rows) /\ Len(a \o b) = Len(a) + Len(b)
        BY <3>0, Concatenated
      <3>2. \A j \in 1..(Len(a) + Len(b)) :
               (a \o b)[j] = IF j <= Len(a) THEN a[j] ELSE b[j - Len(a)]
        BY <3>0, Concatenated
      <3>3. ASSUME NEW j \in 1..(Len(q) - 1)
            PROVE  (a \o b)[j] = IF j < p THEN q[j] ELSE q[j + 1]
        <4>1. CASE j < p
          BY <2>6, <2>7, <3>1, <3>2, <4>1
        <4>2. CASE j >= p
          <5>1. j - (p - 1) \in 1..(Len(q) - p) /\ p + (j - (p - 1)) = j + 1
            BY <2>6, <3>1, <4>2
          <5>2. (a \o b)[j] = b[j - (p - 1)]
            BY <2>6, <2>7, <3>1, <3>2, <4>2
          <5> QED
            BY <2>6, <2>7, <3>1, <4>2, <5>1, <5>2
        <4>3. j < p \/ j >= p
          BY <2>6, <3>1
        <4> QED
          BY <4>1, <4>2, <4>3
      <3>4. Len(a \o b) = Len(q) - 1
        BY <2>6, <2>7, <3>1
      <3>5. PICK rest : rest = a \o b
        OBVIOUS
      <3>6. rest \in Seq(Rows) /\ Len(rest) = Len(q) - 1
        BY <3>1, <3>4, <3>5
      <3>7. \A j \in 1..Len(rest) : rest[j] = IF j < p THEN q[j] ELSE q[j + 1]
        BY <3>3, <3>5, <3>6
      <3>8. Dropped(q, p, rest)
        BY <3>6, <3>7 DEF Dropped
      <3> QED
        BY <3>5, <3>8
    <2>9. RemoveAt(q, p) = a \o b
      BY DEF RemoveAt, a, b
    <2> QED
      BY <2>5, <2>6, <2>8, <2>9
  <1> QED
    BY <1>1, <1>2

(* A row leaves the queue: the others keep their order. *)
LEMMA RowLeaves ==
    ASSUME NEW q, NEW P, NEW w, Ordered(q, P, w), NEW r \in Rows
    PROVE  Ordered(RemoveFirst(q, r), P \ {r}, w)
  <1>0. q \in Seq(Rows)
    BY DEF Ordered
  <1>1. PICK rest : rest = RemoveFirst(q, r)
    OBVIOUS
  <1>2. CASE (\A i \in 1..Len(q) : q[i] # r) /\ rest = q
    BY <1>2, <1>1 DEF Ordered
  <1>3. ASSUME NEW p \in 1..Len(q), q[p] = r, Dropped(q, p, rest)
        PROVE  Ordered(rest, P \ {r}, w)
    <2>1. rest \in Seq(Rows) /\ Len(q) \in Nat /\ Len(rest) = Len(q) - 1
      BY <1>3 DEF Dropped, Ordered
    <2> DEFINE from(j) == IF j < p THEN j ELSE j + 1
    <2>2. ASSUME NEW j \in 1..Len(rest)
          PROVE  rest[j] = q[from(j)] /\ from(j) \in 1..Len(q) /\ from(j) # p
      BY <1>3, <2>1 DEF Dropped
    <2>3. \A i, j \in 1..Len(rest) : (from(i) = from(j) => i = j) /\ (i < j => from(i) < from(j))
      BY <2>1
    <2>4. \A i \in 1..Len(q) : i # p => \E j \in 1..Len(rest) : i = from(j)
      <3> SUFFICES ASSUME NEW i \in 1..Len(q), i # p PROVE \E j \in 1..Len(rest) : i = from(j)
        OBVIOUS
      <3>1. CASE i < p
        BY <2>1, <3>1
      <3>2. CASE i > p
        <4>1. i - 1 \in 1..Len(rest) /\ i = from(i - 1)
          BY <2>1, <3>2
        <4> QED
          BY <4>1
      <3> QED
        BY <3>1, <3>2
    <2> HIDE DEF from
    <2>5. ASSUME NEW i \in 1..Len(rest), NEW j \in 1..Len(rest), rest[i] = rest[j]
          PROVE  i = j
      <3>1. q[from(i)] = q[from(j)] /\ from(i) \in 1..Len(q) /\ from(j) \in 1..Len(q)
        BY <2>2, <2>5
      <3>2. from(i) = from(j)
        BY <3>1 DEF Ordered
      <3> QED
        BY <2>3, <3>2
    <2>6. \A i, j \in 1..Len(rest) : i < j => w[rest[i]] <= w[rest[j]]
      BY <2>2, <2>3 DEF Ordered
    <2>7. ASSUME NEW x \in Rows
          PROVE  x \in P \ {r} <=> \E j \in 1..Len(rest) : rest[j] = x
      <3>1. ASSUME x \in P \ {r} PROVE \E j \in 1..Len(rest) : rest[j] = x
        <4>1. PICK i \in 1..Len(q) : q[i] = x
          BY <3>1 DEF Ordered
        <4>2. i # p
          BY <1>3, <3>1, <4>1
        <4> QED
          BY <2>2, <2>4, <4>1, <4>2
      <3>2. ASSUME NEW j \in 1..Len(rest), rest[j] = x PROVE x \in P \ {r}
        <4>1. q[from(j)] = x /\ from(j) \in 1..Len(q) /\ from(j) # p
          BY <2>2, <3>2
        <4>2. x # r
          BY <1>3, <4>1 DEF Ordered
        <4> QED
          BY <4>1, <4>2 DEF Ordered
      <3> QED
        BY <3>1, <3>2
    <2> QED
      BY <2>1, <2>5, <2>6, <2>7 DEF Ordered
  <1> QED
    BY <1>0, <1>1, <1>2, <1>3, RemoveFirstDrops

(* A row enters the queue between those due no later and those due no      *)
(* earlier.                                                                *)
LEMMA RowEnters ==
    ASSUME NEW q, NEW P, NEW w \in [Rows -> Nat], Ordered(q, P, w),
           NEW r \in Rows, r \notin P, NEW v \in Nat, NEW i \in 1..(Len(q) + 1),
           \A j \in 1..(i - 1) : w[q[j]] <= v,
           \A j \in i..Len(q) : w[q[j]] >= v
    PROVE  Ordered(InsertAt(q, i, r), P \cup {r}, [w EXCEPT ![r] = v])
  <1>1. q \in Seq(Rows) /\ Len(q) \in Nat
    BY DEF Ordered
  <1> DEFINE a == SubSeq(q, 1, i - 1)
             b == SubSeq(q, i, Len(q))
             u == [w EXCEPT ![r] = v]
  <1>2. /\ a \in Seq(Rows) /\ Len(a) = i - 1 /\ \A j \in 1..(i - 1) : a[j] = q[j]
        /\ b \in Seq(Rows) /\ Len(b) = Len(q) - i + 1 /\ \A j \in 1..(Len(q) - i + 1) : b[j] = q[i + j - 1]
    BY <1>1
  <1>3. PICK t : t = a \o <<r>> \o b
    OBVIOUS
  <1>4. InsertAt(q, i, r) = t
    BY <1>3 DEF InsertAt
  <1> HIDE DEF a, b
  <1> DEFINE from(j) == IF j < i THEN j ELSE j - 1
  <1> DEFINE c == a \o <<r>>
  <1>c. /\ c \in Seq(Rows) /\ Len(c) = i /\ c[i] = r
        /\ \A k \in 1..(i - 1) : c[k] = a[k]
    <2>1. a \in Seq(Rows) /\ Len(a) = i - 1
      BY <1>2
    <2>2. <<r>> \in Seq(Rows) /\ Len(<<r>>) = 1 /\ <<r>>[1] = r
      OBVIOUS
    <2>3. c \in Seq(Rows) /\ Len(c) = i
      BY <1>1, <2>1, <2>2, Concatenated
    <2>4. \A k \in 1..i : c[k] = IF k <= i - 1 THEN a[k] ELSE <<r>>[k - (i - 1)]
      BY <1>1, <2>1, <2>2, Concatenated
    <2>5. i \in 1..i /\ ~(i <= i - 1) /\ i - (i - 1) = 1
      BY <1>1
    <2> HIDE DEF c
    <2>6. c[i] = r
      BY <2>2, <2>4, <2>5
    <2>7. ASSUME NEW k \in 1..(i - 1) PROVE c[k] = a[k]
      BY <1>1, <2>4
    <2> QED
      BY <2>3, <2>6, <2>7
  <1> HIDE DEF c
  <1>t. /\ t \in Seq(Rows) /\ Len(t) = Len(q) + 1
        /\ \A j \in 1..(Len(q) + 1) : t[j] = IF j <= i THEN c[j] ELSE b[j - i]
    <2>1. c \in Seq(Rows) /\ b \in Seq(Rows) /\ Len(c) = i /\ Len(b) = Len(q) - i + 1
      BY <1>2, <1>c
    <2>2. t = c \o b
      BY <1>3 DEF c
    <2>3. t \in Seq(Rows) /\ Len(t) = Len(c) + Len(b)
      BY <2>1, <2>2, Concatenated
    <2>4. \A j \in 1..(Len(c) + Len(b)) : t[j] = IF j <= Len(c) THEN c[j] ELSE b[j - Len(c)]
      BY <2>1, <2>2, Concatenated
    <2>5. Len(c) + Len(b) = Len(q) + 1
      BY <1>1, <2>1
    <2> QED
      BY <2>1, <2>3, <2>4, <2>5
  <1>5. t \in Seq(Rows) /\ Len(t) = Len(q) + 1 /\ t[i] = r
    BY <1>1, <1>c, <1>t
  <1>6. ASSUME NEW j \in 1..Len(t), j # i
        PROVE  t[j] = q[from(j)] /\ from(j) \in 1..Len(q)
    <2>2. CASE j < i
      <3>1. j \in 1..(i - 1) /\ j <= i /\ from(j) = j /\ j \in 1..Len(q) /\ j \in 1..(Len(q) + 1)
        BY <1>1, <1>5, <2>2
      <3>2. t[j] = c[j] /\ c[j] = a[j] /\ a[j] = q[j]
        BY <1>2, <1>c, <1>t, <3>1
      <3> QED
        BY <3>1, <3>2
    <2>3. CASE j > i
      <3>1. t[j] = b[j - i]
        BY <1>1, <1>t, <2>3
      <3>2. j - i \in 1..(Len(q) - i + 1) /\ i + (j - i) - 1 = j - 1
        BY <1>1, <1>5, <2>3
      <3>3. b[j - i] = q[j - 1]
        BY <1>2, <3>2
      <3>4. from(j) = j - 1 /\ j - 1 \in 1..Len(q)
        BY <1>1, <1>5, <2>3
      <3> QED
        BY <3>1, <3>3, <3>4
    <2> QED
      BY <1>6, <2>2, <2>3
  <1>7. \A j, k \in 1..Len(t) : j < k /\ j # i /\ k # i => from(j) < from(k)
    BY <1>1, <1>5
  <1>8. \A j \in 1..Len(t) : (j < i => from(j) \in 1..(i - 1)) /\ (j > i => from(j) \in i..Len(q))
    BY <1>1, <1>5
  <1>9. /\ u[r] = v /\ \A j \in 1..Len(q) : q[j] \in Rows /\ q[j] # r /\ u[q[j]] = w[q[j]]
    BY <1>1 DEF Ordered
  <1>10. ASSUME NEW x \in Rows
         PROVE  x \in P \cup {r} <=> \E j \in 1..Len(t) : t[j] = x
    <2>1. ASSUME x = r PROVE \E j \in 1..Len(t) : t[j] = x
      BY <1>1, <1>5, <2>1
    <2>2. ASSUME x \in P PROVE \E j \in 1..Len(t) : t[j] = x
      <3>1. PICK k \in 1..Len(q) : q[k] = x
        BY <2>2 DEF Ordered
      <3>2. CASE k < i
        <4>1. k \in 1..Len(t) /\ k # i /\ from(k) = k
          BY <1>1, <1>5, <3>2
        <4> QED
          BY <1>6, <3>1, <4>1
      <3>3. CASE k >= i
        <4>1. k + 1 \in 1..Len(t) /\ k + 1 # i /\ from(k + 1) = k
          BY <1>1, <1>5, <3>3
        <4> HIDE DEF from
        <4> QED
          BY <1>6, <3>1, <4>1
      <3> QED
        BY <1>1, <3>2, <3>3
    <2>3. ASSUME NEW j \in 1..Len(t), t[j] = x PROVE x \in P \cup {r}
      <3>1. CASE j = i
        BY <1>5, <2>3, <3>1
      <3>2. CASE j # i
        <4> HIDE DEF from
        <4> QED
          BY <1>6, <2>3, <3>2 DEF Ordered
      <3> QED
        BY <3>1, <3>2
    <2> QED
      BY <2>1, <2>2, <2>3
  <1> HIDE DEF from, u
  <1>11. ASSUME NEW j \in 1..Len(t), NEW k \in 1..Len(t), j < k
         PROVE  t[j] # t[k] /\ u[t[j]] <= u[t[k]]
    <2>1. CASE j # i /\ k # i
      <3>1. t[j] = q[from(j)] /\ from(j) \in 1..Len(q) /\ t[k] = q[from(k)] /\ from(k) \in 1..Len(q)
        BY <1>6, <2>1
      <3>2. from(j) < from(k) /\ from(j) # from(k)
        BY <1>7, <1>11, <2>1, <3>1
      <3>3. q[from(j)] # q[from(k)] /\ w[q[from(j)]] <= w[q[from(k)]]
        BY <3>1, <3>2 DEF Ordered
      <3>4. u[q[from(j)]] = w[q[from(j)]] /\ u[q[from(k)]] = w[q[from(k)]]
        BY <1>9, <3>1
      <3> QED
        BY <3>1, <3>3, <3>4
    <2>2. CASE k = i
      <3>1. j # i /\ j < i
        BY <1>11, <2>2
      <3>2. t[j] = q[from(j)] /\ from(j) \in 1..Len(q) /\ from(j) \in 1..(i - 1)
        BY <1>6, <1>8, <3>1
      <3> QED
        BY <1>5, <1>9, <2>2, <3>2
    <2>3. CASE j = i
      <3>1. k # i /\ k > i
        BY <1>11, <2>3
      <3>2. t[k] = q[from(k)] /\ from(k) \in 1..Len(q) /\ from(k) \in i..Len(q)
        BY <1>6, <1>8, <3>1
      <3>3. w[q[from(k)]] \in Nat /\ w[q[from(k)]] >= v
        BY <1>9, <3>2
      <3> QED
        BY <1>5, <1>9, <2>3, <3>2, <3>3
    <2> QED
      BY <2>1, <2>2, <2>3
  <1>12. \A j, k \in 1..Len(t) : t[j] = t[k] => j = k
    <2> SUFFICES ASSUME NEW j \in 1..Len(t), NEW k \in 1..Len(t), t[j] = t[k] PROVE j = k
      OBVIOUS
    <2>1. ~(j < k) /\ ~(k < j)
      BY <1>11
    <2> QED
      BY <1>1, <1>5, <2>1
  <1>13. Ordered(t, P \cup {r}, u)
    BY <1>5, <1>10, <1>11, <1>12 DEF Ordered
  <1> QED
    BY <1>4, <1>13 DEF u

-----------------------------------------------------------------------------
(* The backoff *)

(* f doubles the base in every step. *)
Doubles(f) == f = [n \in Nat |-> IF n = 0 THEN RetryBase ELSE 2 * f[n - 1]]

(* f does so up to n. *)
DoublesTo(f, n) ==
    /\ f \in [0..n -> Nat] /\ f[0] = RetryBase
    /\ \A i \in 1..n : f[i] = 2 * f[i - 1]

(* There is such a table for every length. *)
LEMMA TablesExist == \A n \in Nat : \E f : DoublesTo(f, n)
  <1> DEFINE T == {n \in Nat : ~\E f : DoublesTo(f, n)}
  <1>1. ASSUME T # {} PROVE FALSE
    <2>1. PICK n \in T : \A m \in T : n <= m
      BY <1>1, LeastNatural
    <2>2. n \in Nat /\ ~\E f : DoublesTo(f, n)
      OBVIOUS
    <2>3. n # 0
      <3>1. DoublesTo([i \in 0..0 |-> RetryBase], 0)
        BY BoundsAssumption DEF DoublesTo
      <3> QED
        BY <2>2, <3>1
    <2>4. n - 1 \in Nat /\ ~(n <= n - 1)
      BY <2>2, <2>3
    <2>5. PICK g : DoublesTo(g, n - 1)
      BY <2>1, <2>4
    <2> DEFINE f == [i \in 0..n |-> IF i = n THEN 2 * g[n - 1] ELSE g[i]]
    <2>6. \A i \in 0..(n - 1) : g[i] \in Nat
      BY <2>5 DEF DoublesTo
    <2>7. f \in [0..n -> Nat]
      <3>1. n - 1 \in 0..(n - 1) /\ \A i \in 0..n : i # n => i \in 0..(n - 1)
        BY <2>2, <2>4
      <3>2. 2 * g[n - 1] \in Nat
        BY <2>6, <3>1
      <3> QED
        BY <2>6, <3>1, <3>2
    <2>8. f[0] = RetryBase
      BY <2>2, <2>3, <2>5 DEF DoublesTo
    <2>9. ASSUME NEW i \in 1..n PROVE f[i] = 2 * f[i - 1]
      <3>1. f[i - 1] = g[i - 1]
        BY <2>2
      <3>2. CASE i = n
        BY <2>2, <3>1, <3>2
      <3>3. CASE i # n
        <4>1. i \in 1..(n - 1) /\ f[i] = g[i]
          BY <2>2, <3>3
        <4> QED
          BY <2>5, <3>1, <4>1 DEF DoublesTo
      <3> QED
        BY <3>2, <3>3
    <2> HIDE DEF f
    <2>10. DoublesTo(f, n)
      BY <2>7, <2>8, <2>9 DEF DoublesTo
    <2> QED
      BY <2>2, <2>10
  <1> QED
    BY <1>1

(* Tables agree where both are defined. *)
LEMMA TablesAgree ==
    ASSUME NEW n \in Nat, NEW m \in Nat, NEW f, NEW g, DoublesTo(f, n), DoublesTo(g, m), n <= m
    PROVE  \A i \in 0..n : f[i] = g[i]
  <1> DEFINE T == {i \in 0..n : f[i] # g[i]}
  <1>1. ASSUME T # {} PROVE FALSE
    <2>0. T \in SUBSET Nat
      OBVIOUS
    <2>1. PICK i \in T : \A j \in T : i <= j
      BY <1>1, <2>0, LeastNatural
    <2>2. i \in 0..n /\ f[i] # g[i]
      OBVIOUS
    <2>3. i # 0
      BY <2>2 DEF DoublesTo
    <2>4. i - 1 \in 0..n /\ ~(i <= i - 1) /\ i \in 1..n /\ i \in 1..m
      BY <2>2, <2>3
    <2>5. f[i - 1] = g[i - 1]
      BY <2>1, <2>4
    <2> QED
      BY <2>2, <2>4, <2>5 DEF DoublesTo
  <1> QED
    BY <1>1

(* A table up to n. *)
Table(n) == CHOOSE f : DoublesTo(f, n)

(* The recursive function of the model exists, and is what it says. *)
LEMMA DoubledDoubles ==
    /\ Doubled \in [Nat -> Nat]
    /\ Doubled[0] = RetryBase
    /\ \A n \in Nat : Doubled[n + 1] = 2 * Doubled[n]
  <1>1. \A n \in Nat : DoublesTo(Table(n), n)
    BY TablesExist DEF Table
  <1> DEFINE F == [n \in Nat |-> Table(n)[n]]
  <1>2. F[0] = RetryBase
    BY <1>1 DEF DoublesTo
  <1>3. ASSUME NEW n \in Nat, n # 0 PROVE F[n] = 2 * F[n - 1]
    <2>1. n - 1 \in Nat /\ n - 1 <= n /\ n \in 1..n /\ n - 1 \in 0..(n - 1)
      BY <1>3
    <2>2. DoublesTo(Table(n), n) /\ DoublesTo(Table(n - 1), n - 1)
      BY <1>1, <2>1
    <2>3. Table(n)[n] = 2 * Table(n)[n - 1]
      BY <2>1, <2>2 DEF DoublesTo
    <2>4. Table(n - 1)[n - 1] = Table(n)[n - 1]
      BY <2>1, <2>2, TablesAgree
    <2>5. F[n] = Table(n)[n] /\ F[n - 1] = Table(n - 1)[n - 1]
      BY <2>1
    <2> QED
      BY <2>3, <2>4, <2>5
  <1>4. F = [n \in Nat |-> F[n]]
    OBVIOUS
  <1> HIDE DEF F
  <1>5. Doubles(F)
    <2>1. \A n \in Nat : F[n] = IF n = 0 THEN RetryBase ELSE 2 * F[n - 1]
      BY <1>2, <1>3
    <2> QED
      BY <1>4, <2>1 DEF Doubles
  <1>6. Doubled = CHOOSE f : Doubles(f)
    BY DEF Doubled, Doubles
  <1>7. Doubles(Doubled)
    BY <1>5, <1>6
  <1> DEFINE D == Doubled
  <1>8. Doubles(D)
    BY <1>7
  <1> HIDE DEF D
  <1>9. D[0] = RetryBase /\ \A n \in Nat : D[n + 1] = 2 * D[n]
    <2>1. \A n \in Nat : D[n] = IF n = 0 THEN RetryBase ELSE 2 * D[n - 1]
      BY <1>8 DEF Doubles
    <2>2. \A n \in Nat : n + 1 \in Nat /\ n + 1 # 0 /\ (n + 1) - 1 = n
      OBVIOUS
    <2> QED
      BY <2>1, <2>2
  <1>10. \A n \in Nat : D[n] \in Nat
    <2> DEFINE T == {n \in Nat : D[n] \notin Nat}
    <2>1. ASSUME T # {} PROVE FALSE
      <3>1. PICK n \in T : \A m \in T : n <= m
        BY <2>1, LeastNatural
      <3>2. n \in Nat /\ D[n] \notin Nat
        OBVIOUS
      <3>3. n # 0
        BY <1>9, <3>2, BoundsAssumption
      <3>4. n - 1 \in Nat /\ ~(n <= n - 1) /\ (n - 1) + 1 = n
        BY <3>2, <3>3
      <3>5. D[n - 1] \in Nat
        BY <3>1, <3>4
      <3>6. D[(n - 1) + 1] = 2 * D[n - 1]
        BY <1>9, <3>4
      <3> QED
        BY <3>2, <3>4, <3>5, <3>6
    <2> QED
      BY <2>1
  <1>11. D \in [Nat -> Nat]
    <2>1. D = [n \in Nat |-> IF n = 0 THEN RetryBase ELSE 2 * D[n - 1]]
      BY <1>8 DEF Doubles
    <2> QED
      BY <1>10, <2>1
  <1> QED
    BY <1>9, <1>11 DEF D

(* Doubling never shrinks. *)
LEMMA DoubledGrows == \A n, m \in Nat : n <= m => Doubled[n] <= Doubled[m]
  <1> SUFFICES ASSUME NEW n \in Nat PROVE \A m \in Nat : n <= m => Doubled[n] <= Doubled[m]
    OBVIOUS
  <1>0. \A m \in Nat : Doubled[m] \in Nat /\ Doubled[m + 1] = 2 * Doubled[m]
    BY DoubledDoubles
  <1> DEFINE T == {m \in Nat : n <= m /\ ~(Doubled[n] <= Doubled[m])}
  <1>1. ASSUME T # {} PROVE FALSE
    <2>1. PICK m \in T : \A k \in T : m <= k
      BY <1>1, LeastNatural
    <2>2. m \in Nat /\ n <= m /\ ~(Doubled[n] <= Doubled[m])
      OBVIOUS
    <2>3. m # n
      BY <1>0, <2>2
    <2>4. m - 1 \in Nat /\ n <= m - 1 /\ ~(m <= m - 1) /\ (m - 1) + 1 = m
      BY <2>2, <2>3
    <2>5. Doubled[n] <= Doubled[m - 1]
      BY <2>1, <2>4
    <2>6. Doubled[m] = 2 * Doubled[m - 1] /\ Doubled[m - 1] \in Nat /\ Doubled[n] \in Nat
      BY <1>0, <2>4
    <2> QED
      BY <2>2, <2>5, <2>6
  <1> QED
    BY <1>1

(* The loop of max_backoff_exponent ends, at the first power that reaches  *)
(* the cap.                                                                *)
LEMMA ExponentExists ==
    /\ MaxBackoffExponent \in Nat
    /\ Doubled[MaxBackoffExponent] >= RetryMax
  <1> DEFINE Stops(n) == /\ Doubled[n] >= RetryMax
                         /\ \A m \in 0..(n - 1) : Doubled[m] < RetryMax
             T == {n \in 0..AttemptCap : Doubled[n] >= RetryMax}
  <1>0. AttemptCap \in Nat /\ RetryMax \in Nat /\ \A n \in Nat : Doubled[n] \in Nat
    BY BoundsAssumption, DoubledDoubles
  <1>1. T \in SUBSET Nat /\ T # {}
    BY BoundsAssumption
  <1>2. PICK n \in T : \A m \in T : n <= m
    BY <1>1, LeastNatural
  <1>3. ASSUME NEW m \in 0..(n - 1) PROVE Doubled[m] < RetryMax
    <2>1. n \in 0..AttemptCap
      BY <1>2
    <2>2. m \in 0..AttemptCap /\ ~(n <= m)
      BY <1>0, <2>1
    <2>3. ~(Doubled[m] >= RetryMax)
      BY <1>2, <2>2
    <2> QED
      BY <1>0, <2>2, <2>3
  <1>4. n \in 0..AttemptCap /\ Stops(n)
    BY <1>2, <1>3
  <1>5. MaxBackoffExponent = CHOOSE k \in 0..AttemptCap : Stops(k)
    BY DEF MaxBackoffExponent
  <1>6. MaxBackoffExponent \in 0..AttemptCap /\ Stops(MaxBackoffExponent)
    <2> HIDE DEF Stops
    <2> QED
      BY <1>4, <1>5
  <1> QED
    BY <1>0, <1>6

(* The retry delay is RETRY_BASE_SECONDS doubled once per earlier failure, *)
(* and RETRY_MAX_SECONDS from there on: bounding the exponent before the   *)
(* power is taken changes no delay (record_failure and                     *)
(* max_backoff_exponent, outbox.rs).                                       *)
THEOREM BackoffExact ==
    \A n \in Nat : /\ Backoff(n) = IF Doubled[n] < RetryMax THEN Doubled[n] ELSE RetryMax
                   /\ Backoff(n) \in 0..RetryMax
  <1> SUFFICES ASSUME NEW n \in Nat
               PROVE  /\ Backoff(n) = IF Doubled[n] < RetryMax THEN Doubled[n] ELSE RetryMax
                      /\ Backoff(n) \in 0..RetryMax
    OBVIOUS
  <1>0. RetryMax \in Nat /\ Doubled[n] \in Nat
    BY BoundsAssumption, DoubledDoubles
  <1>1. PICK e \in Nat : e = MaxBackoffExponent
    BY ExponentExists
  <1>2. Doubled[e] \in Nat /\ Doubled[e] >= RetryMax
    BY <1>1, ExponentExists, DoubledDoubles
  <1>3. n >= e => Doubled[n] >= RetryMax
    <2>1. e <= n => Doubled[e] <= Doubled[n]
      BY DoubledGrows
    <2> QED
      BY <1>0, <1>2, <2>1
  <1>4. CASE n < e
    BY <1>0, <1>1, <1>4 DEF Backoff
  <1>5. CASE n >= e
    BY <1>0, <1>1, <1>2, <1>3, <1>5 DEF Backoff
  <1> QED
    BY <1>4, <1>5

-----------------------------------------------------------------------------
(* The table behind the queue *)

Pending == {r \in Rows : status[r] = "pending"}

(* The columns keep within their bounds, a dispatcher past its claim has   *)
(* an attempt left, and the queue lists the unpublished rows by            *)
(* next_attempt_at.                                                        *)
QueueInv ==
    /\ attempts \in [Rows -> 0..AttemptCap]
    /\ wait \in [Rows -> 0..RetryMax]
    /\ faults \in 0..MaxFaults
    /\ disp \in [Dispatchers -> DispatcherStates]
    /\ \A d \in Dispatchers : disp[d].pc \in {"claimed", "written", "failing"} => disp[d].left > 0
    /\ \A r \in Rows : status[r] = "absent" => wait[r] = 0
    /\ Ordered(queue, Pending, wait)

(* Queueing row r again, due in v seconds, keeps the order. *)
LEMMA RequeueKeepsOrder ==
    ASSUME QueueInv, NEW r \in Rows, NEW v \in 0..RetryMax, Requeue(r, v)
    PROVE  Ordered(queue', Pending \cup {r}, [wait EXCEPT ![r] = v])
  <1>0. wait \in [Rows -> Nat] /\ v \in Nat
    BY BoundsAssumption DEF QueueInv
  <1>1. PICK rest : rest = RemoveFirst(queue, r)
    OBVIOUS
  <1>2. Ordered(rest, Pending \ {r}, wait)
    BY <1>1, RowLeaves DEF QueueInv
  <1>3. PICK i \in 1..(Len(rest) + 1) :
            /\ \A j \in 1..(i - 1) : wait[rest[j]] <= v
            /\ \A j \in i..Len(rest) : wait[rest[j]] >= v
            /\ queue' = InsertAt(rest, i, r)
    BY <1>1 DEF Requeue
  <1>4. r \notin Pending \ {r}
    OBVIOUS
  <1>5. Ordered(InsertAt(rest, i, r), (Pending \ {r}) \cup {r}, [wait EXCEPT ![r] = v])
    BY <1>0, <1>2, <1>3, <1>4, RowEnters
  <1>6. (Pending \ {r}) \cup {r} = Pending \cup {r}
    OBVIOUS
  <1> QED
    BY <1>3, <1>5, <1>6

(* A step of dispatcher d alone. *)
LEMMA DispatcherMoves ==
    ASSUME QueueInv, NEW d \in Dispatchers, NEW to \in DispatcherStates,
           to.pc \in {"claimed", "written", "failing"} => to.left > 0,
           disp' = [disp EXCEPT ![d] = to]
    PROVE  /\ disp' \in [Dispatchers -> DispatcherStates]
           /\ \A e \in Dispatchers :
                  disp'[e].pc \in {"claimed", "written", "failing"} => disp'[e].left > 0
  BY DEF QueueInv

(* A step of dispatcher d that leaves the rows alone. *)
LEMMA RowsStay ==
    ASSUME QueueInv, NEW d \in Dispatchers, NEW to \in DispatcherStates,
           to.pc \in {"claimed", "written", "failing"} => to.left > 0,
           disp' = [disp EXCEPT ![d] = to], faults' \in 0..MaxFaults,
           UNCHANGED <<status, attempts, wait, queue>>
    PROVE  QueueInv'
  <1>1. Pending' = Pending
    BY DEF Pending
  <1> QED
    BY <1>1, DispatcherMoves DEF QueueInv

(* The next attempt of a pass that has one. *)
LEMMA NextAttemptTyped ==
    ASSUME QueueInv, NEW d \in Dispatchers, disp[d].left > 0, disp' = NextAttempt(d)
    PROVE  \E to \in DispatcherStates : to.pc = "polling" /\ disp' = [disp EXCEPT ![d] = to]
  <1> DEFINE to == [pc |-> "polling", row |-> None, left |-> disp[d].left - 1]
  <1>1. disp[d].left \in 0..BatchSize /\ BatchSize \in Nat
    BY BoundsAssumption DEF QueueInv, DispatcherStates
  <1>2. disp[d].left - 1 \in 0..BatchSize
    BY <1>1
  <1>3. to \in DispatcherStates /\ to.pc = "polling"
    BY <1>2 DEF DispatcherStates
  <1>4. disp' = [disp EXCEPT ![d] = to]
    BY DEF NextAttempt
  <1> QED
    BY <1>3, <1>4

(* The row that is published leaves the queue. *)
LEMMA PublishedLeaves ==
    ASSUME QueueInv, Columns, NEW r \in Rows, Published(r), UNCHANGED <<attempts, wait>>,
           disp' \in [Dispatchers -> DispatcherStates],
           \A e \in Dispatchers :
               disp'[e].pc \in {"claimed", "written", "failing"} => disp'[e].left > 0,
           faults' \in 0..MaxFaults
    PROVE  QueueInv'
  <1>1. status' = [status EXCEPT ![r] = "published"] /\ queue' = RemoveFirst(queue, r)
    BY DEF Published
  <1>2. Pending' = Pending \ {r}
    BY <1>1 DEF Pending, Columns
  <1>3. Ordered(queue', Pending', wait')
    BY <1>1, <1>2, RowLeaves DEF QueueInv
  <1>4. \A x \in Rows : status'[x] = "absent" => wait'[x] = 0
    BY <1>1 DEF QueueInv, Columns
  <1>5. Ordered(queue, Pending, wait)'
    BY <1>3
  <1> QED
    BY <1>4, <1>5 DEF QueueInv

(* Every step keeps the table and the queue together. *)
LEMMA NextQueueInv == Inv /\ QueueInv /\ [Next]_vars => QueueInv'
  <1> SUFFICES ASSUME Inv, QueueInv, [Next]_vars PROVE QueueInv'
    OBVIOUS
  <1>a. Columns
    BY DEF Inv
  <1>b. BatchSize \in Nat /\ MaxFaults \in Nat /\ RetryMax \in Nat /\ AttemptCap \in Nat
    BY BoundsAssumption
  <1>c. Sleeping \in DispatcherStates /\ Sleeping.pc = "sleeping"
    BY <1>b DEF Sleeping, DispatcherStates
  <1>d. Fault => faults' \in 0..MaxFaults
    BY <1>b DEF Fault, QueueInv
  <1>e. faults \in 0..MaxFaults
    BY DEF QueueInv
  <1>1. ASSUME NEW r \in Rows, enqueue(r) PROVE QueueInv'
    <2>1. /\ status[r] = "absent" /\ status' = [status EXCEPT ![r] = "pending"] /\ Requeue(r, 0)
          /\ UNCHANGED <<attempts, wait, disp, faults>>
      BY <1>1 DEF enqueue
    <2>2. wait[r] = 0 /\ wait = [wait EXCEPT ![r] = 0]
      BY <2>1 DEF QueueInv
    <2>3. Pending' = Pending \cup {r}
      BY <1>a, <2>1 DEF Pending, Columns
    <2>4. 0 \in 0..RetryMax
      BY <1>b
    <2>5. Ordered(queue', Pending \cup {r}, [wait EXCEPT ![r] = 0])
      BY <2>1, <2>4, RequeueKeepsOrder
    <2>6. Ordered(queue, Pending, wait)'
      BY <2>1, <2>2, <2>3, <2>5
    <2>7. \A x \in Rows : status'[x] = "absent" => wait'[x] = 0
      BY <1>a, <2>1 DEF QueueInv, Columns
    <2> QED
      BY <2>1, <2>6, <2>7 DEF QueueInv
  <1>2. ASSUME NEW d \in Dispatchers, Wake(d) PROVE QueueInv'
    <2> DEFINE to == [pc |-> "polling", row |-> None, left |-> BatchSize]
    <2>1. to \in DispatcherStates /\ to.pc = "polling"
      BY <1>b DEF DispatcherStates
    <2>2. disp' = [disp EXCEPT ![d] = to] /\ UNCHANGED <<status, attempts, wait, queue, faults>>
      BY <1>2 DEF Wake
    <2> HIDE DEF to
    <2> QED
      BY <1>e, <2>1, <2>2, RowsStay
  <1>3. ASSUME NEW d \in Dispatchers, Claim(d) PROVE QueueInv'
    <2>1. PICK r \in Rows : disp' = [disp EXCEPT ![d] = [@ EXCEPT !.pc = "claimed", !.row = r]]
      BY <1>3 DEF Claim
    <2> DEFINE to == [disp[d] EXCEPT !.pc = "claimed", !.row = r]
    <2>2. to \in DispatcherStates /\ to.left = disp[d].left
      BY DEF QueueInv, DispatcherStates
    <2>3. disp' = [disp EXCEPT ![d] = to] /\ disp[d].left > 0
          /\ UNCHANGED <<status, attempts, wait, queue, faults>>
      BY <1>3, <2>1 DEF Claim
    <2> HIDE DEF to
    <2> QED
      BY <1>e, <2>2, <2>3, RowsStay
  <1>4. ASSUME NEW d \in Dispatchers, PassEnds(d) PROVE QueueInv'
    BY <1>c, <1>e, <1>4, RowsStay DEF PassEnds
  <1>5. ASSUME NEW d \in Dispatchers, publish(d) \/ PublishFails(d) PROVE QueueInv'
    <2>1. PICK pc \in {"written", "failing"} : disp' = [disp EXCEPT ![d].pc = pc]
      BY <1>5 DEF publish, PublishFails
    <2> DEFINE to == [disp[d] EXCEPT !.pc = pc]
    <2>2. to \in DispatcherStates /\ to.left = disp[d].left /\ disp[d].left > 0
      BY <1>5 DEF QueueInv, DispatcherStates, publish, PublishFails
    <2>3. disp' = [disp EXCEPT ![d] = to]
      BY <2>1
    <2>4. UNCHANGED <<status, attempts, wait, queue>> /\ faults' \in 0..MaxFaults
      BY <1>d, <1>e, <1>5 DEF publish, PublishFails
    <2> HIDE DEF to
    <2> QED
      BY <2>2, <2>3, <2>4, RowsStay
  <1>6. ASSUME NEW d \in Dispatchers, Commit(d) PROVE QueueInv'
    <2>1. disp[d].row \in Rows /\ disp[d].left > 0
      BY <1>a, <1>6 DEF Commit, Columns, QueueInv
    <2>2. PICK to \in DispatcherStates : to.pc = "polling" /\ disp' = [disp EXCEPT ![d] = to]
      BY <1>6, <2>1, NextAttemptTyped DEF Commit
    <2>3. /\ disp' \in [Dispatchers -> DispatcherStates]
          /\ \A e \in Dispatchers :
                 disp'[e].pc \in {"claimed", "written", "failing"} => disp'[e].left > 0
      BY <2>2, DispatcherMoves
    <2>4. Published(disp[d].row) /\ UNCHANGED <<attempts, wait, faults>>
      BY <1>6 DEF Commit
    <2> QED
      BY <1>a, <1>e, <2>1, <2>3, <2>4, PublishedLeaves
  <1>7. ASSUME NEW d \in Dispatchers, CommitUnheard(d) PROVE QueueInv'
    <2>1. disp[d].row \in Rows
      BY <1>a, <1>7 DEF CommitUnheard, Columns
    <2>2. Published(disp[d].row) /\ disp' = [disp EXCEPT ![d] = Sleeping]
          /\ UNCHANGED <<attempts, wait>> /\ faults' \in 0..MaxFaults
      BY <1>d, <1>7 DEF CommitUnheard
    <2>3. /\ disp' \in [Dispatchers -> DispatcherStates]
          /\ \A e \in Dispatchers :
                 disp'[e].pc \in {"claimed", "written", "failing"} => disp'[e].left > 0
      BY <1>c, <2>2, DispatcherMoves
    <2> QED
      BY <1>a, <2>1, <2>2, <2>3, PublishedLeaves
  <1>8. ASSUME NEW d \in Dispatchers, record_failure(d) PROVE QueueInv'
    <2> DEFINE r == disp[d].row
    <2>1. r \in Rows /\ disp[d].left > 0
      BY <1>a, <1>8 DEF record_failure, Columns, QueueInv
    <2>2. disp' = NextAttempt(d) /\ UNCHANGED <<status, faults>>
      BY <1>8 DEF record_failure
    <2>3. PICK to \in DispatcherStates : to.pc = "polling" /\ disp' = [disp EXCEPT ![d] = to]
      BY <2>1, <2>2, NextAttemptTyped
    <2>4. CASE UNCHANGED <<attempts, wait, queue>>
      BY <1>e, <2>2, <2>3, <2>4, RowsStay
    <2>5. CASE /\ status[r] = "pending"
               /\ attempts' = [attempts EXCEPT ![r] = CountedAttempt(@)]
               /\ wait' = [wait EXCEPT ![r] = Backoff(attempts[r])]
               /\ Requeue(r, Backoff(attempts[r]))
      <3> HIDE DEF r
      <3>1. attempts[r] \in 0..AttemptCap
        BY <2>1 DEF QueueInv
      <3>2. CountedAttempt(attempts[r]) \in 0..AttemptCap
        BY <1>b, <3>1 DEF CountedAttempt
      <3>3. PICK v \in 0..RetryMax : v = Backoff(attempts[r])
        BY <1>b, <3>1, BackoffExact
      <3>4. attempts' \in [Rows -> 0..AttemptCap]
        BY <2>5, <3>2 DEF QueueInv
      <3>5. wait' = [wait EXCEPT ![r] = v] /\ wait' \in [Rows -> 0..RetryMax]
        BY <2>1, <2>5, <3>3 DEF QueueInv
      <3>6. Ordered(queue', Pending \cup {r}, [wait EXCEPT ![r] = v])
        BY <2>1, <2>5, <3>3, RequeueKeepsOrder
      <3>7. Pending' = Pending \cup {r}
        BY <2>1, <2>2, <2>5 DEF Pending
      <3>8. Ordered(queue, Pending, wait)'
        BY <3>5, <3>6, <3>7
      <3>9. \A x \in Rows : status'[x] = "absent" => wait'[x] = 0
        BY <2>1, <2>2, <2>5, <3>5 DEF QueueInv
      <3>10. /\ disp' \in [Dispatchers -> DispatcherStates]
             /\ \A e \in Dispatchers :
                    disp'[e].pc \in {"claimed", "written", "failing"} => disp'[e].left > 0
        BY <2>3, DispatcherMoves
      <3> QED
        BY <1>e, <2>2, <3>4, <3>5, <3>8, <3>9, <3>10 DEF QueueInv
    <2> QED
      BY <1>8, <2>4, <2>5 DEF record_failure
  <1>9. ASSUME NEW d \in Dispatchers, PassAborts(d) PROVE QueueInv'
    BY <1>c, <1>d, <1>9, RowsStay DEF PassAborts
  <1>10. CASE Second
    <2>1. wait' = [r \in Rows |-> IF wait[r] > 0 THEN wait[r] - 1 ELSE 0]
          /\ UNCHANGED <<status, attempts, queue, disp, faults>>
      BY <1>10 DEF Second
    <2>2. \A r \in Rows : wait[r] \in 0..RetryMax
      BY DEF QueueInv
    <2>3. wait' \in [Rows -> 0..RetryMax]
      BY <1>b, <2>1, <2>2
    <2>4. \A r, s \in Rows : wait[r] <= wait[s] => wait'[r] <= wait'[s]
      BY <1>b, <2>1, <2>2
    <2>5. \A i \in 1..Len(queue) : queue[i] \in Rows
      BY DEF QueueInv, Ordered
    <2>6. Pending' = Pending
      BY <2>1 DEF Pending
    <2>7. Ordered(queue, Pending, wait')
      BY <2>4, <2>5 DEF QueueInv, Ordered
    <2>8. Ordered(queue, Pending, wait)'
      BY <2>1, <2>6, <2>7
    <2>9. \A r \in Rows : status'[r] = "absent" => wait'[r] = 0
      BY <1>b, <2>1, <2>2 DEF QueueInv
    <2> QED
      BY <2>1, <2>3, <2>8, <2>9 DEF QueueInv
  <1>11. CASE UNCHANGED vars
    <2>1. Pending' = Pending
      BY <1>11 DEF vars, Pending
    <2> QED
      BY <1>11, <2>1 DEF vars, QueueInv
  <1> QED
    BY <1>1, <1>2, <1>3, <1>4, <1>5, <1>6, <1>7, <1>8, <1>9, <1>10, <1>11 DEF Next, Dispatch

(* The empty table and the empty queue belong together. *)
LEMMA InitQueueInv == Init => QueueInv
  <1> SUFFICES ASSUME Init PROVE QueueInv
    OBVIOUS
  <1>1. BatchSize \in Nat /\ MaxFaults \in Nat /\ RetryMax \in Nat /\ AttemptCap \in Nat
    BY BoundsAssumption
  <1>2. Sleeping \in DispatcherStates /\ Sleeping.pc = "sleeping"
    BY <1>1 DEF Sleeping, DispatcherStates
  <1>3. Pending = {}
    BY DEF Init, Pending
  <1>4. Ordered(queue, Pending, wait)
    BY <1>3 DEF Init, Ordered
  <1>5. /\ attempts \in [Rows -> 0..AttemptCap] /\ wait \in [Rows -> 0..RetryMax]
        /\ faults \in 0..MaxFaults /\ \A r \in Rows : wait[r] = 0
    BY <1>1 DEF Init
  <1>6. disp \in [Dispatchers -> DispatcherStates] /\ \A d \in Dispatchers : disp[d].pc = "sleeping"
    BY <1>2 DEF Init
  <1> QED
    BY <1>4, <1>5, <1>6 DEF QueueInv

(* Every column has its type: no retry is scheduled beyond RETRY_MAX       *)
(* seconds, no pass makes more than DISPATCH_BATCH_SIZE attempts, and no   *)
(* row has two events.                                                     *)
THEOREM OutboxTypeCorrect == Spec => []TypeOK
  <1>1. Inv /\ QueueInv => TypeOK
    <2> SUFFICES ASSUME Inv, QueueInv PROVE TypeOK
      OBVIOUS
    <2>1. queue \in Seq(Rows)
      BY DEF QueueInv, Ordered
    <2>2. Range(queue) \subseteq Rows
      BY <2>1 DEF Range
    <2> QED
      BY <2>2 DEF Inv, Columns, QueueInv, TypeOK
  <1> QED
    BY <1>1, InitInv, NextInv, InitQueueInv, NextQueueInv, PTL DEF Spec

(* The rows the claim can choose from: an unpublished row that is due is   *)
(* never passed over for one due later.  Claim takes the first row of the  *)
(* queue that is due and not locked, and the queue lists exactly the       *)
(* unpublished rows, each once, in the order of next_attempt_at, whatever  *)
(* was enqueued, published or put off in between.                          *)
THEOREM ClaimsByDueTime == Spec => []Ordered(queue, Pending, wait)
  <1>1. QueueInv => Ordered(queue, Pending, wait)
    BY DEF QueueInv
  <1> QED
    BY <1>1, InitInv, NextInv, InitQueueInv, NextQueueInv, PTL DEF Spec
=============================================================================
