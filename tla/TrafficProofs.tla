---------------------------- MODULE TrafficProofs ----------------------------
(***************************************************************************)
(* Why the books of the traffic report balance: for any users, threshold   *)
(* and amount of traffic, and for every way transfers, reports, failed and *)
(* repeated posts, deletions and reloads interleave.                       *)
(***************************************************************************)
EXTENDS Traffic, WellFoundedInduction, TLAPS

\* A walk that goes on over the counters of a deleted node ends with its report.
OrphansSound ==
    /\ detached => place \in {"walk", "store"}
    /\ ~detached => orphan = Zero

\* The counter the reporter has loaded has not shrunk since: DelUsers and AddUsers
\* wait for users.mapLock, and a node's deletion leaves the walk its counters.
LoadedSound ==
    place = "store" => cur \in Entry /\ cur.bytes <= Walked(cur.user)

\* What waits has been merged before a report is posted.
MergedSound == place = "post" => pending = <<>>

-----------------------------------------------------------------------------
(* The sum over a slice. *)

LEMMA LeastNat ==
    ASSUME NEW S, S \subseteq Nat, S # {} PROVE \E n \in S : \A m \in S : n <= m
<1>1. \E x \in S : \A y \in S : ~(<<y, x>> \in OpToRel(<, Nat))
  BY WFMin, NatLessThanWellFounded
<1>2. PICK x \in S : \A y \in S : ~(<<y, x>> \in OpToRel(<, Nat))
  BY <1>1
<1>3. \A y \in S : ~(y < x)
  BY <1>2, Zenon DEF OpToRel
<1>4. QED
  BY <1>3

LEMMA InductionOnSets ==
    ASSUME NEW S, 0 \in S, \A n \in Nat : n \in S => n + 1 \in S
    PROVE  Nat \subseteq S
<1> DEFINE T == Nat \ S
<1>1. SUFFICES ASSUME T # {} PROVE FALSE
  OBVIOUS
<1>2. PICK n \in T : \A m \in T : n <= m
  BY <1>1, LeastNat
<1>3. n # 0 /\ n - 1 \in Nat /\ n - 1 \notin T
  BY <1>2
<1>4. QED
  BY <1>3

\* What place i of the slice s adds to u's sum.
Term(s, u, i) == IF i \in EntriesOf(s, u) THEN s[i].bytes ELSE 0

\* f is the recursive function of BytesIn, up to n.
SumsTo(f, s, u, n) == f = [i \in 0..n |-> IF i = 0 THEN 0 ELSE f[i - 1] + Term(s, u, i)]

LEMMA SumsExist ==
    ASSUME NEW s, NEW u, NEW n \in Nat
    PROVE  \E f : SumsTo(f, s, u, n)
<1> DEFINE S == {k \in Nat : \E f : SumsTo(f, s, u, k)}
<1>1. 0 \in S
  <2> DEFINE f == [i \in 0..0 |-> 0]
  <2>1. SumsTo(f, s, u, 0)
    BY DEF SumsTo
  <2>2. QED
    BY <2>1
<1>2. ASSUME NEW k \in Nat, k \in S PROVE k + 1 \in S
  <2>1. PICK f : SumsTo(f, s, u, k)
    BY <1>2
  <2> DEFINE g == [i \in 0..(k + 1) |-> IF i <= k THEN f[i] ELSE f[k] + Term(s, u, k + 1)]
  <2>2. \A i \in 0..k : g[i] = f[i]
    OBVIOUS
  <2>3. g[k + 1] = f[k] + Term(s, u, k + 1)
    OBVIOUS
  <2>4. \A i \in 0..k : f[i] = IF i = 0 THEN 0 ELSE f[i - 1] + Term(s, u, i)
    BY <2>1 DEF SumsTo
  <2>5. \A i \in 0..(k + 1) : g[i] = IF i = 0 THEN 0 ELSE g[i - 1] + Term(s, u, i)
    <3> SUFFICES ASSUME NEW i \in 0..(k + 1)
                 PROVE  g[i] = IF i = 0 THEN 0 ELSE g[i - 1] + Term(s, u, i)
      OBVIOUS
    <3> HIDE DEF g
    <3>1. CASE i = k + 1
      BY <2>2, <2>3, <3>1
    <3>2. CASE i \in 0..k
      <4>1. i = 0 \/ i - 1 \in 0..k
        BY <3>2
      <4>2. QED
        BY <2>2, <2>4, <3>2, <4>1
    <3>3. QED
      BY <3>1, <3>2
  <2>6. SumsTo(g, s, u, k + 1)
    <3>1. DOMAIN g = 0..(k + 1) /\ g = [i \in 0..(k + 1) |-> g[i]]
      OBVIOUS
    <3> HIDE DEF g
    <3>2. [i \in 0..(k + 1) |-> g[i]]
            = [i \in 0..(k + 1) |-> IF i = 0 THEN 0 ELSE g[i - 1] + Term(s, u, i)]
      BY <2>5
    <3>3. QED
      BY <3>1, <3>2 DEF SumsTo
  <2>7. QED
    BY <2>6
<1>3. Nat \subseteq S
  BY <1>1, <1>2, InductionOnSets
<1>4. QED
  BY <1>3

\* The partial sums of a slice.
Sums(s, u) == CHOOSE f : SumsTo(f, s, u, Len(s))

LEMMA SumsAre ==
    ASSUME NEW s, NEW u, Len(s) \in Nat
    PROVE  /\ BytesIn(s, u) = Sums(s, u)[Len(s)]
           /\ Sums(s, u)[0] = 0
           /\ \A i \in 1..Len(s) : Sums(s, u)[i] = Sums(s, u)[i - 1] + Term(s, u, i)
<1>1. SumsTo(Sums(s, u), s, u, Len(s))
  BY SumsExist DEF Sums
<1>2. BytesIn(s, u) = Sums(s, u)[Len(s)]
  BY DEF BytesIn, Sums, SumsTo, Term
<1>3. \A i \in 0..Len(s) :
         Sums(s, u)[i] = IF i = 0 THEN 0 ELSE Sums(s, u)[i - 1] + Term(s, u, i)
  BY <1>1 DEF SumsTo
<1>4. QED
  BY <1>2, <1>3

LEMMA TermNat ==
    ASSUME NEW s \in Seq(Entry), NEW u, NEW i \in 1..Len(s)
    PROVE  Term(s, u, i) \in Nat /\ Term(s, u, i) = IF s[i].user = u THEN s[i].bytes ELSE 0
<1>1. s[i] \in Entry /\ DOMAIN s = 1..Len(s)
  OBVIOUS
<1>2. s[i].bytes \in Nat
  BY <1>1 DEF Entry
<1>3. i \in EntriesOf(s, u) <=> s[i].user = u
  BY <1>1 DEF EntriesOf
<1>4. QED
  BY <1>2, <1>3 DEF Term

\* The partial sums only grow.
LEMMA SumsGrow ==
    ASSUME NEW s \in Seq(Entry), NEW u
    PROVE  /\ \A i \in 0..Len(s) : Sums(s, u)[i] \in Nat
           /\ \A k \in 1..Len(s) : Term(s, u, k) <= BytesIn(s, u)
<1>0. Len(s) \in Nat
  OBVIOUS
<1>1. /\ BytesIn(s, u) = Sums(s, u)[Len(s)]
      /\ Sums(s, u)[0] = 0
      /\ \A i \in 1..Len(s) : Sums(s, u)[i] = Sums(s, u)[i - 1] + Term(s, u, i)
  BY <1>0, SumsAre
<1> DEFINE S == {n \in Nat : n <= Len(s) =>
                   /\ Sums(s, u)[n] \in Nat
                   /\ \A k \in 1..n : Term(s, u, k) <= Sums(s, u)[n]}
<1>2. 0 \in S
  BY <1>1
<1>3. ASSUME NEW n \in Nat, n \in S PROVE n + 1 \in S
  <2> SUFFICES ASSUME n + 1 <= Len(s)
               PROVE  /\ Sums(s, u)[n + 1] \in Nat
                      /\ \A k \in 1..(n + 1) : Term(s, u, k) <= Sums(s, u)[n + 1]
    OBVIOUS
  <2>1. Sums(s, u)[n] \in Nat /\ \A k \in 1..n : Term(s, u, k) <= Sums(s, u)[n]
    BY <1>0, <1>3
  <2>2. n + 1 \in 1..Len(s) /\ \A k \in 1..(n + 1) : k \in 1..Len(s)
    BY <1>0
  <2>3. Sums(s, u)[n + 1] = Sums(s, u)[n] + Term(s, u, n + 1)
    BY <1>1, <2>2
  <2>4. \A k \in 1..(n + 1) : Term(s, u, k) \in Nat
    BY <2>2, TermNat
  <2>5. \A k \in 1..(n + 1) : k \in 1..n \/ k = n + 1
    OBVIOUS
  <2>6. QED
    BY <2>1, <2>2, <2>3, <2>4, <2>5
<1>4. Nat \subseteq S
  BY <1>2, <1>3, InductionOnSets
<1>5. QED
  BY <1>0, <1>1, <1>4

LEMMA BytesNat ==
    ASSUME NEW s \in Seq(Entry), NEW u PROVE BytesIn(s, u) \in Nat
BY SumsGrow, SumsAre

\* A slice that occurs in another one from place m on adds its own sum there.
LEMMA SumsShift ==
    ASSUME NEW r \in Seq(Entry), NEW t \in Seq(Entry), NEW u, NEW m \in Nat, m + Len(t) <= Len(r),
           \A i \in 1..Len(t) : r[m + i] = t[i]
    PROVE  Sums(r, u)[m + Len(t)] = Sums(r, u)[m] + BytesIn(t, u)
<1>0. Len(t) \in Nat /\ Len(r) \in Nat
  OBVIOUS
<1>1. /\ BytesIn(t, u) = Sums(t, u)[Len(t)]
      /\ Sums(t, u)[0] = 0
      /\ \A i \in 1..Len(t) : Sums(t, u)[i] = Sums(t, u)[i - 1] + Term(t, u, i)
      /\ \A i \in 1..Len(r) : Sums(r, u)[i] = Sums(r, u)[i - 1] + Term(r, u, i)
  BY <1>0, SumsAre
<1>2. /\ \A i \in 0..Len(t) : Sums(t, u)[i] \in Nat
      /\ \A i \in 0..Len(r) : Sums(r, u)[i] \in Nat
  BY SumsGrow
<1> DEFINE S == {n \in Nat : n <= Len(t) => Sums(r, u)[m + n] = Sums(r, u)[m] + Sums(t, u)[n]}
<1>3. 0 \in S
  BY <1>0, <1>1, <1>2
<1>4. ASSUME NEW n \in Nat, n \in S PROVE n + 1 \in S
  <2> SUFFICES ASSUME n + 1 <= Len(t)
               PROVE  Sums(r, u)[m + (n + 1)] = Sums(r, u)[m] + Sums(t, u)[n + 1]
    OBVIOUS
  <2>1. Sums(r, u)[m + n] = Sums(r, u)[m] + Sums(t, u)[n]
    BY <1>0, <1>4
  <2>2. n + 1 \in 1..Len(t) /\ m + (n + 1) \in 1..Len(r) /\ (m + (n + 1)) - 1 = m + n
    BY <1>0
  <2>3. /\ Sums(t, u)[n + 1] = Sums(t, u)[n] + Term(t, u, n + 1)
        /\ Sums(r, u)[m + (n + 1)] = Sums(r, u)[m + n] + Term(r, u, m + (n + 1))
    <3>1. (n + 1) - 1 = n
      OBVIOUS
    <3>2. QED
      BY <1>1, <2>2, <3>1
  <2>4. /\ Term(t, u, n + 1) = Term(r, u, m + (n + 1))
        /\ Term(t, u, n + 1) \in Nat
    BY <2>2, TermNat
  <2>5. Sums(r, u)[m] \in Nat /\ Sums(t, u)[n] \in Nat
    BY <1>0, <1>2
  <2>6. QED
    BY <2>1, <2>3, <2>4, <2>5
<1>5. Nat \subseteq S
  BY <1>3, <1>4, InductionOnSets
<1>6. QED
  BY <1>0, <1>1, <1>5

LEMMA BytesEmpty == ASSUME NEW u PROVE BytesIn(<<>>, u) = 0
<1>1. Len(<<>>) = 0
  OBVIOUS
<1>2. QED
  BY <1>1, SumsAre

LEMMA BytesConcat ==
    ASSUME NEW s \in Seq(Entry), NEW t \in Seq(Entry), NEW u
    PROVE  BytesIn(s \o t, u) = BytesIn(s, u) + BytesIn(t, u)
<1> DEFINE r == s \o t
<1>1. /\ r \in Seq(Entry) /\ Len(s) \in Nat /\ Len(t) \in Nat /\ Len(r) = Len(s) + Len(t)
      /\ \A i \in 1..Len(s) : r[i] = s[i]
      /\ \A i \in 1..Len(t) : r[Len(s) + i] = t[i]
  OBVIOUS
<1> HIDE DEF r
<1>2. BytesIn(r, u) = Sums(r, u)[Len(r)] /\ Sums(r, u)[0] = 0
  <2>1. Len(r) \in Nat
    BY <1>1
  <2>2. QED
    BY <2>1, SumsAre
<1>3. Sums(r, u)[0 + Len(s)] = Sums(r, u)[0] + BytesIn(s, u)
  <2>1. 0 \in Nat /\ 0 + Len(s) <= Len(r) /\ \A i \in 1..Len(s) : r[0 + i] = s[i]
    BY <1>1
  <2>2. QED
    BY <1>1, <2>1, SumsShift, Zenon
<1>4. Sums(r, u)[Len(s) + Len(t)] = Sums(r, u)[Len(s)] + BytesIn(t, u)
  <2>1. Len(s) + Len(t) <= Len(r)
    BY <1>1
  <2>2. QED
    BY <1>1, <2>1, SumsShift
<1>5. BytesIn(s, u) \in Nat /\ BytesIn(t, u) \in Nat
  BY BytesNat
<1>6. QED
  BY <1>1, <1>2, <1>3, <1>4, <1>5 DEF r

LEMMA BytesAppend ==
    ASSUME NEW s \in Seq(Entry), NEW e \in Entry, NEW u
    PROVE  BytesIn(Append(s, e), u) = BytesIn(s, u) + IF e.user = u THEN e.bytes ELSE 0
<1> DEFINE r == Append(s, e)
<1>1. /\ r \in Seq(Entry) /\ Len(s) \in Nat /\ Len(r) = Len(s) + 1
      /\ \A i \in 1..Len(s) : r[i] = s[i]
      /\ r[Len(s) + 1] = e
  OBVIOUS
<1> HIDE DEF r
<1>2. /\ BytesIn(r, u) = Sums(r, u)[Len(r)] /\ Sums(r, u)[0] = 0
      /\ \A i \in 1..Len(r) : Sums(r, u)[i] = Sums(r, u)[i - 1] + Term(r, u, i)
  BY <1>1, SumsAre
<1>3. Sums(r, u)[0 + Len(s)] = Sums(r, u)[0] + BytesIn(s, u)
  <2>1. 0 + Len(s) <= Len(r) /\ \A i \in 1..Len(s) : r[0 + i] = s[i]
    BY <1>1
  <2>2. QED
    BY <1>1, <2>1, SumsShift
<1>4. Sums(r, u)[Len(s) + 1] = Sums(r, u)[Len(s)] + Term(r, u, Len(s) + 1)
  <2>1. Len(s) + 1 \in 1..Len(r) /\ (Len(s) + 1) - 1 = Len(s)
    BY <1>1
  <2>2. QED
    BY <1>2, <2>1
<1>5. Term(r, u, Len(s) + 1) = IF e.user = u THEN e.bytes ELSE 0
  <2>1. Len(s) + 1 \in 1..Len(r)
    BY <1>1
  <2>2. QED
    BY <1>1, <2>1, TermNat
<1>6. BytesIn(s, u) \in Nat
  BY BytesNat
<1>7. QED
  BY <1>1, <1>2, <1>3, <1>4, <1>5, <1>6 DEF r

\* A set of places in a sequence has a last one.
LEMMA MaxIs ==
    ASSUME NEW n \in Nat, NEW S, S \subseteq 1..n, S # {}
    PROVE  Max(S) \in S
<1> DEFINE T == {n - x : x \in S}
<1>1. T \subseteq Nat /\ T # {}
  <2>1. \A x \in S : x \in 1..n /\ n - x \in Nat
    OBVIOUS
  <2>2. QED
    BY <2>1
<1>2. PICK t \in T : \A s \in T : t <= s
  BY <1>1, LeastNat
<1>3. PICK x \in S : t = n - x
  OBVIOUS
<1>4. \E z \in S : \A y \in S : z >= y
  BY <1>2, <1>3
<1>5. QED
  BY <1>4 DEF Max

\* The body says of a user no more than its entries add up to.
LEMMA BodyBound ==
    ASSUME list \in Seq(Entry), NEW u \in Users
    PROVE  Body(u) \in Nat /\ Body(u) <= BytesIn(list, u)
<1>0. BytesIn(list, u) \in Nat
  BY BytesNat
<1>1. CASE EntriesOf(list, u) = {}
  BY <1>0, <1>1 DEF Body
<1>2. CASE EntriesOf(list, u) # {}
  <2>1. EntriesOf(list, u) \subseteq 1..Len(list) /\ Len(list) \in Nat
    BY DEF EntriesOf
  <2>2. Max(EntriesOf(list, u)) \in EntriesOf(list, u)
    BY <1>2, <2>1, MaxIs
  <2> DEFINE k == Max(EntriesOf(list, u))
  <2>3. k \in 1..Len(list) /\ Body(u) = list[k].bytes /\ list[k].user = u
    BY <1>2, <2>1, <2>2 DEF Body, EntriesOf
  <2> HIDE DEF k
  <2>4. Term(list, u, k) = Body(u) /\ Term(list, u, k) \in Nat
    BY <2>3, TermNat
  <2>5. QED
    BY <2>3, <2>4, SumsGrow
<1>3. QED
  BY <1>1, <1>2


-----------------------------------------------------------------------------
(* Types. *)

CountersOK ==
    /\ cnt \in [Users -> Nat] /\ orphan \in [Users -> Nat]
    /\ billed \in [Users -> Nat] /\ used \in [Users -> Nat]
    /\ lost \in [Users -> [Ways -> Nat]]

RestOK ==
    /\ late \in SUBSET Users /\ mapped \in SUBSET Users
    /\ place \in {"idle", "walk", "store", "merge", "post"}
    /\ walk \in SUBSET Users
    /\ cur \in Entry \cup {NoCur}
    /\ list \in Seq(Entry) /\ pending \in Seq(Entry)
    /\ faults \in 0..MaxFaults /\ deletions \in 0..MaxDeletions

LEMMA TypeParts == TypeOK <=> CountersOK /\ RestOK /\ detached \in BOOLEAN
BY DEF TypeOK, CountersOK, RestOK

\* The books of one user.
Balance(u) ==
    used[u] + lost[u]["repeated"]
        = billed[u] + Outstanding(u)
            + lost[u]["raced"] + lost[u]["deleted"] + lost[u]["hidden"]

\* Everything the balance of a user adds up is a number.
LEMMA Numbers ==
    ASSUME CountersOK, RestOK, NEW u \in Users
    PROVE  /\ cnt[u] \in Nat /\ orphan[u] \in Nat /\ billed[u] \in Nat /\ used[u] \in Nat
           /\ lost[u]["raced"] \in Nat /\ lost[u]["deleted"] \in Nat
           /\ lost[u]["hidden"] \in Nat /\ lost[u]["repeated"] \in Nat
           /\ BytesIn(list, u) \in Nat /\ BytesIn(pending, u) \in Nat
           /\ Walked(u) \in Nat
BY BytesNat DEF CountersOK, RestOK, Ways, Walked

\* An update of what is lost, in one way.
LEMMA LostOne ==
    ASSUME lost \in [Users -> [Ways -> Nat]], NEW way \in Ways, NEW v \in Users, NEW n,
           lost[v][way] + n \in Nat, lost' = [lost EXCEPT ![v][way] = @ + n]
    PROVE  /\ lost' \in [Users -> [Ways -> Nat]]
           /\ \A u \in Users, w \in Ways :
                 lost'[u][w] = IF u = v /\ w = way THEN lost[u][w] + n ELSE lost[u][w]
OBVIOUS

LEMMA LostAll ==
    ASSUME lost \in [Users -> [Ways -> Nat]], NEW way \in Ways, NEW n,
           \A u \in Users : lost[u][way] + n[u] \in Nat,
           lost' = [u \in Users |-> [lost[u] EXCEPT ![way] = @ + n[u]]]
    PROVE  /\ lost' \in [Users -> [Ways -> Nat]]
           /\ \A u \in Users, w \in Ways :
                 lost'[u][w] = IF w = way THEN lost[u][w] + n[u] ELSE lost[u][w]
OBVIOUS

LEMMA WaysAre ==
    /\ "raced" \in Ways /\ "deleted" \in Ways /\ "hidden" \in Ways /\ "repeated" \in Ways
BY DEF Ways

-----------------------------------------------------------------------------
(* The steps.  Each keeps the counters numbers and every user's balance. *)

Books == CountersOK /\ \A u \in Users : Balance(u)

LEMMA BooksTransfer ==
    ASSUME Books, RestOK, NEW v \in Users, Transfer(v) PROVE Books'
<1>1. /\ used' = [used EXCEPT ![v] = @ + 1] /\ cnt' = [cnt EXCEPT ![v] = @ + 1]
      /\ UNCHANGED <<orphan, billed, lost, list, pending>>
  BY DEF Transfer
<1>2. CountersOK'
  BY <1>1 DEF Books, CountersOK
<1>3. ASSUME NEW u \in Users PROVE Balance(u)'
  <2>1. cnt'[u] - cnt[u] = used'[u] - used[u] /\ cnt'[u] \in Nat /\ used'[u] \in Nat
    BY <1>1 DEF Books, CountersOK
  <2>2. Balance(u)
    BY DEF Books
  <2>3. QED
    BY <1>1, <2>1, <2>2, Numbers DEF Books, Balance, Outstanding
<1>4. QED
  BY <1>2, <1>3 DEF Books

\* The two ways the losses change, for one user.
LostBy(u, way, n) ==
    \A w \in Ways : lost'[u][w] = IF w = way THEN lost[u][w] + n ELSE lost[u][w]

LEMMA LostParts ==
    ASSUME NEW u, NEW way \in Ways, NEW n, LostBy(u, way, n)
    PROVE  /\ lost'[u]["raced"] = IF way = "raced" THEN lost[u]["raced"] + n ELSE lost[u]["raced"]
           /\ lost'[u]["deleted"] = IF way = "deleted" THEN lost[u]["deleted"] + n
                                    ELSE lost[u]["deleted"]
           /\ lost'[u]["hidden"] = IF way = "hidden" THEN lost[u]["hidden"] + n
                                   ELSE lost[u]["hidden"]
           /\ lost'[u]["repeated"] = IF way = "repeated" THEN lost[u]["repeated"] + n
                                     ELSE lost[u]["repeated"]
BY WaysAre DEF LostBy

\* Where the bytes of one user went in a step that loses n of them with a counter.
LEMMA BalanceDeleted ==
    ASSUME CountersOK, RestOK, NEW u \in Users, Balance(u), NEW n \in Int, LostBy(u, "deleted", n),
           cnt'[u] \in Nat, orphan'[u] \in Nat, used'[u] \in Nat,
           BytesIn(list', u) = BytesIn(list, u), BytesIn(pending', u) = BytesIn(pending, u),
           billed'[u] = billed[u],
           used'[u] - used[u] = n + (cnt'[u] - cnt[u]) + (orphan'[u] - orphan[u])
    PROVE  Balance(u)'
<1>1. /\ lost'[u]["raced"] = lost[u]["raced"] /\ lost'[u]["deleted"] = lost[u]["deleted"] + n
      /\ lost'[u]["hidden"] = lost[u]["hidden"] /\ lost'[u]["repeated"] = lost[u]["repeated"]
  BY LostParts, WaysAre
<1>2. QED
  BY <1>1, Numbers DEF Balance, Outstanding

LEMMA BooksLateTransfer ==
    ASSUME Books, RestOK, NEW v \in Users, LateTransfer(v) PROVE Books'
<1>1. used' = [used EXCEPT ![v] = @ + 1] /\ UNCHANGED <<cnt, billed, list, pending>>
  BY DEF LateTransfer
<1>2. ASSUME NEW u \in Users
      PROVE  used'[u] \in Nat /\ used'[u] = IF u = v THEN used[u] + 1 ELSE used[u]
  BY <1>1 DEF Books, CountersOK
<1>3. CASE orphan' = [orphan EXCEPT ![v] = @ + 1] /\ UNCHANGED lost
  <2>1. CountersOK'
    BY <1>1, <1>3 DEF Books, CountersOK
  <2>2. ASSUME NEW u \in Users PROVE Balance(u)'
    <3>1. orphan'[u] = IF u = v THEN orphan[u] + 1 ELSE orphan[u]
      BY <1>3 DEF Books, CountersOK
    <3>2. QED
      BY <1>1, <1>2, <1>3, <3>1, Numbers DEF Books, Balance, Outstanding
  <2>3. QED
    BY <2>1, <2>2 DEF Books
<1>4. CASE lost' = [lost EXCEPT ![v]["deleted"] = @ + 1] /\ UNCHANGED orphan
  <2>1. /\ lost' \in [Users -> [Ways -> Nat]]
        /\ \A u \in Users, w \in Ways :
              lost'[u][w] = IF u = v /\ w = "deleted" THEN lost[u][w] + 1 ELSE lost[u][w]
    <3>1. lost[v]["deleted"] + 1 \in Nat /\ lost \in [Users -> [Ways -> Nat]]
      BY Numbers DEF Books, CountersOK
    <3>2. QED
      BY <1>4, <3>1, LostOne, WaysAre
  <2>2. CountersOK'
    BY <1>1, <1>4, <2>1 DEF Books, CountersOK
  <2>3. ASSUME NEW u \in Users PROVE Balance(u)'
    <3> DEFINE n == IF u = v THEN 1 ELSE 0
    <3>1. n \in Int /\ used'[u] - used[u] = n
      BY <1>2, Numbers DEF Books
    <3>2. LostBy(u, "deleted", n)
      BY <2>1 DEF LostBy, Books, CountersOK
    <3>3. QED
      BY <1>1, <1>2, <1>4, <3>1, <3>2, Numbers, BalanceDeleted DEF Books
  <2>4. QED
    BY <2>2, <2>3 DEF Books
<1>5. QED
  BY <1>3, <1>4 DEF LateTransfer

LEMMA BooksDelUser ==
    ASSUME Books, RestOK, NEW v \in Users, DelUser(v) PROVE Books'
<1>1. /\ lost' = [lost EXCEPT ![v]["deleted"] = @ + cnt[v]]
      /\ cnt' = [cnt EXCEPT ![v] = 0] /\ UNCHANGED <<orphan, billed, used, list, pending>>
  BY DEF DelUser
<1>2. /\ lost' \in [Users -> [Ways -> Nat]]
      /\ \A u \in Users, w \in Ways :
            lost'[u][w] = IF u = v /\ w = "deleted" THEN lost[u][w] + cnt[v] ELSE lost[u][w]
  <2>1. lost[v]["deleted"] + cnt[v] \in Nat /\ lost \in [Users -> [Ways -> Nat]]
    BY Numbers DEF Books, CountersOK
  <2>2. QED
    BY <1>1, <2>1, LostOne, WaysAre
<1>3. CountersOK'
  BY <1>1, <1>2 DEF Books, CountersOK
<1>4. ASSUME NEW u \in Users PROVE Balance(u)'
  <2> DEFINE n == IF u = v THEN cnt[u] ELSE 0
  <2>1. n \in Int /\ cnt'[u] = cnt[u] - n
    BY <1>1, Numbers DEF Books, CountersOK
  <2>2. LostBy(u, "deleted", n)
    BY <1>2 DEF LostBy, Books, CountersOK
  <2> HIDE DEF n
  <2>3. cnt'[u] \in Nat
    BY <1>3 DEF CountersOK
  <2>4. QED
    BY <1>1, <2>1, <2>2, <2>3, Numbers, BalanceDeleted DEF Books
<1>5. QED
  BY <1>3, <1>4 DEF Books

LEMMA BooksDelNode ==
    ASSUME Books, RestOK, OrphansSound, DelNode PROVE Books'
<1>1. cnt' = Zero /\ UNCHANGED <<billed, used, list, pending>>
  BY DEF DelNode
<1>2. \A u \in Users : cnt'[u] = 0
  BY <1>1 DEF Zero
<1>3. cnt' \in [Users -> Nat]
  BY <1>1 DEF Zero
<1>4. CASE orphan' = cnt /\ ~detached /\ UNCHANGED lost
  <2>1. CountersOK'
    BY <1>1, <1>3, <1>4 DEF Books, CountersOK
  <2>2. ASSUME NEW u \in Users PROVE Balance(u)'
    <3>1. orphan[u] = 0 /\ orphan'[u] = cnt[u]
      BY <1>4 DEF OrphansSound, Zero
    <3>2. QED
      BY <1>1, <1>2, <1>4, <3>1, Numbers DEF Books, Balance, Outstanding
  <2>3. QED
    BY <2>1, <2>2 DEF Books
<1>5. CASE /\ lost' = [u \in Users |-> [lost[u] EXCEPT !["deleted"] = @ + cnt[u]]]
           /\ UNCHANGED orphan
  <2>1. /\ lost' \in [Users -> [Ways -> Nat]]
        /\ \A u \in Users, w \in Ways :
              lost'[u][w] = IF w = "deleted" THEN lost[u][w] + cnt[u] ELSE lost[u][w]
    <3>1. /\ \A u \in Users : lost[u]["deleted"] + cnt[u] \in Nat
          /\ lost \in [Users -> [Ways -> Nat]]
      BY Numbers DEF Books, CountersOK
    <3>2. QED
      BY <1>5, <3>1, LostAll, WaysAre
  <2>2. CountersOK'
    BY <1>1, <1>3, <1>5, <2>1 DEF Books, CountersOK
  <2>3. ASSUME NEW u \in Users PROVE Balance(u)'
    <3>1. LostBy(u, "deleted", cnt[u])
      BY <2>1 DEF LostBy
    <3>2. QED
      BY <1>1, <1>2, <1>5, <3>1, Numbers, BalanceDeleted DEF Books
  <2>4. QED
    BY <2>2, <2>3 DEF Books
<1>6. QED
  BY <1>4, <1>5 DEF DelNode

LEMMA BooksStoreZero ==
    ASSUME Books, RestOK, LoadedSound, detached \in BOOLEAN, StoreZero PROVE Books'
<1> DEFINE v == cur.user
           n == cur.bytes
           r == Walked(v) - n
           d == IF v \in mapped THEN 0 ELSE n
<1>1. /\ cur \in Entry /\ v \in Users /\ n \in Nat /\ n <= Walked(v) /\ Walked(v) \in Nat
      /\ r \in Nat /\ d \in Nat
  BY Numbers DEF StoreZero, LoadedSound, Entry, Books
<1>2. /\ lost' = [lost EXCEPT ![v]["raced"] = @ + r,
                              ![v]["deleted"] = IF v \in mapped THEN @ ELSE @ + n]
      /\ list' = IF v \in mapped THEN Append(list, cur) ELSE list
      /\ IF detached THEN orphan' = [orphan EXCEPT ![v] = 0] /\ UNCHANGED cnt
                     ELSE cnt' = [cnt EXCEPT ![v] = 0] /\ UNCHANGED orphan
      /\ UNCHANGED <<pending, billed, used>>
  BY DEF StoreZero
<1>3. Walked(v) = IF detached THEN orphan[v] ELSE cnt[v]
  BY DEF Walked
<1> HIDE DEF v, n, r, d
<1>4. /\ lost' \in [Users -> [Ways -> Nat]]
      /\ \A u \in Users : u # v => lost'[u] = lost[u]
      /\ lost'[v]["raced"] = lost[v]["raced"] + r /\ lost'[v]["deleted"] = lost[v]["deleted"] + d
      /\ lost'[v]["hidden"] = lost[v]["hidden"] /\ lost'[v]["repeated"] = lost[v]["repeated"]
  <2>1. lost \in [Users -> [Ways -> Nat]] /\ lost[v] \in [Ways -> Nat]
    BY <1>1 DEF Books, CountersOK
  <2>2. d = IF v \in mapped THEN 0 ELSE n
    BY DEF d
  <2> DEFINE row == [lost[v] EXCEPT !["raced"] = @ + r,
                                    !["deleted"] = IF v \in mapped THEN @ ELSE @ + n]
  <2>3. lost' = [lost EXCEPT ![v] = row]
    BY <1>1, <1>2, <2>1
  <2>4. /\ row \in [Ways -> Nat]
        /\ row["raced"] = lost[v]["raced"] + r /\ row["deleted"] = lost[v]["deleted"] + d
        /\ row["hidden"] = lost[v]["hidden"] /\ row["repeated"] = lost[v]["repeated"]
    BY <1>1, <2>1, <2>2, WaysAre
  <2> HIDE DEF row
  <2>5. QED
    BY <1>1, <2>1, <2>3, <2>4
<1>5. cnt' \in [Users -> Nat] /\ orphan' \in [Users -> Nat]
  <2>1. cnt \in [Users -> Nat] /\ orphan \in [Users -> Nat] /\ v \in Users
    BY <1>1 DEF Books, CountersOK
  <2>2. \/ cnt' = cnt /\ orphan' = [orphan EXCEPT ![v] = 0]
        \/ orphan' = orphan /\ cnt' = [cnt EXCEPT ![v] = 0]
    BY <1>2
  <2>3. QED
    BY <2>1, <2>2
<1>6. CountersOK'
  BY <1>2, <1>4, <1>5 DEF Books, CountersOK
<1>7. ASSUME NEW u \in Users
      PROVE  BytesIn(list', u) = BytesIn(list, u) + IF u = v /\ v \in mapped THEN n ELSE 0
  <2>1. CASE v \in mapped
    <3>1. BytesIn(Append(list, cur), u) = BytesIn(list, u) + IF cur.user = u THEN cur.bytes ELSE 0
      BY <1>1, BytesAppend DEF RestOK
    <3>2. QED
      BY <1>2, <2>1, <3>1 DEF v, n
  <2>2. CASE v \notin mapped
    BY <1>2, <2>2, Numbers DEF Books
  <2>3. QED
    BY <2>1, <2>2
<1>8. ASSUME NEW u \in Users, u # v PROVE Balance(u)'
  <2>1. cnt'[u] = cnt[u] /\ orphan'[u] = orphan[u] /\ lost'[u] = lost[u]
    BY <1>2, <1>4, <1>8 DEF Books, CountersOK
  <2>2. BytesIn(list', u) = BytesIn(list, u)
    BY <1>7, <1>8, Numbers DEF Books
  <2>3. QED
    BY <1>2, <2>1, <2>2 DEF Books, Balance, Outstanding
<1>9. ASSUME NEW u \in Users, u = v PROVE Balance(u)'
  <2>1. /\ Balance(u)
        /\ cnt[u] \in Nat /\ orphan[u] \in Nat /\ billed[u] \in Nat /\ used[u] \in Nat
        /\ lost[u]["raced"] \in Nat /\ lost[u]["deleted"] \in Nat
        /\ lost[u]["hidden"] \in Nat /\ lost[u]["repeated"] \in Nat
        /\ BytesIn(list, u) \in Nat /\ BytesIn(pending, u) \in Nat
    BY Numbers DEF Books
  <2>2. cnt'[u] + orphan'[u] + r + n = cnt[u] + orphan[u]
    <3>1. r + n = Walked(v) /\ r \in Nat /\ n \in Nat
      BY <1>1 DEF r
    <3>2. CASE detached
      <4>1. orphan'[u] = 0 /\ cnt'[u] = cnt[u] /\ r + n = orphan[u]
        BY <1>2, <1>3, <1>9, <3>1, <3>2 DEF Books, CountersOK
      <4>2. QED
        BY <2>1, <3>1, <4>1
    <3>3. CASE ~detached
      <4>1. cnt'[u] = 0 /\ orphan'[u] = orphan[u] /\ r + n = cnt[u]
        BY <1>2, <1>3, <1>9, <3>1, <3>3 DEF Books, CountersOK
      <4>2. QED
        BY <2>1, <3>1, <4>1
    <3>4. QED
      BY <3>2, <3>3
  <2>3. BytesIn(list', u) + d = BytesIn(list, u) + n
    BY <1>1, <1>7, <1>9, <2>1 DEF d
  <2>5. cnt'[u] \in Nat /\ orphan'[u] \in Nat /\ BytesIn(list', u) \in Nat
    BY <1>1, <1>5, <1>7, <2>1
  <2>6. /\ lost'[u]["raced"] = lost[u]["raced"] + r /\ lost'[u]["deleted"] = lost[u]["deleted"] + d
        /\ lost'[u]["hidden"] = lost[u]["hidden"] /\ lost'[u]["repeated"] = lost[u]["repeated"]
        /\ billed'[u] = billed[u] /\ used'[u] = used[u]
        /\ BytesIn(pending', u) = BytesIn(pending, u)
    BY <1>2, <1>4, <1>9
  <2>7. n \in Nat /\ r \in Nat /\ d \in Nat
    BY <1>1
  <2>9. cnt'[u] + orphan'[u] + BytesIn(list', u) + r + d
          = cnt[u] + orphan[u] + BytesIn(list, u)
    BY <2>1, <2>2, <2>3, <2>5, <2>7
  <2>10. Outstanding(u)' + r + d = Outstanding(u)
    BY <2>1, <2>5, <2>6, <2>7, <2>9 DEF Outstanding
  <2>11. Outstanding(u) \in Nat /\ Outstanding(u)' \in Nat
    BY <2>1, <2>5, <2>6 DEF Outstanding
  <2>12. used'[u] + lost'[u]["repeated"]
           = billed'[u] + Outstanding(u) + lost[u]["raced"] + lost[u]["deleted"] + lost'[u]["hidden"]
    BY <2>1, <2>6 DEF Balance
  <2>13. PICK o \in Nat, p \in Nat : o = Outstanding(u) /\ p = Outstanding(u)'
    BY <2>11
  <2>14. used'[u] + lost'[u]["repeated"]
           = billed'[u] + p + lost'[u]["raced"] + lost'[u]["deleted"] + lost'[u]["hidden"]
    <3>1. o = p + r + d
      BY <2>10, <2>13
    <3>2. billed'[u] + o + lost[u]["raced"] + lost[u]["deleted"] + lost'[u]["hidden"]
            = billed'[u] + p + (lost[u]["raced"] + r) + (lost[u]["deleted"] + d)
                + lost'[u]["hidden"]
      BY <2>1, <2>6, <2>7, <2>13, <3>1
    <3>3. QED
      BY <2>6, <2>12, <2>13, <3>2
  <2>15. QED
    BY <2>13, <2>14 DEF Balance
<1>10. QED
  BY <1>6, <1>8, <1>9 DEF Books

LEMMA BooksEndWalk ==
    ASSUME Books, RestOK, EndWalk PROVE Books'
<1>1. /\ lost' = [u \in Users |-> [lost[u] EXCEPT !["deleted"] = @ + orphan[u]]]
      /\ orphan' = Zero /\ UNCHANGED <<cnt, list, pending, billed, used>>
  BY DEF EndWalk
<1>2. /\ lost' \in [Users -> [Ways -> Nat]]
      /\ \A u \in Users, w \in Ways :
            lost'[u][w] = IF w = "deleted" THEN lost[u][w] + orphan[u] ELSE lost[u][w]
  <2>1. /\ \A u \in Users : lost[u]["deleted"] + orphan[u] \in Nat
        /\ lost \in [Users -> [Ways -> Nat]]
    BY Numbers DEF Books, CountersOK
  <2>2. QED
    BY <1>1, <2>1, LostAll, WaysAre
<1>3. CountersOK' /\ \A u \in Users : orphan'[u] = 0
  BY <1>1, <1>2 DEF Books, CountersOK, Zero
<1>4. ASSUME NEW u \in Users PROVE Balance(u)'
  <2>1. LostBy(u, "deleted", orphan[u])
    BY <1>2 DEF LostBy
  <2>2. QED
    BY <1>1, <1>3, <2>1, Numbers, BalanceDeleted DEF Books
<1>5. QED
  BY <1>3, <1>4 DEF Books

LEMMA BooksMergePending ==
    ASSUME Books, RestOK, MergePending PROVE Books'
<1>1. /\ list' = list \o pending /\ pending' = <<>>
      /\ UNCHANGED <<cnt, orphan, billed, used, lost>>
  BY DEF MergePending, histVars
<1>2. CountersOK'
  BY <1>1 DEF Books, CountersOK
<1>3. ASSUME NEW u \in Users PROVE Balance(u)'
  <2>1. BytesIn(list', u) = BytesIn(list, u) + BytesIn(pending, u) /\ BytesIn(pending', u) = 0
    BY <1>1, BytesConcat, BytesEmpty DEF RestOK
  <2>2. QED
    BY <1>1, <2>1, Numbers DEF Books, Balance, Outstanding
<1>4. QED
  BY <1>2, <1>3 DEF Books

LEMMA BooksPostAnswered ==
    ASSUME Books, RestOK, PostAnswered PROVE Books'
<1>1. /\ billed' = [u \in Users |-> billed[u] + Body(u)]
      /\ lost' = [u \in Users |-> [lost[u] EXCEPT !["hidden"] = @ + BytesIn(list, u) - Body(u)]]
      /\ list' = <<>> /\ UNCHANGED <<cnt, orphan, pending, used>>
  BY DEF PostAnswered
<1> DEFINE n == [u \in Users |-> BytesIn(list, u) - Body(u)]
<1>2. \A u \in Users : /\ Body(u) \in Nat /\ Body(u) <= BytesIn(list, u)
                       /\ n[u] \in Nat /\ n[u] = BytesIn(list, u) - Body(u)
  BY BodyBound, Numbers DEF RestOK, Books
<1> HIDE DEF n
<1>3. /\ lost' \in [Users -> [Ways -> Nat]]
      /\ \A u \in Users, w \in Ways :
            lost'[u][w] = IF w = "hidden" THEN lost[u][w] + n[u] ELSE lost[u][w]
  <2>1. /\ \A u \in Users : /\ lost[u]["hidden"] + n[u] \in Nat
                            /\ lost[u]["hidden"] + BytesIn(list, u) - Body(u)
                                 = lost[u]["hidden"] + n[u]
        /\ lost \in [Users -> [Ways -> Nat]]
    BY <1>2, Numbers DEF Books, CountersOK
  <2>2. lost' = [u \in Users |-> [lost[u] EXCEPT !["hidden"] = @ + n[u]]]
    BY <1>1, <2>1, WaysAre
  <2>3. QED
    BY <2>1, <2>2, LostAll, WaysAre
<1>4. CountersOK'
  BY <1>1, <1>2, <1>3, Numbers DEF Books, CountersOK
<1>5. ASSUME NEW u \in Users PROVE Balance(u)'
  <2>1. BytesIn(list', u) = 0 /\ billed'[u] = billed[u] + Body(u)
    BY <1>1, BytesEmpty
  <2>2. LostBy(u, "hidden", n[u])
    BY <1>3 DEF LostBy
  <2>3. /\ lost'[u]["raced"] = lost[u]["raced"] /\ lost'[u]["deleted"] = lost[u]["deleted"]
        /\ lost'[u]["hidden"] = lost[u]["hidden"] + n[u]
        /\ lost'[u]["repeated"] = lost[u]["repeated"]
    BY <2>2, LostParts, WaysAre
  <2>4. /\ Balance(u)
        /\ cnt[u] \in Nat /\ orphan[u] \in Nat /\ billed[u] \in Nat /\ used[u] \in Nat
        /\ lost[u]["raced"] \in Nat /\ lost[u]["deleted"] \in Nat
        /\ lost[u]["hidden"] \in Nat /\ lost[u]["repeated"] \in Nat
        /\ BytesIn(list, u) \in Nat /\ BytesIn(pending, u) \in Nat /\ n[u] \in Nat
    BY <1>2, Numbers DEF Books
  <2>5. /\ cnt'[u] = cnt[u] /\ orphan'[u] = orphan[u] /\ used'[u] = used[u]
        /\ BytesIn(pending', u) = BytesIn(pending, u)
    BY <1>1
  <2>6. billed'[u] + n[u] = billed[u] + BytesIn(list, u)
    BY <1>2, <2>1, <2>4
  <2>7. billed'[u] \in Nat
    BY <1>4 DEF CountersOK
  <2>8. QED
    BY <2>1, <2>3, <2>4, <2>5, <2>6, <2>7 DEF Balance, Outstanding
<1>6. QED
  BY <1>4, <1>5 DEF Books

LEMMA BooksAnswerLost ==
    ASSUME Books, RestOK, AnswerLost PROVE Books'
<1>1. /\ billed' = [u \in Users |-> billed[u] + Body(u)]
      /\ lost' = [u \in Users |-> [lost[u] EXCEPT !["repeated"] = @ + Body(u)]]
      /\ UNCHANGED <<cnt, orphan, list, pending, used>>
  BY DEF AnswerLost
<1> DEFINE n == [u \in Users |-> Body(u)]
<1>2. \A u \in Users : Body(u) \in Nat /\ n[u] \in Nat /\ n[u] = Body(u)
  BY BodyBound DEF RestOK
<1> HIDE DEF n
<1>3. /\ lost' \in [Users -> [Ways -> Nat]]
      /\ \A u \in Users, w \in Ways :
            lost'[u][w] = IF w = "repeated" THEN lost[u][w] + n[u] ELSE lost[u][w]
  <2>1. /\ \A u \in Users : lost[u]["repeated"] + n[u] \in Nat
        /\ lost \in [Users -> [Ways -> Nat]]
    BY <1>2, Numbers DEF Books, CountersOK
  <2>2. lost' = [u \in Users |-> [lost[u] EXCEPT !["repeated"] = @ + n[u]]]
    BY <1>1, <1>2
  <2>3. QED
    BY <2>1, <2>2, LostAll, WaysAre
<1>4. CountersOK'
  BY <1>1, <1>2, <1>3, Numbers DEF Books, CountersOK
<1>5. ASSUME NEW u \in Users PROVE Balance(u)'
  <2>1. billed'[u] = billed[u] + n[u]
    BY <1>1, <1>2
  <2>2. LostBy(u, "repeated", n[u])
    BY <1>3 DEF LostBy
  <2>3. /\ lost'[u]["raced"] = lost[u]["raced"] /\ lost'[u]["deleted"] = lost[u]["deleted"]
        /\ lost'[u]["hidden"] = lost[u]["hidden"]
        /\ lost'[u]["repeated"] = lost[u]["repeated"] + n[u]
    BY <2>2, LostParts, WaysAre
  <2>4. /\ Balance(u)
        /\ cnt[u] \in Nat /\ orphan[u] \in Nat /\ billed[u] \in Nat /\ used[u] \in Nat
        /\ lost[u]["raced"] \in Nat /\ lost[u]["deleted"] \in Nat
        /\ lost[u]["hidden"] \in Nat /\ lost[u]["repeated"] \in Nat
        /\ BytesIn(list, u) \in Nat /\ BytesIn(pending, u) \in Nat /\ n[u] \in Nat
    BY <1>2, Numbers DEF Books
  <2>5. /\ cnt'[u] = cnt[u] /\ orphan'[u] = orphan[u] /\ used'[u] = used[u]
        /\ BytesIn(list', u) = BytesIn(list, u) /\ BytesIn(pending', u) = BytesIn(pending, u)
    BY <1>1
  <2>6. QED
    BY <2>1, <2>3, <2>4, <2>5 DEF Balance, Outstanding
<1>6. QED
  BY <1>4, <1>5 DEF Books

LEMMA BooksPostFails ==
    ASSUME Books, RestOK, MergedSound, PostFails PROVE Books'
<1>1. /\ pending' = list /\ list' = <<>> /\ pending = <<>>
      /\ UNCHANGED <<cnt, orphan, billed, used, lost>>
  BY DEF PostFails, MergedSound, histVars
<1>2. CountersOK'
  BY <1>1 DEF Books, CountersOK
<1>3. ASSUME NEW u \in Users PROVE Balance(u)'
  <2>1. BytesIn(list', u) = 0 /\ BytesIn(pending, u) = 0 /\ BytesIn(pending', u) = BytesIn(list, u)
    BY <1>1, BytesEmpty
  <2>2. QED
    BY <1>1, <2>1, Numbers DEF Books, Balance, Outstanding
<1>4. QED
  BY <1>2, <1>3 DEF Books

-----------------------------------------------------------------------------
(* The other parts of the invariant. *)

Inv == CountersOK /\ RestOK /\ detached \in BOOLEAN /\ OrphansSound /\ LoadedSound
         /\ MergedSound /\ BooksBalance

LEMMA InvParts == Inv <=> Books /\ RestOK /\ detached \in BOOLEAN /\ OrphansSound
                            /\ LoadedSound /\ MergedSound
BY DEF Inv, Books, BooksBalance, Balance

LEMMA InvInit == Init => Inv
<1> SUFFICES ASSUME Init PROVE Inv
  OBVIOUS
<1> USE DEF Init
<1>1. CountersOK
  BY DEF CountersOK, Zero, NoLoss
<1>2. RestOK
  BY BoundsAssumption DEF RestOK
<1>3. detached \in BOOLEAN /\ OrphansSound /\ LoadedSound /\ MergedSound
  BY DEF OrphansSound, LoadedSound, MergedSound
<1>4. ASSUME NEW u \in Users PROVE Balance(u)
  <2>1. \A w \in Ways : lost[u][w] = 0
    BY DEF NoLoss
  <2>2. BytesIn(list, u) = 0 /\ BytesIn(pending, u) = 0
    BY BytesEmpty
  <2>3. cnt[u] = 0 /\ orphan[u] = 0 /\ billed[u] = 0 /\ used[u] = 0
    BY DEF Zero
  <2>4. QED
    BY <2>1, <2>2, <2>3, WaysAre DEF Balance, Outstanding
<1>5. QED
  BY <1>1, <1>2, <1>3, <1>4, InvParts DEF Books

\* The entry loaded is of a user, and so are the entries of the slices.
LEMMA RestNext ==
    ASSUME Inv, Next PROVE RestOK'
<1> USE DEF Inv, RestOK
<1>1. ASSUME NEW u \in Users, Transfer(u) \/ LateTransfer(u) \/ DelUser(u) \/ AddUser(u)
      PROVE  RestOK'
  <2>1. CASE Transfer(u)
    BY <2>1 DEF Transfer, walkVars
  <2>2. CASE LateTransfer(u)
    BY <2>2 DEF LateTransfer, walkVars
  <2>3. CASE DelUser(u)
    BY <2>3, BoundsAssumption DEF DelUser, walkVars
  <2>4. CASE AddUser(u)
    BY <2>4 DEF AddUser, walkVars
  <2>5. QED
    BY <1>1, <2>1, <2>2, <2>3, <2>4
<1>2. CASE DelNode
  BY <1>2, BoundsAssumption DEF DelNode
<1>3. CASE BeginReport
  BY <1>3 DEF BeginReport
<1>4. ASSUME NEW u \in Users, LoadCounter(u) PROVE RestOK'
  <2>1. [user |-> u, bytes |-> Walked(u)] \in Entry
    BY Numbers DEF Entry
  <2>2. QED
    BY <1>4, <2>1 DEF LoadCounter
<1>5. CASE StoreZero
  <2>1. cur \in Entry /\ cur.user \in Users
    BY <1>5 DEF StoreZero, LoadedSound, Entry
  <2>2. QED
    BY <1>5, <2>1 DEF StoreZero
<1>6. CASE EndWalk
  BY <1>6 DEF EndWalk
<1>7. CASE MergePending
  BY <1>7 DEF MergePending
<1>8. CASE PostAnswered
  BY <1>8 DEF PostAnswered
<1>9. CASE AnswerLost
  BY <1>9, BoundsAssumption DEF AnswerLost, walkVars
<1>10. CASE PostFails
  BY <1>10, BoundsAssumption DEF PostFails
<1>11. QED
  BY <1>1, <1>2, <1>3, <1>4, <1>5, <1>6, <1>7, <1>8, <1>9, <1>10 DEF Next, Reporter

LEMMA OrphansNext ==
    ASSUME Inv, Next PROVE detached' \in BOOLEAN /\ OrphansSound'
<1> USE DEF Inv, OrphansSound
<1>1. ASSUME NEW u \in Users, Transfer(u) \/ LateTransfer(u) \/ DelUser(u) \/ AddUser(u)
      PROVE  detached' \in BOOLEAN /\ OrphansSound'
  BY <1>1 DEF Transfer, LateTransfer, DelUser, AddUser, walkVars
<1>2. CASE DelNode
  BY <1>2 DEF DelNode
<1>3. CASE BeginReport
  BY <1>3 DEF BeginReport
<1>4. ASSUME NEW u \in Users, LoadCounter(u) PROVE detached' \in BOOLEAN /\ OrphansSound'
  BY <1>4 DEF LoadCounter
<1>5. CASE StoreZero
  BY <1>5 DEF StoreZero
<1>6. CASE EndWalk
  BY <1>6 DEF EndWalk
<1>7. CASE MergePending
  BY <1>7 DEF MergePending
<1>8. CASE PostAnswered
  BY <1>8 DEF PostAnswered
<1>9. CASE AnswerLost
  BY <1>9 DEF AnswerLost, walkVars
<1>10. CASE PostFails
  BY <1>10 DEF PostFails
<1>11. QED
  BY <1>1, <1>2, <1>3, <1>4, <1>5, <1>6, <1>7, <1>8, <1>9, <1>10 DEF Next, Reporter

\* While the reporter is between Load and Store, the counter it stands at only grows.
LEMMA WalkedGrows ==
    ASSUME Inv, place = "store", NEW u \in Users,
           \/ \E v \in Users : Transfer(v) \/ LateTransfer(v) \/ DelUser(v) \/ AddUser(v)
           \/ DelNode
    PROVE  /\ Walked(u) \in Nat /\ Walked(u)' \in Nat /\ Walked(u) <= Walked(u)'
           /\ place' = place /\ cur' = cur
<1> USE DEF Inv
<1>1. Walked(u) \in Nat /\ cnt[u] \in Nat /\ orphan[u] \in Nat
  BY Numbers
<1>2. ASSUME NEW v \in Users, Transfer(v)
      PROVE  /\ Walked(u)' \in Nat /\ Walked(u) <= Walked(u)' /\ place' = place /\ cur' = cur
  <2>1. /\ orphan'[u] = orphan[u] /\ detached' = detached /\ place' = place /\ cur' = cur
        /\ cnt'[u] \in Nat /\ cnt[u] <= cnt'[u]
    BY <1>1, <1>2 DEF Transfer, walkVars, CountersOK
  <2>2. QED
    BY <1>1, <2>1 DEF Walked
<1>3. ASSUME NEW v \in Users, LateTransfer(v)
      PROVE  /\ Walked(u)' \in Nat /\ Walked(u) <= Walked(u)' /\ place' = place /\ cur' = cur
  <2>1. /\ cnt'[u] = cnt[u] /\ detached' = detached /\ place' = place /\ cur' = cur
        /\ orphan'[u] \in Nat /\ orphan[u] <= orphan'[u]
    BY <1>1, <1>3 DEF LateTransfer, walkVars, CountersOK
  <2>2. QED
    BY <1>1, <2>1 DEF Walked
<1>4. ASSUME NEW v \in Users, DelUser(v) \/ AddUser(v)
      PROVE  FALSE
  BY <1>4 DEF DelUser, AddUser
<1>5. CASE DelNode
  <2>1. place' = place /\ cur' = cur
    BY <1>5 DEF DelNode
  <2>2. CASE detached
    BY <1>1, <1>5, <2>1, <2>2 DEF DelNode, Walked
  <2>3. CASE ~detached
    BY <1>1, <1>5, <2>1, <2>3 DEF DelNode, Walked
  <2>4. QED
    BY <1>1, <2>1, <2>2, <2>3
<1>6. QED
  BY <1>1, <1>2, <1>3, <1>4, <1>5

LEMMA LoadedNext ==
    ASSUME Inv, Next PROVE LoadedSound'
<1> USE DEF Inv
<1>1. ASSUME \/ \E v \in Users : Transfer(v) \/ LateTransfer(v) \/ DelUser(v) \/ AddUser(v)
             \/ DelNode
      PROVE  LoadedSound'
  <2>1. place' = place
    BY <1>1 DEF Transfer, LateTransfer, DelUser, AddUser, DelNode, walkVars
  <2>2. CASE place # "store"
    BY <2>1, <2>2 DEF LoadedSound
  <2>3. CASE place = "store"
    <3>1. cur \in Entry /\ cur.user \in Users /\ cur.bytes \in Nat /\ cur.bytes <= Walked(cur.user)
      BY <2>3 DEF LoadedSound, Entry
    <3>2. PICK u \in Users : u = cur.user
      BY <3>1
    <3>3. Walked(u) \in Nat /\ Walked(u)' \in Nat /\ Walked(u) <= Walked(u)' /\ cur' = cur
      BY <1>1, <2>3, WalkedGrows
    <3>4. cur.bytes <= Walked(u)'
      BY <3>1, <3>2, <3>3
    <3>5. QED
      BY <3>1, <3>2, <3>3, <3>4 DEF LoadedSound, Walked
  <2>4. QED
    BY <2>2, <2>3
<1>2. ASSUME NEW u \in Users, LoadCounter(u) PROVE LoadedSound'
  <2>1. CASE Walked(u) > MinTraffic
    <3>1. /\ cur' = [user |-> u, bytes |-> Walked(u)] /\ Walked(u) \in Nat
          /\ UNCHANGED <<cnt, orphan, detached>>
      BY <1>2, <2>1, Numbers DEF LoadCounter
    <3>2. cur' \in Entry /\ cur'.user = u /\ cur'.bytes = Walked(u)
      BY <3>1 DEF Entry
    <3>3. QED
      BY <3>1, <3>2 DEF LoadedSound, Walked
  <2>2. CASE ~(Walked(u) > MinTraffic)
    BY <1>2, <2>2 DEF LoadCounter, LoadedSound
  <2>3. QED
    BY <2>1, <2>2
<1>3. CASE BeginReport \/ StoreZero \/ EndWalk \/ MergePending
  BY <1>3 DEF BeginReport, StoreZero, EndWalk, MergePending, LoadedSound
<1>4. CASE PostAnswered \/ AnswerLost \/ PostFails
  BY <1>4 DEF PostAnswered, AnswerLost, PostFails, walkVars, LoadedSound
<1>5. QED
  BY <1>1, <1>2, <1>3, <1>4 DEF Next, Reporter

LEMMA MergedNext ==
    ASSUME Inv, Next PROVE MergedSound'
<1> USE DEF Inv, MergedSound
<1>1. ASSUME NEW u \in Users, Transfer(u) \/ LateTransfer(u) \/ DelUser(u) \/ AddUser(u)
      PROVE  MergedSound'
  BY <1>1 DEF Transfer, LateTransfer, DelUser, AddUser, walkVars
<1>2. CASE DelNode \/ BeginReport \/ StoreZero \/ EndWalk
  BY <1>2 DEF DelNode, BeginReport, StoreZero, EndWalk
<1>3. ASSUME NEW u \in Users, LoadCounter(u) PROVE MergedSound'
  BY <1>3 DEF LoadCounter
<1>4. CASE MergePending \/ PostAnswered \/ AnswerLost \/ PostFails
  BY <1>4 DEF MergePending, PostAnswered, AnswerLost, PostFails, walkVars
<1>5. QED
  BY <1>1, <1>2, <1>3, <1>4 DEF Next, Reporter

LEMMA BooksSame ==
    ASSUME Books, UNCHANGED <<cnt, orphan, list, pending, billed, used, lost>> PROVE Books'
BY DEF Books, CountersOK, Balance, Outstanding

LEMMA BooksNext ==
    ASSUME Inv, Next PROVE Books'
<1>1. Books /\ RestOK /\ detached \in BOOLEAN /\ OrphansSound /\ LoadedSound /\ MergedSound
  BY InvParts
<1>2. ASSUME NEW u \in Users, Transfer(u) \/ LateTransfer(u) \/ DelUser(u) \/ AddUser(u)
      PROVE  Books'
  <2>1. CASE AddUser(u)
    <3>1. UNCHANGED <<cnt, orphan, list, pending, billed, used, lost>>
      BY <2>1 DEF AddUser, histVars
    <3>2. QED
      BY <1>1, <3>1, BooksSame
  <2>2. QED
    BY <1>1, <1>2, <2>1, BooksTransfer, BooksLateTransfer, BooksDelUser
<1>3. ASSUME NEW u \in Users, LoadCounter(u) PROVE Books'
  <2>1. UNCHANGED <<cnt, orphan, list, pending, billed, used, lost>>
    BY <1>3 DEF LoadCounter, histVars
  <2>2. QED
    BY <1>1, <2>1, BooksSame
<1>4. CASE BeginReport
  <2>1. UNCHANGED <<cnt, orphan, list, pending, billed, used, lost>>
    BY <1>4 DEF BeginReport, histVars
  <2>2. QED
    BY <1>1, <2>1, BooksSame
<1>5. QED
  BY <1>1, <1>2, <1>3, <1>4, BooksDelNode, BooksStoreZero, BooksEndWalk, BooksMergePending,
     BooksPostAnswered, BooksAnswerLost, BooksPostFails DEF Next, Reporter

LEMMA InvNext == Inv /\ [Next]_vars => Inv'
<1> SUFFICES ASSUME Inv, [Next]_vars PROVE Inv'
  OBVIOUS
<1>1. CASE Next
  <2>1. /\ Books' /\ RestOK' /\ detached' \in BOOLEAN /\ OrphansSound' /\ LoadedSound'
        /\ MergedSound'
    BY <1>1, BooksNext, RestNext, OrphansNext, LoadedNext, MergedNext
  <2>2. QED
    BY <2>1 DEF Inv, Books, BooksBalance, Balance
<1>2. CASE UNCHANGED vars
  BY <1>2 DEF vars, Inv, CountersOK, RestOK, OrphansSound, LoadedSound, Walked, MergedSound,
              BooksBalance, Outstanding
<1>3. QED
  BY <1>1, <1>2

LEMMA InvHolds == Spec => []Inv
<1>1. QED
  BY InvInit, InvNext, PTL DEF Spec

\* Counters and what is billed and lost stay numbers (a counter never goes below
\* zero), the slices hold entries of users, and the reporter is at one of its places.
THEOREM TrafficTyped == Spec => []TypeOK
<1>1. Inv => TypeOK
  BY TypeParts DEF Inv
<1>2. QED
  BY <1>1, InvHolds, PTL

\* For every user, what was transferred is billed, on its way, or lost in one of the
\* ways named, and only a body whose answer was lost is billed again.
THEOREM BooksAreBalanced == Spec => []BooksBalance
<1>1. Inv => BooksBalance
  BY DEF Inv
<1>2. QED
  BY <1>1, InvHolds, PTL

=============================================================================
