-------------------------- MODULE ConfigFileProofs --------------------------
(***************************************************************************)
(* Proofs about ConfigFile.  The loops of patchConfigFile are functions of *)
(* the turn, and so are proved about by induction over the turns: NatInd   *)
(* is induction with the set of the good numbers in the place of the       *)
(* predicate.                                                              *)
(***************************************************************************)
EXTENDS ConfigFile, FiniteSetTheorems, WellFoundedInduction, TLAPS
-----------------------------------------------------------------------------
(* Every nonempty set of naturals has a least element. *)
LEMMA LeastNat ==
  ASSUME NEW T \in SUBSET Nat, T # {}
  PROVE  \E x \in T : \A y \in T : x <= y
<1> DEFINE R == {p \in Nat \X Nat : p[1] < p[2]}
<1>1. IsWellFoundedOn(R, Nat)
  BY NatLessThanWellFounded DEF OpToRel
<1>2. PICK x \in T : \A y \in T : <<y, x>> \notin R
  <2> HIDE DEF R
  <2> QED BY <1>1, WFMin
<1>3. \A y \in T : ~(y < x)
  BY <1>2
<1> QED
  BY <1>3

(* A set that holds 0 and is closed under the steps below n holds 0 .. n. *)
Inductive(n, S) == 0 \in S /\ \A k \in 1 .. n : k - 1 \in S => k \in S

LEMMA NatInd ==
  ASSUME NEW n \in Nat, NEW S, Inductive(n, S)
  PROVE  \A k \in 0 .. n : k \in S
<1> DEFINE T == (0 .. n) \ S
<1> SUFFICES ASSUME T # {} PROVE FALSE
  OBVIOUS
<1>1. PICK x \in T : \A y \in T : x <= y
  <2>1. T \in SUBSET Nat
    OBVIOUS
  <2> HIDE DEF T
  <2> QED BY <2>1, LeastNat
<1>2. x \in 1 .. n
  BY DEF Inductive
<1>3. x - 1 \in 0 .. n /\ x - 1 < x
  BY <1>2
<1>4. x - 1 \in S
  BY <1>1, <1>3
<1> QED
  BY <1>2, <1>4 DEF Inductive

(* A loop of n turns has a value after each of them. *)
Loop(n, A, x, step) ==
  \E g \in [0 .. n -> A] : g[0] = x /\ \A k \in 1 .. n : g[k] = step[k][g[k - 1]]

LEMMA TurnsExist ==
  ASSUME NEW n \in Nat, NEW A, NEW x \in A, NEW step \in [1 .. n -> [A -> A]]
  PROVE  Loop(n, A, x, step)
<1> DEFINE Good(m, g) == g[0] = x /\ \A k \in 1 .. m : g[k] = step[k][g[k - 1]]
           Has(m) == \E g \in [0 .. m -> A] : Good(m, g)
           S == {m \in 0 .. n : Has(m)}
<1>1. Has(0)
  <2> DEFINE h == [i \in 0 .. 0 |-> x]
  <2>1. h \in [0 .. 0 -> A] /\ h[0] = x
    OBVIOUS
  <2>2. \A k \in 1 .. 0 : FALSE
    OBVIOUS
  <2>3. Good(0, h)
    BY <2>1, <2>2
  <2> HIDE DEF Good, h
  <2> QED BY <2>1, <2>3
<1>2. ASSUME NEW m \in 1 .. n, Has(m - 1)
      PROVE  Has(m)
  <2>1. PICK g \in [0 .. m - 1 -> A] : Good(m - 1, g)
    BY <1>2
  <2> DEFINE new == step[m][g[m - 1]]
             h == [i \in 0 .. m |-> IF i = m THEN new ELSE g[i]]
  <2>2. new \in A
    OBVIOUS
  <2> HIDE DEF new
  <2>3. h \in [0 .. m -> A]
    BY <2>2
  <2>4. h[0] = x
    BY <2>1
  <2>5. ASSUME NEW k \in 1 .. m
        PROVE  h[k] = step[k][h[k - 1]]
    <3>1. h[k - 1] = g[k - 1]
      OBVIOUS
    <3>2. CASE k = m
      <4>1. h[k] = new
        BY <3>2
      <4> HIDE DEF h
      <4> QED BY <3>1, <3>2, <4>1 DEF new
    <3>3. CASE k # m
      <4>1. k \in 1 .. m - 1 /\ h[k] = g[k]
        BY <3>3
      <4> QED BY <2>1, <3>1, <4>1
    <3> QED BY <3>2, <3>3
  <2> HIDE DEF h
  <2>6. Good(m, h)
    BY <2>4, <2>5
  <2> HIDE DEF Good
  <2> QED BY <2>3, <2>6
<1>3. n \in S
  <2> HIDE DEF Has
  <2>1. Inductive(n, S)
    BY <1>1, <1>2 DEF Inductive
  <2> HIDE DEF S
  <2> QED BY <2>1, NatInd
<1> QED
  BY <1>3 DEF Loop

(* What holds at first and is kept by every turn holds at all of them. *)
Stays(n, A, g) == g[0] \in A /\ \A k \in 1 .. n : g[k - 1] \in A => g[k] \in A

LEMMA StaysIn ==
  ASSUME NEW n \in Nat, NEW A, NEW g, Stays(n, A, g)
  PROVE  \A k \in 0 .. n : g[k] \in A
<1> DEFINE S == {k \in 0 .. n : g[k] \in A}
<1>1. Inductive(n, S)
  BY DEF Stays, Inductive
<1>2. \A k \in 0 .. n : k \in S
  <2> HIDE DEF S
  <2> QED BY <1>1, NatInd
<1> QED
  BY <1>2
-----------------------------------------------------------------------------
Unique(f) == \A i, j \in DOMAIN f : i # j => f[i].name # f[j].name

(* The entry that a name is found at, from the front and from the back. *)
LEMMA PosFound ==
  ASSUME NEW f \in Seq(Entry), NEW n
  PROVE  /\ Pos(f, n) \in 0 .. Len(f)
         /\ Pos(f, n) = 0 <=> n \notin Names(f)
         /\ Pos(f, n) # 0 => f[Pos(f, n)].name = n
<1> DEFINE I == {i \in 1 .. Len(f) : f[i].name = n}
<1>1. Pos(f, n) = IF I # {} THEN Min(I) ELSE 0
  BY DEF Pos, SelectInSeq
<1>2. I # {} => Min(I) \in I
  <2>1. I \in SUBSET Nat
    OBVIOUS
  <2> HIDE DEF I
  <2> QED BY <2>1, LeastNat DEF Min
<1>3. I # {} <=> n \in Names(f)
  BY DEF Names
<1> QED
  BY <1>1, <1>2, <1>3

LEMMA LastPosFound ==
  ASSUME NEW f \in Seq(Entry), NEW n
  PROVE  /\ LastPos(f, n) \in 0 .. Len(f)
         /\ LastPos(f, n) = 0 <=> n \notin Names(f)
         /\ LastPos(f, n) # 0 => f[LastPos(f, n)].name = n
<1> DEFINE I == {i \in 1 .. Len(f) : f[i].name = n}
           J == {Len(f) - i : i \in I}
<1>1. LastPos(f, n) = IF I # {} THEN Max(I) ELSE 0
  BY DEF LastPos, SelectLastInSeq
<1>2. I # {} => Max(I) \in I
  <2> SUFFICES ASSUME I # {} PROVE \E x \in I : \A y \in I : x >= y
    BY DEF Max
  <2>1. J \in SUBSET Nat /\ J # {}
    OBVIOUS
  <2>2. PICK j \in J : \A y \in J : j <= y
    <3> HIDE DEF J
    <3> QED BY <2>1, LeastNat
  <2>3. PICK x \in I : j = Len(f) - x
    OBVIOUS
  <2>4. ASSUME NEW y \in I PROVE x >= y
    <3>1. j <= Len(f) - y
      BY <2>2
    <3> QED BY <2>3, <3>1
  <2> QED BY <2>4
<1>3. I # {} <=> n \in Names(f)
  BY DEF Names
<1> QED
  BY <1>1, <1>2, <1>3

LEMMA Removed ==
  ASSUME NEW f \in Seq(Entry), NEW i \in 1 .. Len(f)
  PROVE  /\ RemoveAt(f, i) \in Seq(Entry)
         /\ Len(RemoveAt(f, i)) = Len(f) - 1
         /\ \A k \in 1 .. Len(f) - 1 : RemoveAt(f, i)[k] = IF k < i THEN f[k] ELSE f[k + 1]
<1> DEFINE s == SubSeq(f, 1, i - 1)
           t == SubSeq(f, i + 1, Len(f))
<1>1. s \in Seq(Entry) /\ Len(s) = i - 1 /\ \A k \in 1 .. i - 1 : s[k] = f[k]
  OBVIOUS
<1>2. t \in Seq(Entry) /\ Len(t) = Len(f) - i /\ \A k \in 1 .. Len(f) - i : t[k] = f[k + i]
  OBVIOUS
<1>3. RemoveAt(f, i) = s \o t
  BY DEF RemoveAt
<1> HIDE DEF s, t
<1>4. s \o t \in Seq(Entry) /\ Len(s \o t) = Len(f) - 1
  BY <1>1, <1>2
<1>5. ASSUME NEW k \in 1 .. Len(f) - 1
      PROVE  (s \o t)[k] = IF k < i THEN f[k] ELSE f[k + 1]
  <2>1. CASE k < i
    BY <1>1, <1>2, <2>1
  <2>2. CASE ~(k < i)
    <3>1. k - Len(s) \in 1 .. Len(t) /\ (s \o t)[k] = t[k - Len(s)]
      BY <1>1, <1>2, <2>2
    <3> QED BY <1>1, <1>2, <2>2, <3>1
  <2> QED BY <2>1, <2>2
<1> QED
  BY <1>3, <1>4, <1>5
-----------------------------------------------------------------------------
(* Others: its turns, and what they leave of the entries called n. *)
UpTo(f, n) ==
  LET upto[k \in 0 .. Len(f)] ==
        IF k = 0 THEN <<>>
        ELSE IF f[k].name = n THEN upto[k - 1] ELSE Append(upto[k - 1], f[k])
  IN upto

LEMMA UpToTurns ==
  ASSUME NEW f \in Seq(Entry), NEW n
  PROVE  /\ UpTo(f, n) \in [0 .. Len(f) -> Seq(Entry)]
         /\ UpTo(f, n)[0] = <<>>
         /\ \A k \in 1 .. Len(f) :
              UpTo(f, n)[k] = IF f[k].name = n THEN UpTo(f, n)[k - 1]
                              ELSE Append(UpTo(f, n)[k - 1], f[k])
         /\ Others(f, n) = UpTo(f, n)[Len(f)]
<1> DEFINE P(g) == g = [k \in 0 .. Len(f) |->
                          IF k = 0 THEN <<>>
                          ELSE IF f[k].name = n THEN g[k - 1] ELSE Append(g[k - 1], f[k])]
           step == [k \in 1 .. Len(f) |->
                      [s \in Seq(Entry) |-> IF f[k].name = n THEN s ELSE Append(s, f[k])]]
<1>1. UpTo(f, n) = CHOOSE g : P(g)
  BY DEF UpTo
<1>2. PICK h \in [0 .. Len(f) -> Seq(Entry)] :
        h[0] = <<>> /\ \A k \in 1 .. Len(f) : h[k] = step[k][h[k - 1]]
  <2>1. step \in [1 .. Len(f) -> [Seq(Entry) -> Seq(Entry)]]
    OBVIOUS
  <2>2. <<>> \in Seq(Entry) /\ Len(f) \in Nat
    OBVIOUS
  <2>3. Loop(Len(f), Seq(Entry), <<>>, step)
    <3> HIDE DEF step, P
    <3> QED BY <2>1, <2>2, TurnsExist
  <2> HIDE DEF step, P
  <2> QED BY <2>3 DEF Loop
<1>3. P(h)
  <2>1. ASSUME NEW k \in 1 .. Len(f)
        PROVE  h[k] = IF f[k].name = n THEN h[k - 1] ELSE Append(h[k - 1], f[k])
    <3>1. h[k - 1] \in Seq(Entry)
      OBVIOUS
    <3> QED BY <1>2, <3>1
  <2> HIDE DEF step
  <2>2. \A k \in 0 .. Len(f) :
          h[k] = IF k = 0 THEN <<>>
                 ELSE IF f[k].name = n THEN h[k - 1] ELSE Append(h[k - 1], f[k])
    <3> HIDE DEF P
    <3> TAKE k \in 0 .. Len(f)
    <3>1. k = 0 \/ k \in 1 .. Len(f)
      OBVIOUS
    <3> QED BY <1>2, <2>1, <3>1
  <2> QED BY <2>2
<1> HIDE DEF step
<1>4. P(UpTo(f, n))
  <2> HIDE DEF P
  <2> QED BY <1>1, <1>3
<1>5. ASSUME NEW k \in 1 .. Len(f)
      PROVE  UpTo(f, n)[k] = IF f[k].name = n THEN UpTo(f, n)[k - 1]
                             ELSE Append(UpTo(f, n)[k - 1], f[k])
  <2>1. k \in 0 .. Len(f) /\ k # 0
    OBVIOUS
  <2> QED BY <1>4, <2>1
<1>6. UpTo(f, n)[0] = <<>> /\ DOMAIN UpTo(f, n) = 0 .. Len(f)
  BY <1>4
<1>7. \A k \in 0 .. Len(f) : UpTo(f, n)[k] \in Seq(Entry)
  <2> HIDE DEF P
  <2>1. UpTo(f, n)[0] \in Seq(Entry)
    BY <1>6
  <2>2. ASSUME NEW k \in 1 .. Len(f), UpTo(f, n)[k - 1] \in Seq(Entry)
        PROVE  UpTo(f, n)[k] \in Seq(Entry)
    <3>1. f[k] \in Entry
      OBVIOUS
    <3>2. Append(UpTo(f, n)[k - 1], f[k]) \in Seq(Entry)
      <4> HIDE DEF Entry
      <4> QED BY <2>2, <3>1
    <3> QED BY <1>5, <2>2, <3>2
  <2>3. Stays(Len(f), Seq(Entry), UpTo(f, n))
    BY <2>1, <2>2 DEF Stays
  <2>4. Len(f) \in Nat
    OBVIOUS
  <2> QED BY <2>3, <2>4, StaysIn
<1>8. UpTo(f, n) \in [0 .. Len(f) -> Seq(Entry)]
  <2>1. UpTo(f, n) = [k \in 0 .. Len(f) |-> UpTo(f, n)[k]]
    BY <1>4
  <2> QED BY <1>7, <2>1
<1>9. Others(f, n) = UpTo(f, n)[Len(f)]
  BY DEF Others, UpTo
<1> QED
  BY <1>5, <1>6, <1>8, <1>9
-----------------------------------------------------------------------------
(* One turn of each of the two loops gives a file. *)
LEMMA Dropped ==
  ASSUME NEW next, NEW f \in Seq(Entry), NEW e
  PROVE  DropEntry(next, f, e) \in Seq(Entry)
<1>1. CASE e.name \in Names(next) \/ Pos(f, e.name) = 0
  BY <1>1 DEF DropEntry
<1>2. CASE ~(e.name \in Names(next) \/ Pos(f, e.name) = 0)
  <2>1. Pos(f, e.name) \in 1 .. Len(f)
    BY <1>2, PosFound
  <2> QED BY <1>2, <2>1, Removed DEF DropEntry
<1> QED
  BY <1>1, <1>2

LEMMA EditTyped ==
  ASSUME NEW e \in Entry, NEW o \in Entry, NEW old \in Entry
  PROVE  Inserted(e) \in Entry /\ Edited(old, o, e) \in Entry
  BY DEF Inserted, Edited, Entry

(* The entry that a turn leaves where it has found one. *)
Turned(old, o, e) == IF Structural(o, e) THEN Inserted(e) ELSE Edited(old, o, e)

PatchParts(prev, f, e) ==
  /\ e.name \notin Names(prev) => PatchEntry(prev, f, e) = Append(f, Inserted(e))
  /\ e.name \in Names(prev) /\ e.name \notin Names(f) => PatchEntry(prev, f, e) = f
  /\ e.name \in Names(prev) /\ e.name \in Names(f) =>
       /\ Turned(f[Pos(f, e.name)], prev[LastPos(prev, e.name)], e) \in Entry
       /\ PatchEntry(prev, f, e) =
            [f EXCEPT ![Pos(f, e.name)] =
               Turned(f[Pos(f, e.name)], prev[LastPos(prev, e.name)], e)]

LEMMA PatchedAt ==
  ASSUME NEW prev \in Seq(Entry), NEW f \in Seq(Entry), NEW e \in Entry
  PROVE  PatchParts(prev, f, e) /\ PatchEntry(prev, f, e) \in Seq(Entry)
<1> DEFINE i == Pos(f, e.name)
           l == LastPos(prev, e.name)
<1>1. /\ i \in 0 .. Len(f) /\ (i = 0 <=> e.name \notin Names(f))
      /\ l \in 0 .. Len(prev) /\ (l = 0 <=> e.name \notin Names(prev))
  BY PosFound, LastPosFound
<1>2. PatchEntry(prev, f, e) =
        IF l = 0 THEN Append(f, Inserted(e))
        ELSE IF i = 0 THEN f ELSE [f EXCEPT ![i] = Turned(f[i], prev[l], e)]
  BY DEF PatchEntry, Turned
<1> HIDE DEF i, l
<1>3. Inserted(e) \in Entry
  BY EditTyped
<1>4. l # 0 /\ i # 0 => Turned(f[i], prev[l], e) \in Entry
  <2> SUFFICES ASSUME l # 0, i # 0 PROVE Turned(f[i], prev[l], e) \in Entry
    OBVIOUS
  <2>1. f[i] \in Entry /\ prev[l] \in Entry
    BY <1>1
  <2> QED BY <2>1, EditTyped DEF Turned
<1>5. CASE l = 0
  BY <1>1, <1>2, <1>3, <1>5 DEF i, l, PatchParts
<1>6. CASE l # 0 /\ i = 0
  BY <1>1, <1>2, <1>6 DEF i, l, PatchParts
<1>7. CASE l # 0 /\ i # 0
  <2>1. [f EXCEPT ![i] = Turned(f[i], prev[l], e)] \in Seq(Entry)
    <3> HIDE DEF Entry
    <3> QED BY <1>1, <1>4, <1>7
  <2> QED BY <1>1, <1>2, <1>4, <1>7, <2>1 DEF i, l, PatchParts
<1> QED
  BY <1>5, <1>6, <1>7
-----------------------------------------------------------------------------
(* The turns of the loop over prev *)
Drops(f, prev, next) ==
  LET turn[k \in 0 .. Len(prev)] == IF k = 0 THEN f ELSE DropEntry(next, turn[k - 1], prev[k])
  IN turn

LEMMA DropsAre ==
  ASSUME NEW f \in Seq(Entry), NEW prev \in Seq(Entry), NEW next
  PROVE  /\ Drops(f, prev, next) \in [0 .. Len(prev) -> Seq(Entry)]
         /\ Drops(f, prev, next)[0] = f
         /\ \A k \in 1 .. Len(prev) : Drops(f, prev, next)[k] = DropEntry(next, Drops(f, prev, next)[k - 1], prev[k])
         /\ Kept(f, prev, next) = Drops(f, prev, next)[Len(prev)]
<1> DEFINE P(g) == g = [k \in 0 .. Len(prev) |-> IF k = 0 THEN f ELSE DropEntry(next, g[k - 1], prev[k])]
           step == [k \in 1 .. Len(prev) |-> [s \in Seq(Entry) |-> DropEntry(next, s, prev[k])]]
<1>0. \A k \in 1 .. Len(prev), s \in Seq(Entry) : DropEntry(next, s, prev[k]) \in Seq(Entry)
  <2>1. \A k \in 1 .. Len(prev) : prev[k] \in Entry
    <3> HIDE DEF Entry
    <3> QED OBVIOUS
  <2> QED BY <2>1, Dropped
<1>1. Drops(f, prev, next) = CHOOSE g : P(g)
  BY DEF Drops
<1>2. PICK h \in [0 .. Len(prev) -> Seq(Entry)] :
        h[0] = f /\ \A k \in 1 .. Len(prev) : h[k] = step[k][h[k - 1]]
  <2>1. step \in [1 .. Len(prev) -> [Seq(Entry) -> Seq(Entry)]]
    BY <1>0
  <2>2. Len(prev) \in Nat
    OBVIOUS
  <2>3. Loop(Len(prev), Seq(Entry), f, step)
    <3> HIDE DEF step, P
    <3> QED BY <2>1, <2>2, TurnsExist
  <2> HIDE DEF step, P
  <2> QED BY <2>3 DEF Loop
<1>3. P(h)
  <2>1. ASSUME NEW k \in 1 .. Len(prev)
        PROVE  h[k] = DropEntry(next, h[k - 1], prev[k])
    <3>1. h[k - 1] \in Seq(Entry)
      OBVIOUS
    <3> QED BY <1>2, <3>1
  <2> HIDE DEF step
  <2>2. \A k \in 0 .. Len(prev) : h[k] = IF k = 0 THEN f ELSE DropEntry(next, h[k - 1], prev[k])
    <3> HIDE DEF P
    <3> TAKE k \in 0 .. Len(prev)
    <3>1. k = 0 \/ k \in 1 .. Len(prev)
      OBVIOUS
    <3> QED BY <1>2, <2>1, <3>1
  <2> QED BY <2>2
<1> HIDE DEF step
<1>4. P(Drops(f, prev, next))
  <2> HIDE DEF P
  <2> QED BY <1>1, <1>3
<1>5. ASSUME NEW k \in 1 .. Len(prev)
      PROVE  Drops(f, prev, next)[k] = DropEntry(next, Drops(f, prev, next)[k - 1], prev[k])
  <2>1. k \in 0 .. Len(prev) /\ k # 0
    OBVIOUS
  <2> QED BY <1>4, <2>1
<1>6. Drops(f, prev, next)[0] = f /\ DOMAIN Drops(f, prev, next) = 0 .. Len(prev)
  BY <1>4
<1>7. \A k \in 0 .. Len(prev) : Drops(f, prev, next)[k] \in Seq(Entry)
  <2> HIDE DEF P
  <2>1. Stays(Len(prev), Seq(Entry), Drops(f, prev, next))
    BY <1>0, <1>5, <1>6 DEF Stays
  <2>2. Len(prev) \in Nat
    OBVIOUS
  <2> QED BY <2>1, <2>2, StaysIn
<1>8. Drops(f, prev, next) \in [0 .. Len(prev) -> Seq(Entry)]
  <2>1. Drops(f, prev, next) = [k \in 0 .. Len(prev) |-> Drops(f, prev, next)[k]]
    BY <1>4
  <2> QED BY <1>7, <2>1
<1>9. Kept(f, prev, next) = Drops(f, prev, next)[Len(prev)]
  BY DEF Kept, Drops
<1> QED
  BY <1>5, <1>6, <1>8, <1>9
-----------------------------------------------------------------------------
(* The turns of the loop over next *)
Rewrites(f, prev, next) ==
  LET turn[k \in 0 .. Len(next)] == IF k = 0 THEN f ELSE PatchEntry(prev, turn[k - 1], next[k])
  IN turn

LEMMA RewritesAre ==
  ASSUME NEW f \in Seq(Entry), NEW prev \in Seq(Entry), NEW next \in Seq(Entry)
  PROVE  /\ Rewrites(f, prev, next) \in [0 .. Len(next) -> Seq(Entry)]
         /\ Rewrites(f, prev, next)[0] = f
         /\ \A k \in 1 .. Len(next) : Rewrites(f, prev, next)[k] = PatchEntry(prev, Rewrites(f, prev, next)[k - 1], next[k])
         /\ Rewritten(f, prev, next) = Rewrites(f, prev, next)[Len(next)]
<1> DEFINE P(g) == g = [k \in 0 .. Len(next) |-> IF k = 0 THEN f ELSE PatchEntry(prev, g[k - 1], next[k])]
           step == [k \in 1 .. Len(next) |-> [s \in Seq(Entry) |-> PatchEntry(prev, s, next[k])]]
<1>0. \A k \in 1 .. Len(next), s \in Seq(Entry) : PatchEntry(prev, s, next[k]) \in Seq(Entry)
  <2>1. \A k \in 1 .. Len(next) : next[k] \in Entry
    <3> HIDE DEF Entry
    <3> QED OBVIOUS
  <2> QED BY <2>1, PatchedAt
<1>1. Rewrites(f, prev, next) = CHOOSE g : P(g)
  BY DEF Rewrites
<1>2. PICK h \in [0 .. Len(next) -> Seq(Entry)] :
        h[0] = f /\ \A k \in 1 .. Len(next) : h[k] = step[k][h[k - 1]]
  <2>1. step \in [1 .. Len(next) -> [Seq(Entry) -> Seq(Entry)]]
    BY <1>0
  <2>2. Len(next) \in Nat
    OBVIOUS
  <2>3. Loop(Len(next), Seq(Entry), f, step)
    <3> HIDE DEF step, P
    <3> QED BY <2>1, <2>2, TurnsExist
  <2> HIDE DEF step, P
  <2> QED BY <2>3 DEF Loop
<1>3. P(h)
  <2>1. ASSUME NEW k \in 1 .. Len(next)
        PROVE  h[k] = PatchEntry(prev, h[k - 1], next[k])
    <3>1. h[k - 1] \in Seq(Entry)
      OBVIOUS
    <3> QED BY <1>2, <3>1
  <2> HIDE DEF step
  <2>2. \A k \in 0 .. Len(next) : h[k] = IF k = 0 THEN f ELSE PatchEntry(prev, h[k - 1], next[k])
    <3> HIDE DEF P
    <3> TAKE k \in 0 .. Len(next)
    <3>1. k = 0 \/ k \in 1 .. Len(next)
      OBVIOUS
    <3> QED BY <1>2, <2>1, <3>1
  <2> QED BY <2>2
<1> HIDE DEF step
<1>4. P(Rewrites(f, prev, next))
  <2> HIDE DEF P
  <2> QED BY <1>1, <1>3
<1>5. ASSUME NEW k \in 1 .. Len(next)
      PROVE  Rewrites(f, prev, next)[k] = PatchEntry(prev, Rewrites(f, prev, next)[k - 1], next[k])
  <2>1. k \in 0 .. Len(next) /\ k # 0
    OBVIOUS
  <2> QED BY <1>4, <2>1
<1>6. Rewrites(f, prev, next)[0] = f /\ DOMAIN Rewrites(f, prev, next) = 0 .. Len(next)
  BY <1>4
<1>7. \A k \in 0 .. Len(next) : Rewrites(f, prev, next)[k] \in Seq(Entry)
  <2> HIDE DEF P
  <2>1. Stays(Len(next), Seq(Entry), Rewrites(f, prev, next))
    BY <1>0, <1>5, <1>6 DEF Stays
  <2>2. Len(next) \in Nat
    OBVIOUS
  <2> QED BY <2>1, <2>2, StaysIn
<1>8. Rewrites(f, prev, next) \in [0 .. Len(next) -> Seq(Entry)]
  <2>1. Rewrites(f, prev, next) = [k \in 0 .. Len(next) |-> Rewrites(f, prev, next)[k]]
    BY <1>4
  <2> QED BY <1>7, <2>1
<1>9. Rewritten(f, prev, next) = Rewrites(f, prev, next)[Len(next)]
  BY DEF Rewritten, Rewrites
<1> QED
  BY <1>5, <1>6, <1>8, <1>9
-----------------------------------------------------------------------------
(* What Others makes of two files that differ in entries called n only *)
LEMMA OthersSame ==
  ASSUME NEW f \in Seq(Entry), NEW h \in Seq(Entry), NEW n, Len(f) = Len(h),
         \A i \in 1 .. Len(f) : f[i] = h[i] \/ (f[i].name = n /\ h[i].name = n)
  PROVE  Others(f, n) = Others(h, n)
<1> DEFINE S == {k \in 0 .. Len(f) : UpTo(f, n)[k] = UpTo(h, n)[k]}
<1>1. 0 \in S
  BY UpToTurns
<1>2. ASSUME NEW k \in 1 .. Len(f), k - 1 \in S
      PROVE  k \in S
  <2>1. UpTo(f, n)[k] = IF f[k].name = n THEN UpTo(f, n)[k - 1] ELSE Append(UpTo(f, n)[k - 1], f[k])
    BY UpToTurns
  <2>2. UpTo(h, n)[k] = IF h[k].name = n THEN UpTo(h, n)[k - 1] ELSE Append(UpTo(h, n)[k - 1], h[k])
    BY UpToTurns
  <2>3. UpTo(f, n)[k - 1] = UpTo(h, n)[k - 1]
    BY <1>2
  <2> QED BY <2>1, <2>2, <2>3
<1>3. \A k \in 0 .. Len(f) : k \in S
  <2>1. Inductive(Len(f), S) /\ Len(f) \in Nat
    BY <1>1, <1>2 DEF Inductive
  <2> HIDE DEF S
  <2> QED BY <2>1, NatInd
<1>4. UpTo(f, n)[Len(f)] = UpTo(h, n)[Len(f)]
  BY <1>3
<1> QED
  BY <1>4, UpToTurns

LEMMA OthersAppend ==
  ASSUME NEW f \in Seq(Entry), NEW e \in Entry, NEW n
  PROVE  Others(Append(f, e), n) =
           IF e.name = n THEN Others(f, n) ELSE Append(Others(f, n), e)
<1> DEFINE h == Append(f, e)
           S == {k \in 0 .. Len(f) : UpTo(f, n)[k] = UpTo(h, n)[k]}
<1>0. /\ h \in Seq(Entry) /\ Len(h) = Len(f) + 1 /\ Len(f) \in Nat
      /\ h[Len(f) + 1] = e /\ \A k \in 1 .. Len(f) : h[k] = f[k]
  <2> HIDE DEF Entry
  <2> QED OBVIOUS
<1> HIDE DEF h
<1>1. 0 \in S
  BY <1>0, UpToTurns
<1>2. ASSUME NEW k \in 1 .. Len(f), k - 1 \in S
      PROVE  k \in S
  <2>1. UpTo(f, n)[k] = IF f[k].name = n THEN UpTo(f, n)[k - 1] ELSE Append(UpTo(f, n)[k - 1], f[k])
    BY UpToTurns
  <2>2. UpTo(h, n)[k] = IF h[k].name = n THEN UpTo(h, n)[k - 1] ELSE Append(UpTo(h, n)[k - 1], h[k])
    <3>1. k \in 1 .. Len(h)
      BY <1>0
    <3> QED BY <1>0, <3>1, UpToTurns
  <2>3. UpTo(f, n)[k - 1] = UpTo(h, n)[k - 1] /\ f[k] = h[k]
    BY <1>0, <1>2
  <2> QED BY <2>1, <2>2, <2>3
<1>3. \A k \in 0 .. Len(f) : k \in S
  <2>1. Inductive(Len(f), S)
    BY <1>1, <1>2 DEF Inductive
  <2> HIDE DEF S
  <2> QED BY <1>0, <2>1, NatInd
<1>4. UpTo(h, n)[Len(f)] = Others(f, n)
  <2>1. Len(f) \in S
    BY <1>0, <1>3
  <2>2. Others(f, n) = UpTo(f, n)[Len(f)]
    BY UpToTurns
  <2> QED BY <2>1, <2>2
<1>5. Len(f) + 1 \in 1 .. Len(h) /\ (Len(f) + 1) - 1 = Len(f)
  BY <1>0
<1>6. UpTo(h, n)[Len(f) + 1] =
        IF e.name = n THEN UpTo(h, n)[Len(f)] ELSE Append(UpTo(h, n)[Len(f)], e)
  BY <1>0, <1>5, UpToTurns
<1>7. Others(h, n) = UpTo(h, n)[Len(f) + 1]
  BY <1>0, UpToTurns
<1> QED
  BY <1>4, <1>6, <1>7 DEF h

LEMMA OthersRemove ==
  ASSUME NEW f \in Seq(Entry), NEW i \in 1 .. Len(f)
  PROVE  Others(RemoveAt(f, i), f[i].name) = Others(f, f[i].name)
<1> DEFINE n == f[i].name
           h == RemoveAt(f, i)
           Later(k) == IF k < i THEN k ELSE k + 1
           S == {k \in 0 .. Len(f) - 1 : UpTo(h, n)[k] = UpTo(f, n)[Later(k)]}
<1>0. /\ h \in Seq(Entry) /\ Len(h) = Len(f) - 1 /\ Len(h) \in Nat
      /\ \A k \in 1 .. Len(h) : h[k] = f[Later(k)]
  <2>1. /\ h \in Seq(Entry) /\ Len(h) = Len(f) - 1
        /\ \A k \in 1 .. Len(f) - 1 : h[k] = IF k < i THEN f[k] ELSE f[k + 1]
    BY Removed
  <2> HIDE DEF h
  <2> QED BY <2>1
<1>9. UpTo(f, n)[i] = UpTo(f, n)[i - 1]
  BY UpToTurns
<1> HIDE DEF h, n
<1>1. 0 \in S
  <2>1. UpTo(h, n)[0] = <<>> /\ UpTo(f, n)[0] = <<>>
    BY <1>0, UpToTurns
  <2>2. i = 1 => UpTo(f, n)[1] = <<>>
    BY <1>9, <2>1
  <2> QED BY <2>1, <2>2
<1>2. ASSUME NEW k \in 1 .. Len(h), k - 1 \in S
      PROVE  k \in S
  <2>1. UpTo(h, n)[k] = IF h[k].name = n THEN UpTo(h, n)[k - 1] ELSE Append(UpTo(h, n)[k - 1], h[k])
    BY <1>0, UpToTurns
  <2>2. UpTo(h, n)[k - 1] = UpTo(f, n)[Later(k) - 1]
    <3>1. UpTo(h, n)[k - 1] = UpTo(f, n)[Later(k - 1)]
      BY <1>2
    <3>2. CASE k < i
      BY <3>1, <3>2
    <3>3. CASE k = i
      BY <1>9, <3>1, <3>3
    <3>4. CASE k > i
      BY <3>1, <3>4
    <3> QED BY <3>2, <3>3, <3>4
  <2>3. Later(k) \in 1 .. Len(f) /\ h[k] = f[Later(k)]
    BY <1>0
  <2> HIDE DEF Later
  <2>4. UpTo(f, n)[Later(k)] = IF f[Later(k)].name = n THEN UpTo(f, n)[Later(k) - 1]
                               ELSE Append(UpTo(f, n)[Later(k) - 1], f[Later(k)])
    BY <2>3, UpToTurns
  <2>5. k \in 0 .. Len(f) - 1
    BY <1>0
  <2> QED BY <2>1, <2>2, <2>3, <2>4, <2>5
<1>3. \A k \in 0 .. Len(h) : k \in S
  <2>1. Inductive(Len(h), S)
    BY <1>1, <1>2 DEF Inductive
  <2> HIDE DEF S
  <2> QED BY <1>0, <2>1, NatInd
<1>4. UpTo(h, n)[Len(h)] = UpTo(f, n)[Later(Len(h))]
  BY <1>0, <1>3
<1>5. UpTo(f, n)[Later(Len(h))] = UpTo(f, n)[Len(f)]
  <2>1. CASE i = Len(f)
    BY <1>0, <1>9, <2>1
  <2>2. CASE i # Len(f)
    BY <1>0, <2>2
  <2> QED BY <2>1, <2>2
<1> QED
  BY <1>0, <1>4, <1>5, UpToTurns DEF h, n

LEMMA OthersNone ==
  ASSUME NEW f \in Seq(Entry), NEW n, n \notin Names(f)
  PROVE  Others(f, n) = f
<1> DEFINE S == {k \in 0 .. Len(f) : Len(UpTo(f, n)[k]) = k /\ \A i \in 1 .. k : UpTo(f, n)[k][i] = f[i]}
<1>0. Len(f) \in Nat /\ \A k \in 0 .. Len(f) : UpTo(f, n)[k] \in Seq(Entry)
  BY UpToTurns
<1>1. 0 \in S
  BY UpToTurns
<1>2. ASSUME NEW k \in 1 .. Len(f), k - 1 \in S
      PROVE  k \in S
  <2> DEFINE s == UpTo(f, n)[k - 1]
  <2>1. f[k].name # n
    BY DEF Names
  <2> HIDE DEF S
  <2>2. UpTo(f, n)[k] = Append(s, f[k])
    <3>1. UpTo(f, n)[k] = IF f[k].name = n THEN UpTo(f, n)[k - 1]
                          ELSE Append(UpTo(f, n)[k - 1], f[k])
      BY UpToTurns
    <3> QED BY <2>1, <3>1
  <2>3. s \in Seq(Entry) /\ Len(s) = k - 1 /\ \A i \in 1 .. k - 1 : s[i] = f[i]
    BY <1>0, <1>2 DEF S
  <2> HIDE DEF s
  <2>4. Len(Append(s, f[k])) = k /\ \A i \in 1 .. k : Append(s, f[k])[i] = f[i]
    BY <2>3
  <2> QED BY <2>2, <2>4 DEF S
<1>3. \A k \in 0 .. Len(f) : k \in S
  <2>1. Inductive(Len(f), S)
    BY <1>1, <1>2 DEF Inductive
  <2> HIDE DEF S
  <2> QED BY <1>0, <2>1, NatInd
<1>4. Len(Others(f, n)) = Len(f) /\ \A i \in 1 .. Len(f) : Others(f, n)[i] = f[i]
  BY <1>0, <1>3, UpToTurns
<1>5. Others(f, n) \in Seq(Entry)
  BY <1>0, UpToTurns
<1> QED
  BY <1>4, <1>5

(* In a file without a name twice, the others are what is left when the    *)
(* entry of n is taken out.                                                *)
LEMMA OthersOfUnique ==
  ASSUME NEW f \in Seq(Entry), Unique(f), NEW n
  PROVE  Others(f, n) = IF n \in Names(f) THEN RemoveAt(f, Pos(f, n)) ELSE f
<1>1. CASE n \notin Names(f)
  BY <1>1, OthersNone
<1>2. CASE n \in Names(f)
  <2> DEFINE i == Pos(f, n)
             h == RemoveAt(f, i)
  <2>1. i \in 1 .. Len(f) /\ f[i].name = n
    BY <1>2, PosFound
  <2> HIDE DEF i
  <2>2. /\ h \in Seq(Entry) /\ Len(h) = Len(f) - 1
        /\ \A k \in 1 .. Len(f) - 1 : h[k] = IF k < i THEN f[k] ELSE f[k + 1]
    BY <2>1, Removed
  <2>3. Others(f, n) = Others(h, n)
    BY <2>1, OthersRemove
  <2> HIDE DEF h
  <2>4. n \notin Names(h)
    <3> SUFFICES ASSUME NEW k \in 1 .. Len(h), h[k].name = n PROVE FALSE
      BY <2>2 DEF Names
    <3>1. \A j \in 1 .. Len(f) : j # i => f[j].name # n
      BY <2>1 DEF Unique
    <3> QED BY <2>1, <2>2, <3>1
  <2> QED BY <1>2, <2>2, <2>3, <2>4, OthersNone DEF h, i
<1> QED
  BY <1>1, <1>2
-----------------------------------------------------------------------------
(* The names of the two turns, and the turn that has nothing to change *)
LEMMA TurnedName ==
  ASSUME NEW old \in Entry, NEW o \in Entry, NEW e \in Entry, old.name = e.name
  PROVE  Turned(old, o, e).name = e.name
  BY DEF Turned, Inserted, Edited, Entry

LEMMA TurnedSame ==
  ASSUME NEW old \in Entry, NEW e \in Entry
  PROVE  Turned(old, e, e) = old
<1>1. ~Structural(e, e)
  BY DEF Structural
<1>2. Edited(old, e, e) = old
  BY DEF Edited, Entry
<1> QED
  BY <1>1, <1>2 DEF Turned

LEMMA LastOfUnique ==
  ASSUME NEW f \in Seq(Entry), Unique(f), NEW i \in 1 .. Len(f)
  PROVE  LastPos(f, f[i].name) = i /\ Pos(f, f[i].name) = i
<1> DEFINE n == f[i].name
<1>1. n \in Names(f)
  BY DEF Names
<1>2. /\ LastPos(f, n) \in 1 .. Len(f) /\ f[LastPos(f, n)].name = n
      /\ Pos(f, n) \in 1 .. Len(f) /\ f[Pos(f, n)].name = n
  BY <1>1, PosFound, LastPosFound
<1> QED
  BY <1>2 DEF Unique

LEMMA NothingToChange ==
  ASSUME NEW prev \in Seq(Entry), Unique(prev), NEW i \in 1 .. Len(prev), NEW f \in Seq(Entry)
  PROVE  PatchEntry(prev, f, prev[i]) = f
<1> DEFINE e == prev[i]
           p == Pos(f, e.name)
<1>1. e \in Entry /\ e.name \in Names(prev) /\ prev[LastPos(prev, e.name)] = e
  BY LastOfUnique DEF Names
<1>2. CASE e.name \notin Names(f)
  <2>1. PatchParts(prev, f, e)
    BY <1>1, PatchedAt
  <2> QED BY <1>1, <1>2, <2>1 DEF PatchParts
<1>3. CASE e.name \in Names(f)
  <2>1. p \in 1 .. Len(f)
    BY <1>3, PosFound
  <2>2. PatchEntry(prev, f, e) = [f EXCEPT ![p] = Turned(f[p], e, e)]
    <3>1. PatchParts(prev, f, e)
      BY <1>1, PatchedAt
    <3> QED BY <1>1, <1>3, <3>1 DEF PatchParts
  <2> HIDE DEF p, e
  <2>3. f[p] \in Entry
    BY <2>1
  <2>4. Turned(f[p], e, e) = f[p]
    BY <1>1, <2>3, TurnedSame
  <2>5. [f EXCEPT ![p] = f[p]] = f
    BY <2>1
  <2> QED BY <2>2, <2>4, <2>5 DEF e
<1> QED
  BY <1>2, <1>3
-----------------------------------------------------------------------------
(* What is asked for concerns by alone: the entries that go are called by, *)
(* and the others are entries of prev.                                     *)
Concerns(by, prev, next) ==
  /\ Unique(prev)
  /\ \A n \in Names(prev) : n \notin Names(next) => n = by
  /\ \A j \in DOMAIN next : next[j].name # by => \E i \in DOMAIN prev : prev[i] = next[j]

LEMMA DropTurn ==
  ASSUME NEW by, NEW f \in Seq(Entry), NEW next, NEW e,
         e.name \notin Names(next) => e.name = by
  PROVE  Others(DropEntry(next, f, e), by) = Others(f, by)
<1>1. CASE e.name \in Names(next) \/ Pos(f, e.name) = 0
  BY <1>1 DEF DropEntry
<1>2. CASE ~(e.name \in Names(next) \/ Pos(f, e.name) = 0)
  <2>1. Pos(f, e.name) \in 1 .. Len(f) /\ f[Pos(f, e.name)].name = by
    BY <1>2, PosFound
  <2>2. DropEntry(next, f, e) = RemoveAt(f, Pos(f, e.name))
    BY <1>2 DEF DropEntry
  <2> QED BY <2>1, <2>2, OthersRemove
<1> QED
  BY <1>1, <1>2

LEMMA PatchTurn ==
  ASSUME NEW by, NEW f \in Seq(Entry), NEW prev \in Seq(Entry), NEW e \in Entry,
         Unique(prev), e.name # by => \E i \in DOMAIN prev : prev[i] = e
  PROVE  Others(PatchEntry(prev, f, e), by) = Others(f, by)
<1>1. CASE e.name # by
  <2>1. PICK i \in 1 .. Len(prev) : prev[i] = e
    BY <1>1
  <2>2. PatchEntry(prev, f, e) = f
    BY <2>1, NothingToChange
  <2> QED BY <2>2
<1>2. CASE e.name = by
  <2> DEFINE i == Pos(f, e.name)
             t == Turned(f[i], prev[LastPos(prev, e.name)], e)
  <2>0. PatchParts(prev, f, e)
    BY PatchedAt
  <2>1. CASE e.name \notin Names(prev)
    <3>1. Inserted(e) \in Entry /\ Inserted(e).name = by
      BY <1>2, EditTyped DEF Inserted, Entry
    <3>2. PatchEntry(prev, f, e) = Append(f, Inserted(e))
      BY <2>0, <2>1 DEF PatchParts
    <3> QED BY <3>1, <3>2, OthersAppend
  <2>2. CASE e.name \in Names(prev) /\ e.name \notin Names(f)
    BY <2>0, <2>2 DEF PatchParts
  <2>3. CASE e.name \in Names(prev) /\ e.name \in Names(f)
    <3>1. i \in 1 .. Len(f) /\ f[i].name = by
      BY <1>2, <2>3, PosFound
    <3>2. LastPos(prev, e.name) \in 1 .. Len(prev)
      BY <2>3, LastPosFound
    <3>3. t \in Entry /\ PatchEntry(prev, f, e) = [f EXCEPT ![i] = t]
      BY <2>0, <2>3 DEF PatchParts
    <3>4. t.name = by
      <4>1. f[i] \in Entry /\ prev[LastPos(prev, e.name)] \in Entry
        BY <3>1, <3>2
      <4> QED BY <1>2, <3>1, <4>1, TurnedName
    <3> HIDE DEF i, t
    <3>5. /\ [f EXCEPT ![i] = t] \in Seq(Entry) /\ Len([f EXCEPT ![i] = t]) = Len(f)
          /\ \A k \in 1 .. Len(f) : [f EXCEPT ![i] = t][k] = IF k = i THEN t ELSE f[k]
      <4> HIDE DEF Entry
      <4> QED BY <3>1, <3>3
    <3> DEFINE h == [f EXCEPT ![i] = t]
    <3>6. \A k \in 1 .. Len(f) : f[k] = h[k] \/ (f[k].name = by /\ h[k].name = by)
      BY <3>1, <3>4, <3>5
    <3>7. h \in Seq(Entry) /\ Len(f) = Len(h)
      BY <3>5
    <3>8. Others(f, by) = Others(h, by)
      <4> HIDE DEF h
      <4> QED BY <3>6, <3>7, OthersSame
    <3> QED BY <3>3, <3>8
  <2> QED BY <2>1, <2>2, <2>3
<1> QED
  BY <1>1, <1>2

(* The patch keeps the others, whatever file it is made in. *)
LEMMA PatchOthers ==
  ASSUME NEW by, NEW f \in Seq(Entry), NEW prev \in Seq(Entry), NEW next \in Seq(Entry),
         Concerns(by, prev, next)
  PROVE  Kept(f, prev, next) \in Seq(Entry) /\ Patch(f, prev, next) \in Seq(Entry)
         /\ Others(Kept(f, prev, next), by) = Others(f, by)
         /\ Others(Patch(f, prev, next), by) = Others(f, by)
<1> DEFINE A == {g \in Seq(Entry) : Others(g, by) = Others(f, by)}
           start == Kept(f, prev, next)
<1>1. Len(prev) \in Nat /\ Len(next) \in Nat
  OBVIOUS
<1>2. Stays(Len(prev), A, Drops(f, prev, next))
  <2>1. Drops(f, prev, next)[0] \in A
    BY DropsAre
  <2>2. ASSUME NEW k \in 1 .. Len(prev), Drops(f, prev, next)[k - 1] \in A
        PROVE  Drops(f, prev, next)[k] \in A
    <3>1. Drops(f, prev, next)[k] = DropEntry(next, Drops(f, prev, next)[k - 1], prev[k])
      BY DropsAre
    <3>2. prev[k].name \notin Names(next) => prev[k].name = by
      <4>1. prev[k].name \in Names(prev)
        BY DEF Names
      <4> QED BY <4>1 DEF Concerns
    <3>3. DropEntry(next, Drops(f, prev, next)[k - 1], prev[k]) \in A
      BY <2>2, <3>2, Dropped, DropTurn
    <3> QED BY <3>1, <3>3
  <2> QED BY <2>1, <2>2 DEF Stays
<1>3. start \in A
  <2> HIDE DEF A
  <2>1. Drops(f, prev, next)[Len(prev)] \in A
    BY <1>1, <1>2, StaysIn
  <2> QED BY <2>1, DropsAre
<1>4. start \in Seq(Entry)
  BY <1>3
<1> HIDE DEF start
<1>5. Stays(Len(next), A, Rewrites(start, prev, next))
  <2>1. Rewrites(start, prev, next)[0] \in A
    BY <1>3, <1>4, RewritesAre
  <2>2. ASSUME NEW k \in 1 .. Len(next), Rewrites(start, prev, next)[k - 1] \in A
        PROVE  Rewrites(start, prev, next)[k] \in A
    <3>1. Rewrites(start, prev, next)[k] = PatchEntry(prev, Rewrites(start, prev, next)[k - 1], next[k])
      BY <1>4, RewritesAre
    <3>2. next[k] \in Entry
      <4> HIDE DEF Entry
      <4> QED OBVIOUS
    <3>3. Unique(prev) /\ (next[k].name # by => \E i \in DOMAIN prev : prev[i] = next[k])
      BY DEF Concerns
    <3>4. PatchEntry(prev, Rewrites(start, prev, next)[k - 1], next[k]) \in Seq(Entry)
      BY <2>2, <3>2, PatchedAt
    <3>5. Others(PatchEntry(prev, Rewrites(start, prev, next)[k - 1], next[k]), by) =
            Others(Rewrites(start, prev, next)[k - 1], by)
      BY <2>2, <3>2, <3>3, PatchTurn
    <3> QED BY <2>2, <3>1, <3>4, <3>5
  <2> QED BY <2>1, <2>2 DEF Stays
<1>6. Patch(f, prev, next) \in A
  <2> HIDE DEF A
  <2>1. Rewrites(start, prev, next)[Len(next)] \in A
    BY <1>1, <1>5, StaysIn
  <2> QED BY <1>4, <2>1, RewritesAre DEF Patch, start
<1> QED
  BY <1>3, <1>6 DEF start
-----------------------------------------------------------------------------
(* A patch that brings no new name makes no name double. *)
LEMMA RemovedUnique ==
  ASSUME NEW f \in Seq(Entry), Unique(f), NEW i \in 1 .. Len(f)
  PROVE  Unique(RemoveAt(f, i))
<1> DEFINE h == RemoveAt(f, i)
<1>1. /\ h \in Seq(Entry) /\ Len(h) = Len(f) - 1
      /\ \A k \in 1 .. Len(f) - 1 : h[k] = IF k < i THEN f[k] ELSE f[k + 1]
  BY Removed
<1> HIDE DEF h
<1> SUFFICES ASSUME NEW j \in 1 .. Len(h), NEW k \in 1 .. Len(h), j < k PROVE h[j].name # h[k].name
  BY <1>1 DEF Unique, h
<1>2. PICK a \in 1 .. Len(f), b \in 1 .. Len(f) : a # b /\ h[j] = f[a] /\ h[k] = f[b]
  <2>1. CASE k < i
    <3>1. h[j] = f[j] /\ h[k] = f[k]
      BY <1>1, <2>1, SMTT(40)
    <3>2. j \in 1 .. Len(f) /\ k \in 1 .. Len(f) /\ j # k
      BY <1>1, <2>1
    <3> QED BY <3>1, <3>2
  <2>2. CASE j < i /\ ~(k < i)
    <3>1. h[j] = f[j] /\ h[k] = f[k + 1] /\ j # k + 1
      BY <1>1, <2>2
    <3> QED BY <1>1, <3>1
  <2>3. CASE ~(j < i)
    <3>1. h[j] = f[j + 1] /\ h[k] = f[k + 1] /\ j + 1 # k + 1
      BY <1>1, <2>3
    <3> QED BY <1>1, <3>1
  <2> QED BY <2>1, <2>2, <2>3
<1> QED
  BY <1>2 DEF Unique

LEMMA DropUnique ==
  ASSUME NEW next, NEW f \in Seq(Entry), Unique(f), NEW e
  PROVE  Unique(DropEntry(next, f, e))
<1>1. CASE e.name \in Names(next) \/ Pos(f, e.name) = 0
  BY <1>1 DEF DropEntry
<1>2. CASE ~(e.name \in Names(next) \/ Pos(f, e.name) = 0)
  <2>1. Pos(f, e.name) \in 1 .. Len(f)
    BY <1>2, PosFound
  <2>2. DropEntry(next, f, e) = RemoveAt(f, Pos(f, e.name))
    BY <1>2 DEF DropEntry
  <2> QED BY <2>1, <2>2, RemovedUnique
<1> QED
  BY <1>1, <1>2

(* A turn that finds the name in prev keeps the names where they are. *)
LEMMA PatchNames ==
  ASSUME NEW prev \in Seq(Entry), NEW f \in Seq(Entry), NEW e \in Entry, e.name \in Names(prev)
  PROVE  /\ PatchEntry(prev, f, e) \in Seq(Entry)
         /\ Len(PatchEntry(prev, f, e)) = Len(f)
         /\ \A k \in 1 .. Len(f) : PatchEntry(prev, f, e)[k].name = f[k].name
<1>0. PatchParts(prev, f, e) /\ PatchEntry(prev, f, e) \in Seq(Entry)
  BY PatchedAt
<1>1. CASE e.name \notin Names(f)
  BY <1>0, <1>1 DEF PatchParts
<1>2. CASE e.name \in Names(f)
  <2> DEFINE i == Pos(f, e.name)
             t == Turned(f[i], prev[LastPos(prev, e.name)], e)
  <2>1. i \in 1 .. Len(f) /\ f[i].name = e.name
    BY <1>2, PosFound
  <2>2. t \in Entry /\ PatchEntry(prev, f, e) = [f EXCEPT ![i] = t]
    BY <1>0, <1>2 DEF PatchParts
  <2>3. t.name = e.name
    <3>1. f[i] \in Entry /\ prev[LastPos(prev, e.name)] \in Entry
      BY <2>1, LastPosFound
    <3> QED BY <2>1, <3>1, TurnedName
  <2> HIDE DEF i, t
  <2>4. /\ Len([f EXCEPT ![i] = t]) = Len(f)
        /\ \A k \in 1 .. Len(f) : [f EXCEPT ![i] = t][k] = IF k = i THEN t ELSE f[k]
    <3> HIDE DEF Entry
    <3> QED BY <2>1, <2>2
  <2> QED BY <1>0, <2>1, <2>2, <2>3, <2>4
<1> QED
  BY <1>1, <1>2

LEMMA PatchUnique ==
  ASSUME NEW f \in Seq(Entry), NEW prev \in Seq(Entry), NEW next \in Seq(Entry),
         Unique(f), Names(next) \subseteq Names(prev)
  PROVE  Unique(Patch(f, prev, next))
<1> DEFINE A == {g \in Seq(Entry) : Unique(g)}
           start == Kept(f, prev, next)
<1>1. Len(prev) \in Nat /\ Len(next) \in Nat
  OBVIOUS
<1>2. Stays(Len(prev), A, Drops(f, prev, next))
  <2>1. Drops(f, prev, next)[0] \in A
    BY DropsAre
  <2>2. ASSUME NEW k \in 1 .. Len(prev), Drops(f, prev, next)[k - 1] \in A
        PROVE  Drops(f, prev, next)[k] \in A
    <3>1. Drops(f, prev, next)[k] = DropEntry(next, Drops(f, prev, next)[k - 1], prev[k])
      BY DropsAre
    <3> QED BY <2>2, <3>1, Dropped, DropUnique
  <2> QED BY <2>1, <2>2 DEF Stays
<1>3. start \in A
  <2> HIDE DEF A
  <2>1. Drops(f, prev, next)[Len(prev)] \in A
    BY <1>1, <1>2, StaysIn
  <2> QED BY <2>1, DropsAre
<1>4. start \in Seq(Entry)
  BY <1>3
<1> HIDE DEF start
<1>5. Stays(Len(next), A, Rewrites(start, prev, next))
  <2>1. Rewrites(start, prev, next)[0] \in A
    BY <1>3, <1>4, RewritesAre
  <2>2. ASSUME NEW k \in 1 .. Len(next), Rewrites(start, prev, next)[k - 1] \in A
        PROVE  Rewrites(start, prev, next)[k] \in A
    <3> DEFINE g == Rewrites(start, prev, next)[k - 1]
               h == PatchEntry(prev, g, next[k])
    <3>1. Rewrites(start, prev, next)[k] = h
      BY <1>4, RewritesAre
    <3>2. next[k] \in Entry /\ next[k].name \in Names(prev)
      <4>1. next[k] \in Entry
        <5> HIDE DEF Entry
        <5> QED OBVIOUS
      <4>2. next[k].name \in Names(next)
        BY DEF Names
      <4> QED BY <4>1, <4>2
    <3>3. g \in Seq(Entry) /\ Unique(g)
      BY <2>2
    <3> HIDE DEF g
    <3>4. h \in Seq(Entry) /\ Len(h) = Len(g) /\ \A i \in 1 .. Len(g) : h[i].name = g[i].name
      BY <3>2, <3>3, PatchNames
    <3> HIDE DEF h
    <3>5. Unique(h)
      <4> SUFFICES ASSUME NEW i \in DOMAIN h, NEW j \in DOMAIN h, i # j
                   PROVE  h[i].name # h[j].name
        BY DEF Unique
      <4>1. i \in 1 .. Len(g) /\ j \in 1 .. Len(g)
        BY <3>4
      <4>2. g[i].name # g[j].name
        BY <3>3, <4>1 DEF Unique
      <4> QED BY <3>4, <4>1, <4>2
    <3> QED BY <3>1, <3>4, <3>5
  <2> QED BY <2>1, <2>2 DEF Stays
<1>6. Patch(f, prev, next) \in A
  <2> HIDE DEF A
  <2>1. Rewrites(start, prev, next)[Len(next)] \in A
    BY <1>1, <1>5, StaysIn
  <2> QED BY <1>4, <2>1, RewritesAre DEF Patch, start
<1> QED
  BY <1>6
-----------------------------------------------------------------------------
(* In the file that was loaded the patch makes what was asked for.  The    *)
(* loop over prev has nothing to do when every name stays, the loop over   *)
(* next when every entry stays.                                            *)
LEMMA KeptSame ==
  ASSUME NEW f \in Seq(Entry), NEW prev \in Seq(Entry), NEW next, Names(prev) \subseteq Names(next)
  PROVE  Kept(f, prev, next) = f
<1>1. Stays(Len(prev), {f}, Drops(f, prev, next))
  <2>1. ASSUME NEW k \in 1 .. Len(prev), Drops(f, prev, next)[k - 1] = f
        PROVE  Drops(f, prev, next)[k] = f
    <3>1. prev[k].name \in Names(next)
      <4>1. prev[k].name \in Names(prev)
        BY DEF Names
      <4> QED BY <4>1
    <3>2. Drops(f, prev, next)[k] = DropEntry(next, f, prev[k])
      BY <2>1, DropsAre
    <3> QED BY <3>1, <3>2 DEF DropEntry
  <2> QED BY <2>1, DropsAre DEF Stays
<1>2. Len(prev) \in Nat
  OBVIOUS
<1>3. Drops(f, prev, next)[Len(prev)] \in {f}
  BY <1>1, <1>2, StaysIn
<1> QED
  BY <1>3, DropsAre

(* The first n turns over entries of prev leave the file as it is. *)
LEMMA RewritesSame ==
  ASSUME NEW f \in Seq(Entry), NEW prev \in Seq(Entry), Unique(prev), NEW next \in Seq(Entry),
         NEW n \in 0 .. Len(next),
         \A j \in 1 .. n : \E i \in 1 .. Len(prev) : next[j] = prev[i]
  PROVE  Rewrites(f, prev, next)[n] = f
<1>1. Stays(n, {f}, Rewrites(f, prev, next))
  <2>1. ASSUME NEW k \in 1 .. n, Rewrites(f, prev, next)[k - 1] = f
        PROVE  Rewrites(f, prev, next)[k] = f
    <3>1. PICK i \in 1 .. Len(prev) : next[k] = prev[i]
      OBVIOUS
    <3>2. k \in 1 .. Len(next)
      OBVIOUS
    <3>3. Rewrites(f, prev, next)[k] = PatchEntry(prev, f, next[k])
      BY <2>1, <3>2, RewritesAre
    <3> QED BY <3>1, <3>3, NothingToChange
  <2> QED BY <2>1, RewritesAre DEF Stays
<1>2. Rewrites(f, prev, next)[n] \in {f}
  BY <1>1, StaysIn
<1> QED
  BY <1>2

(* An entry is added. *)
LEMMA AddedExact ==
  ASSUME NEW prev \in Seq(Entry), Unique(prev), NEW x \in Entry,
         x.dir = "default", x.name \notin Names(prev)
  PROVE  Patch(prev, prev, Append(prev, x)) = Append(prev, x)
<1> DEFINE next == Append(prev, x)
           n == Len(prev)
<1>1. /\ next \in Seq(Entry) /\ Len(next) = n + 1 /\ n \in Nat
      /\ next[n + 1] = x /\ \A k \in 1 .. n : next[k] = prev[k]
  <2> HIDE DEF Entry
  <2> QED OBVIOUS
<1> HIDE DEF next
<1>2. Kept(prev, prev, next) = prev
  <2>1. Names(prev) \subseteq Names(next)
    BY <1>1 DEF Names
  <2> QED BY <2>1, KeptSame
<1>3. Rewrites(prev, prev, next)[n] = prev
  <2>1. n \in 0 .. Len(next) /\ \A j \in 1 .. n : \E i \in 1 .. Len(prev) : next[j] = prev[i]
    BY <1>1
  <2> HIDE DEF n
  <2> QED BY <1>1, <2>1, RewritesSame
<1>4. Rewrites(prev, prev, next)[n + 1] = PatchEntry(prev, prev, x)
  <2>1. n + 1 \in 1 .. Len(next) /\ (n + 1) - 1 = n
    BY <1>1
  <2>2. Rewrites(prev, prev, next)[n + 1] =
          PatchEntry(prev, Rewrites(prev, prev, next)[(n + 1) - 1], next[n + 1])
    <3> HIDE DEF n
    <3> QED BY <1>1, <2>1, RewritesAre
  <2> QED BY <1>1, <1>3, <2>1, <2>2
<1>5. PatchEntry(prev, prev, x) = Append(prev, Inserted(x))
  <2>1. PatchParts(prev, prev, x)
    BY PatchedAt
  <2> QED BY <2>1 DEF PatchParts
<1>6. Inserted(x) = x
  BY DEF Inserted, Entry
<1>7. Rewritten(prev, prev, next) = Rewrites(prev, prev, next)[n + 1]
  BY <1>1, RewritesAre
<1> QED
  BY <1>2, <1>4, <1>5, <1>6, <1>7 DEF Patch, next

(* The entry of a name is taken out. *)
LEMMA RemovedExact ==
  ASSUME NEW prev \in Seq(Entry), Unique(prev), NEW by
  PROVE  Patch(prev, prev, Others(prev, by)) = Others(prev, by)
<1> DEFINE next == Others(prev, by)
<1>1. next \in Seq(Entry) /\ Len(prev) \in Nat /\ Len(next) \in Nat
  BY UpToTurns
<1>2. next = IF by \in Names(prev) THEN RemoveAt(prev, Pos(prev, by)) ELSE prev
  BY OthersOfUnique
<1> HIDE DEF next
<1>3. CASE by \notin Names(prev)
  <2>1. next = prev
    BY <1>2, <1>3
  <2>2. Kept(prev, prev, next) = prev
    BY <2>1, KeptSame
  <2>3. Rewrites(prev, prev, next)[Len(next)] = prev
    <3>1. Len(next) \in 0 .. Len(next) /\ \A j \in 1 .. Len(next) : \E i \in 1 .. Len(prev) : next[j] = prev[i]
      BY <1>1, <2>1
    <3> QED BY <1>1, <3>1, RewritesSame
  <2> QED BY <1>1, <2>1, <2>2, <2>3, RewritesAre DEF Patch, next
<1>4. CASE by \in Names(prev)
  <2> DEFINE i == Pos(prev, by)
             g == Drops(prev, prev, next)
  <2>1. i \in 1 .. Len(prev) /\ prev[i].name = by /\ next = RemoveAt(prev, i)
    BY <1>2, <1>4, PosFound
  <2>2. Len(next) = Len(prev) - 1 /\ \A k \in 1 .. Len(next) : next[k] = IF k < i THEN prev[k] ELSE prev[k + 1]
    BY <2>1, Removed
  <2>3. \A j \in 1 .. Len(next) : \E a \in 1 .. Len(prev) : a # i /\ next[j] = prev[a]
    <3> TAKE j \in 1 .. Len(next)
    <3> DEFINE a == IF j < i THEN j ELSE j + 1
    <3>1. a \in 1 .. Len(prev) /\ a # i /\ next[j] = prev[a]
      BY <1>1, <2>1, <2>2
    <3> QED BY <3>1
  <2>4. \A k \in 1 .. Len(prev) : k # i => prev[k].name \in Names(next)
    <3> TAKE k \in 1 .. Len(prev)
    <3> HAVE k # i
    <3> DEFINE j == IF k < i THEN k ELSE k - 1
    <3>1. j \in 1 .. Len(next) /\ next[j] = prev[k]
      BY <1>1, <2>1, <2>2
    <3> QED BY <3>1 DEF Names
  <2>5. by \notin Names(next)
    BY <2>1, <2>3 DEF Names, Unique
  <2> HIDE DEF i
  <2> DEFINE S == {k \in 0 .. Len(prev) : g[k] = IF k < i THEN prev ELSE next}
  <2>6. \A k \in 0 .. Len(prev) : k \in S
    <3>1. 0 \in S
      BY <2>1, DropsAre
    <3>2. ASSUME NEW k \in 1 .. Len(prev), k - 1 \in S
          PROVE  k \in S
      <4>1. g[k] = DropEntry(next, g[k - 1], prev[k])
        BY DropsAre
      <4>2. g[k - 1] = IF k - 1 < i THEN prev ELSE next
        BY <3>2
      <4> HIDE DEF g
      <4>3. CASE k = i
        <5>1. g[k - 1] = prev
          BY <4>2, <4>3
        <5>2. DropEntry(next, prev, prev[i]) = RemoveAt(prev, i)
          <6>1. Pos(prev, by) # 0
            BY <2>1 DEF i
          <6> QED BY <2>1, <2>5, <6>1 DEF DropEntry, i
        <5> QED BY <2>1, <4>1, <4>3, <5>1, <5>2
      <4>4. CASE k # i
        <5>1. g[k] = g[k - 1]
          BY <2>4, <4>1, <4>4 DEF DropEntry
        <5> QED BY <2>1, <4>2, <4>4, <5>1
      <4> QED BY <4>3, <4>4
    <3> HIDE DEF S
    <3> QED BY <1>1, <3>1, <3>2, NatInd DEF Inductive
  <2>7. g[Len(prev)] = next
    BY <1>1, <2>1, <2>6
  <2>8. Kept(prev, prev, next) = next
    BY <2>7, DropsAre
  <2>9. Rewrites(next, prev, next)[Len(next)] = next
    <3>1. Len(next) \in 0 .. Len(next) /\ \A j \in 1 .. Len(next) : \E a \in 1 .. Len(prev) : next[j] = prev[a]
      BY <1>1, <2>3
    <3> QED BY <1>1, <3>1, RewritesSame
  <2> QED BY <1>1, <2>8, <2>9, RewritesAre DEF Patch, next
<1> QED
  BY <1>3, <1>4

(* Entries are changed where they are. *)
InPlace(prev, next) ==
  /\ Len(next) = Len(prev)
  /\ \A i \in 1 .. Len(prev) : next[i].name = prev[i].name /\ next[i].dir = prev[i].dir

LEMMA TurnedThere ==
  ASSUME NEW o \in Entry, NEW e \in Entry, o.name = e.name, o.dir = e.dir,
         o.dir = "own" => o.slot = e.slot
  PROVE  Turned(o, o, e) = e
<1>1. CASE Structural(o, e)
  <2>1. e.dir = "default"
    BY <1>1 DEF Structural, Entry
  <2>2. Inserted(e) = e
    BY <2>1 DEF Inserted, Entry
  <2> QED BY <1>1, <2>2 DEF Turned
<1>2. CASE ~Structural(o, e)
  <2>1. Edited(o, o, e) = e
    BY <1>2 DEF Structural, Edited, Entry
  <2> QED BY <1>2, <2>1 DEF Turned
<1> QED
  BY <1>1, <1>2

LEMMA ChangedExact ==
  ASSUME NEW prev \in Seq(Entry), Unique(prev), NEW next \in Seq(Entry), InPlace(prev, next),
         \A i \in 1 .. Len(prev) : prev[i].dir = "own" => prev[i].slot = next[i].slot
  PROVE  Patch(prev, prev, next) = next
<1> DEFINE n == Len(prev)
           Mix(k) == [j \in 1 .. n |-> IF j <= k THEN next[j] ELSE prev[j]]
           g == Rewrites(prev, prev, next)
           S == {k \in 0 .. n : g[k] = Mix(k)}
<1>1. /\ n \in Nat /\ Len(next) = n
      /\ \A j \in 1 .. n : prev[j] \in Entry /\ next[j] \in Entry
  <2>1. n \in Nat /\ Len(next) = n
    BY DEF InPlace
  <2>2. \A j \in 1 .. n : prev[j] \in Entry /\ next[j] \in Entry
    <3> HIDE DEF Entry
    <3> QED BY <2>1
  <2> QED BY <2>1, <2>2
<1>2. Kept(prev, prev, next) = prev
  <2>1. Names(prev) \subseteq Names(next)
    BY DEF Names, InPlace
  <2> QED BY <2>1, KeptSame
<1>3. 0 \in S
  <2>1. Mix(0) = prev
    BY <1>1
  <2> QED BY <1>1, <2>1, RewritesAre
<1>4. ASSUME NEW k \in 1 .. n, k - 1 \in S
      PROVE  k \in S
  <2> DEFINE f == g[k - 1]
             e == next[k]
  <2>1. g[k] = PatchEntry(prev, f, e)
    BY <1>1, RewritesAre
  <2>2. f \in Seq(Entry)
    <3>1. k - 1 \in 0 .. Len(next)
      BY <1>1
    <3>2. g \in [0 .. Len(next) -> Seq(Entry)]
      BY RewritesAre
    <3> HIDE DEF g
    <3> QED BY <3>1, <3>2
  <2>3. f = Mix(k - 1)
    BY <1>4
  <2>4. e \in Entry /\ prev[k] \in Entry /\ e.name = prev[k].name /\ e.dir = prev[k].dir
        /\ (prev[k].dir = "own" => prev[k].slot = e.slot)
    BY <1>1 DEF InPlace
  <2> HIDE DEF g, f, e
  <2>5. Len(f) = n /\ \A j \in 1 .. n : f[j] = IF j <= k - 1 THEN next[j] ELSE prev[j]
    BY <1>1, <2>3
  <2>6. f[k] = prev[k]
    BY <1>1, <2>5
  <2>7. \A j \in 1 .. n : f[j].name = prev[j].name
    BY <2>5 DEF InPlace
  <2>8. Unique(f)
    <3> SUFFICES ASSUME NEW i \in 1 .. n, NEW j \in 1 .. n, i # j PROVE f[i].name # f[j].name
      BY <2>2, <2>5 DEF Unique
    <3> QED BY <2>7 DEF Unique
  <2>9. Pos(f, e.name) = k /\ LastPos(prev, e.name) = k
    <3>1. Pos(f, f[k].name) = k
      BY <2>2, <2>5, <2>8, LastOfUnique
    <3>2. LastPos(prev, prev[k].name) = k
      BY LastOfUnique
    <3> QED BY <2>4, <2>6, <3>1, <3>2
  <2>10. PatchEntry(prev, f, e) = [f EXCEPT ![k] = e]
    <3>1. PatchParts(prev, f, e)
      BY <2>2, <2>4, PatchedAt
    <3>2. e.name \in Names(prev) /\ e.name \in Names(f)
      BY <2>4, <2>5, <2>6 DEF Names
    <3>3. Turned(f[k], prev[k], e) = e
      BY <2>4, <2>6, TurnedThere
    <3> QED BY <2>9, <3>1, <3>2, <3>3 DEF PatchParts
  <2>11. [f EXCEPT ![k] = e] = Mix(k)
    BY <1>1, <2>3 DEF e
  <2> QED BY <2>1, <2>10, <2>11 DEF f
<1>5. \A k \in 0 .. n : k \in S
  <2> HIDE DEF S
  <2> QED BY <1>1, <1>3, <1>4, NatInd DEF Inductive
<1>6. g[n] = next
  <2>1. g[n] = Mix(n)
    BY <1>1, <1>5
  <2>2. Mix(n) = next
    BY <1>1
  <2> QED BY <2>1, <2>2
<1> QED
  BY <1>1, <1>2, <1>6, RewritesAre DEF Patch

(* An entry is appended. *)
Added(prev, next) == \E x \in Entry : x.dir = "default" /\ next = Append(prev, x)

LEMMA NamesCount ==
  ASSUME NEW f \in Seq(Entry)
  PROVE  IsFiniteSet(Names(f)) /\ Cardinality(Names(f)) \in Nat /\ Cardinality(Names(f)) <= Len(f)
<1> DEFINE g == [i \in 1 .. Len(f) |-> f[i].name]
<1>1. Len(f) \in Nat /\ IsFiniteSet(1 .. Len(f)) /\ Cardinality(1 .. Len(f)) = Len(f)
  <2>1. Len(f) \in Nat
    OBVIOUS
  <2>2. /\ IsFiniteSet(1 .. Len(f))
        /\ Cardinality(1 .. Len(f)) = IF 1 > Len(f) THEN 0 ELSE Len(f) - 1 + 1
    BY <2>1, FS_Interval, SMTT(40)
  <2> QED BY <2>1, <2>2
<1>2. g \in Surjection(1 .. Len(f), Names(f))
  BY DEF Surjection, Names
<1> HIDE DEF g
<1> QED
  BY <1>1, <1>2, FS_Surjection, FS_CardinalityType

LEMMA AddedTwiceShows ==
  ASSUME NEW prev \in Seq(Entry), NEW x \in Entry, x.name \in Names(prev)
  PROVE  Cardinality(Names(Append(prev, x))) # Len(Append(prev, x))
<1> DEFINE next == Append(prev, x)
<1>1. /\ Len(next) = Len(prev) + 1 /\ next[Len(prev) + 1] = x
      /\ \A k \in 1 .. Len(prev) : next[k] = prev[k]
      /\ Len(prev) \in Nat
  <2> HIDE DEF Entry
  <2> QED OBVIOUS
<1> HIDE DEF next
<1>2. next \in Seq(Entry)
  <2> HIDE DEF Entry
  <2> QED BY DEF next
<1>3. Names(next) = Names(prev)
  <2>1. Names(next) \subseteq Names(prev)
    <3> SUFFICES ASSUME NEW k \in 1 .. Len(next) PROVE next[k].name \in Names(prev)
      BY <1>2 DEF Names
    <3>1. CASE k = Len(prev) + 1
      BY <1>1, <3>1
    <3>2. CASE k # Len(prev) + 1
      <4>1. k \in 1 .. Len(prev) /\ next[k] = prev[k]
        BY <1>1, <3>2
      <4> QED BY <4>1 DEF Names
    <3> QED BY <3>1, <3>2
  <2>2. Names(prev) \subseteq Names(next)
    <3> SUFFICES ASSUME NEW k \in 1 .. Len(prev) PROVE prev[k].name \in Names(next)
      BY DEF Names
    <3>1. k \in 1 .. Len(next) /\ next[k] = prev[k]
      BY <1>1
    <3> QED BY <1>2, <3>1 DEF Names
  <2> QED BY <2>1, <2>2
<1> QED
  BY <1>1, <1>3, NamesCount DEF next
-----------------------------------------------------------------------------
(* What a request asks for: entries changed in place, one added, or those  *)
(* of a name taken out. *)
Asked(by, prev, next) == InPlace(prev, next) \/ Added(prev, next) \/ next = Others(prev, by)

LEMMA AskedExact ==
  ASSUME NEW by, NEW prev \in Seq(Entry), NEW next \in Seq(Entry), Unique(prev),
         Asked(by, prev, next), Cardinality(Names(next)) = Len(next),
         \A i \in DOMAIN prev \cap DOMAIN next : prev[i].dir = "own" => prev[i].slot = next[i].slot
  PROVE  Patch(prev, prev, next) = next
<1>1. CASE InPlace(prev, next)
  <2>1. \A i \in 1 .. Len(prev) : prev[i].dir = "own" => prev[i].slot = next[i].slot
    BY <1>1 DEF InPlace
  <2> QED BY <1>1, <2>1, ChangedExact
<1>2. CASE Added(prev, next)
  <2>1. PICK x \in Entry : x.dir = "default" /\ next = Append(prev, x)
    BY <1>2 DEF Added
  <2>2. x.name \notin Names(prev)
    BY <2>1, AddedTwiceShows
  <2> QED BY <2>1, <2>2, AddedExact
<1>3. CASE next = Others(prev, by)
  BY <1>3, RemovedExact
<1> QED
  BY <1>1, <1>2, <1>3 DEF Asked

LEMMA SameSelf ==
  ASSUME NEW f \in Seq(Entry)
  PROVE  Same(f, f)
<1>1. \A i \in DOMAIN f : [f[i] EXCEPT !.key = f[i].key] = f[i]
  <2> TAKE i \in DOMAIN f
  <2>1. f[i] \in Entry
    <3> HIDE DEF Entry
    <3> QED OBVIOUS
  <2> QED BY <2>1 DEF Entry
<1> QED
  BY <1>1 DEF Same

LEMMA SameNames ==
  ASSUME NEW f \in Seq(Entry), NEW g \in Seq(Entry), Same(f, g)
  PROVE  Len(f) = Len(g) /\ \A i \in 1 .. Len(f) : f[i].name = g[i].name
<1>1. ASSUME NEW i \in 1 .. Len(f)
      PROVE  f[i].name = g[i].name
  <2>1. f[i] \in Entry
    <3> HIDE DEF Entry
    <3> QED OBVIOUS
  <2>2. [f[i] EXCEPT !.key = g[i].key] = g[i]
    BY DEF Same
  <2>3. [f[i] EXCEPT !.key = g[i].key].name = f[i].name
    BY <2>1 DEF Entry
  <2> QED BY <2>2, <2>3
<1> QED
  BY <1>1 DEF Same
-----------------------------------------------------------------------------
(* The inductive invariant.  A request that has read the file knows what   *)
(* it asks for; one that has patched it has a result that is safe to       *)
(* rename; and what the running set was synced to is what the file says,   *)
(* or the difference shows. *)
Planned ==
  op.at \in {"patch", "write"} =>
    /\ Concerns(op.by, op.prev, op.next)
    /\ Len(op.next) <= MaxEntries
    /\ Unique(op.next) \/ Names(op.next) \subseteq Names(op.prev)
    /\ op.again => Unique(op.next)

Read == op.at = "patch" => ~op.edited /\ Asked(op.by, op.prev, op.next)

Ready ==
  op.at = "write" =>
    /\ Unique(op.out) /\ Len(op.out) <= MaxEntries /\ Same(op.out, op.next)
    /\ ~op.edited => Others(op.out, op.by) = Others(file, op.by)

InSync ==
  /\ up /\ op.at \in {"idle", "patch", "write"} /\ ~unseen /\ ~newer => Same(file, synced)
  /\ op.at = "sync" /\ ~op.edited => Same(file, op.next)
  /\ op.at = "record" /\ ~op.edited => Same(file, synced)

PicksDefault == \A c \in Client : picked[c] # NoEntry => picked[c].dir = "default"

FileInv == CfgTypeOK /\ Unique(file) /\ Planned /\ Read /\ Ready /\ InSync /\ PicksDefault

LEMMA FileInit == CfgInit => FileInv
<1> SUFFICES ASSUME CfgInit PROVE FileInv
  OBVIOUS
<1>1. PICK n \in Name, s \in Slot :
        file = <<[name |-> n, slot |-> s, dir |-> "default", enabled |-> TRUE, key |-> FALSE]>>
  BY DEF CfgInit
<1> DEFINE e == [name |-> n, slot |-> s, dir |-> "default", enabled |-> TRUE, key |-> FALSE]
<1>2. e \in Entry
  BY DEF Entry
<1> HIDE DEF e
<1>3. file \in Seq(Entry) /\ Len(file) = 1
  BY <1>1, <1>2 DEF e
<1>4. CfgTypeOK
  <2>1. Len(file) <= MaxEntries
    BY <1>3, ConfigAssumption
  <2>2. <<>> \in Seq(Entry)
    OBVIOUS
  <2>3. picked \in [Client -> Entry \cup {NoEntry}]
    BY DEF CfgInit
  <2>4. op = Idle /\ Idle.at = "idle"
    BY DEF CfgInit, Idle
  <2>5. op \in [at : {"idle", "patch", "write", "sync", "record"}, by : Name \cup {NoEntry},
                prev : Seq(Entry), next : Seq(Entry), out : Seq(Entry),
                again : BOOLEAN, edited : BOOLEAN]
    BY <2>2, <2>4 DEF Idle
  <2>6. synced \in Seq(Entry) /\ {newer, up, unseen} \subseteq BOOLEAN
    BY <2>2 DEF CfgInit
  <2> QED BY <1>3, <2>1, <2>3, <2>4, <2>5, <2>6 DEF CfgTypeOK
<1>5. Unique(file)
  BY <1>3 DEF Unique
<1>6. op.at = "idle" /\ ~up /\ \A c \in Client : picked[c] = NoEntry
  BY DEF CfgInit, Idle
<1> QED
  BY <1>4, <1>5, <1>6 DEF FileInv, Planned, Read, Ready, InSync, PicksDefault
-----------------------------------------------------------------------------
(* Requests: what they load and what they ask for *)
LEMMA LoadStep ==
  ASSUME FileInv, NEW n \in Name, NEW next \in Seq(Entry), NEW again \in BOOLEAN,
         Load(n, next, again),
         Concerns(n, file, next), Len(next) <= MaxEntries, Asked(n, file, next),
         Unique(next) \/ Names(next) \subseteq Names(file), again => Unique(next),
         picked' \in [Client -> Entry \cup {NoEntry}],
         \A c \in Client : picked'[c] # NoEntry => picked'[c].dir = "default"
  PROVE  FileInv'
<1>1. /\ file' = file /\ newer' = newer /\ synced' = synced /\ up' = up /\ unseen' = unseen
      /\ up /\ op.at = "idle"
      /\ op' = [at |-> "patch", by |-> n, prev |-> file, next |-> next, out |-> <<>>,
                again |-> again, edited |-> FALSE]
  BY DEF Load, Idle
<1>2. CfgTypeOK'
  <2>1. <<>> \in Seq(Entry)
    OBVIOUS
  <2>2. op' \in [at : {"idle", "patch", "write", "sync", "record"}, by : Name \cup {NoEntry},
                 prev : Seq(Entry), next : Seq(Entry), out : Seq(Entry),
                 again : BOOLEAN, edited : BOOLEAN]
    BY <1>1, <2>1 DEF FileInv, CfgTypeOK
  <2>3. op'.at = "patch"
    BY <1>1
  <2> QED BY <1>1, <2>2, <2>3 DEF FileInv, CfgTypeOK
<1>3. Unique(file')
  BY <1>1 DEF FileInv
<1>4. /\ op'.at = "patch" /\ op'.by = n /\ op'.prev = file /\ op'.next = next
      /\ op'.again = again /\ op'.edited = FALSE
  BY <1>1
<1>5. Planned' /\ Read' /\ Ready'
  BY <1>4 DEF Planned, Read, Ready
<1>6. InSync'
  BY <1>1, <1>4 DEF FileInv, InSync
<1> QED
  BY <1>2, <1>3, <1>5, <1>6 DEF FileInv, PicksDefault

LEMMA AskInPlace ==
  ASSUME NEW f \in Seq(Entry), Unique(f), NEW n, n \in Names(f), NEW e \in Entry,
         e.name = n, e.dir = f[Pos(f, n)].dir
  PROVE  LET next == [f EXCEPT ![Pos(f, n)] = e]
         IN  /\ next \in Seq(Entry) /\ Len(next) = Len(f) /\ Unique(next)
             /\ Concerns(n, f, next) /\ Asked(n, f, next)
<1> DEFINE i == Pos(f, n)
           next == [f EXCEPT ![i] = e]
<1>1. i \in 1 .. Len(f) /\ f[i].name = n /\ e.dir = f[i].dir
  BY PosFound
<1> HIDE DEF i
<1>2. next \in Seq(Entry) /\ Len(next) = Len(f) /\ DOMAIN next = 1 .. Len(f)
      /\ \A k \in 1 .. Len(f) : next[k] = IF k = i THEN e ELSE f[k]
  <2> HIDE DEF Entry
  <2> QED BY <1>1
<1> HIDE DEF next
<1>3. \A k \in 1 .. Len(f) : next[k].name = f[k].name /\ next[k].dir = f[k].dir
  BY <1>1, <1>2
<1>4. Unique(next)
  <2> SUFFICES ASSUME NEW j \in 1 .. Len(f), NEW k \in 1 .. Len(f), j # k
               PROVE  next[j].name # next[k].name
    BY <1>2 DEF Unique
  <2> QED BY <1>3 DEF Unique
<1>5. Names(f) \subseteq Names(next)
  <2> SUFFICES ASSUME NEW k \in 1 .. Len(f) PROVE f[k].name \in Names(next)
    BY DEF Names
  <2> QED BY <1>2, <1>3 DEF Names
<1>6. \A k \in DOMAIN next : next[k].name # n => \E j \in DOMAIN f : f[j] = next[k]
  BY <1>1, <1>2
<1>7. Concerns(n, f, next)
  BY <1>5, <1>6 DEF Concerns
<1>8. Asked(n, f, next)
  BY <1>2, <1>3 DEF Asked, InPlace
<1> QED
  BY <1>2, <1>4, <1>7, <1>8 DEF next, i

LEMMA ChangeStep ==
  ASSUME FileInv, NEW n \in Name, n \in Names(file), NEW e \in Entry,
         e.name = n, e.dir = file[Pos(file, n)].dir, NEW again \in BOOLEAN,
         Load(n, [file EXCEPT ![Pos(file, n)] = e], again), picked' = picked
  PROVE  FileInv'
<1> DEFINE next == [file EXCEPT ![Pos(file, n)] = e]
<1>1. /\ next \in Seq(Entry) /\ Len(next) = Len(file) /\ Unique(next)
      /\ Concerns(n, file, next) /\ Asked(n, file, next)
  BY AskInPlace DEF FileInv, CfgTypeOK
<1> HIDE DEF next
<1>2. Len(next) <= MaxEntries
  BY <1>1 DEF FileInv, CfgTypeOK
<1>3. /\ picked' \in [Client -> Entry \cup {NoEntry}]
      /\ \A c \in Client : picked'[c] # NoEntry => picked'[c].dir = "default"
  BY DEF FileInv, CfgTypeOK, PicksDefault
<1>4. Load(n, next, again)
  BY DEF next
<1> QED
  BY <1>1, <1>2, <1>3, <1>4, LoadStep

LEMMA RequestSteps ==
  ASSUME FileInv, NEW n \in Name,
         \/ RemoveTailnet(n)
         \/ \E s \in Slot : MoveTo(n, s)
         \/ \E v \in BOOLEAN : Enable(n, v) \/ AuthKey(n, v)
  PROVE  FileInv'
<1> DEFINE i == Pos(file, n)
           o == file[i]
<1>1. n \in Names(file)
  BY DEF RemoveTailnet, MoveTo, Enable, AuthKey
<1>2. i \in 1 .. Len(file) /\ o \in Entry /\ o.name = n
  <2>1. i \in 1 .. Len(file) /\ o.name = n
    BY <1>1, PosFound DEF FileInv, CfgTypeOK
  <2>2. o \in Entry
    <3> HIDE DEF Entry, i
    <3> QED BY <2>1 DEF FileInv, CfgTypeOK
  <2> QED BY <2>1, <2>2
<1>3. CASE RemoveTailnet(n)
  <2> DEFINE e == [o EXCEPT !.enabled = FALSE, !.key = FALSE]
  <2>1. e \in Entry /\ e.name = n /\ e.dir = o.dir
    BY <1>2 DEF Entry
  <2>2. Load(n, [file EXCEPT ![i].enabled = FALSE, ![i].key = FALSE], TRUE) /\ picked' = picked
    BY <1>3 DEF RemoveTailnet
  <2>3. [file EXCEPT ![i].enabled = FALSE, ![i].key = FALSE] = [file EXCEPT ![i] = e]
    <3> HIDE DEF i
    <3> QED BY <1>2 DEF FileInv, CfgTypeOK
  <2> HIDE DEF e
  <2> QED BY <1>1, <2>1, <2>2, <2>3, ChangeStep
<1>4. ASSUME NEW e \in Entry, e.name = n, e.dir = o.dir, Change(n, e)
      PROVE  FileInv'
  <2>1. Load(n, [file EXCEPT ![i] = e], FALSE) /\ picked' = picked
    BY <1>4 DEF Change
  <2> QED BY <1>1, <1>4, <2>1, ChangeStep
<1>5. CASE \E s \in Slot : MoveTo(n, s)
  <2>1. PICK s \in Slot : Change(n, [o EXCEPT !.slot = s])
    BY <1>5 DEF MoveTo
  <2>2. [o EXCEPT !.slot = s] \in Entry /\ [o EXCEPT !.slot = s].name = n
        /\ [o EXCEPT !.slot = s].dir = o.dir
    BY <1>2 DEF Entry
  <2> QED BY <1>4, <2>1, <2>2
<1>6. CASE \E v \in BOOLEAN : Enable(n, v)
  <2>1. PICK v \in BOOLEAN : Change(n, [o EXCEPT !.enabled = v])
    BY <1>6 DEF Enable
  <2>2. [o EXCEPT !.enabled = v] \in Entry /\ [o EXCEPT !.enabled = v].name = n
        /\ [o EXCEPT !.enabled = v].dir = o.dir
    BY <1>2 DEF Entry
  <2> QED BY <1>4, <2>1, <2>2
<1>7. CASE \E v \in BOOLEAN : AuthKey(n, v)
  <2>1. PICK v \in BOOLEAN : Change(n, [o EXCEPT !.key = v])
    BY <1>7 DEF AuthKey
  <2>2. [o EXCEPT !.key = v] \in Entry /\ [o EXCEPT !.key = v].name = n
        /\ [o EXCEPT !.key = v].dir = o.dir
    BY <1>2 DEF Entry
  <2> QED BY <1>4, <2>1, <2>2
<1> QED
  BY <1>3, <1>5, <1>6, <1>7

LEMMA AddSteps ==
  ASSUME FileInv, NEW c \in Client,
         AddCommits(c) \/ \E n \in Name, s \in Slot : AddPicks(c, n, s)
  PROVE  FileInv'
<1>1. CASE \E n \in Name, s \in Slot : AddPicks(c, n, s)
  <2>1. PICK n \in Name, s \in Slot : AddPicks(c, n, s)
    BY <1>1
  <2> DEFINE e == [name |-> n, slot |-> s, dir |-> "default", enabled |-> TRUE, key |-> FALSE]
  <2>2. e \in Entry /\ e.dir = "default"
    BY DEF Entry
  <2>3. picked' = [picked EXCEPT ![c] = e] /\ UNCHANGED <<file, newer, synced, op, up, unseen>>
    BY <2>1 DEF AddPicks
  <2> HIDE DEF e
  <2>4. /\ picked' \in [Client -> Entry \cup {NoEntry}]
        /\ \A d \in Client : picked'[d] # NoEntry => picked'[d].dir = "default"
    BY <2>2, <2>3 DEF FileInv, CfgTypeOK, PicksDefault
  <2> QED BY <2>3, <2>4 DEF FileInv, CfgTypeOK, Planned, Read, Ready, InSync, PicksDefault
<1>2. CASE AddCommits(c)
  <2> DEFINE x == picked[c]
             next == Append(file, x)
  <2>1. /\ x # NoEntry /\ Len(file) < MaxEntries /\ Load(x.name, next, FALSE)
        /\ picked' = [picked EXCEPT ![c] = NoEntry]
    BY <1>2 DEF AddCommits
  <2>2. x \in Entry /\ x.dir = "default" /\ x.name \in Name
    <3>1. x \in Entry /\ x.dir = "default"
      BY <2>1 DEF FileInv, CfgTypeOK, PicksDefault
    <3> QED BY <3>1 DEF Entry
  <2>3. file \in Seq(Entry) /\ Unique(file)
    BY DEF FileInv, CfgTypeOK
  <2> HIDE DEF x
  <2>4. /\ next \in Seq(Entry) /\ Len(next) = Len(file) + 1 /\ next[Len(file) + 1] = x
        /\ Len(file) \in Nat /\ \A k \in 1 .. Len(file) : next[k] = file[k]
    <3> HIDE DEF Entry
    <3> QED BY <2>2, <2>3
  <2> HIDE DEF next
  <2>5. Names(file) \subseteq Names(next)
    <3> SUFFICES ASSUME NEW k \in 1 .. Len(file) PROVE file[k].name \in Names(next)
      BY <2>3 DEF Names
    <3>1. k \in 1 .. Len(next) /\ next[k] = file[k]
      BY <2>4
    <3> QED BY <2>4, <3>1 DEF Names
  <2>6. \A k \in DOMAIN next : next[k].name # x.name => \E j \in DOMAIN file : file[j] = next[k]
    <3> TAKE k \in DOMAIN next
    <3> HAVE next[k].name # x.name
    <3>1. k \in 1 .. Len(file)
      BY <2>4
    <3> QED BY <2>4, <3>1
  <2>7. Concerns(x.name, file, next)
    BY <2>3, <2>5, <2>6 DEF Concerns
  <2>8. Unique(next) \/ Names(next) \subseteq Names(file)
    <3>1. CASE x.name \in Names(file)
      <4> SUFFICES ASSUME NEW k \in 1 .. Len(next) PROVE next[k].name \in Names(file)
        BY <2>4 DEF Names
      <4>1. CASE k = Len(file) + 1
        BY <2>4, <3>1, <4>1
      <4>2. CASE k # Len(file) + 1
        <5>1. k \in 1 .. Len(file) /\ next[k] = file[k]
          BY <2>4, <4>2
        <5> QED BY <5>1 DEF Names
      <4> QED BY <4>1, <4>2
    <3>2. CASE x.name \notin Names(file)
      <4> SUFFICES ASSUME NEW j \in 1 .. Len(next), NEW k \in 1 .. Len(next), j < k
                   PROVE  next[j].name # next[k].name
        BY <2>4 DEF Unique
      <4>1. j \in 1 .. Len(file) /\ next[j] = file[j]
        BY <2>4
      <4>2. CASE k = Len(file) + 1
        BY <2>4, <3>2, <4>1, <4>2 DEF Names
      <4>3. CASE k # Len(file) + 1
        <5>1. k \in 1 .. Len(file) /\ next[k] = file[k] /\ j # k
          BY <2>4, <4>3
        <5> QED BY <2>3, <4>1, <5>1 DEF Unique
      <4> QED BY <4>2, <4>3
    <3> QED BY <3>1, <3>2
  <2>9. Asked(x.name, file, next)
    BY <2>2 DEF Asked, Added, next
  <2>10. Len(next) <= MaxEntries
    BY <2>1, <2>4, ConfigAssumption
  <2>11. /\ picked' \in [Client -> Entry \cup {NoEntry}]
         /\ \A d \in Client : picked'[d] # NoEntry => picked'[d].dir = "default"
    BY <2>1 DEF FileInv, CfgTypeOK, PicksDefault
  <2> QED BY <2>1, <2>2, <2>4, <2>7, <2>8, <2>9, <2>10, <2>11, LoadStep
<1> QED
  BY <1>1, <1>2

(* The patch of what was asked for, in the file as it is at the second read *)
LEMMA PatchReadsStep == FileInv /\ PatchReads => FileInv'
<1> SUFFICES ASSUME FileInv, PatchReads PROVE FileInv'
  OBVIOUS
<1> DEFINE out == Patch(file, op.prev, op.next)
<1>1. /\ op.at = "patch" /\ UNCHANGED <<file, newer, synced, picked, up, unseen>>
      /\ op' = IF Same(out, op.next) THEN [op EXCEPT !.at = "write", !.out = out] ELSE Idle
  BY DEF PatchReads
<1>2. /\ file \in Seq(Entry) /\ op.prev \in Seq(Entry) /\ op.next \in Seq(Entry)
      /\ Unique(file) /\ Concerns(op.by, op.prev, op.next) /\ Len(op.next) <= MaxEntries
      /\ Unique(op.next) \/ Names(op.next) \subseteq Names(op.prev)
      /\ op.again => Unique(op.next)
      /\ up
  BY <1>1 DEF FileInv, CfgTypeOK, Planned, Idle
<1>3. out \in Seq(Entry) /\ Others(out, op.by) = Others(file, op.by)
  BY <1>2, PatchOthers
<1>4. CASE ~Same(out, op.next)
  <2>1. op' = Idle /\ op'.at = "idle"
    BY <1>1, <1>4 DEF Idle
  <2>2. CfgTypeOK'
    <3>1. <<>> \in Seq(Entry)
      OBVIOUS
    <3>2. op' \in [at : {"idle", "patch", "write", "sync", "record"}, by : Name \cup {NoEntry},
                   prev : Seq(Entry), next : Seq(Entry), out : Seq(Entry),
                   again : BOOLEAN, edited : BOOLEAN]
      BY <2>1, <3>1 DEF Idle
    <3> QED BY <1>1, <2>1, <3>2 DEF FileInv, CfgTypeOK
  <2>3. InSync'
    BY <1>1, <2>1 DEF FileInv, InSync
  <2> QED BY <1>1, <2>1, <2>2, <2>3 DEF FileInv, Planned, Read, Ready, PicksDefault, Unique
<1>5. CASE Same(out, op.next)
  <2>1. Len(out) = Len(op.next) /\ \A k \in 1 .. Len(out) : out[k].name = op.next[k].name
    BY <1>2, <1>3, <1>5, SameNames
  <2>2. Unique(out)
    <3>1. CASE Names(op.next) \subseteq Names(op.prev)
      BY <1>2, <3>1, PatchUnique
    <3>2. CASE Unique(op.next)
      <4> HIDE DEF out
      <4> SUFFICES ASSUME NEW j \in 1 .. Len(out), NEW k \in 1 .. Len(out), j # k
                   PROVE  out[j].name # out[k].name
        BY <1>3 DEF Unique
      <4>1. j \in DOMAIN op.next /\ k \in DOMAIN op.next
        BY <1>2, <2>1
      <4>2. op.next[j].name # op.next[k].name
        BY <3>2, <4>1 DEF Unique
      <4> QED BY <2>1, <4>2
    <3> QED BY <1>2, <3>1, <3>2
  <2> HIDE DEF out
  <2>3. /\ op' = [op EXCEPT !.at = "write", !.out = out]
        /\ op'.at = "write" /\ op'.by = op.by /\ op'.prev = op.prev /\ op'.next = op.next
        /\ op'.out = out /\ op'.again = op.again
    BY <1>1, <1>5 DEF FileInv, CfgTypeOK
  <2>4. CfgTypeOK'
    <3>1. op' \in [at : {"idle", "patch", "write", "sync", "record"}, by : Name \cup {NoEntry},
                   prev : Seq(Entry), next : Seq(Entry), out : Seq(Entry),
                   again : BOOLEAN, edited : BOOLEAN]
      BY <1>3, <2>3 DEF FileInv, CfgTypeOK
    <3> QED BY <1>1, <1>2, <2>3, <3>1 DEF FileInv, CfgTypeOK
  <2>5. Planned'
    BY <1>2, <2>3 DEF Planned
  <2>6. Ready'
    BY <1>1, <1>2, <1>3, <1>5, <2>1, <2>2, <2>3 DEF Ready
  <2>7. InSync'
    BY <1>1, <2>3 DEF FileInv, InSync
  <2>8. Read'
    BY <2>3 DEF Read
  <2> QED BY <1>1, <2>4, <2>5, <2>6, <2>7, <2>8 DEF FileInv, PicksDefault, Unique
<1> QED
  BY <1>4, <1>5

(* The second change of a removal, which takes the entry out *)
LEMMA OthersAsked ==
  ASSUME NEW f \in Seq(Entry), Unique(f), NEW by
  PROVE  /\ Others(f, by) \in Seq(Entry) /\ Len(Others(f, by)) <= Len(f)
         /\ Names(Others(f, by)) \subseteq Names(f)
         /\ Concerns(by, f, Others(f, by)) /\ Asked(by, f, Others(f, by))
<1> DEFINE next == Others(f, by)
           i == Pos(f, by)
<1>1. next = IF by \in Names(f) THEN RemoveAt(f, i) ELSE f
  BY OthersOfUnique
<1>2. next \in Seq(Entry)
  BY UpToTurns
<1> HIDE DEF next
<1>3. CASE by \notin Names(f)
  <2>1. next = f
    BY <1>1, <1>3
  <2> QED BY <2>1 DEF Concerns, Asked, next
<1>4. CASE by \in Names(f)
  <2>1. i \in 1 .. Len(f) /\ f[i].name = by
    BY <1>4, PosFound
  <2> HIDE DEF i
  <2>2. /\ Len(next) = Len(f) - 1
        /\ \A k \in 1 .. Len(f) - 1 : next[k] = IF k < i THEN f[k] ELSE f[k + 1]
    BY <1>1, <1>4, <2>1, Removed
  <2>3. \A j \in DOMAIN next : \E a \in DOMAIN f : f[a] = next[j]
    <3> TAKE j \in DOMAIN next
    <3> DEFINE a == IF j < i THEN j ELSE j + 1
    <3>1. a \in 1 .. Len(f) /\ f[a] = next[j]
      BY <1>2, <2>1, <2>2
    <3> QED BY <3>1
  <2>4. \A n \in Names(f) : n \notin Names(next) => n = by
    <3> SUFFICES ASSUME NEW k \in 1 .. Len(f), k # i PROVE f[k].name \in Names(next)
      BY <2>1 DEF Names
    <3> DEFINE j == IF k < i THEN k ELSE k - 1
    <3>1. j \in 1 .. Len(next) /\ next[j] = f[k]
      BY <1>2, <2>1, <2>2
    <3> QED BY <1>2, <3>1 DEF Names
  <2>5. Names(next) \subseteq Names(f)
    BY <2>3 DEF Names
  <2> QED BY <1>2, <2>1, <2>2, <2>3, <2>4, <2>5 DEF Concerns, Asked, next
<1> QED
  BY <1>3, <1>4

LEMMA RenameStep == FileInv /\ Rename => FileInv'
<1> SUFFICES ASSUME FileInv, Rename PROVE FileInv'
  OBVIOUS
<1>1. /\ op.at = "write" /\ file' = op.out /\ newer' = TRUE
      /\ UNCHANGED <<synced, picked, up, unseen>>
      /\ op' = IF ~op.again THEN [op EXCEPT !.at = "sync", !.edited = FALSE]
               ELSE [op EXCEPT !.at = "patch", !.prev = op.next, !.again = FALSE, !.edited = FALSE,
                               !.next = Others(op.next, op.by)]
  BY DEF Rename
<1>2. /\ op.out \in Seq(Entry) /\ Unique(op.out) /\ Len(op.out) <= MaxEntries
      /\ Same(op.out, op.next) /\ op.next \in Seq(Entry) /\ Len(op.next) <= MaxEntries
      /\ op.again => Unique(op.next)
      /\ up /\ MaxEntries \in Nat
  BY <1>1, ConfigAssumption DEF FileInv, CfgTypeOK, Ready, Planned, Idle
<1>3. CASE ~op.again
  <2>1. /\ op'.at = "sync" /\ op'.next = op.next
        /\ op' \in [at : {"idle", "patch", "write", "sync", "record"}, by : Name \cup {NoEntry},
                    prev : Seq(Entry), next : Seq(Entry), out : Seq(Entry),
                    again : BOOLEAN, edited : BOOLEAN]
    BY <1>1, <1>3 DEF FileInv, CfgTypeOK
  <2>2. CfgTypeOK'
    BY <1>1, <1>2, <2>1 DEF FileInv, CfgTypeOK
  <2>3. InSync'
    BY <1>1, <1>2, <2>1 DEF InSync
  <2> QED BY <1>1, <1>2, <2>1, <2>2, <2>3 DEF FileInv, Planned, Read, Ready, PicksDefault, Unique
<1>4. CASE op.again
  <2> DEFINE next == Others(op.next, op.by)
  <2>1. /\ next \in Seq(Entry) /\ Len(next) <= Len(op.next) /\ Names(next) \subseteq Names(op.next)
        /\ Concerns(op.by, op.next, next) /\ Asked(op.by, op.next, next)
    BY <1>2, <1>4, OthersAsked
  <2> HIDE DEF next
  <2>2. /\ op'.at = "patch" /\ op'.by = op.by /\ op'.prev = op.next /\ op'.next = next
        /\ op'.again = FALSE /\ op'.edited = FALSE
        /\ op' \in [at : {"idle", "patch", "write", "sync", "record"}, by : Name \cup {NoEntry},
                    prev : Seq(Entry), next : Seq(Entry), out : Seq(Entry),
                    again : BOOLEAN, edited : BOOLEAN]
    BY <1>1, <1>4, <2>1 DEF FileInv, CfgTypeOK, next
  <2>3. CfgTypeOK'
    BY <1>1, <1>2, <2>2 DEF FileInv, CfgTypeOK
  <2>4. Planned' /\ Read'
    <3>1. Len(next) <= MaxEntries
      BY <1>2, <2>1
    <3> QED BY <2>1, <2>2, <3>1 DEF Planned, Read
  <2>5. InSync'
    BY <1>1, <2>2 DEF InSync
  <2> QED BY <1>1, <1>2, <2>2, <2>3, <2>4, <2>5 DEF FileInv, Ready, PicksDefault, Unique
<1> QED
  BY <1>3, <1>4

LEMMA SyncSteps == FileInv /\ (ReloadReads \/ SyncTailnets \/ RecordApplied) => FileInv'
<1> SUFFICES ASSUME FileInv, ReloadReads \/ SyncTailnets \/ RecordApplied PROVE FileInv'
  OBVIOUS
<1> DEFINE OpType == [at : {"idle", "patch", "write", "sync", "record"}, by : Name \cup {NoEntry},
                      prev : Seq(Entry), next : Seq(Entry), out : Seq(Entry),
                      again : BOOLEAN, edited : BOOLEAN]
<1>0. <<>> \in Seq(Entry) /\ file \in Seq(Entry) /\ op \in OpType
  BY DEF FileInv, CfgTypeOK
<1>1. CASE ReloadReads
  <2>1. /\ op' = [at |-> "sync", by |-> NoEntry, prev |-> <<>>, next |-> file, out |-> <<>>,
                  again |-> FALSE, edited |-> FALSE]
        /\ up' = TRUE /\ UNCHANGED <<file, newer, synced, picked, unseen>>
    BY <1>1 DEF ReloadReads, Idle
  <2>2. op' \in OpType /\ op'.at = "sync" /\ op'.next = file
    BY <1>0, <2>1
  <2>3. CfgTypeOK'
    BY <2>1, <2>2 DEF FileInv, CfgTypeOK
  <2>4. InSync'
    BY <1>0, <2>1, <2>2, SameSelf DEF InSync
  <2> QED BY <2>1, <2>2, <2>3, <2>4 DEF FileInv, Planned, Read, Ready, PicksDefault, Unique
<1>2. CASE SyncTailnets
  <2>1. /\ op.at = "sync" /\ synced' = op.next /\ op' = [op EXCEPT !.at = "record"]
        /\ UNCHANGED <<file, newer, picked, up, unseen>>
    BY <1>2 DEF SyncTailnets
  <2>2. op' \in OpType /\ op'.at = "record" /\ op'.edited = op.edited /\ op.next \in Seq(Entry)
    BY <1>0, <2>1
  <2>3. up
    BY <2>1 DEF FileInv, CfgTypeOK, Idle
  <2>4. CfgTypeOK'
    BY <2>1, <2>2, <2>3 DEF FileInv, CfgTypeOK
  <2>5. InSync'
    BY <2>1, <2>2 DEF FileInv, InSync
  <2> QED BY <2>1, <2>2, <2>4, <2>5 DEF FileInv, Planned, Read, Ready, PicksDefault, Unique
<1>3. CASE RecordApplied
  <2>1. /\ op.at = "record" /\ newer' = FALSE /\ unseen' = op.edited /\ op' = Idle
        /\ UNCHANGED <<file, synced, picked, up>>
    BY <1>3 DEF RecordApplied
  <2>2. op' \in OpType /\ op'.at = "idle" /\ op.edited \in BOOLEAN
    BY <1>0, <2>1 DEF Idle
  <2>3. CfgTypeOK'
    BY <2>1, <2>2 DEF FileInv, CfgTypeOK
  <2>4. InSync'
    BY <2>1, <2>2 DEF FileInv, InSync
  <2> QED BY <2>1, <2>2, <2>3, <2>4 DEF FileInv, Planned, Read, Ready, PicksDefault, Unique
<1> QED
  BY <1>1, <1>2, <1>3

(* Edits by hand, crashes and writes that fail *)
LEMMA EditTypes ==
  ASSUME NEW f \in Edits, file \in Seq(Entry), Len(file) <= MaxEntries
  PROVE  f \in Seq(Entry) /\ Len(f) <= MaxEntries
<1>0. Len(file) \in Nat /\ MaxEntries \in Nat
  BY ConfigAssumption
<1>1. CASE f \in {[file EXCEPT ![i] = e] : i \in DOMAIN file, e \in Entry}
  <2>1. PICK i \in DOMAIN file, e \in Entry : f = [file EXCEPT ![i] = e]
    BY <1>1
  <2> HIDE DEF Entry
  <2> QED BY <2>1
<1>2. CASE f \in {RemoveAt(file, i) : i \in DOMAIN file}
  <2>1. PICK i \in 1 .. Len(file) : f = RemoveAt(file, i)
    BY <1>2
  <2>2. f \in Seq(Entry) /\ Len(f) = Len(file) - 1
    BY <2>1, Removed
  <2> QED BY <1>0, <2>2
<1>3. CASE Len(file) < MaxEntries /\ f \in {Append(file, e) : e \in Entry}
  <2>1. PICK e \in Entry : f = Append(file, e)
    BY <1>3
  <2>2. f \in Seq(Entry) /\ Len(f) = Len(file) + 1
    <3> HIDE DEF Entry
    <3> QED BY <2>1
  <2> QED BY <1>0, <1>3, <2>2
<1> QED
  BY <1>1, <1>2, <1>3 DEF Edits

LEMMA OutsideSteps == FileInv /\ (HandEdit \/ Crash \/ WriteFails) => FileInv'
<1> SUFFICES ASSUME FileInv, HandEdit \/ Crash \/ WriteFails PROVE FileInv'
  OBVIOUS
<1> DEFINE OpType == [at : {"idle", "patch", "write", "sync", "record"}, by : Name \cup {NoEntry},
                      prev : Seq(Entry), next : Seq(Entry), out : Seq(Entry),
                      again : BOOLEAN, edited : BOOLEAN]
<1>0. <<>> \in Seq(Entry) /\ file \in Seq(Entry) /\ op \in OpType
  BY DEF FileInv, CfgTypeOK
<1>1. Idle \in OpType /\ Idle.at = "idle"
  BY <1>0 DEF Idle
<1>2. CASE HandEdit
  <2>1. PICK f \in Edits : file' = f /\ Sound(f)
    BY <1>2 DEF HandEdit
  <2>2. /\ newer' = TRUE /\ UNCHANGED <<synced, picked, up, unseen>>
        /\ op' = IF op.at \in {"idle", "patch"} THEN op ELSE [op EXCEPT !.edited = TRUE]
    BY <1>2 DEF HandEdit
  <2>3. file' \in Seq(Entry) /\ Len(file') <= MaxEntries /\ Unique(file')
    BY <2>1, EditTypes DEF FileInv, CfgTypeOK, Sound, Unique
  <2>4. /\ op' \in OpType /\ op'.at = op.at /\ op'.by = op.by /\ op'.prev = op.prev
        /\ op'.next = op.next /\ op'.out = op.out /\ op'.again = op.again
        /\ op.at = "patch" => op'.edited = op.edited
        /\ op.at \in {"write", "sync", "record"} => op'.edited
        /\ op.at = "idle" => op' = op
    BY <1>0, <2>2
  <2>5. CfgTypeOK'
    <3>1. ~up => op' = Idle
      BY <1>1, <2>2, <2>4 DEF FileInv, CfgTypeOK
    <3>2. op'.at = "idle" => op' = Idle
      BY <2>4 DEF FileInv, CfgTypeOK
    <3> QED BY <2>2, <2>3, <2>4, <3>1, <3>2 DEF FileInv, CfgTypeOK
  <2>6. Planned'
    BY <2>4 DEF FileInv, Planned
  <2>7. Read'
    BY <2>4 DEF FileInv, Read
  <2>8. Ready'
    BY <2>4 DEF FileInv, Ready
  <2>9. InSync'
    BY <2>2, <2>4 DEF FileInv, InSync
  <2> QED BY <2>2, <2>3, <2>5, <2>6, <2>7, <2>8, <2>9 DEF FileInv, PicksDefault
<1>3. CASE Crash
  <2>1. /\ op' = Idle /\ picked' = [c \in Client |-> NoEntry] /\ newer' = FALSE
        /\ synced' = <<>> /\ up' = FALSE /\ unseen' = FALSE /\ file' = file
    BY <1>3 DEF Crash
  <2>2. CfgTypeOK'
    BY <1>0, <1>1, <2>1 DEF FileInv, CfgTypeOK
  <2> QED BY <1>1, <2>1, <2>2 DEF FileInv, Planned, Read, Ready, InSync, PicksDefault, Unique
<1>4. CASE WriteFails
  <2>1. op.at = "write" /\ op' = Idle /\ UNCHANGED <<file, newer, synced, picked, up, unseen>>
    BY <1>4 DEF WriteFails
  <2>2. CfgTypeOK'
    BY <1>0, <1>1, <2>1 DEF FileInv, CfgTypeOK
  <2>3. InSync'
    BY <1>1, <2>1 DEF FileInv, InSync
  <2> QED BY <1>1, <2>1, <2>2, <2>3 DEF FileInv, Planned, Read, Ready, PicksDefault, Unique
<1> QED
  BY <1>2, <1>3, <1>4

LEMMA FileStep == FileInv /\ [CfgNext]_vars => FileInv'
<1> SUFFICES ASSUME FileInv, [CfgNext]_vars PROVE FileInv'
  OBVIOUS
<1>1. CASE \E c \in Client : AddCommits(c) \/ \E n \in Name, s \in Slot : AddPicks(c, n, s)
  BY <1>1, AddSteps
<1>2. ASSUME NEW n \in Name,
             \/ RemoveTailnet(n)
             \/ \E s \in Slot : MoveTo(n, s)
             \/ \E v \in BOOLEAN : Enable(n, v) \/ AuthKey(n, v)
      PROVE  FileInv'
  BY <1>2, RequestSteps
<1>3. CASE PatchReads
  BY <1>3, PatchReadsStep
<1>4. CASE Rename
  BY <1>4, RenameStep
<1>5. CASE ReloadReads \/ SyncTailnets \/ RecordApplied
  BY <1>5, SyncSteps
<1>6. CASE HandEdit \/ Crash \/ WriteFails
  BY <1>6, OutsideSteps
<1>7. CASE UNCHANGED vars
  BY <1>7 DEF vars, FileInv, CfgTypeOK, Planned, Read, Ready, InSync, PicksDefault, Unique
<1> QED
  BY <1>1, <1>2, <1>3, <1>4, <1>5, <1>6, <1>7 DEF CfgNext

LEMMA FileInvariant == CfgSpec => []FileInv
<1> QED
  BY FileInit, FileStep, PTL DEF CfgSpec
-----------------------------------------------------------------------------
(* No name comes to stand in the file twice, for any names, ranges and     *)
(* clients: two adds of one name, edits by hand between any two steps of a *)
(* request (applyConfigUpdate, patchConfigFile), failed writes and crashes *)
(* included.                                                               *)
THEOREM ConfigFileInvariant == CfgSpec => []CfgInv
<1>1. FileInv => CfgInv
  BY DEF FileInv, CfgInv, NamesUnique, Unique
<1> QED
  BY <1>1, FileInvariant, PTL

(* In the file that a request has loaded, patchConfigFile makes what was   *)
(* asked for, in the same order, however many entries there are: the round *)
(* trip refuses a request only after an edit by hand, a name added twice   *)
(* or the move of an entry with its own state_dir.                         *)
THEOREM ConfigFilePatchServes == CfgSpec => []PatchServes
<1>1. FileInv => PatchServes
  <2> SUFFICES ASSUME FileInv, op.at = "patch", op.prev = file, ~AddedTwice, ~MovesOwnDir
               PROVE  Same(Patch(file, op.prev, op.next), op.next)
    BY DEF PatchServes
  <2>1. op.prev \in Seq(Entry) /\ op.next \in Seq(Entry) /\ Unique(op.prev)
        /\ Asked(op.by, op.prev, op.next)
    BY DEF FileInv, CfgTypeOK, Planned, Read, Concerns
  <2>2. Cardinality(Names(op.next)) = Len(op.next)
    BY DEF AddedTwice
  <2>3. \A i \in DOMAIN op.prev \cap DOMAIN op.next :
          op.prev[i].dir = "own" => op.prev[i].slot = op.next[i].slot
    BY DEF MovesOwnDir
  <2>4. Patch(op.prev, op.prev, op.next) = op.next
    BY <2>1, <2>2, <2>3, AskedExact
  <2> QED BY <2>1, <2>4, SameSelf
<1> QED
  BY <1>1, FileInvariant, PTL

(* At rest the running set is what the file says, or handleApplied reports *)
(* drift, unless an edit fell into the last sync.                          *)
THEOREM ConfigFileDriftSeen == CfgSpec => []DriftSeen
<1>1. FileInv => DriftSeen
  BY DEF FileInv, InSync, DriftSeen
<1> QED
  BY <1>1, FileInvariant, PTL

(* A request leaves what the file says of the other tailnets as it was at  *)
(* its second read, and so as it is, unless the file was edited since.     *)
THEOREM ConfigFileOthersKept == CfgSpec => OthersKept
<1>1. FileInv /\ [CfgNext]_vars =>
        [op.at = "write" /\ op'.at \notin {"write", "idle"} /\ ~op.edited
           => Others(file', op.by) = Others(file, op.by)]_vars
  <2> SUFFICES ASSUME FileInv, CfgNext, op.at = "write", op'.at \notin {"write", "idle"}, ~op.edited
               PROVE  Others(file', op.by) = Others(file, op.by)
    OBVIOUS
  <2>1. Others(op.out, op.by) = Others(file, op.by)
    BY DEF FileInv, Ready
  <2>2. file' = op.out
    <3>1. Rename \/ HandEdit
      BY DEF CfgNext, AddCommits, AddPicks, RemoveTailnet, MoveTo, Enable, AuthKey, Change, Load,
             PatchReads, WriteFails, ReloadReads, SyncTailnets, RecordApplied, Crash, Idle
    <3>2. ~HandEdit
      BY DEF HandEdit, FileInv, CfgTypeOK
    <3> QED BY <3>1, <3>2 DEF Rename
  <2> QED BY <2>1, <2>2
<1> QED
  BY <1>1, FileInvariant, PTL DEF CfgSpec, OthersKept
=============================================================================
