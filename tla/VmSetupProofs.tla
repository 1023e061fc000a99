---------------------------- MODULE VmSetupProofs ----------------------------
(***************************************************************************)
(* Proofs about VmSetup, for any inputs, any files of the host, any image  *)
(* and any number of attempts.                                             *)
(*                                                                         *)
(* Each attempt is for an input of its own: what the attempts before it     *)
(* have left is its fault, if they have left something.                    *)
(*                                                                         *)
(* The invariant says, for the phase and the index that createVM is at,    *)
(* what every variable is made of: a function of the input and the files   *)
(* of the host.  Its parts are predicates with the variables as arguments. *)
(* It has two halves.  The first holds of every request.  The second holds *)
(* of those whose paths are apart, since a root drive or a mount with the  *)
(* name of a file that the shim makes would overwrite it.                  *)
(*                                                                         *)
(* A step is first taken apart into what it does to the phase (Turns), to  *)
(* the variables that it may write (Kept) and to the files (Written); the  *)
(* parts of the invariant are then proved from these and from the actions  *)
(* that concern them.                                                      *)
(***************************************************************************)
EXTENDS VmSetup, WellFoundedInduction, SequenceTheorems, TLAPS

-----------------------------------------------------------------------------
(* Numbers and folds.                                                      *)

\* The least of a set of numbers, on which induction rests.
LEMMA LeastOf ==
    ASSUME NEW S, S \subseteq Nat, S # {}
    PROVE  \E n \in S : \A m \in S : n <= m
<1>1. \E n \in S : \A m \in S : <<m, n>> \notin OpToRel(<, Nat)
  <2> DEFINE R == OpToRel(<, Nat)
  <2>1. IsWellFoundedOn(R, Nat) BY NatLessThanWellFounded
  <2> HIDE DEF R
  <2>2. \E x \in S : \A y \in S : ~ (<<y, x>> \in R) BY <2>1, WFMin
  <2> QED BY <2>2 DEF R
<1>2. \A x, y \in Nat : <<x, y>> \in OpToRel(<, Nat) <=> x < y BY DEF OpToRel
<1>3. PICK n \in S : \A m \in S : <<m, n>> \notin OpToRel(<, Nat) BY <1>1
<1>4. \A m \in S : ~ (m < n) BY <1>2, <1>3, Zenon
<1>5. n \in S BY <1>3, Zenon
<1> HIDE <1>3
<1>6. \A m \in S : n <= m BY <1>4, <1>5
<1> QED BY <1>5, <1>6, Zenon

\* A set with 0 and the successors of its numbers has them all.
LEMMA Induction ==
    ASSUME NEW S, 0 \in S, \A n \in Nat : n \in S => n + 1 \in S
    PROVE  \A n \in Nat : n \in S
<1> DEFINE T == Nat \ S
<1> SUFFICES ASSUME T # {} PROVE FALSE OBVIOUS
<1> HIDE DEF T
<1>1. T \subseteq Nat BY DEF T
<1>2. PICK n \in T : \A m \in T : n <= m BY <1>1, LeastOf
<1>3. n \in Nat /\ n \notin S BY <1>2 DEF T
<1>4. n - 1 \in Nat BY <1>3
<1>5. n - 1 \notin T BY <1>2, <1>3, <1>4
<1>6. n - 1 \in S BY <1>4, <1>5 DEF T
<1>7. (n - 1) + 1 \in S BY <1>4, <1>6
<1> QED BY <1>3, <1>7

\* The greatest of a set of indices is one of them.
LEMMA MaxIs ==
    ASSUME NEW n \in Nat, NEW S, S \subseteq 1..n, S # {}
    PROVE  Max(S) \in S /\ \A m \in S : Max(S) >= m
<1> DEFINE T == {n - m : m \in S}
<1>1. T \subseteq Nat /\ T # {}
  <2>1. \A m \in S : n - m \in Nat OBVIOUS
  <2>2. PICK m \in S : TRUE OBVIOUS
  <2>3. n - m \in T OBVIOUS
  <2> QED BY <2>1, <2>3
<1> HIDE DEF T
<1>2. PICK k \in T : \A m \in T : k <= m BY <1>1, LeastOf
<1>3. PICK g \in S : k = n - g BY <1>2 DEF T
<1>4. \A m \in S : n - m \in T BY DEF T
<1>5. \A m \in S : g >= m BY <1>2, <1>3, <1>4
<1> QED BY <1>3, <1>5 DEF Max

\* And so is the least.
LEMMA MinIs ==
    ASSUME NEW S, S \subseteq Nat, S # {}
    PROVE  Min(S) \in S /\ \A m \in S : Min(S) =< m
BY LeastOf DEF Min
-----------------------------------------------------------------------------
\* What FoldLeft does of the first n entries, by set of indices.
FoldsTo(it, entries, n) ==
    it = [s \in SUBSET (1..n) |->
             IF s = {} THEN Fresh ELSE SetLevel(it[s \ {Max(s)}], entries[Max(s)])]

\* Entries can be taken in one after the other, any number of them.
LEMMA FoldExists ==
    ASSUME NEW entries
    PROVE  \A n \in Nat : \E it : FoldsTo(it, entries, n)
<1> DEFINE S == {n \in Nat : \E it : FoldsTo(it, entries, n)}
<1>1. 0 \in S
  <2> DEFINE it == [s \in SUBSET (1..0) |-> Fresh]
  <2>1. \A s \in SUBSET (1..0) : s = {} OBVIOUS
  <2>2. FoldsTo(it, entries, 0) BY <2>1 DEF FoldsTo
  <2> QED BY <2>2
<1>2. ASSUME NEW n \in Nat, n \in S PROVE n + 1 \in S
  <2>1. PICK g : FoldsTo(g, entries, n) BY <1>2
  <2> DEFINE h == [s \in SUBSET (1..(n + 1)) |->
                      IF n + 1 \in s THEN SetLevel(g[s \ {n + 1}], entries[n + 1]) ELSE g[s]]
  <2>2. ASSUME NEW s \in SUBSET (1..(n + 1))
        PROVE  h[s] = IF s = {} THEN Fresh ELSE SetLevel(h[s \ {Max(s)}], entries[Max(s)])
    <3>1. CASE n + 1 \in s
      <4>1. s # {} /\ s \subseteq 1..(n + 1) /\ n + 1 \in Nat BY <3>1
      <4>2. Max(s) = n + 1
        <5>1. Max(s) \in s /\ \A m \in s : Max(s) >= m BY <4>1, MaxIs
        <5>2. Max(s) \in 1..(n + 1) /\ Max(s) >= n + 1 BY <3>1, <4>1, <5>1
        <5> QED BY <5>2
      <4>3. s \ {n + 1} \in SUBSET (1..n) /\ n + 1 \notin s \ {n + 1} BY <3>1
      <4>4. h[s \ {n + 1}] = g[s \ {n + 1}] BY <4>3
      <4>5. h[s] = SetLevel(g[s \ {n + 1}], entries[n + 1]) BY <3>1
      <4> QED BY <3>1, <4>2, <4>4, <4>5
    <3>2. CASE n + 1 \notin s
      <4>1. s \in SUBSET (1..n) BY <3>2
      <4>2. h[s] = g[s] BY <3>2
      <4>3. CASE s = {}
        BY <2>1, <4>1, <4>2, <4>3 DEF FoldsTo
      <4>4. CASE s # {}
        <5>1. Max(s) \in s BY <4>1, <4>4, MaxIs
        <5>2. s \ {Max(s)} \in SUBSET (1..(n + 1)) /\ n + 1 \notin s \ {Max(s)}
          BY <3>2, <4>1
        <5>3. h[s \ {Max(s)}] = g[s \ {Max(s)}] BY <5>2
        <5>4. g[s] = SetLevel(g[s \ {Max(s)}], entries[Max(s)])
          BY <2>1, <4>1, <4>4 DEF FoldsTo
        <5> QED BY <4>2, <4>4, <5>3, <5>4
      <4> QED BY <4>3, <4>4
    <3> QED BY <3>1, <3>2
  <2>3. h = [s \in SUBSET (1..(n + 1)) |-> h[s]] OBVIOUS
  <2> HIDE DEF h
  <2>4. FoldsTo(h, entries, n + 1) BY <2>2, <2>3, Zenon DEF FoldsTo
  <2> QED BY <2>4
<1> HIDE DEF S
<1>3. \A n \in Nat : n \in S BY <1>1, <1>2, Induction
<1> QED BY <1>3 DEF S

\* New goes through the entries one after another.
LEMMA NewIsAFold ==
    ASSUME NEW entries \in Seq(Entries)
    PROVE  \E h : /\ h[0] = Fresh /\ New(entries) = h[Len(entries)]
                  /\ \A k \in 1..Len(entries) : h[k] = SetLevel(h[k - 1], entries[k])
<1> DEFINE N == Len(entries)
           it == CHOOSE it : it = [s \in SUBSET DOMAIN entries |->
                     IF s = {} THEN Fresh ELSE SetLevel(it[s \ {Max(s)}], entries[Max(s)])]
           h == [k \in 0..N |-> it[1..k]]
<1>1. N \in Nat /\ DOMAIN entries = 1..N OBVIOUS
<1>2. New(entries) = it[DOMAIN entries]
  BY Zenon DEF New, FoldLeft, MapThenFoldSet
<1>3. it = CHOOSE f : FoldsTo(f, entries, N) BY <1>1, Zenon DEF FoldsTo
<1> HIDE DEF it
<1>4. FoldsTo(it, entries, N) BY <1>1, <1>3, FoldExists, Zenon
<1>5. h[0] = Fresh
  <2>1. 1..0 = {} /\ 1..0 \in SUBSET (1..N) OBVIOUS
  <2> QED BY <1>1, <1>4, <2>1 DEF FoldsTo
<1>6. ASSUME NEW k \in 1..N PROVE h[k] = SetLevel(h[k - 1], entries[k])
  <2>1. k \in Nat /\ k \in 1..k /\ 1..k \in SUBSET (1..N) /\ 1..k # {}
    <3>1. k \in Nat /\ k \in 1..k BY <1>1
    <3>2. 1..k # {} BY <3>1, Zenon
    <3>3. 1..k \subseteq 1..N BY <1>1
    <3> QED BY <3>1, <3>2, <3>3
  <2>2. Max(1..k) \in 1..k /\ \A m \in 1..k : Max(1..k) >= m BY <2>1, MaxIs
  <2>3. Max(1..k) = k BY <2>1, <2>2
  <2>4. (1..k) \ {k} = 1..(k - 1) BY <1>1
  <2>5. it[1..k] = SetLevel(it[1..(k - 1)], entries[k])
    BY <1>4, <2>1, <2>3, <2>4 DEF FoldsTo
  <2>6. h[k] = it[1..k] /\ h[k - 1] = it[1..(k - 1)] BY <1>1
  <2> QED BY <2>5, <2>6
<1>7. New(entries) = h[N] BY <1>1, <1>2
<1> HIDE DEF h
<1> QED BY <1>5, <1>6, <1>7

-----------------------------------------------------------------------------
(* The levels of the configuration.                                        *)

\* What of the levels is set, and that none was set twice, after k entries.
Kinds == Components \cup {"top"}

TwiceTo(entries, k) ==
    \E j, m \in 1..k : j # m /\ entries[j].of = entries[m].of /\ entries[j].of \in Kinds

InvalidTo(entries, k) == \E j \in 1..k : entries[j].of = "invalid"

LevelTo(h, entries, k, of) ==
    \/ h.level[of] = None /\ \A m \in 1..k : entries[m].of # of
    \/ \E m \in 1..k : entries[m].of = of /\ entries[m].level = h.level[of]

LevelsTo(h, entries, k) ==
    \/ h = None /\ (TwiceTo(entries, k) \/ InvalidTo(entries, k))
    \/ /\ h \in Helpers /\ ~TwiceTo(entries, k) /\ ~InvalidTo(entries, k)
       /\ \A of \in Kinds : LevelTo(h, entries, k, of)
       /\ h.output <=> \E m \in 1..k : entries[m].of = "output"

\* An entry sets its level and no other, or is refused.
LEMMA SetLevelIs ==
    ASSUME NEW entries \in Seq(Entries), NEW k \in Nat, k + 1 \in 1..Len(entries),
           NEW h, LevelsTo(h, entries, k)
    PROVE  LevelsTo(SetLevel(h, entries[k + 1]), entries, k + 1)
<1> DEFINE e == entries[k + 1]
           g == SetLevel(h, e)
<1>1. e \in Entries /\ DOMAIN entries = 1..Len(entries) OBVIOUS
<1>2. \/ e.of \in Kinds /\ e.level \in Severities
      \/ e.of \in {"output", "invalid"} /\ e.level = None
  BY <1>1 DEF Entries, Kinds
<1>3. 1..(k + 1) = (1..k) \cup {k + 1} OBVIOUS
<1>4. "output" \notin Kinds /\ "invalid" \notin Kinds BY DEF Kinds, Components
<1> HIDE DEF e
<1>5. e = entries[k + 1] BY DEF e
<1>6. TwiceTo(entries, k) => TwiceTo(entries, k + 1) BY <1>3 DEF TwiceTo
<1>7. InvalidTo(entries, k + 1) <=> InvalidTo(entries, k) \/ e.of = "invalid"
  BY <1>3, <1>5 DEF InvalidTo
<1>8. CASE h = None
  <2>1. g = None BY <1>8 DEF SetLevel
  <2>2. TwiceTo(entries, k) \/ InvalidTo(entries, k) BY <1>8, NoneIsNoHelper DEF LevelsTo
  <2> QED BY <2>1, <2>2, <1>5, <1>6, <1>7 DEF LevelsTo
<1>9. CASE h # None /\ e.of = "invalid"
  <2>1. g = None BY <1>9 DEF SetLevel
  <2> QED BY <2>1, <1>5, <1>7, <1>9 DEF LevelsTo
<1>10. ASSUME h # None, e.of # "invalid"
       PROVE  /\ h \in Helpers /\ ~TwiceTo(entries, k) /\ ~InvalidTo(entries, k + 1)
              /\ \A of \in Kinds : LevelTo(h, entries, k, of)
              /\ h.output <=> \E m \in 1..k : entries[m].of = "output"
  BY <1>7, <1>10 DEF LevelsTo
<1>11. CASE h # None /\ e.of = "output"
  <2>1. g = [h EXCEPT !.output = TRUE] BY <1>11 DEF SetLevel
  <2>2. g \in Helpers /\ g.level = h.level /\ g.output = TRUE
    BY <2>1, <1>10, <1>11 DEF Helpers
  <2>3. ~TwiceTo(entries, k + 1)
    BY <1>3, <1>4, <1>5, <1>10, <1>11 DEF TwiceTo
  <2>4. \A of \in Kinds : LevelTo(g, entries, k + 1, of)
    BY <1>3, <1>4, <1>5, <1>10, <1>11, <2>2 DEF LevelTo
  <2>5. \E m \in 1..(k + 1) : entries[m].of = "output" BY <1>5, <1>11
  <2> QED BY <1>5, <1>10, <1>11, <2>2, <2>3, <2>4, <2>5 DEF LevelsTo
<1>12. CASE h # None /\ e.of \in Kinds
  <2>1. e.of # "invalid" /\ e.of # "output" /\ e.level \in Severities
    BY <1>2, <1>4, <1>12, NoneIsNoSeverity
  <2>2. h \in Helpers BY <2>1, <1>10, <1>12
  <2>3. LevelTo(h, entries, k, e.of) BY <2>1, <1>10, <1>12
  <2>4. CASE h.level[e.of] = None
    <3>1. g = [h EXCEPT !.level[e.of] = e.level] BY <1>12, <2>1, <2>4 DEF SetLevel
    <3>2. /\ g \in Helpers /\ g.output = h.output /\ g.level[e.of] = e.level
          /\ \A of \in Kinds \ {e.of} : g.level[of] = h.level[of]
      BY <3>1, <1>12, <2>1, <2>2 DEF Helpers, Kinds
    <3>3. \A m \in 1..k : entries[m].level \in Severities \cup {None}
      BY DEF Entries
    <3>4. \A m \in 1..k : entries[m].of # e.of
      <4>1. \A m \in 1..k : entries[m].of = e.of => entries[m].level # None
        <5> SUFFICES ASSUME NEW m \in 1..k, entries[m].of = e.of
                     PROVE  entries[m].level # None
          OBVIOUS
        <5>1. entries[m] \in Entries OBVIOUS
        <5> QED BY <5>1, <1>4, <1>12, NoneIsNoSeverity DEF Entries, Kinds
      <4> QED BY <2>3, <2>4, <4>1 DEF LevelTo
    <3>5. ~TwiceTo(entries, k + 1)
      BY <1>3, <1>5, <2>1, <1>10, <1>12, <3>4 DEF TwiceTo
    <3>6. \A of \in Kinds : LevelTo(g, entries, k + 1, of)
      BY <1>3, <1>5, <2>1, <1>10, <1>12, <3>2 DEF LevelTo
    <3>7. g.output <=> \E m \in 1..(k + 1) : entries[m].of = "output"
      BY <1>3, <1>5, <2>1, <1>10, <1>12, <3>2
    <3> QED BY <1>5, <1>10, <1>12, <2>1, <3>2, <3>5, <3>6, <3>7 DEF LevelsTo
  <2>5. CASE h.level[e.of] # None
    <3>1. g = None BY <1>12, <2>1, <2>5 DEF SetLevel
    <3>2. \E m \in 1..k : entries[m].of = e.of BY <2>3, <2>5 DEF LevelTo
    <3>3. TwiceTo(entries, k + 1) BY <3>2, <1>3, <1>5, <1>12 DEF TwiceTo
    <3> QED BY <3>1, <3>3, <1>5 DEF LevelsTo
  <2> QED BY <2>4, <2>5
<1> QED BY <1>2, <1>8, <1>9, <1>11, <1>12

\* debug.New makes of a list of log levels what it says: of any length and in any
\* order, each level is set to what its entry says and to nothing without one, and
\* a list that sets a level twice, or has an unknown entry, is refused.
THEOREM NewFoldsLevels ==
    ASSUME NEW entries \in Seq(Entries)
    PROVE  LevelsTo(New(entries), entries, Len(entries))
<1>1. PICK h : /\ h[0] = Fresh /\ New(entries) = h[Len(entries)]
               /\ \A k \in 1..Len(entries) : h[k] = SetLevel(h[k - 1], entries[k])
  BY NewIsAFold
<1> DEFINE S == {k \in Nat : k <= Len(entries) => LevelsTo(h[k], entries, k)}
<1>2. 0 \in S
  <2>1. Fresh \in Helpers /\ Fresh.output = FALSE /\ \A of \in Kinds : Fresh.level[of] = None
    BY DEF Fresh, Helpers, Kinds
  <2>2. \A of \in Kinds : LevelTo(Fresh, entries, 0, of) BY <2>1 DEF LevelTo
  <2>3. ~TwiceTo(entries, 0) /\ ~InvalidTo(entries, 0) BY DEF TwiceTo, InvalidTo
  <2>4. LevelsTo(Fresh, entries, 0) BY <2>1, <2>2, <2>3 DEF LevelsTo
  <2> QED BY <1>1, <2>4
<1>3. ASSUME NEW k \in Nat, k \in S PROVE k + 1 \in S
  <2> SUFFICES ASSUME k + 1 <= Len(entries) PROVE LevelsTo(h[k + 1], entries, k + 1)
    OBVIOUS
  <2>1. Len(entries) \in Nat /\ k + 1 \in 1..Len(entries) OBVIOUS
  <2>2. LevelsTo(h[k], entries, k) BY <1>3, <2>1
  <2>3. h[k + 1] = SetLevel(h[k], entries[k + 1]) BY <1>1, <2>1
  <2> QED BY <2>1, <2>2, <2>3, SetLevelIs
<1> HIDE DEF S
<1>4. \A k \in Nat : k \in S BY <1>2, <1>3, Induction
<1>5. Len(entries) \in Nat /\ Len(entries) \in S BY <1>4
<1> QED BY <1>1, <1>5 DEF S

-----------------------------------------------------------------------------
(* Paths and the links on them.                                            *)

\* A part of a sequence.
LEMMA PartOfSeq ==
    ASSUME NEW S, NEW p \in Seq(S), NEW m \in Nat \ {0}, NEW n \in 0..Len(p)
    PROVE  /\ SubSeq(p, m, n) \in Seq(S)
           /\ Len(SubSeq(p, m, n)) = IF m <= n THEN n - m + 1 ELSE 0
           /\ \A k \in 1..(n - m + 1) : SubSeq(p, m, n)[k] = p[m + k - 1]
<1>1. \A k \in m..n : p[k] \in S OBVIOUS
<1>2. m \in Int /\ n \in Int OBVIOUS
<1> QED BY <1>1, <1>2, SubSeqProperties

\* Parts of two sequences put together.
LEMMA PartsOfConcat ==
    ASSUME NEW S, NEW p \in Seq(S), NEW s \in Seq(S)
    PROVE  /\ p \o s \in Seq(S) /\ Len(p \o s) = Len(p) + Len(s)
           /\ \A n \in 0..Len(p) : SubSeq(p \o s, 1, n) = SubSeq(p, 1, n)
           /\ \A n \in 0..Len(p) :
                  SubSeq(p \o s, n + 1, Len(p \o s)) = SubSeq(p, n + 1, Len(p)) \o s
<1>1. p \o s \in Seq(S) /\ Len(p \o s) = Len(p) + Len(s) BY ConcatProperties
<1>2. Len(p) \in Nat /\ Len(s) \in Nat OBVIOUS
<1>3. ASSUME NEW n \in 0..Len(p) PROVE SubSeq(p \o s, 1, n) = SubSeq(p, 1, n)
  <2>1. CASE n = 0 BY <2>1, SubSeqEmpty
  <2>2. CASE n # 0
    <3>1. n \in 1..Len(p) /\ 1 \in 1..Len(p) BY <1>2, <2>2
    <3> QED BY <3>1, SubSeqOfConcat1
  <2> QED BY <2>1, <2>2
<1>4. ASSUME NEW n \in 0..Len(p)
      PROVE  SubSeq(p \o s, n + 1, Len(p \o s)) = SubSeq(p, n + 1, Len(p)) \o s
  <2> DEFINE a == SubSeq(p \o s, n + 1, Len(p \o s))
             b == SubSeq(p, n + 1, Len(p))
  <2>1. \A m \in 1..(Len(p) + Len(s)) : (p \o s)[m] \in S
    BY <1>1, <1>2, ElementOfSeq
  <2>2. /\ a \in Seq(S) /\ Len(a) = Len(p) + Len(s) - n
        /\ \A m \in 1..(Len(p) + Len(s) - n) : a[m] = (p \o s)[n + m]
    <3>1. n + 1 \in Nat \ {0} /\ Len(p \o s) \in 0..Len(p \o s) BY <1>1, <1>2
    <3>2. /\ a \in Seq(S)
          /\ Len(a) = IF n + 1 <= Len(p \o s) THEN Len(p \o s) - (n + 1) + 1 ELSE 0
          /\ \A m \in 1..(Len(p \o s) - (n + 1) + 1) : a[m] = (p \o s)[(n + 1) + m - 1]
      BY <1>1, <3>1, PartOfSeq
    <3> HIDE DEF a
    <3>3. n \in Nat /\ n <= Len(p) BY <1>2
    <3>4. \A m \in Int : (n + 1) + m - 1 = n + m BY <3>3
    <3>5. Len(p \o s) - (n + 1) + 1 = Len(p) + Len(s) - n BY <1>1, <1>2, <3>3
    <3>6. Len(a) = Len(p) + Len(s) - n
      <4>1. Len(p) \in Nat /\ Len(s) \in Nat /\ Len(p \o s) = Len(p) + Len(s) BY <1>1
      <4>2. n + 1 <= Len(p \o s) \/ Len(p) + Len(s) - n = 0 BY <3>3, <4>1
      <4>3. n + 1 <= Len(p \o s) => Len(a) = Len(p) + Len(s) - n BY <3>2, <3>5
      <4>4. ~(n + 1 <= Len(p \o s)) => Len(a) = 0 BY <3>2
      <4> QED BY <4>2, <4>3, <4>4
    <3>7. ASSUME NEW m \in 1..(Len(p) + Len(s) - n) PROVE a[m] = (p \o s)[n + m]
      <4>1. a[m] = (p \o s)[(n + 1) + m - 1] BY <3>2, <3>5
      <4> QED BY <3>4, <4>1
    <3> QED BY <3>2, <3>6, <3>7
  <2>3. /\ b \in Seq(S) /\ Len(b) = Len(p) - n
        /\ \A m \in 1..(Len(p) - n) : b[m] = p[n + m]
    <3>1. n + 1 \in Nat \ {0} /\ Len(p) \in 0..Len(p) BY <1>2
    <3>2. /\ b \in Seq(S)
          /\ Len(b) = IF n + 1 <= Len(p) THEN Len(p) - (n + 1) + 1 ELSE 0
          /\ \A m \in 1..(Len(p) - (n + 1) + 1) : b[m] = p[(n + 1) + m - 1]
      BY <3>1, PartOfSeq
    <3> HIDE DEF b
    <3>3. n \in Nat /\ n <= Len(p) BY <1>2
    <3>4. \A m \in Int : (n + 1) + m - 1 = n + m BY <3>3
    <3>5. Len(b) = Len(p) - n BY <1>2, <3>2, <3>3
    <3>6. ASSUME NEW m \in 1..(Len(p) - n) PROVE b[m] = p[n + m]
      <4>1. m \in 1..(Len(p) - (n + 1) + 1) /\ (n + 1) + m - 1 = n + m BY <1>2, <3>3
      <4>2. b[m] = p[(n + 1) + m - 1] BY <3>2, <4>1
      <4> QED BY <4>1, <4>2
    <3> QED BY <3>2, <3>5, <3>6
  <2> HIDE DEF a, b
  <2>4. /\ b \o s \in Seq(S) /\ Len(b \o s) = Len(p) - n + Len(s)
        /\ \A m \in 1..(Len(p) - n + Len(s)) :
               (b \o s)[m] = IF m <= Len(p) - n THEN b[m] ELSE s[m - (Len(p) - n)]
    <3>1. b \in Seq(S) /\ s \in Seq(S) BY <2>3
    <3>2. /\ b \o s \in Seq(S) /\ Len(b \o s) = Len(b) + Len(s)
          /\ \A m \in 1..(Len(b) + Len(s)) :
                 (b \o s)[m] = IF m <= Len(b) THEN b[m] ELSE s[m - Len(b)]
      BY <3>1, ConcatProperties
    <3> QED BY <2>3, <3>2
  <2>5. \A m \in 1..(Len(p) + Len(s)) :
            (p \o s)[m] = IF m <= Len(p) THEN p[m] ELSE s[m - Len(p)]
    BY ConcatProperties
  <2>6. ASSUME NEW m \in 1..Len(a) PROVE a[m] = (b \o s)[m]
    <3>1. m \in 1..(Len(p) + Len(s) - n) /\ n + m \in 1..(Len(p) + Len(s)) BY <1>2, <2>2
    <3>2. a[m] = IF n + m <= Len(p) THEN p[n + m] ELSE s[n + m - Len(p)]
      BY <2>2, <2>5, <3>1
    <3>3. (b \o s)[m] = IF m <= Len(p) - n THEN b[m] ELSE s[m - (Len(p) - n)]
      BY <1>2, <2>4, <3>1
    <3>4. m <= Len(p) - n => b[m] = p[n + m] BY <1>2, <2>3, <3>1
    <3>5. n + m - Len(p) = m - (Len(p) - n) /\ (n + m <= Len(p) <=> m <= Len(p) - n)
      BY <1>2, <3>1
    <3> QED BY <3>2, <3>3, <3>4, <3>5
  <2>7. Len(a) = Len(b \o s) BY <1>2, <2>2, <2>4
  <2>8. a = b \o s BY <2>2, <2>4, <2>6, <2>7, SeqEqual, Zenon
  <2> QED BY <2>8 DEF a, b
<1> QED BY <1>1, <1>3, <1>4

\* The beginning of a sequence, and its end.
LEMMA PartsOfSeq ==
    ASSUME NEW S, NEW p \in Seq(S), NEW n \in 0..Len(p)
    PROVE  /\ SubSeq(p, 1, n) \in Seq(S) /\ Len(SubSeq(p, 1, n)) = n
           /\ SubSeq(p, n + 1, Len(p)) \in Seq(S)
           /\ \A m \in 0..n : SubSeq(SubSeq(p, 1, n), 1, m) = SubSeq(p, 1, m)
<1>1. Len(p) \in Nat /\ n \in Int /\ 1 \in Int /\ n + 1 \in Int OBVIOUS
<1>2. \A m \in 1..n : p[m] \in S BY <1>1
<1>3. /\ SubSeq(p, 1, n) \in Seq(S)
      /\ Len(SubSeq(p, 1, n)) = IF 1 <= n THEN n - 1 + 1 ELSE 0
  BY <1>1, <1>2, SubSeqProperties
<1>4. \A m \in (n + 1)..Len(p) : p[m] \in S BY <1>1
<1>5. SubSeq(p, n + 1, Len(p)) \in Seq(S)
  <2>1. Len(p) \in Int BY <1>1
  <2> QED BY <1>1, <1>4, <2>1, SubSeqProperties
<1>6. ASSUME NEW m \in 0..n PROVE SubSeq(SubSeq(p, 1, n), 1, m) = SubSeq(p, 1, m)
  <2>1. CASE m = 0 BY <2>1, SubSeqEmpty
  <2>2. CASE m # 0
    <3>1. 1 \in 1..Len(p) /\ n \in 1..Len(p) /\ 1 \in 1..(n - 1 + 1) /\ m \in 1..(n - 1 + 1)
      BY <1>1, <2>2
    <3>2. SubSeq(SubSeq(p, 1, n), 1, m) = SubSeq(p, 1 + 1 - 1, 1 + m - 1)
      BY <3>1, SubSeqOfSubSeq
    <3>3. 1 + m - 1 = m OBVIOUS
    <3> QED BY <3>2, <3>3
  <2> QED BY <2>1, <2>2
<1> QED BY <1>1, <1>3, <1>5, <1>6
\* A path is a sequence of names.
LEMMA ConcatParts ==
    ASSUME NEW p \in Path, NEW s \in Path
    PROVE  /\ p \o s \in Path /\ Len(p \o s) = Len(p) + Len(s)
           /\ \A n \in 0..Len(p) : SubSeq(p \o s, 1, n) = SubSeq(p, 1, n)
           /\ \A n \in 0..Len(p) :
                  SubSeq(p \o s, n + 1, Len(p \o s)) = SubSeq(p, n + 1, Len(p)) \o s
BY PartsOfConcat DEF Path

\* The parts of a path are paths.
LEMMA PartsArePaths ==
    ASSUME NEW p \in Path, NEW n \in 0..Len(p)
    PROVE  /\ SubSeq(p, 1, n) \in Path /\ Len(SubSeq(p, 1, n)) = n
           /\ SubSeq(p, n + 1, Len(p)) \in Path
           /\ \A m \in 0..n : SubSeq(SubSeq(p, 1, n), 1, m) = SubSeq(p, 1, m)
BY PartsOfSeq DEF Path
-----------------------------------------------------------------------------
\* A path is followed to a path, and no further if no link is on it.
LEMMA FollowIsPath ==
    ASSUME NEW p \in Path
    PROVE  Follow(p) \in Path /\ (LinksOn(p) = {} => Follow(p) = p)
<1>1. CASE LinksOn(p) = {} BY <1>1 DEF Follow
<1>2. CASE LinksOn(p) # {}
  <2> DEFINE n == Min(LinksOn(p))
  <2>1. LinksOn(p) \subseteq Nat /\ Len(p) \in Nat BY DEF LinksOn, Path
  <2>2. n \in LinksOn(p) BY <1>2, <2>1, MinIs
  <2>3. n \in 0..Len(p) /\ SubSeq(p, 1, n) \in DOMAIN GuestLinks BY <2>1, <2>2 DEF LinksOn
  <2> HIDE DEF n
  <2>4. GuestLinks[SubSeq(p, 1, n)] \in Path BY <2>3, GuestTree DEF GuestAssumption
  <2>5. SubSeq(p, n + 1, Len(p)) \in Path BY <2>3, PartsArePaths
  <2>6. GuestLinks[SubSeq(p, 1, n)] \o SubSeq(p, n + 1, Len(p)) \in Path
    BY <2>4, <2>5, ConcatProperties DEF Path
  <2> QED BY <1>2, <2>6 DEF Follow, n
<1> QED BY <1>1, <1>2

\* What comes after the first link does not matter.
LEMMA FollowBefore ==
    ASSUME NEW p \in Path, NEW s \in Path, LinksOn(p) # {}
    PROVE  Follow(p \o s) = Follow(p) \o s
<1> DEFINE n == Min(LinksOn(p))
<1>1. LinksOn(p) \subseteq Nat /\ Len(p) \in Nat /\ Len(s) \in Nat BY DEF LinksOn, Path
<1>2. n \in LinksOn(p) /\ \A m \in LinksOn(p) : n =< m BY <1>1, MinIs
<1>3. n \in 1..Len(p) /\ SubSeq(p, 1, n) \in DOMAIN GuestLinks BY <1>2 DEF LinksOn
<1> HIDE DEF n
<1>4. Len(p \o s) = Len(p) + Len(s) /\ \A m \in 1..Len(p) : SubSeq(p \o s, 1, m) = SubSeq(p, 1, m)
  BY <1>1, ConcatParts
<1>5. n \in LinksOn(p \o s)
  <2>1. SubSeq(p \o s, 1, n) = SubSeq(p, 1, n) BY <1>3, <1>4
  <2>2. n \in 1..Len(p \o s) BY <1>1, <1>3, <1>4
  <2> QED BY <1>3, <2>1, <2>2 DEF LinksOn
<1>6. \A m \in LinksOn(p \o s) : m \in Nat /\ n =< m
  <2> SUFFICES ASSUME NEW m \in LinksOn(p \o s), m < n PROVE FALSE
    BY <1>1, <1>3, <1>4 DEF LinksOn
  <2>1. m \in 1..Len(p) BY <1>1, <1>3, <1>4 DEF LinksOn
  <2>2. m \in LinksOn(p) BY <1>4, <2>1 DEF LinksOn
  <2> QED BY <1>2, <1>3, <2>1, <2>2
<1>7. Min(LinksOn(p \o s)) = n
  <2>1. LinksOn(p \o s) \subseteq Nat /\ LinksOn(p \o s) # {} BY <1>5, <1>6
  <2>2. /\ Min(LinksOn(p \o s)) \in LinksOn(p \o s)
        /\ \A m \in LinksOn(p \o s) : Min(LinksOn(p \o s)) =< m
    BY <2>1, MinIs
  <2>3. Min(LinksOn(p \o s)) =< n /\ n =< Min(LinksOn(p \o s)) /\ Min(LinksOn(p \o s)) \in Nat
    BY <1>5, <1>6, <2>2
  <2> QED BY <1>3, <2>3
<1>8. n \in 0..Len(p) BY <1>1, <1>3
<1>9. SubSeq(p \o s, n + 1, Len(p \o s)) = SubSeq(p, n + 1, Len(p)) \o s BY <1>8, ConcatParts
<1>10. Follow(p \o s) = GuestLinks[SubSeq(p, 1, n)] \o (SubSeq(p, n + 1, Len(p)) \o s)
  BY <1>3, <1>4, <1>5, <1>7, <1>9 DEF Follow
<1>11. Follow(p) = GuestLinks[SubSeq(p, 1, n)] \o SubSeq(p, n + 1, Len(p)) BY DEF Follow, n
<1>12. GuestLinks[SubSeq(p, 1, n)] \in Path /\ SubSeq(p, n + 1, Len(p)) \in Path
  BY <1>3, <1>8, PartsArePaths, GuestTree DEF GuestAssumption
<1>13. (GuestLinks[SubSeq(p, 1, n)] \o SubSeq(p, n + 1, Len(p))) \o s
           = GuestLinks[SubSeq(p, 1, n)] \o (SubSeq(p, n + 1, Len(p)) \o s)
  <2> DEFINE a == GuestLinks[SubSeq(p, 1, n)]
             b == SubSeq(p, n + 1, Len(p))
  <2>1. a \in Seq(STRING) /\ b \in Seq(STRING) /\ s \in Seq(STRING) BY <1>12 DEF Path
  <2> HIDE DEF a, b
  <2>2. (a \o b) \o s = a \o (b \o s) BY <2>1, ConcatAssociative
  <2> QED BY <2>2 DEF a, b
<1> QED BY <1>10, <1>11, <1>13
-----------------------------------------------------------------------------
\* f is what follows from path, link after link.
Follows(f, path) == f[0] = path /\ \A n \in 1..MaxLinks : f[n] = Follow(f[n - 1])

FollowsTo(f, path, k) ==
    f = [n \in 0..k |-> IF n = 0 THEN path ELSE Follow(f[n - 1])]

\* What a path is followed to is what MaxLinks steps make of it.
LEMMA FollowsExists ==
    ASSUME NEW path
    PROVE  \E f : Follows(f, path) /\ Followed(path) = f[MaxLinks]
<1> DEFINE S == {k \in Nat : \E f : FollowsTo(f, path, k)}
<1>1. 0 \in S
  <2> DEFINE f == [n \in 0..0 |-> path]
  <2>1. FollowsTo(f, path, 0) BY DEF FollowsTo
  <2> QED BY <2>1
<1>2. ASSUME NEW k \in Nat, k \in S PROVE k + 1 \in S
  <2>1. PICK g : FollowsTo(g, path, k) BY <1>2
  <2> DEFINE h == [n \in 0..(k + 1) |-> IF n = k + 1 THEN Follow(g[k]) ELSE g[n]]
  <2>2. ASSUME NEW n \in 0..(k + 1) PROVE h[n] = IF n = 0 THEN path ELSE Follow(h[n - 1])
    <3>1. CASE n = k + 1
      <4>1. h[n] = Follow(g[k]) /\ h[n - 1] = g[k] /\ n # 0 BY <3>1
      <4> QED BY <4>1
    <3>2. CASE n \in 0..k
      <4>1. h[n] = g[n] /\ (n # 0 => h[n - 1] = g[n - 1]) BY <3>2
      <4>2. g[n] = IF n = 0 THEN path ELSE Follow(g[n - 1]) BY <2>1, <3>2 DEF FollowsTo
      <4> QED BY <4>1, <4>2
    <3> QED BY <3>1, <3>2
  <2>3. h = [n \in 0..(k + 1) |-> h[n]] OBVIOUS
  <2> HIDE DEF h
  <2>4. FollowsTo(h, path, k + 1) BY <2>2, <2>3, Zenon DEF FollowsTo
  <2> QED BY <2>4
<1> HIDE DEF S
<1>3. MaxLinks \in S BY <1>1, <1>2, Induction DEF MaxLinks
<1> DEFINE f == CHOOSE f : FollowsTo(f, path, MaxLinks)
<1>4. FollowsTo(f, path, MaxLinks) BY <1>3, Zenon DEF S
<1>5. Followed(path) = f[MaxLinks] BY Zenon DEF Followed, FollowsTo
<1> HIDE DEF f
<1>6. Follows(f, path) BY <1>4 DEF FollowsTo, Follows, MaxLinks
<1> QED BY <1>5, <1>6

\* Two ways through the same path go on alike.
LEMMA FollowsSame ==
    ASSUME NEW f, NEW p, Follows(f, p), NEW g, NEW k \in 0..MaxLinks, Follows(g, f[k])
    PROVE  \A j \in 0..(MaxLinks - k) : g[j] = f[k + j]
<1> DEFINE S == {j \in Nat : j <= MaxLinks - k => g[j] = f[k + j]}
<1>1. 0 \in S BY DEF Follows, MaxLinks
<1>2. ASSUME NEW j \in Nat, j \in S PROVE j + 1 \in S
  <2> SUFFICES ASSUME j + 1 <= MaxLinks - k PROVE g[j + 1] = f[k + (j + 1)] OBVIOUS
  <2>1. g[j] = f[k + j] BY <1>2 DEF MaxLinks
  <2>2. j + 1 \in 1..MaxLinks /\ k + (j + 1) \in 1..MaxLinks BY DEF MaxLinks
  <2>3. (j + 1) - 1 = j /\ (k + (j + 1)) - 1 = k + j BY DEF MaxLinks
  <2>4. g[j + 1] = Follow(g[j]) BY <2>2, <2>3 DEF Follows
  <2>5. f[k + (j + 1)] = Follow(f[k + j]) BY <2>2, <2>3 DEF Follows
  <2> QED BY <2>1, <2>4, <2>5
<1> HIDE DEF S
<1>3. \A j \in Nat : j \in S BY <1>1, <1>2, Induction
<1> QED BY <1>3 DEF S, MaxLinks

\* Every place on the way is a path, and where no link is left it ends.
LEMMA FollowsPaths ==
    ASSUME NEW p \in Path, NEW f, Follows(f, p)
    PROVE  \A n \in 0..MaxLinks : f[n] \in Path
<1> DEFINE S == {n \in Nat : n <= MaxLinks => f[n] \in Path}
<1>1. 0 \in S BY DEF Follows
<1>2. ASSUME NEW n \in Nat, n \in S PROVE n + 1 \in S
  <2> SUFFICES ASSUME n + 1 <= MaxLinks PROVE f[n + 1] \in Path OBVIOUS
  <2>1. f[n] \in Path BY <1>2 DEF MaxLinks
  <2>2. n + 1 \in 1..MaxLinks /\ (n + 1) - 1 = n BY DEF MaxLinks
  <2>3. f[n + 1] = Follow(f[n]) BY <2>2 DEF Follows
  <2> QED BY <2>1, <2>3, FollowIsPath
<1> HIDE DEF S
<1>3. \A n \in Nat : n \in S BY <1>1, <1>2, Induction
<1> QED BY <1>3 DEF S, MaxLinks

\* A path without links is followed no further.
LEMMA FollowsEnds ==
    ASSUME NEW p \in Path, NEW f, Follows(f, p), NEW k \in 0..MaxLinks, LinksOn(f[k]) = {}
    PROVE  \A j \in 0..(MaxLinks - k) : f[k + j] = f[k]
<1> DEFINE S == {j \in Nat : j <= MaxLinks - k => f[k + j] = f[k]}
<1>1. 0 \in S BY DEF MaxLinks
<1>2. ASSUME NEW j \in Nat, j \in S PROVE j + 1 \in S
  <2> SUFFICES ASSUME j + 1 <= MaxLinks - k PROVE f[k + (j + 1)] = f[k] OBVIOUS
  <2>1. f[k + j] = f[k] BY <1>2 DEF MaxLinks
  <2>2. k + (j + 1) \in 1..MaxLinks /\ (k + (j + 1)) - 1 = k + j BY DEF MaxLinks
  <2>3. f[k + (j + 1)] = Follow(f[k + j]) BY <2>2 DEF Follows
  <2>4. f[k] \in Path BY FollowsPaths
  <2> QED BY <2>1, <2>3, <2>4, FollowIsPath
<1> HIDE DEF S
<1>3. \A j \in Nat : j \in S BY <1>1, <1>2, Induction
<1> QED BY <1>3 DEF S, MaxLinks

\* With more names at its end, a path is followed the same way.
LinksBefore(f, k) == \A j \in 0..(k - 1) : LinksOn(f[j]) # {}

\* As long as links are on the directory of a path only, what follows it is kept.
LEMMA FollowsBefore ==
    ASSUME NEW p \in Path, NEW s \in Path, NEW f, Follows(f, p), NEW g, Follows(g, p \o s),
           NEW k \in 0..MaxLinks, LinksBefore(f, k)
    PROVE  g[k] = f[k] \o s
<1> DEFINE S == {j \in Nat : j <= k => g[j] = f[j] \o s}
<1>1. 0 \in S BY DEF Follows
<1>2. ASSUME NEW j \in Nat, j \in S PROVE j + 1 \in S
  <2> SUFFICES ASSUME j + 1 <= k PROVE g[j + 1] = f[j + 1] \o s OBVIOUS
  <2>1. g[j] = f[j] \o s BY <1>2 DEF MaxLinks
  <2>2. j + 1 \in 1..MaxLinks /\ (j + 1) - 1 = j /\ j \in 0..(k - 1) /\ j \in 0..MaxLinks
    BY DEF MaxLinks
  <2>3. g[j + 1] = Follow(g[j]) /\ f[j + 1] = Follow(f[j]) BY <2>2 DEF Follows
  <2>4. f[j] \in Path /\ LinksOn(f[j]) # {} BY <2>2, FollowsPaths DEF LinksBefore
  <2> QED BY <2>1, <2>3, <2>4, FollowBefore
<1> HIDE DEF S
<1>3. k \in Nat /\ k \in S
  <2>1. \A j \in Nat : j \in S BY <1>1, <1>2, Induction
  <2> QED BY <2>1 DEF MaxLinks
<1> QED BY <1>3 DEF S

\* So what a path leads to can be resolved before what is below it.
LEMMA FollowedParts ==
    ASSUME NEW p \in Path, NEW s \in Path, LinksOn(Followed(p)) = {}
    PROVE  /\ Followed(p) \in Path
           /\ LinksOn(Followed(p) \o s) = {} => Followed(p \o s) = Followed(p) \o s
           /\ LinksOn(Followed(p \o s)) = {} => Followed(Followed(p) \o s) = Followed(p \o s)
<1>1. PICK f : Follows(f, p) /\ Followed(p) = f[MaxLinks] BY FollowsExists
<1>2. PICK g : Follows(g, p \o s) /\ Followed(p \o s) = g[MaxLinks] BY FollowsExists
<1>3. p \o s \in Path BY ConcatProperties DEF Path
<1> DEFINE K == {j \in 0..MaxLinks : LinksOn(f[j]) = {}}
<1>4. K \subseteq Nat /\ MaxLinks \in K BY <1>1 DEF MaxLinks
<1>5. PICK k \in K : \A j \in K : k <= j BY <1>4, LeastOf
<1>6. k \in 0..MaxLinks /\ LinksOn(f[k]) = {} BY <1>5
<1>7. LinksBefore(f, k) BY <1>5, <1>6 DEF MaxLinks, LinksBefore
<1> HIDE DEF K
<1>8. MaxLinks - k \in 0..(MaxLinks - k) /\ k + (MaxLinks - k) = MaxLinks BY <1>6 DEF MaxLinks
<1>9. f[k] = Followed(p) BY <1>1, <1>6, <1>8, FollowsEnds
<1>10. g[k] = Followed(p) \o s
  <2>1. Follows(f, p) /\ Follows(g, p \o s) BY <1>1, <1>2
  <2>2. g[k] = f[k] \o s BY <2>1, <1>6, <1>7, FollowsBefore
  <2> QED BY <2>2, <1>9
<1>11. Followed(p) \in Path BY <1>1, <1>6, <1>9, FollowsPaths
<1>12. ASSUME LinksOn(Followed(p) \o s) = {} PROVE Followed(p \o s) = Followed(p) \o s
  <2>1. Follows(g, p \o s) /\ LinksOn(g[k]) = {} BY <1>2, <1>10, <1>12
  <2>2. g[k + (MaxLinks - k)] = g[k] BY <1>3, <1>6, <1>8, <2>1, FollowsEnds
  <2> QED BY <1>2, <1>8, <1>10, <2>2
<1>13. ASSUME LinksOn(Followed(p \o s)) = {}
       PROVE  Followed(Followed(p) \o s) = Followed(p \o s)
  <2>1. PICK h : Follows(h, g[k]) /\ Followed(g[k]) = h[MaxLinks] BY FollowsExists
  <2>2. h[MaxLinks - k] = g[MaxLinks] BY <1>2, <1>6, <1>8, <2>1, FollowsSame
  <2>3. MaxLinks - k \in 0..MaxLinks /\ k \in 0..(MaxLinks - (MaxLinks - k))
        /\ (MaxLinks - k) + k = MaxLinks
    BY <1>6 DEF MaxLinks
  <2>4. LinksOn(h[MaxLinks - k]) = {} BY <1>2, <1>13, <2>2
  <2>5. g[k] \in Path BY <1>2, <1>3, <1>6, FollowsPaths
  <2>6. h[MaxLinks] = h[MaxLinks - k] BY <2>1, <2>3, <2>4, <2>5, FollowsEnds
  <2> QED BY <1>2, <1>10, <2>1, <2>2, <2>6
<1> QED BY <1>11, <1>12, <1>13

-----------------------------------------------------------------------------
(* The directories of the guest.                                           *)

\* A path without links leads to itself.
LEMMA FollowedWithout ==
    ASSUME NEW p \in Path, LinksOn(p) = {}
    PROVE  Followed(p) = p
<1>1. PICK f : Follows(f, p) /\ Followed(p) = f[MaxLinks] BY FollowsExists
<1>2. f[0] = p /\ 0 \in 0..MaxLinks /\ MaxLinks \in 0..(MaxLinks - 0) /\ 0 + MaxLinks = MaxLinks
  BY <1>1 DEF Follows, MaxLinks
<1>3. LinksOn(f[0]) = {} BY <1>2
<1>4. \A j \in 0..(MaxLinks - 0) : f[0 + j] = f[0] BY <1>1, <1>2, <1>3, FollowsEnds
<1> QED BY <1>1, <1>2, <1>4

\* The directories of a guest.
Tree(within) ==
    /\ within \subseteq Path /\ << >> \in within /\ GuestDirs \subseteq within
    /\ \A dir \in within : Prefixes(dir) \subseteq within /\ LinksOn(dir) = {}

\* A sequence with one element more.
LEMMA AppendParts ==
    ASSUME NEW S, NEW c \in Seq(S), NEW x \in S
    PROVE  /\ Append(c, x) \in Seq(S) /\ Len(Append(c, x)) = Len(c) + 1
           /\ Append(c, x) = c \o <<x>> /\ <<x>> \in Seq(S)
           /\ Front(Append(c, x)) = c /\ Last(Append(c, x)) = x
           /\ \A n \in 0..Len(c) : SubSeq(Append(c, x), 1, n) = SubSeq(c, 1, n)
           /\ SubSeq(Append(c, x), 1, Len(c) + 1) = Append(c, x)
<1>1. Append(c, x) \in Seq(S) /\ Len(Append(c, x)) = Len(c) + 1
  BY AppendProperties
<1>2. <<x>> \in Seq(S)
  <2>1. << >> \in Seq(S) /\ Append(<< >>, x) = <<x>> OBVIOUS
  <2> QED BY <2>1, AppendProperties
<1>3. Append(c, x) = c \o <<x>> BY AppendIsConcat
<1>4. Len(c) \in Nat /\ Len(c) \in 0..Len(c) OBVIOUS
<1>5. \A n \in 0..Len(c) : SubSeq(Append(c, x), 1, n) = SubSeq(c, 1, n)
  BY <1>2, <1>3, PartsOfConcat
<1>6. SubSeq(c, 1, Len(c)) = c BY SubSeqFull
<1>7. SubSeq(Append(c, x), 1, Len(Append(c, x))) = Append(c, x) BY <1>1, SubSeqFull
<1>8. Len(c) + 1 - 1 = Len(c) BY <1>4
<1>9. Front(Append(c, x)) = c BY <1>1, <1>4, <1>5, <1>6, <1>8 DEF Front
<1>10. Append(c, x)[Len(c) + 1] = x BY AppendProperties
<1> QED BY <1>1, <1>2, <1>3, <1>5, <1>7, <1>9, <1>10 DEF Last

\* And a path with one name more.
LEMMA OneMore ==
    ASSUME NEW c \in Path, NEW x \in STRING
    PROVE  /\ Append(c, x) \in Path /\ Len(Append(c, x)) = Len(c) + 1
           /\ Append(c, x) = c \o <<x>> /\ <<x>> \in Path
           /\ Front(Append(c, x)) = c /\ Last(Append(c, x)) = x
           /\ \A n \in 0..Len(c) : SubSeq(Append(c, x), 1, n) = SubSeq(c, 1, n)
           /\ SubSeq(Append(c, x), 1, Len(c) + 1) = Append(c, x)
BY AppendParts DEF Path

\* Below a name that is not there no links are.
LEMMA NoLinksBelow ==
    ASSUME NEW within, Tree(within), NEW c \in within, NEW x \in STRING, NEW r \in Path,
           Append(c, x) \notin within, Append(c, x) \notin DOMAIN GuestLinks
    PROVE  LinksOn(Append(c, x) \o r) = {}
<1> DEFINE a == Append(c, x)
           q == a \o r
<1>1. c \in Path /\ LinksOn(c) = {} BY DEF Tree
<1>2. /\ a \in Path /\ Len(a) = Len(c) + 1 /\ SubSeq(a, 1, Len(c) + 1) = a
      /\ \A n \in 0..Len(c) : SubSeq(a, 1, n) = SubSeq(c, 1, n)
  BY <1>1, OneMore
<1>3. Len(c) \in Nat /\ Len(r) \in Nat BY <1>1 DEF Path
<1>4. a \notin within /\ a \notin DOMAIN GuestLinks OBVIOUS
<1> HIDE DEF a
<1>5. /\ q \in Path /\ Len(q) = Len(a) + Len(r)
      /\ \A n \in 0..Len(a) : SubSeq(q, 1, n) = SubSeq(a, 1, n)
  BY <1>2, ConcatParts
<1> HIDE DEF q
<1> SUFFICES ASSUME NEW n \in LinksOn(q) PROVE FALSE BY DEF a, q
<1>6. n \in 1..Len(q) /\ SubSeq(q, 1, n) \in DOMAIN GuestLinks BY DEF LinksOn
<1>7. CASE n \in 1..Len(c)
  <2>1. SubSeq(q, 1, n) = SubSeq(a, 1, n) BY <1>2, <1>3, <1>5, <1>7
  <2>2. SubSeq(a, 1, n) = SubSeq(c, 1, n) BY <1>2, <1>3, <1>7
  <2>3. n \in LinksOn(c) BY <1>6, <1>7, <2>1, <2>2 DEF LinksOn
  <2> QED BY <1>1, <2>3
<1>8. CASE n = Len(a)
  <2>1. n \in 0..Len(a) /\ n = Len(c) + 1 BY <1>2, <1>3, <1>8
  <2>2. SubSeq(q, 1, n) = a BY <1>2, <1>5, <2>1
  <2> QED BY <1>4, <1>6, <2>2
<1>9. CASE n > Len(a)
  <2>1. Len(q) \in Nat /\ n \in 0..Len(q) BY <1>2, <1>3, <1>5, <1>6
  <2> DEFINE l == SubSeq(q, 1, n)
  <2>2. /\ l \in Path /\ Len(l) = n /\ \A m \in 0..n : SubSeq(l, 1, m) = SubSeq(q, 1, m)
    BY <1>5, <2>1, PartsArePaths
  <2>3. Front(l) \in GuestDirs BY <1>6, GuestTree DEF GuestAssumption
  <2> HIDE DEF l
  <2>4. n - 1 \in 0..n /\ n - 1 \in Nat /\ Len(a) \in 0..(n - 1) /\ Len(a) \in 0..Len(a)
        /\ n - 1 \in 0..Len(q)
    BY <1>2, <1>3, <1>9, <2>1
  <2>5. Front(l) = SubSeq(q, 1, n - 1) BY <2>2, <2>4 DEF Front
  <2>6. /\ Len(Front(l)) = n - 1
        /\ SubSeq(Front(l), 1, Len(a)) = SubSeq(q, 1, Len(a))
    BY <1>5, <2>4, <2>5, PartsArePaths
  <2>7. SubSeq(q, 1, Len(a)) = a
    <3>1. SubSeq(q, 1, Len(a)) = SubSeq(a, 1, Len(a)) BY <1>5, <2>4
    <3> QED BY <1>2, <3>1
  <2>8. a \in Prefixes(Front(l)) BY <2>4, <2>6, <2>7 DEF Prefixes
  <2>9. a \in within BY <2>3, <2>8 DEF Tree
  <2> QED BY <1>4, <2>9
<1>10. n \in Nat /\ n >= 1 BY <1>6, <1>5, <1>2, <1>3
<1> QED BY <1>2, <1>3, <1>7, <1>8, <1>9, <1>10

\* What EvalAnySymlinks finds after n names.
FindsTo(f, within, path, k) ==
    f = [n \in 0..k |-> IF n = 0 THEN [path |-> << >>, res |-> "ok"]
                        ELSE EvalName(within, f[n - 1], SubSeq(path, n, Len(path)))]

\* Links can be found name by name, any number of names.
LEMMA FindsExists ==
    ASSUME NEW within, NEW path
    PROVE  \A k \in Nat : \E f : FindsTo(f, within, path, k)
<1> DEFINE S == {k \in Nat : \E f : FindsTo(f, within, path, k)}
<1>1. 0 \in S
  <2> DEFINE f == [n \in 0..0 |-> [path |-> << >>, res |-> "ok"]]
  <2>1. FindsTo(f, within, path, 0) BY DEF FindsTo
  <2> QED BY <2>1
<1>2. ASSUME NEW k \in Nat, k \in S PROVE k + 1 \in S
  <2>1. PICK g : FindsTo(g, within, path, k) BY <1>2
  <2> DEFINE Found(n, before) == IF n = 0 THEN [path |-> << >>, res |-> "ok"]
                                 ELSE EvalName(within, before, SubSeq(path, n, Len(path)))
             h == [n \in 0..(k + 1) |-> IF n = k + 1 THEN Found(n, g[k]) ELSE g[n]]
  <2>2. ASSUME NEW n \in 0..(k + 1) PROVE h[n] = Found(n, h[n - 1])
    <3>1. CASE n = k + 1
      <4>1. h[n] = Found(n, g[k]) /\ h[n - 1] = g[k] BY <3>1
      <4> QED BY <4>1
    <3>2. CASE n \in 0..k
      <4>1. h[n] = g[n] /\ (n # 0 => h[n - 1] = g[n - 1]) BY <3>2
      <4>2. g[n] = Found(n, g[n - 1]) BY <2>1, <3>2 DEF FindsTo
      <4> QED BY <4>1, <4>2
    <3> QED BY <3>1, <3>2
  <2>3. h = [n \in 0..(k + 1) |-> h[n]] OBVIOUS
  <2> HIDE DEF h
  <2>4. FindsTo(h, within, path, k + 1) BY <2>2, <2>3, Zenon DEF FindsTo
  <2> QED BY <2>4
<1> HIDE DEF S
<1>3. \A k \in Nat : k \in S BY <1>1, <1>2, Induction
<1> QED BY <1>3 DEF S

\* EvalAnySymlinks is what is found after the last name of a path.
LEMMA FoundIs ==
    ASSUME NEW within, NEW path \in Path
    PROVE  \E f : FindsTo(f, within, path, Len(path))
                  /\ EvalAnySymlinks(within, path) = f[Len(path)]
<1> DEFINE f == CHOOSE f : FindsTo(f, within, path, Len(path))
<1>1. Len(path) \in Nat BY DEF Path
<1>2. FindsTo(f, within, path, Len(path)) BY <1>1, FindsExists, Zenon
<1>3. EvalAnySymlinks(within, path) = f[Len(path)] BY Zenon DEF EvalAnySymlinks, FindsTo
<1> QED BY <1>2, <1>3

\* The first n names of a path lead to a directory, or the whole path to what
\* is not there.
FoundAt(at, within, path, n) ==
    LET real == Followed(SubSeq(path, 1, n)) IN
    \/ at = [path |-> real, res |-> "ok"] /\ real \in within
    \/ at = [path |-> Followed(path), res |-> "missing"] /\ LinksOn(Followed(path)) = {}

\* The first n names and the others.
LEMMA Names ==
    ASSUME NEW path \in Path, NEW n \in Nat, n + 1 \in 1..Len(path)
    PROVE  LET q == SubSeq(path, 1, n)
               r == SubSeq(path, n + 1, Len(path))
           IN  /\ q \in Path /\ r \in Path /\ path[n + 1] \in STRING /\ path = q \o r
               /\ SubSeq(path, 1, n + 1) = Append(q, path[n + 1])
               /\ Head(r) = path[n + 1] /\ Tail(r) \in Path /\ r = <<Head(r)>> \o Tail(r)
<1> DEFINE q == SubSeq(path, 1, n)
           r == SubSeq(path, n + 1, Len(path))
           x == path[n + 1]
<1>1. Len(path) \in Nat /\ path \in Seq(STRING) BY DEF Path
<1>2. n \in 0..Len(path) /\ n + 1 \in 0..Len(path) /\ Len(path) \in (n + 1)..Len(path)
  BY <1>1
<1>3. q \in Path /\ r \in Path /\ Len(q) = n BY <1>2, PartsArePaths
<1>4. x \in STRING BY <1>1, ElementOfSeq
<1>5. path = q \o r
  <2>1. 1 \in 1..(Len(path) + 1) /\ n \in (1 - 1)..Len(path) /\ Len(path) \in n..Len(path)
    BY <1>1, <1>2
  <2>2. q \o r = SubSeq(path, 1, Len(path)) BY <1>1, <2>1, ConcatAdjacentSubSeq
  <2> QED BY <1>1, <2>2, SubSeqFull
<1>6. SubSeq(path, 1, n + 1) = Append(q, x)
  <2>1. 1 \in 1..Len(path) /\ n + 1 \in 1..Len(path) /\ (n + 1) - 1 = n BY <1>1, <1>2
  <2>2. SubSeq(path, 1, n + 1) = SubSeq(path, 1, n) \o <<x>>
    BY <1>1, <2>1, SubSeqRecursiveSecond
  <2>3. Append(q, x) = q \o <<x>> BY <1>3, <1>4, OneMore
  <2> QED BY <2>2, <2>3
<1>7. Head(r) = x /\ Tail(r) = SubSeq(path, (n + 1) + 1, Len(path))
  BY <1>1, <1>2, HeadTailOfSubSeq
<1>8. Tail(r) \in Path
  <2>1. SubSeq(path, (n + 1) + 1, Len(path)) \in Path BY <1>2, PartsArePaths
  <2> QED BY <1>7, <2>1
<1>9. r = <<x>> \o Tail(r)
  <2>1. SubSeq(path, n + 1, Len(path))
            = <<path[n + 1]>> \o SubSeq(path, (n + 1) + 1, Len(path))
    BY <1>1, <1>2, SubSeqRecursiveFirst
  <2> QED BY <1>7, <2>1
<1> HIDE DEF q, r, x
<1>10. r = <<Head(r)>> \o Tail(r) BY <1>7, <1>9
<1> QED BY <1>3, <1>4, <1>5, <1>6, <1>7, <1>8, <1>10 DEF q, r, x

\* A path without dots is taken name by name.
LEMMA TakesAll ==
    ASSUME NEW path \in Path, Plain(path), NEW f, f[0] = << >>,
           \A n \in 1..Len(path) : \E other : f[n] = Take(f[n - 1], path[n], other)
    PROVE  f[Len(path)] = path
<1> DEFINE S == {n \in Nat : n <= Len(path) => f[n] = SubSeq(path, 1, n)}
<1>1. Len(path) \in Nat /\ DOMAIN path = 1..Len(path) BY DEF Path
<1>2. 0 \in S
  <2>1. SubSeq(path, 1, 0) = << >> BY SubSeqEmpty
  <2> QED BY <2>1
<1>3. ASSUME NEW n \in Nat, n \in S PROVE n + 1 \in S
  <2> SUFFICES ASSUME n + 1 <= Len(path) PROVE f[n + 1] = SubSeq(path, 1, n + 1)
    OBVIOUS
  <2>1. n + 1 \in 1..Len(path) /\ (n + 1) - 1 = n /\ n <= Len(path) BY <1>1
  <2>2. f[n] = SubSeq(path, 1, n) BY <1>3, <2>1
  <2>3. SubSeq(path, 1, n + 1) = Append(SubSeq(path, 1, n), path[n + 1]) BY <2>1, Names
  <2>4. PICK other : f[n + 1] = Take(f[n], path[n + 1], other) BY <2>1
  <2>5. path[n + 1] # "." /\ path[n + 1] # ".." BY <1>1, <2>1 DEF Plain
  <2>6. f[n + 1] = Append(f[n], path[n + 1]) BY <2>4, <2>5, Zenon DEF Take
  <2> QED BY <2>2, <2>3, <2>6
<1> HIDE DEF S
<1>4. Len(path) \in S
  <2>1. \A n \in Nat : n \in S BY <1>2, <1>3, Induction
  <2> QED BY <1>1, <2>1
<1>5. f[Len(path)] = SubSeq(path, 1, Len(path)) BY <1>1, <1>4 DEF S
<1>6. SubSeq(path, 1, Len(path)) = path BY SubSeqFull DEF Path
<1> QED BY <1>5, <1>6

\* What Clean and Straight have of it after each name.
CleansTo(f, path) ==
    f = [n \in 0..Len(path) |->
            IF n = 0 THEN << >> ELSE Take(f[n - 1], path[n], f[n - 1])]

StraightTo(f, path) ==
    f = [n \in 0..Len(path) |->
            IF n = 0 THEN << >> ELSE Take(f[n - 1], path[n], Followed(f[n - 1]))]

\* A path without dots is clean, and leads where its links do.
LEMMA PlainIs ==
    ASSUME NEW path \in Path, Plain(path)
    PROVE  Clean(path) = path /\ Straight(path) = path /\ Lead(path) = Followed(path)
<1> DEFINE g == [n \in 0..Len(path) |-> SubSeq(path, 1, n)]
           c == CHOOSE f : CleansTo(f, path)
           s == CHOOSE f : StraightTo(f, path)
<1>1. Len(path) \in Nat /\ DOMAIN path = 1..Len(path) BY DEF Path
<1>2. g[0] = << >> BY <1>1, SubSeqEmpty
<1>3. ASSUME NEW n \in 1..Len(path), NEW other PROVE g[n] = Take(g[n - 1], path[n], other)
  <2>1. n - 1 \in Nat /\ (n - 1) + 1 = n /\ n \in 0..Len(path) /\ n - 1 \in 0..Len(path)
    BY <1>1
  <2>2. SubSeq(path, 1, n) = Append(SubSeq(path, 1, n - 1), path[n])
    <3> DEFINE m == n - 1
    <3>1. m \in Nat /\ m + 1 \in 1..Len(path) /\ m + 1 = n BY <2>1
    <3> HIDE DEF m
    <3>2. SubSeq(path, 1, m + 1) = Append(SubSeq(path, 1, m), path[m + 1]) BY <3>1, Names
    <3> QED BY <3>1, <3>2 DEF m
  <2>3. path[n] # "." /\ path[n] # ".." BY <1>1 DEF Plain
  <2>4. g[n] = SubSeq(path, 1, n) /\ g[n - 1] = SubSeq(path, 1, n - 1) BY <2>1
  <2> HIDE DEF g
  <2>5. g[n] = Append(g[n - 1], path[n]) BY <2>2, <2>4
  <2> QED BY <2>3, <2>5, Zenon DEF Take
<1>4. g = [n \in 0..Len(path) |-> g[n]] OBVIOUS
<1>5. 0 \in 0..Len(path) /\ \A n \in 0..Len(path) : n # 0 => n \in 1..Len(path) BY <1>1
<1> HIDE DEF g
<1>6. CleansTo(g, path)
  <2>1. ASSUME NEW n \in 0..Len(path)
        PROVE  g[n] = IF n = 0 THEN << >> ELSE Take(g[n - 1], path[n], g[n - 1])
    BY <1>2, <1>3, <1>5, Zenon
  <2> QED BY <1>4, <2>1, Zenon DEF CleansTo
<1>7. StraightTo(g, path)
  <2>1. ASSUME NEW n \in 0..Len(path)
        PROVE  g[n] = IF n = 0 THEN << >> ELSE Take(g[n - 1], path[n], Followed(g[n - 1]))
    BY <1>2, <1>3, <1>5, Zenon
  <2> QED BY <1>4, <2>1, Zenon DEF StraightTo
<1>8. CleansTo(c, path) /\ StraightTo(s, path) BY <1>6, <1>7, Zenon
<1>9. Clean(path) = c[Len(path)] /\ Straight(path) = s[Len(path)]
  BY Zenon DEF Clean, Straight, CleansTo, StraightTo
<1> HIDE DEF c, s
<1>10. c[0] = << >> /\ s[0] = << >> BY <1>5, <1>8, Zenon DEF CleansTo, StraightTo
<1>11. \A n \in 1..Len(path) : n \in 0..Len(path) /\ n # 0 BY <1>1
<1>12. \A n \in 1..Len(path) : \E other : c[n] = Take(c[n - 1], path[n], other)
  BY <1>8, <1>11, Zenon DEF CleansTo
<1>13. \A n \in 1..Len(path) : \E other : s[n] = Take(s[n - 1], path[n], other)
  BY <1>8, <1>11, Zenon DEF StraightTo
<1>14. c[Len(path)] = path BY <1>10, <1>12, TakesAll, Zenon
<1>15. s[Len(path)] = path BY <1>10, <1>13, TakesAll, Zenon
<1> QED BY <1>9, <1>14, <1>15 DEF Lead

\* What comes first of such a path has no dots either.
LEMMA PlainParts ==
    ASSUME NEW path \in Path, Plain(path), NEW n \in 0..Len(path)
    PROVE  /\ SubSeq(path, 1, n) \in Path /\ Len(SubSeq(path, 1, n)) = n
           /\ Plain(SubSeq(path, 1, n))
           /\ Lead(SubSeq(path, 1, n)) = Followed(SubSeq(path, 1, n))
<1> DEFINE q == SubSeq(path, 1, n)
<1>1. q \in Path /\ Len(q) = n BY PartsArePaths
<1>2. Len(path) \in Nat /\ DOMAIN path = 1..Len(path) /\ path \in Seq(STRING) BY DEF Path
<1>3. ASSUME NEW m \in DOMAIN q PROVE q[m] \notin {".", ".."}
  <2>1. m \in 1..n BY <1>1 DEF Path
  <2>2. 1 \in Nat \ {0} /\ n - 1 + 1 = n /\ 1 + m - 1 = m BY <1>2, <2>1
  <2>3. \A k \in 1..(n - 1 + 1) : q[k] = path[1 + k - 1] BY <1>2, <2>2, PartOfSeq
  <2>4. q[m] = path[m] BY <2>1, <2>2, <2>3
  <2>5. m \in DOMAIN path BY <1>2, <2>1
  <2> HIDE DEF q
  <2> QED BY <2>4, <2>5 DEF Plain
<1> HIDE DEF q
<1>4. Plain(q) BY <1>3 DEF Plain
<1> QED BY <1>1, <1>4, PlainIs DEF q

\* One name more, as far as no link on the way leads to nothing.
LEMMA EvalNameIs ==
    ASSUME NEW within, Tree(within), NEW path \in Path, Plain(path),
           CanMkdirAll(within, path),
           NEW n \in Nat, n + 1 \in 1..Len(path), NEW at, FoundAt(at, within, path, n)
    PROVE  FoundAt(EvalName(within, at, SubSeq(path, n + 1, Len(path))), within, path, n + 1)
<1> DEFINE q == SubSeq(path, 1, n)
           r == SubSeq(path, n + 1, Len(path))
           c == Followed(q)
           x == Head(r)
           next == Append(c, x)
           b == SubSeq(path, 1, n + 1)
           there == EvalSymlinks(within, next)
<1>1. /\ q \in Path /\ r \in Path /\ x \in STRING /\ path = q \o r
      /\ b = Append(q, x) /\ Tail(r) \in Path /\ r = <<x>> \o Tail(r)
  BY Names
<1> HIDE DEF q, r, x, b
<1>2. b = q \o <<x>> /\ <<x>> \in Path /\ Front(b) = q /\ Last(b) = x /\ b \in Path
  BY <1>1, OneMore
<1>3. CASE at.res # "ok"
  <2>1. EvalName(within, at, r) = at BY <1>3 DEF EvalName
  <2> QED BY <1>3, <2>1 DEF FoundAt, r
<1>4. CASE at.res = "ok"
  <2>1. at.path = c /\ c \in within BY <1>4 DEF FoundAt, q
  <2>2. c \in Path /\ LinksOn(c) = {} BY <2>1 DEF Tree
  <2>3. next \in Path /\ next = c \o <<x>> BY <1>1, <2>2, OneMore
  <2>4. /\ LinksOn(next) = {} => Followed(b) = next
        /\ LinksOn(Followed(b)) = {} => Followed(next) = Followed(b)
    <3>1. q \in Path /\ <<x>> \in Path /\ LinksOn(Followed(q)) = {}
          /\ b = q \o <<x>> /\ next = Followed(q) \o <<x>>
      BY <1>1, <1>2, <2>2, <2>3
    <3> HIDE DEF next
    <3> QED BY <3>1, FollowedParts
  <2>5. there.path = Followed(next)
        /\ there.res = CASE LinksOn(Followed(next)) # {} -> "loop"
                         [] LinksOn(Followed(next)) = {} /\ Followed(next) \in within -> "ok"
                         [] OTHER -> "missing"
    BY DEF EvalSymlinks
  <2>6. EvalName(within, at, r) =
            CASE there.res = "missing" -> [there EXCEPT !.path = next \o Tail(r)]
              [] OTHER -> there
    BY <1>4, <2>1 DEF EvalName, x
  <2>7. there = [path |-> there.path, res |-> there.res] BY DEF EvalSymlinks
  <2>8. CASE next \in DOMAIN GuestLinks
    <3>1. ~Dangles(within, b) BY DEF CanMkdirAll, b
    <3>2. /\ Lead(q) = c /\ Lead(b) = Followed(b) /\ Len(b) \in Nat
          /\ SubSeq(b, 1, Len(b)) = b
      <4>1. Len(path) \in Nat BY DEF Path
      <4>2. n \in 0..Len(path) /\ n + 1 \in 0..Len(path) BY <4>1
      <4>3. Lead(q) = c BY <4>2, PlainParts DEF q
      <4>4. Lead(b) = Followed(b) BY <4>2, PlainParts DEF b
      <4> QED BY <1>2, <4>3, <4>4, SubSeqFull DEF Path
    <3>3. LeadsToDir(within, b) BY <1>2, <2>8, <3>1, <3>2 DEF Dangles
    <3>4. LinksOn(Followed(b)) = {} /\ Followed(b) \in within
      <4>1. Len(b) \in 0..Len(b) BY <3>2
      <4>2. Lead(SubSeq(b, 1, Len(b))) \in within BY <3>3, <4>1 DEF LeadsToDir
      <4> QED BY <3>2, <4>2 DEF Tree
    <3>5. there.path = Followed(b) /\ there.res = "ok" BY <2>4, <2>5, <3>4
    <3> QED BY <2>6, <2>7, <3>4, <3>5 DEF FoundAt, b, r
  <2>9. CASE next \in within
    <3>1. LinksOn(next) = {} BY <2>9 DEF Tree
    <3>2. Followed(next) = next /\ Followed(b) = next
      BY <2>3, <2>4, <3>1, FollowedWithout
    <3>3. there.path = Followed(b) /\ there.res = "ok" BY <2>5, <2>9, <3>1, <3>2
    <3> QED BY <2>6, <2>7, <2>9, <3>2, <3>3 DEF FoundAt, b, r
  <2>10. CASE next \notin within /\ next \notin DOMAIN GuestLinks
    <3>1. \A s \in Path : LinksOn(next \o s) = {} BY <1>1, <2>1, <2>10, NoLinksBelow
    <3>2. LinksOn(next) = {}
      <4>1. << >> \in Path BY EmptySeq DEF Path
      <4>2. next \o << >> = next BY <2>3, ConcatEmptySeq DEF Path
      <4> QED BY <3>1, <4>1, <4>2
    <3>3. Followed(next) = next BY <2>3, <3>2, FollowedWithout
    <3>4. there.res = "missing" BY <2>5, <2>10, <3>2, <3>3
    <3>5. c \o r = next \o Tail(r)
      <4>1. c \in Seq(STRING) /\ <<x>> \in Seq(STRING) /\ Tail(r) \in Seq(STRING)
        BY <1>1, <1>2, <2>2 DEF Path
      <4>2. (c \o <<x>>) \o Tail(r) = c \o (<<x>> \o Tail(r)) BY <4>1, ConcatAssociative
      <4> QED BY <1>1, <2>3, <4>2
    <3>6. LinksOn(c \o r) = {} BY <1>1, <3>1, <3>5
    <3>7. Followed(path) = c \o r
      <4>1. Followed(q \o r) = Followed(q) \o r BY <1>1, <2>2, <3>6, FollowedParts
      <4> QED BY <1>1, <4>1
    <3>8. EvalName(within, at, r) = [path |-> Followed(path), res |-> "missing"]
      BY <2>6, <2>7, <3>4, <3>5, <3>7
    <3> QED BY <3>6, <3>7, <3>8 DEF FoundAt, r
  <2> QED BY <2>8, <2>9, <2>10
<1> QED BY <1>3, <1>4

\* So EvalAnySymlinks finds where a path leads to, once its directories can be
\* made.
LEMMA EvalAnyIs ==
    ASSUME NEW within, Tree(within), NEW path \in Path, Plain(path),
           CanMkdirAll(within, path)
    PROVE  /\ EvalAnySymlinks(within, path).res # "loop"
           /\ EvalAnySymlinks(within, path).path = Followed(path)
           /\ LinksOn(Followed(path)) = {} /\ Followed(path) \in Path
<1>1. PICK f : FindsTo(f, within, path, Len(path))
               /\ EvalAnySymlinks(within, path) = f[Len(path)]
  BY FoundIs
<1> DEFINE S == {n \in Nat : n <= Len(path) => FoundAt(f[n], within, path, n)}
<1>2. Len(path) \in Nat BY DEF Path
<1>3. 0 \in S
  <2>1. f[0] = [path |-> << >>, res |-> "ok"] BY <1>1, <1>2 DEF FindsTo
  <2>2. << >> \in within /\ << >> \in Path /\ LinksOn(<< >>) = {} BY DEF Tree
  <2>3. Followed(<< >>) = << >> BY <2>2, FollowedWithout
  <2>4. SubSeq(path, 1, 0) = << >> BY SubSeqEmpty
  <2>5. FoundAt(f[0], within, path, 0) BY <2>1, <2>2, <2>3, <2>4 DEF FoundAt
  <2> QED BY <2>5
<1>4. ASSUME NEW n \in Nat, n \in S PROVE n + 1 \in S
  <2> SUFFICES ASSUME n + 1 <= Len(path) PROVE FoundAt(f[n + 1], within, path, n + 1)
    OBVIOUS
  <2>1. n + 1 \in 1..Len(path) /\ n + 1 \in 0..Len(path) /\ (n + 1) - 1 = n /\ n + 1 # 0
        /\ n <= Len(path)
    BY <1>2
  <2>2. f[n + 1] = EvalName(within, f[n], SubSeq(path, n + 1, Len(path)))
    BY <1>1, <2>1 DEF FindsTo
  <2>3. FoundAt(f[n], within, path, n) BY <1>4, <2>1
  <2> QED BY <2>1, <2>2, <2>3, EvalNameIs
<1> HIDE DEF S
<1>5. Len(path) \in S
  <2>1. \A n \in Nat : n \in S BY <1>3, <1>4, Induction
  <2> QED BY <1>2, <2>1
<1>6. FoundAt(f[Len(path)], within, path, Len(path)) BY <1>2, <1>5 DEF S
<1>7. SubSeq(path, 1, Len(path)) = path BY SubSeqFull DEF Path
<1>8. \/ f[Len(path)] = [path |-> Followed(path), res |-> "ok"] /\ Followed(path) \in within
      \/ f[Len(path)] = [path |-> Followed(path), res |-> "missing"]
         /\ LinksOn(Followed(path)) = {}
  BY <1>6, <1>7 DEF FoundAt
<1>9. LinksOn(Followed(path)) = {} BY <1>8 DEF Tree
<1>10. Followed(path) \in Path
  <2>1. << >> \in Path /\ Len(path) \in Nat BY <1>2, EmptySeq DEF Path
  <2> QED BY <1>9, FollowedParts, <2>1
<1> QED BY <1>1, <1>8, <1>9, <1>10

\* The test against the system directories (isSystemDir, evalAnySymlinks) is made
\* before the directories of a mount are, and of the clean form of its path.  Of a
\* path without "." and ".." it is still about the place where the mount ends up:
\* whatever links the image has, such a path whose directories can be made is
\* refused if and only if it leads under one of them.  With ".." it need not be.
THEOREM RefusedWhereItLeads ==
    ASSUME NEW within, Tree(within), NEW path \in Path, Plain(path),
           CanMkdirAll(within, path)
    PROVE  /\ IsSystemDir(within, path) <=> UnderBanned(Lead(path))
           /\ Lead(path) \in Path
           /\ Tree(MkdirAll(within, path))
<1>1. /\ EvalAnySymlinks(within, path).res # "loop"
      /\ EvalAnySymlinks(within, path).path = Followed(path)
      /\ LinksOn(Followed(path)) = {} /\ Followed(path) \in Path
  BY EvalAnyIs
<1>2. Clean(path) = path /\ Lead(path) = Followed(path) BY PlainIs
<1>3. IsSystemDir(within, path) <=> UnderBanned(Lead(path)) BY <1>1, <1>2 DEF IsSystemDir
<1>4. ASSUME NEW n \in 1..Len(path)
      PROVE  LET p == Lead(SubSeq(path, 1, n)) IN p \in Path /\ LinksOn(p) = {}
  <2> DEFINE q == SubSeq(path, 1, n)
  <2>1. Len(path) \in Nat BY DEF Path
  <2>2. n \in 0..Len(path) BY <2>1
  <2>3. q \in Path /\ Len(q) = n /\ Plain(q) /\ Lead(q) = Followed(q) BY <2>2, PlainParts
  <2>4. \A m \in 0..n : SubSeq(q, 1, m) = SubSeq(path, 1, m) BY <2>2, PartsArePaths
  <2> HIDE DEF q
  <2>5. CanMkdirAll(within, q)
    <3>1. \A m \in 1..Len(q) : m \in 0..n /\ m \in 1..Len(path) BY <2>1, <2>3
    <3> QED BY <2>4, <3>1 DEF CanMkdirAll
  <2>6. LinksOn(Followed(q)) = {} /\ Followed(q) \in Path BY <2>3, <2>5, EvalAnyIs
  <2> QED BY <2>3, <2>6 DEF q
<1> DEFINE made == within \cup UNION {Prefixes(Lead(SubSeq(path, 1, n))) : n \in 1..Len(path)}
<1>5. MkdirAll(within, path) = made BY DEF MkdirAll
<1>6. ASSUME NEW k \in 1..Len(path), NEW dir \in Prefixes(Lead(SubSeq(path, 1, k)))
      PROVE  /\ dir \in Path /\ LinksOn(dir) = {}
             /\ Prefixes(dir) \subseteq Prefixes(Lead(SubSeq(path, 1, k)))
  <2> DEFINE p == Lead(SubSeq(path, 1, k))
  <2>1. p \in Path /\ LinksOn(p) = {} BY <1>4
  <2> HIDE DEF p
  <2>2. Len(p) \in Nat BY <2>1 DEF Path
  <2>3. PICK n \in 0..Len(p) : dir = SubSeq(p, 1, n) BY DEF Prefixes, p
  <2>4. dir \in Path /\ Len(dir) = n /\ \A m \in 0..n : SubSeq(dir, 1, m) = SubSeq(p, 1, m)
    BY <2>1, <2>3, PartsArePaths
  <2>5. Prefixes(dir) \subseteq Prefixes(p) BY <2>2, <2>4 DEF Prefixes
  <2>6. LinksOn(dir) = {}
    <3> SUFFICES ASSUME NEW m \in LinksOn(dir) PROVE FALSE OBVIOUS
    <3>1. m \in 1..n /\ SubSeq(dir, 1, m) \in DOMAIN GuestLinks BY <2>4 DEF LinksOn
    <3>2. m \in 0..n /\ m \in 1..Len(p) BY <2>2, <3>1
    <3>3. m \in LinksOn(p) BY <2>4, <3>1, <3>2 DEF LinksOn
    <3> QED BY <2>1, <3>3
  <2> QED BY <2>4, <2>5, <2>6 DEF p
<1>7. Tree(made)
  <2>1. made \subseteq Path
    <3> SUFFICES ASSUME NEW dir \in made PROVE dir \in Path OBVIOUS
    <3>1. CASE dir \in within BY <3>1 DEF Tree
    <3>2. CASE dir \notin within
      <4>1. PICK k \in 1..Len(path) : dir \in Prefixes(Lead(SubSeq(path, 1, k))) BY <3>2
      <4> QED BY <4>1, <1>6
    <3> QED BY <3>1, <3>2
  <2>2. ASSUME NEW dir \in made PROVE Prefixes(dir) \subseteq made /\ LinksOn(dir) = {}
    <3>1. CASE dir \in within BY <3>1 DEF Tree
    <3>2. CASE dir \notin within
      <4>1. PICK k \in 1..Len(path) : dir \in Prefixes(Lead(SubSeq(path, 1, k))) BY <3>2
      <4>2. Prefixes(Lead(SubSeq(path, 1, k))) \subseteq made OBVIOUS
      <4>3. LinksOn(dir) = {} /\ Prefixes(dir) \subseteq Prefixes(Lead(SubSeq(path, 1, k)))
        BY <4>1, <1>6
      <4> QED BY <4>2, <4>3
    <3> QED BY <3>1, <3>2
  <2>3. << >> \in made /\ GuestDirs \subseteq made BY DEF Tree
  <2> HIDE DEF made
  <2> QED BY <2>1, <2>2, <2>3 DEF Tree
<1> QED BY <1>1, <1>2, <1>3, <1>5, <1>7

\* What can be made can still be made after others were.
LEMMA CanStill ==
    ASSUME NEW within, NEW more, within \subseteq more, NEW path, CanMkdirAll(within, path)
    PROVE  CanMkdirAll(more, path)
BY DEF CanMkdirAll, Dangles, LeadsToDir

-----------------------------------------------------------------------------
(* The inductive invariant.                                                *)

\* What the input says.
JailedBy(in) == in.request.jailer # None
User(in) == IF JailedBy(in) THEN in.request.jailer.uid ELSE 0
Place(in) == IF JailedBy(in) THEN JailRoot ELSE VmDir
Levels(in) == LoadConfig(in.file).levels
Runc(in) == LoadConfig(in.file).runc
Kernel(in) == OrDefault(in.request.kernel, LoadConfig(in.file).kernel)
Root(in) == RootDrive(LoadConfig(in.file), in.request)
NetsOf(in) == Networks(LoadConfig(in.file), in.request)
Count(in) == ContainerCount(in.request)
MountOf(in, n) == in.request.mounts[n]
MountCount(in) == Len(in.request.mounts)
Total(in) == 1 + Count(in) + MountCount(in)
NoDotsIn(in) == \A n \in DOMAIN in.request.mounts : Plain(MountOf(in, n).vm)

\* The drives, by number: the root drive, the stubs of containers, those of
\* mounts.
Name(in, n) ==
    CASE n = 1 -> Last(Root(in).path)
      [] n # 1 /\ n <= 1 + Count(in) -> StubName("ctrstub", n - 1)
      [] OTHER -> StubName("drivemntstub", n - 1 - Count(in))

Source(in, n) == IF n = 1 THEN Root(in).path ELSE Append(Place(in), Name(in, n))

DriveOf(in, n) ==
    CASE n = 1 -> Root(in)
      [] n # 1 /\ n <= 1 + Count(in) -> Drive(Name(in, n), Source(in, n), TRUE, None)
      [] OTHER -> Drive(Name(in, n), Source(in, n), MountOf(in, n - 1 - Count(in)).writable,
                        MountOf(in, n - 1 - Count(in)).limiter)

DriveInJail(in, n) == [DriveOf(in, n) EXCEPT !.path = <<Name(in, n)>>]

MountStubOf(in, n) ==
    [id |-> StubName("drivemntstub", n), host |-> MountOf(in, n).host, vm |-> MountOf(in, n).vm,
     options |-> SetReadWriteOptions(MountOf(in, n).options, MountOf(in, n).writable)]

\* The first of a sequence.
Firsts(s, n) == [m \in 1..n |-> s[m]]

AllDrives(in) == [n \in 1..Total(in) |-> DriveOf(in, n)]
AllStubs(in) == [n \in 1..Count(in) |-> StubName("ctrstub", n)]
AllMountStubs(in) == [n \in 1..MountCount(in) |-> MountStubOf(in, n)]

\* How far a CreateVM is; nothing is kept of one that is over.
Rank == [start |-> 0, failed |-> 0, over |-> 0, jailer |-> 1, config |-> 2, stubs |-> 3,
         mountStubs |-> 4, nets |-> 5, machine |-> 6, jailConfig |-> 7, jailFiles |-> 8,
         jailDrives |-> 9, vmm |-> 10, logs |-> 11, link |-> 12, attach |-> 13, dial |-> 14,
         expose |-> 15, patch |-> 16, mount |-> 17, ready |-> 18]

StubsMade(in, ph, k) ==
    CASE Rank[ph] < 3 -> 0 [] ph = "stubs" -> k - 1 [] OTHER -> Count(in)
MountStubsMade(in, ph, k) ==
    CASE Rank[ph] < 4 -> 0 [] ph = "mountStubs" -> k - 1 [] OTHER -> MountCount(in)
DrivesMade(in, ph, k) == 1 + StubsMade(in, ph, k) + MountStubsMade(in, ph, k)
JailedTo(in, ph, k) ==
    CASE ~JailedBy(in) \/ Rank[ph] < 9 -> 1 [] ph = "jailDrives" -> k [] OTHER -> Total(in) + 1
ExposedTo(in, ph, k) ==
    CASE Rank[ph] < 15 -> 0 [] ph = "expose" -> k - 1 [] ph = "ready" -> MountCount(in)
      [] OTHER -> k
PatchedTo(in, ph, k) ==
    CASE Rank[ph] < 15 -> 0 [] ph = "mount" -> k [] ph = "ready" -> MountCount(in)
      [] OTHER -> k - 1
MountedTo(in, ph, k) ==
    CASE Rank[ph] < 15 -> 0 [] ph = "ready" -> MountCount(in) [] OTHER -> k - 1

-----------------------------------------------------------------------------
\* The parts of the invariant.
IndexInv(in, ph, k) ==
    /\ in \in Inputs /\ ph \in DOMAIN Rank /\ k \in Nat \ {0}
    /\ ph \in {"jailConfig", "jailFiles", "jailDrives", "link"} => JailedBy(in)
    /\ ph = "stubs" => k <= Count(in) + 1
    /\ ph \in {"mountStubs", "expose"} => k <= MountCount(in) + 1
    /\ ph \in {"patch", "mount"} => k <= MountCount(in)
    /\ ph = "jailDrives" => k <= Total(in) + 1

HelperInv(in, ph, h) == Rank[ph] >= 1 => h = New(Levels(in)) /\ h # None

IsConfig(c) ==
    c = [kernel |-> c.kernel, drives |-> c.drives, machine |-> c.machine, netns |-> c.netns,
         nets |-> c.nets, logLevel |-> c.logLevel]

StubsInv(in, ph, k, ss, ms) ==
    ph \notin {"failed", "over"} =>
        /\ ss = Firsts(AllStubs(in), StubsMade(in, ph, k))
        /\ ms = Firsts(AllMountStubs(in), MountStubsMade(in, ph, k))

ConfigInv(in, ph, k, c) ==
    Rank[ph] >= 3 =>
        /\ IsConfig(c) /\ c.kernel = Kernel(in)
        /\ c.drives = Firsts(AllDrives(in), DrivesMade(in, ph, k))

\* The drives when those before one are in the jail.
DrivesAt(in, k) ==
    [n \in 1..Total(in) |-> IF n < k THEN DriveInJail(in, n) ELSE DriveOf(in, n)]

VmmConfigInv(in, ph, k, c) ==
    Rank[ph] >= 7 =>
        /\ IsConfig(c)
        /\ c.kernel = IF JailedBy(in) /\ Rank[ph] >= 9 THEN <<"kernel-image">> ELSE Kernel(in)
        /\ c.drives = DrivesAt(in, JailedTo(in, ph, k))

OciInv(in, ph, c, o) ==
    Rank[ph] >= 8 /\ JailedBy(in) =>
        /\ o.uid = User(in)
        /\ c.netns # "" /\ Runc(in).netns # None => o.netns = c.netns

\* The paths of files.  That literals are strings the provers cannot tell.
Texts == STRING \cup {"run", "vm", "rootfs", "firecracker", "kernel-image"} \cup Fifos
HostPath == Seq(Texts)

IsFile(file) ==
    file = [kind |-> file.kind, content |-> file.content, owner |-> file.owner,
            modes |-> file.modes, sectors |-> file.sectors]

FilesInv(fs) ==
    /\ DOMAIN fs \subseteq HostPath
    /\ \A p \in DOMAIN fs : IsFile(fs[p])
    /\ \A p \in DOMAIN fs :
           ~Below(VmDir, p) => p \in DOMAIN HostFiles /\ fs[p] = HostFiles[p]
    /\ \A p \in DOMAIN HostFiles : p \in DOMAIN fs

\* What an attempt leaves is the fault of the next one.
LeftoverInv(ph, fs, ft) ==
    Rank[ph] < 2 => ph = "failed" \/ ft \/ \A p \in DOMAIN fs : ~Below(VmDir, p)

ContainerInv(ph, c, ft) ==
    Rank[ph] \in 0..10 /\ ph \notin {"failed", "over"} /\ ~ft => ~c

RootInv(fs) == \A p \in DOMAIN fs : Below(JailRoot, p) => JailRoot \in DOMAIN fs

JailInv(in, ph, fs) ==
    Rank[ph] >= 2 /\ JailedBy(in) =>
        /\ JailRoot \in DOMAIN fs
        /\ \A p \in DOMAIN fs : Below(JailRoot, p) => fs[p].owner = User(in)

\* What is made by the step of a rank, with so many mounts exposed.
Makes(in, r, e, p) ==
    \/ JailedBy(in) /\ p = JailRoot
    \/ \E n \in 2..Total(in) : p = Source(in, n)
    \/ r >= 12 /\ \E f \in Fifos : p = Append(VmDir, f)
    \/ JailedBy(in) /\ \E x \in {"firecracker", "kernel-image", Name(in, 1)} : p = InJail(x)
    \/ JailedBy(in) /\ r >= 13 /\ \E f \in Fifos : p = InJail(f)
    \/ JailedBy(in) /\ \E n \in 1..e : \E l \in 0..Len(MountOf(in, n).host) :
           p = JailRoot \o SubSeq(MountOf(in, n).host, 1, l)

MadeAt(in, ph, k, p) ==
    IF Rank[ph] >= 8 THEN Makes(in, Rank[ph], ExposedTo(in, ph, k), p)
    ELSE \/ JailedBy(in) /\ p = JailRoot
         \/ \E n \in 2..DrivesMade(in, ph, k) : p = Source(in, n)

MadeInv(in, ph, k, fs, ft) ==
    Rank[ph] >= 2 /\ ~ft =>
        \A p \in DOMAIN fs : Below(VmDir, p) => MadeAt(in, ph, k, p)

\* Contents, apart.
StubFile(in, n) ==
    [File("reg", [stub |-> TRUE, of |-> Name(in, n)], User(in), {"r", "w"})
        EXCEPT !.sectors = Sectors(DriveSize(20))]

CopyOf(in, src, modes) ==
    [HostFiles[src] EXCEPT !.kind = "reg", !.owner = User(in), !.modes = modes]

RootModes(in) == {"r"} \cup (IF Root(in).writable THEN {"w"} ELSE {})

StubFilesInv(in, ph, k, fs) ==
    Rank[ph] \in 3..13 => \A n \in 2..DrivesMade(in, ph, k) :
        Source(in, n) \in DOMAIN fs /\ fs[Source(in, n)] = StubFile(in, n)

CopiesInv(in, ph, k, fs) ==
    JailedBy(in) /\ Rank[ph] \in 9..13 =>
        /\ InJail("kernel-image") \in DOMAIN fs
        /\ fs[InJail("kernel-image")] = CopyOf(in, Kernel(in), {"r"})
        /\ JailedTo(in, ph, k) > 1 =>
               /\ InJail(Name(in, 1)) \in DOMAIN fs
               /\ fs[InJail(Name(in, 1))] = CopyOf(in, Root(in).path, RootModes(in))

FifosInv(in, ph, fs) ==
    /\ Rank[ph] \in 12..13 => \A f \in Fifos :
           Append(VmDir, f) \in DOMAIN fs /\ fs[Append(VmDir, f)].kind = "fifo"
    /\ Rank[ph] = 13 /\ JailedBy(in) => \A f \in Fifos :
           /\ InJail(f) \in DOMAIN fs
           /\ fs[InJail(f)].kind = "fifo" /\ fs[InJail(f)].modes = {"r", "w"}

ExposedInv(in, ph, k, fs) ==
    JailedBy(in) =>
        /\ \A n \in 1..ExposedTo(in, ph, k) : JailRoot \o MountOf(in, n).host \in DOMAIN fs
        /\ ph = "patch" =>
               LET host == MountOf(in, k).host
                   file == HostFiles[host]
                   copy == fs[JailRoot \o host]
               IN  /\ host \in DOMAIN HostFiles
                   /\ copy.kind = file.kind /\ copy.content = file.content
                   /\ copy.modes = IF file.kind = "blk" THEN {"r", "w"} ELSE file.modes
                   /\ \A n \in 0..Len(host) : JailRoot \o SubSeq(host, 1, n) \in DOMAIN fs

\* The guest.
DevicesInv(in, ph, k, ds) ==
    Rank[ph] >= 14 =>
        /\ DOMAIN ds = 1..Total(in)
        /\ ph = "dial" => \A n \in 1..Total(in) :
               /\ IsStubDrive(ds[n]) <=> n # 1
               /\ n # 1 => ds[n].content.of = Name(in, n)
        /\ ph = "mount" => ds[1 + Count(in) + k].content = HostFiles[MountOf(in, k).host].content

FoundInv(in, ph, fd) ==
    Rank[ph] >= 15 =>
        /\ DOMAIN fd = {Name(in, n) : n \in 2..Total(in)}
        /\ \A n \in 2..Total(in) : fd[Name(in, n)] = n

PlacesInv(in, ph, k, ds) ==
    NoDotsIn(in) =>
        /\ Tree(ds)
        /\ \A n \in 1..MountedTo(in, ph, k) :
               CanMkdirAll(ds, MountOf(in, n).vm) /\ ~UnderBanned(Lead(MountOf(in, n).vm))

MountedInv(in, ph, k, md) ==
    \A n \in 1..MountedTo(in, ph, k) :
        LET place == Lead(MountOf(in, n).vm) IN
        /\ place \in DOMAIN md
        /\ (\A m \in 1..MountedTo(in, ph, k) : m > n => Lead(MountOf(in, m).vm) # place) =>
               /\ md[place].content = HostFiles[MountOf(in, n).host].content
               /\ ~Ambiguous(MountOf(in, n)) => md[place].writable = MountOf(in, n).writable

\* What was accepted.
AcceptedInv(in, ph, k) ==
    /\ Rank[ph] >= 2 /\ JailedBy(in) =>
           in.request.jailer.uid # 0 /\ in.request.jailer.gid # 0
    /\ Rank[ph] >= 3 => \A n \in 1..MountCount(in) :
           IsAbs(MountOf(in, n).host) /\ IsAbs(MountOf(in, n).vm)
    /\ \A n \in 1..MountStubsMade(in, ph, k) :
           ~IncompatibleOptions(MountOf(in, n).options, MountOf(in, n).writable)
    /\ Rank[ph] >= 6 => \A n \in DOMAIN NetsOf(in) : IsNetworkConfig(NetsOf(in)[n])
    /\ Rank[ph] >= 8 /\ JailedBy(in) => Runc(in).process /\ Runc(in).user = 0

HostInv(in, ph, k) ==
    /\ JailedBy(in) /\ Rank[ph] >= 9 => ~Missing(FirecrackerBinaryPath)
    /\ (JailedBy(in) /\ Rank[ph] >= 9) \/ Rank[ph] >= 14 => ~Missing(Kernel(in))
    /\ JailedTo(in, ph, k) > 1 \/ Rank[ph] >= 14 => ~Missing(Root(in).path)
    /\ JailedBy(in) => \A n \in 1..ExposedTo(in, ph, k) :
           LET host == MountOf(in, n).host IN
           /\ host \in DOMAIN HostFiles /\ HostFiles[host].kind \in {"blk", "reg"}
           /\ HostFiles[host].kind = "blk" =>
                  \A m \in 1..(n - 1) : MountOf(in, m).host # host
    /\ \A n \in 1..PatchedTo(in, ph, k) :
           LET host == MountOf(in, n).host IN
           /\ ~Missing(host)
           /\ JailedBy(in) /\ HostFiles[host].kind = "reg" =>
                  DriveModes(MountOf(in, n)) \subseteq HostFiles[host].modes

\* The phases of createVM have the order of its calls.
LEMMA RankIs ==
    /\ Rank["start"] = 0 /\ Rank["failed"] = 0 /\ Rank["over"] = 0 /\ Rank["jailer"] = 1
    /\ Rank["config"] = 2 /\ Rank["stubs"] = 3 /\ Rank["mountStubs"] = 4 /\ Rank["nets"] = 5
    /\ Rank["machine"] = 6 /\ Rank["jailConfig"] = 7 /\ Rank["jailFiles"] = 8
    /\ Rank["jailDrives"] = 9 /\ Rank["vmm"] = 10 /\ Rank["logs"] = 11 /\ Rank["link"] = 12
    /\ Rank["attach"] = 13 /\ Rank["dial"] = 14 /\ Rank["expose"] = 15 /\ Rank["patch"] = 16
    /\ Rank["mount"] = 17 /\ Rank["ready"] = 18
    /\ DOMAIN Rank = {"start", "failed", "over", "jailer", "config", "stubs", "mountStubs",
                      "nets", "machine", "jailConfig", "jailFiles", "jailDrives", "vmm",
                      "logs", "link", "attach", "dial", "expose", "patch", "mount", "ready"}
BY DEF Rank

\* What is known of an input.
LEMMA InputIs ==
    ASSUME NEW in \in Inputs
    PROVE  /\ Levels(in) \in Seq(Entries) /\ Kernel(in) \in Path
           /\ Root(in).path \in Path \ {<< >>} /\ Root(in).writable \in BOOLEAN
           /\ Count(in) \in Nat \ {0} /\ MountCount(in) \in Nat /\ Total(in) \in Nat \ {0}
           /\ Total(in) = 1 + Count(in) + MountCount(in)
           /\ DOMAIN in.request.mounts = 1..MountCount(in)
           /\ \A n \in 1..MountCount(in) :
                  /\ MountOf(in, n).host \in Path /\ MountOf(in, n).vm \in Path
                  /\ MountOf(in, n).writable \in BOOLEAN
                  /\ MountOf(in, n).options \in Seq(STRING)
<1>1. InputAssumption(LoadConfig(in.file), in.request) BY InputsAreTyped
<1>2. /\ Levels(in) \in Seq(Entries) /\ Kernel(in) \in Path
      /\ Root(in).path \in Path \ {<< >>} /\ Root(in).writable \in BOOLEAN
  BY <1>1 DEF InputAssumption, Levels, Kernel, Root
<1>3. Count(in) \in Nat \ {0}
  BY <1>1 DEF InputAssumption, Count, ContainerCount, Positive
<1>4. MountCount(in) \in Nat /\ DOMAIN in.request.mounts = 1..MountCount(in)
  BY <1>1 DEF InputAssumption, MountCount
<1>5. \A n \in 1..MountCount(in) :
          /\ MountOf(in, n).host \in Path /\ MountOf(in, n).vm \in Path
          /\ MountOf(in, n).writable \in BOOLEAN /\ MountOf(in, n).options \in Seq(STRING)
  BY <1>1, <1>4 DEF InputAssumption, MountOf
<1>6. Total(in) \in Nat \ {0} /\ Total(in) = 1 + Count(in) + MountCount(in)
  BY <1>3, <1>4 DEF Total
<1> QED BY <1>2, <1>3, <1>4, <1>5, <1>6

\* The model's names for it.
LEMMA Bridge ==
    /\ Config.levels = Levels(input) /\ Config.runc = Runc(input)
    /\ (Jailed <=> JailedBy(input)) /\ Uid = User(input) /\ JailPath = Place(input)
    /\ Jailer = input.request.jailer /\ (JailedBy(input) => Jailer.uid = User(input))
    /\ KernelPath = Kernel(input) /\ RootPath = Root(input).path
    /\ Networks(Config, Request0) = NetsOf(input)
    /\ ContainerCount(Request0) = Count(input) /\ Len(Request0.mounts) = MountCount(input)
    /\ \A n : Request0.mounts[n] = MountOf(input, n)
    /\ \A n : StubPath("ctrstub", n) = Append(Place(input), StubName("ctrstub", n))
    /\ \A n : StubPath("drivemntstub", n) = Append(Place(input), StubName("drivemntstub", n))
    /\ Request0.mounts = input.request.mounts /\ (NoDots <=> NoDotsIn(input))
BY DEF Config, Request0, Jailer, Jailed, Uid, JailPath, KernelPath, RootPath, StubPath, Levels,
       Runc, JailedBy, User, Place, Kernel, Root, NetsOf, Count, MountCount, MountOf, NoDots,
       NoDotsIn
-----------------------------------------------------------------------------
\* From one phase to the next.
Turn(in, ph, k, ph2, k2) ==
    \/ k2 = 1 /\ \/ ph = "start" /\ ph2 = "jailer"
                 \/ ph = "jailer" /\ ph2 = "config"
                 \/ ph = "config" /\ ph2 = "stubs"
                 \/ ph = "stubs" /\ k > Count(in) /\ ph2 = "mountStubs"
                 \/ ph = "mountStubs" /\ k \notin 1..MountCount(in) /\ ph2 = "nets"
                 \/ ph = "nets" /\ ph2 = "machine"
                 \/ ph = "machine" /\ JailedBy(in) /\ ph2 = "jailConfig"
                 \/ ph = "machine" /\ ~JailedBy(in) /\ ph2 = "vmm"
                 \/ ph = "jailConfig" /\ ph2 = "jailFiles"
                 \/ ph = "jailFiles" /\ ph2 = "jailDrives"
                 \/ ph = "jailDrives" /\ k \notin 1..Total(in) /\ ph2 = "vmm"
                 \/ ph = "vmm" /\ ph2 = "logs"
                 \/ ph = "logs" /\ JailedBy(in) /\ ph2 = "link"
                 \/ ph = "logs" /\ ~JailedBy(in) /\ ph2 = "attach"
                 \/ ph = "link" /\ ph2 = "attach"
                 \/ ph = "attach" /\ ph2 = "dial"
                 \/ ph = "dial" /\ ph2 = "expose"
                 \/ ph = "expose" /\ k \notin 1..MountCount(in) /\ ph2 = "ready"
                 \/ ph \notin {"machine", "failed", "over", "ready"} /\ ph2 = "failed"
                 \/ ph \in {"failed", "ready"} /\ ph2 = "over"
                 \/ ph = "over" /\ ph2 = "start"
    \/ k2 = k + 1 /\ \/ ph = "stubs" /\ ph2 = "stubs" /\ k <= Count(in)
                     \/ ph = "mountStubs" /\ ph2 = "mountStubs" /\ k \in 1..MountCount(in)
                     \/ ph = "jailDrives" /\ ph2 = "jailDrives" /\ k \in 1..Total(in)
                     \/ ph = "mount" /\ ph2 = "expose"
    \/ k2 = k /\ k \in 1..MountCount(in) /\ \/ ph = "expose" /\ ph2 = "patch"
                                            \/ ph = "patch" /\ ph2 = "mount"

\* A step leaves a phase and an index that createVM can be at.
LEMMA IndexTurn ==
    ASSUME NEW in, NEW ph, NEW k, NEW ph2, NEW k2, IndexInv(in, ph, k),
           Turn(in, ph, k, ph2, k2)
    PROVE  IndexInv(in, ph2, k2)
<1>1. in \in Inputs BY DEF IndexInv
<1>2. Count(in) \in Nat \ {0} /\ MountCount(in) \in Nat /\ Total(in) \in Nat \ {0}
  BY <1>1, InputIs
<1> QED BY <1>2, RankIs DEF IndexInv, Turn

-----------------------------------------------------------------------------
(* What a step is.                                                         *)

\* The phase tells which action can be taken.
ActionOf(ph) ==
    /\ ph = "start" => StartService
    /\ ph = "jailer" => NewJailer
    /\ ph = "config" => StartConfig
    /\ ph = "stubs" => CreateContainerStub
    /\ ph = "mountStubs" => CreateDriveMountStub
    /\ ph = "nets" => AddNetworks
    /\ ph = "machine" => NewMachine
    /\ ph = "jailConfig" => WriteOCIConfig
    /\ ph = "jailFiles" => JailFiles
    /\ ph = "jailDrives" => JailDrive
    /\ ph = "vmm" => StartVMM
    /\ ph = "logs" => CreateLogFiles
    /\ ph = "link" => LinkFifos
    /\ ph = "attach" => Attach
    /\ ph = "dial" => Dial
    /\ ph = "expose" => Expose \/ Ready
    /\ ph = "patch" => Patch
    /\ ph = "mount" => MountDrive
    /\ ph = "failed" => ShimExits
    /\ ph = "ready" => StopVM
    /\ ph = "over" => CreateVMAgain

\* A step is one of the action of its phase.
LEMMA WhichAction ==
    ASSUME Next
    PROVE  ActionOf(phase)
<1> USE DEF Goto, Again, Fail, FailAt, Break, Move, ActionOf
<1>1. StartService => phase = "start" BY Zenon DEF StartService
<1>2. NewJailer => phase = "jailer" BY Zenon DEF NewJailer
<1>3. StartConfig => phase = "config" BY Zenon DEF StartConfig
<1>4. CreateContainerStub => phase = "stubs" BY Zenon DEF CreateContainerStub
<1>5. CreateDriveMountStub => phase = "mountStubs" BY Zenon DEF CreateDriveMountStub
<1>6. AddNetworks => phase = "nets" BY Zenon DEF AddNetworks
<1>7. NewMachine => phase = "machine" BY Zenon DEF NewMachine
<1>8. WriteOCIConfig => phase = "jailConfig" BY Zenon DEF WriteOCIConfig
<1>9. JailFiles => phase = "jailFiles" BY Zenon DEF JailFiles
<1>10. JailDrive => phase = "jailDrives" BY Zenon DEF JailDrive
<1>11. StartVMM => phase = "vmm" BY Zenon DEF StartVMM
<1>12. CreateLogFiles => phase = "logs" BY Zenon DEF CreateLogFiles
<1>13. LinkFifos => phase = "link" BY DEF LinkFifos
<1>14. Attach => phase = "attach" BY Zenon DEF Attach
<1>15. Dial => phase = "dial" BY Zenon DEF Dial
<1>16. Expose \/ Ready => phase = "expose" BY Zenon DEF Expose, Ready
<1>17. Patch => phase = "patch" BY Zenon DEF Patch
<1>18. MountDrive => phase = "mount" BY Zenon DEF MountDrive
<1>19. ShimExits => phase = "failed" BY Zenon DEF ShimExits
<1>20. StopVM => phase = "ready" BY Zenon DEF StopVM
<1>21. CreateVMAgain => phase = "over" BY Zenon DEF CreateVMAgain
<1> QED
  BY <1>1, <1>2, <1>3, <1>4, <1>5, <1>6, <1>7, <1>8, <1>9, <1>10, <1>11, <1>12, <1>13, <1>14,
     <1>15, <1>16, <1>17, <1>18, <1>19, <1>20, <1>21 DEF Next

\* What a step leaves alone.
Goes(from, to) == phase = from /\ phase' = to

Kept ==
    /\ Goes("start", "jailer") \/ Goes("over", "start") \/ helper' = helper
    /\ \/ phase \in {"config", "stubs", "mountStubs", "nets", "machine", "over"}
       \/ mc' = mc
    /\ phase \in {"machine", "jailFiles", "jailDrives", "over"} \/ mCfg' = mCfg
    /\ phase \in {"jailConfig", "over"} \/ oci' = oci
    /\ Goes("stubs", "stubs") \/ Goes("over", "start") \/ stubs' = stubs
    /\ Goes("mountStubs", "mountStubs") \/ Goes("over", "start") \/ mountStubs' = mountStubs
    /\ \/ Goes("jailer", "config") \/ Goes("stubs", "stubs") \/ Goes("mountStubs", "mountStubs")
       \/ Goes("jailFiles", "jailDrives") \/ Goes("jailDrives", "jailDrives")
       \/ Goes("logs", "link") \/ Goes("logs", "attach") \/ Goes("link", "attach")
       \/ phase \in {"failed", "ready"} \/ Goes("expose", "patch")
       \/ files' = files
    /\ Goes("attach", "dial") \/ Goes("patch", "mount") \/ Goes("over", "start")
       \/ devices' = devices
    /\ Goes("dial", "expose") \/ Goes("over", "start") \/ found' = found
    /\ Goes("mount", "expose") \/ Goes("over", "start") \/ (dirs' = dirs /\ mounted' = mounted)
    /\ phase' = "failed" \/ phase \in {"failed", "ready", "over"} \/ fault' = fault
    /\ Goes("vmm", "logs") \/ phase \in {"failed", "ready"} \/ container' = container

\* A step is one from a phase to the next.
LEMMA Turns ==
    ASSUME Next, IndexInv(input, phase, i), StubsInv(input, phase, i, stubs, mountStubs),
           VmmConfigInv(input, phase, i, mCfg)
    PROVE  Turn(input, phase, i, phase', i') /\ Kept /\ (phase # "over" => input' = input)
<1>1. ActionOf(phase) BY WhichAction
<1>2. /\ DOMAIN Request0.mounts = 1..MountCount(input) /\ (Jailed <=> JailedBy(input))
      /\ ContainerCount(Request0) = Count(input) /\ Count(input) \in Nat
      /\ i \in Nat /\ phase \in DOMAIN Rank
  BY Bridge, InputIs DEF IndexInv
<1>3. phase \in {"expose", "patch"} => DOMAIN mountStubs = 1..MountCount(input)
  BY RankIs DEF StubsInv, MountStubsMade, Firsts
<1>4. phase = "jailDrives" => DOMAIN mCfg.drives = 1..Total(input)
  BY RankIs DEF VmmConfigInv, DrivesAt
<1> USE DEF Goto, Again, Fail, FailAt, Break, Move, hostVars, configVars, guestVars
<1>5. CASE phase = "start"
  BY <1>1, <1>5 DEF ActionOf, StartService, Turn, Kept, Goes
<1>6. CASE phase = "jailer"
  BY <1>1, <1>6 DEF ActionOf, NewJailer, Turn, Kept, Goes
<1>7. CASE phase = "config"
  BY <1>1, <1>7 DEF ActionOf, StartConfig, Turn, Kept, Goes
<1>8. CASE phase = "stubs"
  BY <1>1, <1>2, <1>8 DEF ActionOf, CreateContainerStub, Turn, Kept, Goes
<1>9. CASE phase = "mountStubs"
  BY <1>1, <1>2, <1>9 DEF ActionOf, CreateDriveMountStub, Turn, Kept, Goes
<1>10. CASE phase = "nets"
  BY <1>1, <1>10 DEF ActionOf, AddNetworks, Turn, Kept, Goes
<1>11. CASE phase = "machine"
  BY <1>1, <1>2, <1>11 DEF ActionOf, NewMachine, Turn, Kept, Goes
<1>12. CASE phase = "jailConfig"
  BY <1>1, <1>12 DEF ActionOf, WriteOCIConfig, Turn, Kept, Goes
<1>13. CASE phase = "jailFiles"
  BY <1>1, <1>13 DEF ActionOf, JailFiles, Turn, Kept, Goes
<1>14. CASE phase = "jailDrives"
  BY <1>1, <1>4, <1>14 DEF ActionOf, JailDrive, Turn, Kept, Goes
<1>15. CASE phase = "vmm"
  BY <1>1, <1>15 DEF ActionOf, StartVMM, Turn, Kept, Goes
<1>16. CASE phase = "logs"
  BY <1>1, <1>2, <1>16 DEF ActionOf, CreateLogFiles, Turn, Kept, Goes
<1>17. CASE phase = "link"
  BY <1>1, <1>17 DEF ActionOf, LinkFifos, Turn, Kept, Goes
<1>18. CASE phase = "attach"
  BY <1>1, <1>18 DEF ActionOf, Attach, Turn, Kept, Goes
<1>19. CASE phase = "dial"
  BY <1>1, <1>19 DEF ActionOf, Dial, Turn, Kept, Goes
<1>20. CASE phase = "expose"
  BY <1>1, <1>2, <1>3, <1>20 DEF ActionOf, Expose, Ready, Turn, Kept, Goes
<1>21. CASE phase = "patch"
  BY <1>1, <1>3, <1>21 DEF ActionOf, Patch, Turn, Kept, Goes
<1>22. CASE phase = "mount"
  BY <1>1, <1>22 DEF ActionOf, MountDrive, Turn, Kept, Goes
<1>23. CASE phase = "failed"
  BY <1>1, <1>23 DEF ActionOf, ShimExits, Turn, Kept, Goes
<1>24. CASE phase = "ready"
  BY <1>1, <1>24 DEF ActionOf, StopVM, Turn, Kept, Goes
<1>25. CASE phase = "over"
  BY <1>1, <1>25 DEF ActionOf, CreateVMAgain, Turn, Kept, Goes
<1> QED
  BY <1>2, <1>5, <1>6, <1>7, <1>8, <1>9, <1>10, <1>11, <1>12, <1>13, <1>14, <1>15, <1>16, <1>17,
     <1>18, <1>19, <1>20, <1>21, <1>22, <1>23, <1>24, <1>25, RankIs

-----------------------------------------------------------------------------
(* The paths of the host.                                                  *)

\* The names of the stubs are their own.
LEMMA NamesDiffer ==
    ASSUME NEW in \in Inputs
    PROVE  /\ Name(in, 1) \in STRING
           /\ \A n \in 1..Count(in) : Name(in, n + 1) = StubName("ctrstub", n)
           /\ \A n \in 1..MountCount(in) :
                  Name(in, 1 + Count(in) + n) = StubName("drivemntstub", n)
           /\ \A n \in 2..Total(in) :
                  /\ Name(in, n) \in STRING
                  /\ Name(in, n) \notin {"firecracker", "kernel-image", "root_drive"} \cup Fifos
                  /\ \A m \in 2..Total(in) : Name(in, m) = Name(in, n) => m = n
<1>1. /\ Count(in) \in Nat \ {0} /\ MountCount(in) \in Nat
      /\ Total(in) = 1 + Count(in) + MountCount(in)
      /\ Root(in).path \in Path \ {<< >>} /\ DOMAIN in.request.mounts = 1..MountCount(in)
  BY InputIs
<1>2. Name(in, 1) \in STRING
  <2> DEFINE p == Root(in).path
  <2>1. p \in Seq(STRING) /\ p # << >> BY <1>1 DEF Path
  <2> HIDE DEF p
  <2>2. Len(p) \in 1..Len(p) BY <2>1, EmptySeq
  <2>3. Last(p) \in STRING BY <2>1, <2>2, ElementOfSeq DEF Last
  <2> QED BY <2>3 DEF Name, p
<1>3. \A n \in 1..Count(in) : Name(in, n + 1) = StubName("ctrstub", n)
  <2> SUFFICES ASSUME NEW n \in 1..Count(in)
               PROVE  Name(in, n + 1) = StubName("ctrstub", n)
    OBVIOUS
  <2>1. n + 1 # 1 /\ n + 1 <= 1 + Count(in) /\ (n + 1) - 1 = n BY <1>1
  <2> QED BY <2>1 DEF Name
<1>4. \A n \in 1..MountCount(in) : Name(in, 1 + Count(in) + n) = StubName("drivemntstub", n)
  <2> SUFFICES ASSUME NEW n \in 1..MountCount(in)
               PROVE  Name(in, 1 + Count(in) + n) = StubName("drivemntstub", n)
    OBVIOUS
  <2>1. /\ 1 + Count(in) + n # 1 /\ ~(1 + Count(in) + n <= 1 + Count(in))
        /\ (1 + Count(in) + n) - 1 - Count(in) = n
    BY <1>1
  <2> QED BY <2>1 DEF Name
<1> DEFINE Stub(n) == IF n <= 1 + Count(in) THEN [name |-> "ctrstub", n |-> n - 1]
                      ELSE [name |-> "drivemntstub", n |-> n - 1 - Count(in)]
<1>5. ASSUME NEW n \in 2..Total(in)
      PROVE  Stub(n) \in Stubs(in.request) /\ Name(in, n) = StubName(Stub(n).name, Stub(n).n)
  <2>1. Count(in) = ContainerCount(in.request) BY DEF Count
  <2>2. CASE n <= 1 + Count(in)
    <3>1. n - 1 \in 1..Count(in) /\ n # 1 BY <1>1, <2>2
    <3>2. Stub(n) = [name |-> "ctrstub", n |-> n - 1] BY <2>2
    <3>3. Name(in, n) = StubName("ctrstub", n - 1) BY <2>2, <3>1 DEF Name
    <3> QED BY <2>1, <3>1, <3>2, <3>3 DEF Stubs
  <2>3. CASE ~(n <= 1 + Count(in))
    <3>1. n - 1 - Count(in) \in 1..MountCount(in) /\ n # 1 BY <1>1, <2>3
    <3>2. Stub(n) = [name |-> "drivemntstub", n |-> n - 1 - Count(in)] BY <2>3
    <3>3. Name(in, n) = StubName("drivemntstub", n - 1 - Count(in))
      BY <2>3, <3>1 DEF Name
    <3> QED BY <1>1, <3>1, <3>2, <3>3 DEF Stubs
  <2> QED BY <2>2, <2>3
<1>6. ASSUME NEW m \in 2..Total(in), NEW n \in 2..Total(in), Stub(m) = Stub(n) PROVE m = n
  <2>1. m \in Int /\ n \in Int /\ Count(in) \in Int BY <1>1
  <2> QED BY <1>6, <2>1
<1> HIDE DEF Stub
<1>7. ASSUME NEW n \in 2..Total(in)
      PROVE  /\ Name(in, n) \in STRING
             /\ Name(in, n) \notin {"firecracker", "kernel-image", "root_drive"} \cup Fifos
             /\ \A m \in 2..Total(in) : Name(in, m) = Name(in, n) => m = n
  <2>1. /\ Stub(n) \in Stubs(in.request) /\ Name(in, n) = StubName(Stub(n).name, Stub(n).n)
        /\ \A m \in 2..Total(in) : Stub(m) \in Stubs(in.request)
               /\ Name(in, m) = StubName(Stub(m).name, Stub(m).n)
    BY <1>5
  <2> QED BY <1>6, <2>1, StubNamesDiffer
<1> QED BY <1>2, <1>3, <1>4, <1>7

\* The paths of files.
LEMMA RootsArePaths ==
    /\ VmDir \in HostPath /\ Len(VmDir) = 2 /\ VmDir[1] = "run" /\ VmDir[2] = "vm"
    /\ JailRoot \in HostPath /\ Len(JailRoot) = 3
    /\ JailRoot[1] = "run" /\ JailRoot[2] = "vm" /\ JailRoot[3] = "rootfs"
    /\ \A in : Place(in) \in {VmDir, JailRoot} /\ Place(in) \in HostPath
<1>1. << >> \in HostPath BY EmptySeq DEF HostPath
<1>2. \A p \in HostPath, x \in Texts : Append(p, x) \in HostPath
  BY AppendProperties DEF HostPath
<1>3. "run" \in Texts /\ "vm" \in Texts /\ "rootfs" \in Texts BY DEF Texts
<1>4. /\ Append(Append(<< >>, "run"), "vm") \in HostPath
      /\ Append(Append(Append(<< >>, "run"), "vm"), "rootfs") \in HostPath
  BY <1>1, <1>2, <1>3, Zenon
<1>5. VmDir = Append(Append(<< >>, "run"), "vm") BY DEF VmDir
<1>6. JailRoot = Append(Append(Append(<< >>, "run"), "vm"), "rootfs") BY DEF JailRoot
<1>7. VmDir \in HostPath /\ JailRoot \in HostPath BY <1>4, <1>5, <1>6
<1>8. Len(VmDir) = 2 /\ VmDir[1] = "run" /\ VmDir[2] = "vm" BY DEF VmDir
<1>9. Len(JailRoot) = 3 /\ JailRoot[1] = "run" /\ JailRoot[2] = "vm" /\ JailRoot[3] = "rootfs"
  BY DEF JailRoot
<1> QED BY <1>7, <1>8, <1>9 DEF Place

\* A path of the guest, or of the request, is one of the host, and it can have
\* one more name.
LEMMA HostPaths ==
    /\ Path \subseteq HostPath /\ STRING \subseteq Texts /\ << >> \in HostPath
    /\ \A p \in HostPath, x \in Texts :
           /\ Append(p, x) \in HostPath /\ Len(Append(p, x)) = Len(p) + 1
           /\ Last(Append(p, x)) = x /\ Append(p, x) = p \o <<x>> /\ <<x>> \in HostPath
           /\ Append(p, x)[Len(p) + 1] = x /\ \A n \in 1..Len(p) : Append(p, x)[n] = p[n]
    /\ \A p \in HostPath : Len(p) \in Nat
<1>1. STRING \subseteq Texts BY DEF Texts
<1>2. Path \subseteq HostPath BY <1>1, SeqMonotonic DEF Path, HostPath
<1>3. << >> \in HostPath /\ \A p \in HostPath : Len(p) \in Nat BY EmptySeq DEF HostPath
<1>4. ASSUME NEW p \in HostPath, NEW x \in Texts
      PROVE  /\ Append(p, x) \in HostPath /\ Len(Append(p, x)) = Len(p) + 1
             /\ Last(Append(p, x)) = x /\ Append(p, x) = p \o <<x>> /\ <<x>> \in HostPath
             /\ Append(p, x)[Len(p) + 1] = x /\ \A n \in 1..Len(p) : Append(p, x)[n] = p[n]
  BY AppendParts, AppendProperties DEF HostPath
<1> QED BY <1>1, <1>2, <1>3, <1>4

\* The name of a drive is the last of its path.
LEMMA SourceIs ==
    ASSUME NEW in \in Inputs, NEW n \in 1..Total(in)
    PROVE  /\ Source(in, n) \in HostPath /\ Last(Source(in, n)) = Name(in, n)
           /\ Name(in, n) \in STRING /\ Name(in, n) \in Texts
           /\ n # 1 => Source(in, n) = Append(Place(in), Name(in, n))
<1>1. n \in Nat /\ n >= 1 /\ Total(in) \in Nat BY InputIs
<1>2. CASE n = 1
  BY <1>2, InputIs, NamesDiffer, HostPaths DEF Source, Name
<1>3. CASE n # 1
  <2>1. n \in 2..Total(in) BY <1>1, <1>3
  <2>2. Name(in, n) \in STRING /\ Name(in, n) \in Texts /\ Place(in) \in HostPath
    BY <2>1, NamesDiffer, RootsArePaths, HostPaths
  <2>3. Source(in, n) = Append(Place(in), Name(in, n)) BY <1>3 DEF Source
  <2>4. /\ Append(Place(in), Name(in, n)) \in HostPath
        /\ Last(Append(Place(in), Name(in, n))) = Name(in, n)
    BY <2>2, HostPaths
  <2> QED BY <1>3, <2>2, <2>3, <2>4
<1> QED BY <1>2, <1>3

\* The first of a sequence with the next one.
LEMMA FirstsAppend ==
    ASSUME NEW s, NEW n \in Nat
    PROVE  /\ Len(Firsts(s, n)) = n /\ DOMAIN Firsts(s, n) = 1..n
           /\ Append(Firsts(s, n), s[n + 1]) = Firsts(s, n + 1)
<1> DEFINE S == {s[m] : m \in 1..(n + 1)}
           a == Firsts(s, n)
           b == Firsts(s, n + 1)
<1>1. a \in [1..n -> S] /\ b \in [1..(n + 1) -> S] /\ s[n + 1] \in S BY DEF Firsts
<1>8. Len(a) = n /\ Len(b) = n + 1 BY DEF Firsts
<1> HIDE DEF S, a, b
<1>2. a \in Seq(S) /\ b \in Seq(S) /\ Len(a) = n /\ Len(b) = n + 1
  BY <1>1, <1>8, SeqDef
<1>3. /\ Append(a, s[n + 1]) \in Seq(S) /\ Len(Append(a, s[n + 1])) = n + 1
      /\ \A m \in 1..n : Append(a, s[n + 1])[m] = a[m]
      /\ Append(a, s[n + 1])[n + 1] = s[n + 1]
  BY <1>1, <1>2, AppendProperties
<1>4. \A m \in 1..(n + 1) : b[m] = s[m] /\ (m \in 1..n => a[m] = s[m])
  BY DEF Firsts, a, b
<1>5. \A m \in 1..(n + 1) : m \in 1..n \/ m = n + 1 OBVIOUS
<1>7. DOMAIN a = 1..n BY DEF Firsts, a
<1>6. Append(a, s[n + 1]) = b
  <2>1. \A m \in 1..Len(Append(a, s[n + 1])) : Append(a, s[n + 1])[m] = b[m]
    BY <1>3, <1>4, <1>5
  <2> QED BY <1>2, <1>3, <2>1, SeqEqual
<1> QED BY <1>2, <1>6, <1>7 DEF a, b

-----------------------------------------------------------------------------
(* The configuration, the stub drives and the machine.                     *)

\* How many stubs there are, and when there are more.
LEMMA MadeIs ==
    ASSUME NEW in, NEW ph, NEW k, IndexInv(in, ph, k)
    PROVE  /\ StubsMade(in, ph, k) \in 0..Count(in)
           /\ MountStubsMade(in, ph, k) \in 0..MountCount(in)
           /\ DrivesMade(in, ph, k) = 1 + StubsMade(in, ph, k) + MountStubsMade(in, ph, k)
           /\ DrivesMade(in, ph, k) \in 1..Total(in)
           /\ JailedTo(in, ph, k) \in 1..(Total(in) + 1)
<1>1. in \in Inputs BY DEF IndexInv
<1>2. /\ Count(in) \in Nat \ {0} /\ MountCount(in) \in Nat /\ Total(in) \in Nat
      /\ Total(in) = 1 + Count(in) + MountCount(in)
  BY <1>1, InputIs
<1>3. /\ StubsMade(in, ph, k) \in 0..Count(in)
      /\ MountStubsMade(in, ph, k) \in 0..MountCount(in)
  BY <1>2 DEF StubsMade, MountStubsMade, IndexInv
<1>4. JailedTo(in, ph, k) \in 1..(Total(in) + 1) BY <1>2 DEF JailedTo, IndexInv
<1> QED BY <1>2, <1>3, <1>4 DEF DrivesMade

\* A step makes one stub drive while it makes stub drives, and none otherwise.
LEMMA MadeTurn ==
    ASSUME NEW in, NEW ph, NEW k, NEW ph2, NEW k2, IndexInv(in, ph, k),
           Turn(in, ph, k, ph2, k2), ph2 \notin {"failed", "over"}
    PROVE  IF ph = "stubs" /\ ph2 = "stubs"
           THEN /\ StubsMade(in, ph2, k2) = StubsMade(in, ph, k) + 1
                /\ MountStubsMade(in, ph2, k2) = MountStubsMade(in, ph, k)
                /\ StubsMade(in, ph, k) = k - 1 /\ k \in 1..Count(in)
                /\ DrivesMade(in, ph, k) = k /\ DrivesMade(in, ph2, k2) = k + 1
           ELSE IF ph = "mountStubs" /\ ph2 = "mountStubs"
           THEN /\ StubsMade(in, ph2, k2) = StubsMade(in, ph, k)
                /\ MountStubsMade(in, ph2, k2) = MountStubsMade(in, ph, k) + 1
                /\ MountStubsMade(in, ph, k) = k - 1 /\ k \in 1..MountCount(in)
                /\ DrivesMade(in, ph, k) = Count(in) + k
                /\ DrivesMade(in, ph2, k2) = 1 + Count(in) + k
           ELSE IF ph = "over" THEN StubsMade(in, ph2, k2) = 0 /\ MountStubsMade(in, ph2, k2) = 0
           ELSE /\ StubsMade(in, ph2, k2) = StubsMade(in, ph, k)
                /\ MountStubsMade(in, ph2, k2) = MountStubsMade(in, ph, k)
                /\ DrivesMade(in, ph2, k2) = DrivesMade(in, ph, k)
<1>1. in \in Inputs /\ k \in Nat \ {0} BY DEF IndexInv
<1>2. /\ Count(in) \in Nat \ {0} /\ MountCount(in) \in Nat /\ Total(in) \in Nat
      /\ Total(in) = 1 + Count(in) + MountCount(in)
  BY <1>1, InputIs
<1> QED BY <1>1, <1>2, RankIs DEF StubsMade, MountStubsMade, DrivesMade, IndexInv, Turn

-----------------------------------------------------------------------------
\* The helper.
LEMMA HelperStep ==
    ASSUME Next, IndexInv(input, phase, i), HelperInv(input, phase, helper),
           Turn(input, phase, i, phase', i'), input' = input, Kept
    PROVE  HelperInv(input', phase', helper')
<1>1. CASE Goes("start", "jailer")
  <2>1. StartService BY <1>1, WhichAction DEF ActionOf, Goes
  <2>2. helper' = New(Config.levels) /\ New(Config.levels) # None
    BY <1>1, <2>1 DEF StartService, Fail, FailAt, Goto, Goes
  <2> QED BY <2>2, Bridge DEF HelperInv
<1>2. CASE Goes("over", "start")
  BY <1>2, RankIs DEF HelperInv, Goes
<1>3. CASE helper' = helper /\ ~Goes("start", "jailer")
  <2>1. Rank[phase'] >= 1 => Rank[phase] >= 1 BY <1>3, RankIs DEF Turn, Goes
  <2> QED BY <1>3, <2>1 DEF HelperInv
<1> QED BY <1>1, <1>2, <1>3 DEF Kept

\* The effect of the steps that make a stub.
LEMMA StubStep ==
    ASSUME Next, IndexInv(input, phase, i), Goes("stubs", "stubs")
    PROVE  LET d == i + 1 IN
           /\ i \in 1..Count(input) /\ Source(input, d) \notin DOMAIN files
           /\ files' = Over(Only(Source(input, d), StubFile(input, d)), files)
           /\ mc' = [mc EXCEPT !.drives = Append(@, AllDrives(input)[d])]
           /\ stubs' = Append(stubs, AllStubs(input)[i])
<1> DEFINE d == i + 1
           path == StubPath("ctrstub", i)
<1>1. CreateContainerStub BY WhichAction DEF ActionOf, Goes
<1>2. /\ i <= ContainerCount(Request0) /\ NewStubDrive(path, TRUE, None)
      /\ stubs' = Append(stubs, StubID(path))
  BY <1>1 DEF CreateContainerStub, Goto, Again, Fail, FailAt, Goes
<1>3. input \in Inputs /\ i \in Nat \ {0} BY DEF IndexInv
<1>4. /\ Count(input) \in Nat \ {0} /\ MountCount(input) \in Nat
      /\ Total(input) = 1 + Count(input) + MountCount(input)
  BY <1>3, InputIs
<1>5. i \in 1..Count(input) BY <1>2, <1>3, <1>4, Bridge
<1>6. /\ d \in 1..Total(input) /\ d # 1 /\ d <= 1 + Count(input)
      /\ Name(input, d) = StubName("ctrstub", i)
  BY <1>3, <1>4, <1>5, NamesDiffer
<1>7. path = Source(input, d) BY <1>6, Bridge DEF Source
<1>8. StubID(path) = Name(input, d) BY <1>3, <1>6, <1>7, SourceIs DEF StubID
<1> HIDE DEF path
<1>9. AllDrives(input)[d] = Drive(Name(input, d), Source(input, d), TRUE, None)
  BY <1>6 DEF AllDrives, DriveOf
<1>10. AllStubs(input)[i] = Name(input, d) BY <1>5, <1>6 DEF AllStubs
<1>11. Uid = User(input) BY Bridge
<1>12. /\ path \notin DOMAIN files
       /\ files' = Over(Only(path, StubFile(input, d)), files)
       /\ mc' = [mc EXCEPT !.drives = Append(@, Drive(StubID(path), path, TRUE, None))]
  BY <1>2, <1>8, <1>11 DEF NewStubDrive, StubFile
<1> QED BY <1>2, <1>5, <1>7, <1>8, <1>9, <1>10, <1>12

\* A stub of a mount is a new file, listed with the drives and with the mount's stubs.
LEMMA MountStubStep ==
    ASSUME Next, IndexInv(input, phase, i), Goes("mountStubs", "mountStubs")
    PROVE  LET d == 1 + Count(input) + i IN
           /\ i \in 1..MountCount(input) /\ Source(input, d) \notin DOMAIN files
           /\ ~IncompatibleOptions(MountOf(input, i).options, MountOf(input, i).writable)
           /\ files' = Over(Only(Source(input, d), StubFile(input, d)), files)
           /\ mc' = [mc EXCEPT !.drives = Append(@, AllDrives(input)[d])]
           /\ mountStubs' = Append(mountStubs, AllMountStubs(input)[i])
<1> DEFINE d == 1 + Count(input) + i
           mount == MountOf(input, i)
           path == StubPath("drivemntstub", i)
<1>1. CreateDriveMountStub BY WhichAction DEF ActionOf, Goes
<1>2. Request0.mounts[i] = mount BY Bridge
<1>3. input \in Inputs /\ i \in Nat \ {0} BY DEF IndexInv
<1>4. /\ Count(input) \in Nat \ {0} /\ MountCount(input) \in Nat
      /\ Total(input) = 1 + Count(input) + MountCount(input)
      /\ DOMAIN Request0.mounts = 1..MountCount(input)
  BY <1>3, InputIs, Bridge
<1> HIDE DEF mount, path
<1>5. /\ i \in DOMAIN Request0.mounts
      /\ ~IncompatibleOptions(mount.options, mount.writable) /\ path \notin DOMAIN files
      /\ NewStubDrive(path, mount.writable, mount.limiter)
      /\ mountStubs' = Append(mountStubs,
             [id |-> StubID(path), host |-> mount.host, vm |-> mount.vm,
              options |-> SetReadWriteOptions(mount.options, mount.writable)])
  BY <1>1, <1>2 DEF CreateDriveMountStub, Goto, Again, Fail, FailAt, Goes, path
<1>6. i \in 1..MountCount(input) BY <1>4, <1>5
<1>7. /\ d \in 1..Total(input) /\ d # 1 /\ ~(d <= 1 + Count(input))
      /\ d - 1 - Count(input) = i /\ Name(input, d) = StubName("drivemntstub", i)
  BY <1>3, <1>4, <1>6, NamesDiffer
<1>8. path = Source(input, d) BY <1>7, Bridge DEF Source, path
<1>9. StubID(path) = Name(input, d) BY <1>3, <1>7, <1>8, SourceIs DEF StubID
<1>10. AllDrives(input)[d]
           = Drive(Name(input, d), Source(input, d), mount.writable, mount.limiter)
  BY <1>7 DEF AllDrives, DriveOf, mount
<1>11. AllMountStubs(input)[i] =
           [id |-> Name(input, d), host |-> mount.host, vm |-> mount.vm,
            options |-> SetReadWriteOptions(mount.options, mount.writable)]
  BY <1>6, <1>7 DEF AllMountStubs, MountStubOf, mount
<1>12. Uid = User(input) BY Bridge
<1>13. /\ files' = Over(Only(path, StubFile(input, d)), files)
       /\ mc' = [mc EXCEPT !.drives =
                     Append(@, Drive(StubID(path), path, mount.writable, mount.limiter))]
  BY <1>5, <1>9, <1>12 DEF NewStubDrive, StubFile
<1> QED BY <1>5, <1>6, <1>8, <1>9, <1>10, <1>11, <1>13 DEF mount

\* Nothing of a sequence.
LEMMA FirstsNone ==
    ASSUME NEW s
    PROVE  Firsts(s, 0) = << >>
<1>1. 1..0 = {} OBVIOUS
<1> QED BY <1>1 DEF Firsts

\* The stubs.
LEMMA StubsStep ==
    ASSUME Next, IndexInv(input, phase, i), StubsInv(input, phase, i, stubs, mountStubs),
           Turn(input, phase, i, phase', i'), input' = input, Kept
    PROVE  StubsInv(input', phase', i', stubs', mountStubs')
<1> SUFFICES ASSUME phase' \notin {"failed", "over"}
             PROVE  /\ stubs' = Firsts(AllStubs(input), StubsMade(input, phase', i'))
                    /\ mountStubs' = Firsts(AllMountStubs(input),
                                            MountStubsMade(input, phase', i'))
  BY DEF StubsInv
<1> DEFINE s == StubsMade(input, phase, i)
           m == MountStubsMade(input, phase, i)
<1>1. /\ phase \notin {"failed", "over"} =>
             stubs = Firsts(AllStubs(input), s) /\ mountStubs = Firsts(AllMountStubs(input), m)
      /\ s \in Nat /\ m \in Nat
  BY MadeIs DEF StubsInv
<1>2. phase = "over" \/ phase \notin {"failed", "over"} BY DEF Turn
<1>3. CASE Goes("stubs", "stubs")
  <2>1. stubs' = Append(stubs, AllStubs(input)[i]) BY <1>3, StubStep
  <2>2. mountStubs' = mountStubs BY <1>3 DEF Kept, Goes
  <2>3. i = s + 1 /\ StubsMade(input, phase', i') = s + 1
        /\ MountStubsMade(input, phase', i') = m
    <3>1. i \in Nat BY DEF IndexInv
    <3>2. /\ StubsMade(input, phase', i') = s + 1 /\ s = i - 1
          /\ MountStubsMade(input, phase', i') = m
      BY <1>3, MadeTurn DEF Goes
    <3> QED BY <3>1, <3>2
  <2>4. stubs = Firsts(AllStubs(input), s) /\ mountStubs = Firsts(AllMountStubs(input), m)
    BY <1>1, <1>3 DEF Goes
  <2>5. Append(Firsts(AllStubs(input), s), AllStubs(input)[s + 1])
            = Firsts(AllStubs(input), s + 1)
    BY <1>1, FirstsAppend
  <2> QED BY <2>1, <2>2, <2>3, <2>4, <2>5
<1>4. CASE Goes("mountStubs", "mountStubs")
  <2>1. mountStubs' = Append(mountStubs, AllMountStubs(input)[i]) BY <1>4, MountStubStep
  <2>2. stubs' = stubs BY <1>4 DEF Kept, Goes
  <2>3. i = m + 1 /\ MountStubsMade(input, phase', i') = m + 1
        /\ StubsMade(input, phase', i') = s
    <3>1. i \in Nat BY DEF IndexInv
    <3>2. /\ MountStubsMade(input, phase', i') = m + 1 /\ m = i - 1
          /\ StubsMade(input, phase', i') = s
      BY <1>4, MadeTurn DEF Goes
    <3> QED BY <3>1, <3>2
  <2>4. stubs = Firsts(AllStubs(input), s) /\ mountStubs = Firsts(AllMountStubs(input), m)
    BY <1>1, <1>4 DEF Goes
  <2>5. Append(Firsts(AllMountStubs(input), m), AllMountStubs(input)[m + 1])
            = Firsts(AllMountStubs(input), m + 1)
    BY <1>1, FirstsAppend
  <2> QED BY <2>1, <2>2, <2>3, <2>4, <2>5
<1>5. CASE phase = "over"
  <2>1. stubs' = << >> /\ mountStubs' = << >>
    BY <1>5, WhichAction DEF ActionOf, CreateVMAgain
  <2>2. StubsMade(input, phase', i') = 0 /\ MountStubsMade(input, phase', i') = 0
    BY <1>5, MadeTurn
  <2> QED BY <2>1, <2>2, FirstsNone
<1>6. CASE ~Goes("stubs", "stubs") /\ ~Goes("mountStubs", "mountStubs") /\ phase # "over"
  <2>1. stubs' = stubs /\ mountStubs' = mountStubs BY <1>6 DEF Kept, Goes
  <2>2. StubsMade(input, phase', i') = s /\ MountStubsMade(input, phase', i') = m
    BY <1>6, MadeTurn DEF Goes
  <2> QED BY <1>1, <1>2, <1>6, <2>1, <2>2
<1> QED BY <1>3, <1>4, <1>5, <1>6

-----------------------------------------------------------------------------
\* A configuration with one field replaced.
LEMMA DrivesWith ==
    ASSUME NEW c, IsConfig(c), NEW x, NEW d, d = [c EXCEPT !.drives = x]
    PROVE  IsConfig(d) /\ d.drives = x /\ d.kernel = c.kernel /\ d.netns = c.netns
BY DEF IsConfig

\* The same of the kernel.
LEMMA KernelWith ==
    ASSUME NEW c, IsConfig(c), NEW x, NEW d, d = [c EXCEPT !.kernel = x]
    PROVE  IsConfig(d) /\ d.drives = c.drives /\ d.kernel = x /\ d.netns = c.netns
BY DEF IsConfig

\* The same of the interfaces and of the network namespace.
LEMMA NetsWith ==
    ASSUME NEW c, IsConfig(c), NEW x, NEW d,
           d = [c EXCEPT !.nets = x] \/ d = [c EXCEPT !.netns = x]
    PROVE  IsConfig(d) /\ d.drives = c.drives /\ d.kernel = c.kernel
<1>1. CASE d = [c EXCEPT !.nets = x] BY <1>1 DEF IsConfig
<1>2. CASE d = [c EXCEPT !.netns = x] BY <1>2 DEF IsConfig
<1> QED BY <1>1, <1>2

\* What the machine is made from.
LEMMA MachineStep ==
    ASSUME Next, phase = "machine", IsConfig(mc)
    PROVE  /\ IsConfig(mc') /\ mc'.drives = mc.drives /\ mc'.kernel = mc.kernel
           /\ IsConfig(mCfg') /\ mCfg'.drives = mc.drives /\ mCfg'.kernel = mc.kernel
<1>1. NewMachine BY WhichAction DEF ActionOf
<1>2. PICK x : mc' = [mc EXCEPT !.netns = x]
  BY <1>1 DEF NewMachine, JailedConfig
<1>3. mCfg' = Populate(mc') BY <1>1 DEF NewMachine
<1>4. IsConfig(mc') /\ mc'.drives = mc.drives /\ mc'.kernel = mc.kernel
  BY <1>2, NetsWith
<1>5. mCfg' = mc' \/ mCfg' = [mc' EXCEPT !.netns = "cni"] BY <1>3 DEF Populate
<1> HIDE <1>2, <1>3
<1>6. IsConfig(mCfg') /\ mCfg'.drives = mc'.drives /\ mCfg'.kernel = mc'.kernel
  <2>1. CASE mCfg' = mc' BY <1>4, <2>1
  <2>2. CASE mCfg' = [mc' EXCEPT !.netns = "cni"]
    <3> DEFINE d == [mc' EXCEPT !.netns = "cni"]
    <3>1. IsConfig(d) /\ d.drives = mc'.drives /\ d.kernel = mc'.kernel
      BY <1>4 DEF IsConfig
    <3> QED BY <2>2, <3>1
  <2> QED BY <1>5, <2>1, <2>2
<1> QED BY <1>4, <1>6

\* The configuration of the shim.
LEMMA ConfigStep ==
    ASSUME Next, IndexInv(input, phase, i), ConfigInv(input, phase, i, mc),
           Turn(input, phase, i, phase', i'), input' = input, Kept
    PROVE  ConfigInv(input', phase', i', mc')
<1> SUFFICES ASSUME Rank[phase'] >= 3
             PROVE  /\ IsConfig(mc') /\ mc'.kernel = Kernel(input)
                    /\ mc'.drives = Firsts(AllDrives(input), DrivesMade(input, phase', i'))
  BY DEF ConfigInv
<1> DEFINE d == DrivesMade(input, phase, i)
           D == AllDrives(input)
<1>1. /\ Rank[phase] >= 3 => IsConfig(mc) /\ mc.kernel = Kernel(input) /\ mc.drives = Firsts(D, d)
      /\ d \in Nat
  BY MadeIs DEF ConfigInv
<1>2. phase' \notin {"failed", "over"} BY RankIs
<1>3. CASE Goes("stubs", "stubs")
  <2>1. mc' = [mc EXCEPT !.drives = Append(mc.drives, D[i + 1])] BY <1>3, StubStep
  <2>2. d = i /\ DrivesMade(input, phase', i') = i + 1 BY <1>2, <1>3, MadeTurn DEF Goes
  <2>3. IsConfig(mc) /\ mc.kernel = Kernel(input) /\ mc.drives = Firsts(D, d)
    BY <1>1, <1>3, RankIs DEF Goes
  <2> HIDE DEF D, d
  <2>4. Append(mc.drives, D[i + 1]) = Firsts(D, i + 1) BY <1>1, <2>2, <2>3, FirstsAppend
  <2>5. mc' = [mc EXCEPT !.drives = Firsts(D, i + 1)] BY <2>1, <2>4
  <2>6. IsConfig(mc') /\ mc'.drives = Firsts(D, i + 1) /\ mc'.kernel = mc.kernel
    BY <2>3, <2>5, DrivesWith
  <2> QED BY <2>2, <2>3, <2>6 DEF D
<1>4. CASE Goes("mountStubs", "mountStubs")
  <2>1. mc' = [mc EXCEPT !.drives = Append(mc.drives, D[1 + Count(input) + i])]
    BY <1>4, MountStubStep
  <2>2. d = Count(input) + i /\ DrivesMade(input, phase', i') = d + 1
    <3>1. Count(input) \in Nat /\ i \in Nat BY InputIs DEF IndexInv
    <3> QED BY <3>1, <1>2, <1>4, MadeTurn DEF Goes
  <2>3. IsConfig(mc) /\ mc.kernel = Kernel(input) /\ mc.drives = Firsts(D, d)
    BY <1>1, <1>4, RankIs DEF Goes
  <2>4. 1 + Count(input) + i = d + 1
    <3>1. Count(input) \in Nat /\ i \in Nat BY InputIs DEF IndexInv
    <3> QED BY <2>2, <3>1
  <2> HIDE DEF D, d
  <2>5. Append(mc.drives, D[d + 1]) = Firsts(D, d + 1) BY <1>1, <2>3, FirstsAppend
  <2>6. mc' = [mc EXCEPT !.drives = Firsts(D, d + 1)]
    BY <2>1, <2>3, <2>4, <2>5 DEF D
  <2>7. DrivesMade(input, phase', i') = d + 1 BY <2>2
  <2>8. IsConfig(mc') /\ mc'.drives = Firsts(D, d + 1) /\ mc'.kernel = mc.kernel
    BY <2>3, <2>6, DrivesWith
  <2> QED BY <2>3, <2>7, <2>8 DEF D
<1>5. CASE Goes("config", "stubs")
  <2>1. StartConfig BY <1>5, WhichAction DEF ActionOf, Goes
  <2>2. mc' = BuildVMConfiguration(Config, helper, Request0)
    BY <1>5, <2>1 DEF StartConfig, Fail, FailAt, Goto, Goes
  <2>3. /\ OrDefault(Request0.kernel, Config.kernel) = Kernel(input)
        /\ RootDrive(Config, Request0) = Root(input)
    BY DEF Request0, Config, Kernel, Root
  <2>4. IsConfig(mc') /\ mc'.kernel = Kernel(input) /\ mc'.drives = <<Root(input)>>
    BY <2>2, <2>3 DEF BuildVMConfiguration, IsConfig
  <2>5. DrivesMade(input, phase', i') = 1
    BY <1>5, RankIs DEF DrivesMade, StubsMade, MountStubsMade, Goes, Turn
  <2>6. <<Root(input)>> = Firsts(D, 1)
    <3>1. D[1] = Root(input) BY InputIs DEF AllDrives, DriveOf, IndexInv
    <3> HIDE DEF D
    <3>2. Append(Firsts(D, 0), D[0 + 1]) = Firsts(D, 0 + 1) BY FirstsAppend
    <3>3. 0 + 1 = 1 /\ Append(<< >>, D[1]) = <<D[1]>> OBVIOUS
    <3> QED BY <3>1, <3>2, <3>3, FirstsNone
  <2> QED BY <2>4, <2>5, <2>6
<1>6. CASE phase \notin {"stubs", "mountStubs", "config", "over"} \/ phase # phase'
  <2>1. CASE phase = "config"
    BY <1>5, <2>1, RankIs DEF Turn, Goes
  <2>2. CASE phase # "config"
    <3>1. Rank[phase] >= 3 BY <2>2, RankIs DEF Turn
    <3>2. phase # "over" /\ DrivesMade(input, phase', i') = d
      BY <1>2, <1>6, <3>1, RankIs, MadeTurn DEF Goes
    <3>3. CASE phase = "nets"
      <4>1. AddNetworks BY <3>3, WhichAction DEF ActionOf
      <4>2. PICK x : mc' = [mc EXCEPT !.nets = x]
        BY <4>1, <1>2 DEF AddNetworks, Fail, FailAt, Goto
      <4>3. IsConfig(mc) BY <1>1, <3>1
      <4>4. IsConfig(mc') /\ mc'.drives = mc.drives /\ mc'.kernel = mc.kernel
        BY <4>2, <4>3, NetsWith
      <4> QED BY <1>1, <3>1, <3>2, <4>4
    <3>4. CASE phase = "machine"
      BY <1>1, <3>1, <3>2, <3>4, MachineStep
    <3>5. CASE phase \notin {"nets", "machine"}
      <4>1. mc' = mc \/ phase \in {"stubs", "mountStubs"} BY <2>2, <3>2, <3>5 DEF Kept
      <4>2. CASE mc' = mc BY <1>1, <3>1, <3>2, <4>2
      <4>3. CASE phase = "stubs"
        <5>1. CreateContainerStub BY <4>3, WhichAction DEF ActionOf
        <5>2. mc' = mc
          BY <1>2, <1>6, <4>3, <5>1
          DEF CreateContainerStub, Fail, FailAt, Goto, Again, configVars
        <5> QED BY <4>2, <5>2
      <4>4. CASE phase = "mountStubs"
        <5>1. CreateDriveMountStub BY <4>4, WhichAction DEF ActionOf
        <5>2. mc' = mc
          BY <1>2, <1>6, <4>4, <5>1
          DEF CreateDriveMountStub, Fail, FailAt, Goto, Again, configVars
        <5> QED BY <4>2, <5>2
      <4> QED BY <4>1, <4>2, <4>3, <4>4
    <3> QED BY <3>3, <3>4, <3>5
  <2> QED BY <2>1, <2>2
<1> QED BY <1>3, <1>4, <1>5, <1>6, RankIs DEF Turn, Goes

\* The files of the VMM and its drives are put into the jail.
LEMMA JailFilesStep ==
    ASSUME Next, Goes("jailFiles", "jailDrives")
    PROVE  /\ CanCopy(FirecrackerBinaryPath, InJail("firecracker"))
           /\ CanCopy(mCfg.kernel, InJail("kernel-image"))
           /\ files' = Over(Copied(FirecrackerBinaryPath, InJail("firecracker"), {"r", "x"}),
                            Over(Copied(mCfg.kernel, InJail("kernel-image"), {"r"}), files))
           /\ mCfg' = [mCfg EXCEPT !.kernel = <<"kernel-image">>]
<1>1. JailFiles BY WhichAction DEF ActionOf, Goes
<1> QED BY <1>1 DEF JailFiles, Fail, FailAt, Goto, Goes

\* A drive is copied into the jail unless it is a stub, and its path becomes its name.
LEMMA JailDriveStep ==
    ASSUME Next, Goes("jailDrives", "jailDrives")
    PROVE  LET drive == mCfg.drives[i]
               dst == InJail(Last(drive.path))
           IN  /\ i \in DOMAIN mCfg.drives /\ drive.path \in DOMAIN files
               /\ IsStubDrive(files[drive.path]) \/ CanCopy(drive.path, dst)
               /\ files' = IF IsStubDrive(files[drive.path]) THEN files
                           ELSE Over(Copied(drive.path, dst, {"r"} \cup
                                                (IF drive.writable THEN {"w"} ELSE {})),
                                     files)
               /\ mCfg' = [mCfg EXCEPT !.drives[i].path = <<Last(drive.path)>>]
<1>1. JailDrive BY WhichAction DEF ActionOf, Goes
<1> QED BY <1>1, Zenon DEF JailDrive, Fail, FailAt, Goto, Goes, LeaveStub, Again

\* A drive that is moved to its place in the jail.
LEMMA DriveIs ==
    ASSUME NEW in \in Inputs, NEW n \in 1..Total(in)
    PROVE  /\ LET d == DriveOf(in, n) IN
              /\ d.path = Source(in, n)
              /\ d.id = IF n = 1 THEN "root_drive" ELSE Name(in, n)
              /\ d.writable = IF n = 1 THEN Root(in).writable ELSE
                              IF n <= 1 + Count(in) THEN TRUE
                              ELSE MountOf(in, n - 1 - Count(in)).writable
              /\ d = [id |-> d.id, path |-> d.path, writable |-> d.writable,
                      limiter |-> d.limiter]
           /\ LET d == DriveInJail(in, n) IN
              /\ d.path = <<Name(in, n)>> /\ d.id = DriveOf(in, n).id
              /\ d.writable = DriveOf(in, n).writable
<1> DEFINE d == DriveOf(in, n)
<1>1. /\ d.path = Source(in, n)
      /\ d.id = IF n = 1 THEN "root_drive" ELSE Name(in, n)
      /\ d.writable = IF n = 1 THEN Root(in).writable ELSE
                      IF n <= 1 + Count(in) THEN TRUE
                      ELSE MountOf(in, n - 1 - Count(in)).writable
      /\ d = [id |-> d.id, path |-> d.path, writable |-> d.writable, limiter |-> d.limiter]
  <2>1. CASE n = 1
    <3>1. d = Root(in) BY <2>1 DEF DriveOf
    <3>2. /\ Root(in) = [id |-> Root(in).id, path |-> Root(in).path,
                         writable |-> Root(in).writable, limiter |-> Root(in).limiter]
          /\ Root(in).id = "root_drive"
      BY DEF Root, RootDrive, Drive
    <3> HIDE DEF d
    <3> QED BY <2>1, <3>1, <3>2 DEF Source
  <2>2. CASE n # 1 /\ n <= 1 + Count(in)
    BY <2>2 DEF DriveOf, Drive
  <2>3. CASE n # 1 /\ ~(n <= 1 + Count(in))
    BY <2>3 DEF DriveOf, Drive
  <2> QED BY <2>1, <2>2, <2>3
<1> HIDE DEF d
<1>2. DriveInJail(in, n) = [d EXCEPT !.path = <<Name(in, n)>>] BY DEF DriveInJail, d
<1> QED BY <1>1, <1>2 DEF d

\* The drives in the jail up to one, and up to the next.
LEMMA DrivesTo ==
    ASSUME NEW in \in Inputs, NEW k \in 1..Total(in)
    PROVE  /\ DrivesAt(in, k)[k] = DriveOf(in, k)
           /\ [DrivesAt(in, k) EXCEPT ![k].path = <<Name(in, k)>>] = DrivesAt(in, k + 1)
<1> DEFINE ds == DrivesAt(in, k)
<1>1. Total(in) \in Nat BY InputIs
<1>2. ds[k] = DriveOf(in, k) BY <1>1 DEF DrivesAt
<1>3. [ds EXCEPT ![k].path = <<Name(in, k)>>] = [ds EXCEPT ![k] = DriveInJail(in, k)]
  BY <1>2 DEF DriveInJail
<1>4. \A n \in 1..Total(in) : n < k + 1 <=> n < k \/ n = k BY <1>1
<1>5. [ds EXCEPT ![k] = DriveInJail(in, k)] = DrivesAt(in, k + 1)
  BY <1>1, <1>4 DEF DrivesAt
<1> QED BY <1>2, <1>3, <1>5

\* The drives that are in the jail, from phase to phase.
LEMMA JailedTurn ==
    ASSUME NEW in, NEW ph, NEW k, NEW ph2, NEW k2, IndexInv(in, ph, k),
           Turn(in, ph, k, ph2, k2), Rank[ph2] >= 7
    PROVE  IF ph = "jailDrives" /\ ph2 = "jailDrives"
           THEN /\ k \in 1..Total(in) /\ JailedBy(in) /\ JailedTo(in, ph, k) = k
                /\ JailedTo(in, ph2, k2) = k + 1
           ELSE /\ JailedTo(in, ph2, k2) = JailedTo(in, ph, k)
                /\ Rank[ph] >= 7 \/ JailedTo(in, ph2, k2) = 1
<1>1. in \in Inputs /\ k \in Nat \ {0} BY DEF IndexInv
<1>2. /\ Count(in) \in Nat \ {0} /\ MountCount(in) \in Nat /\ Total(in) \in Nat
      /\ Total(in) = 1 + Count(in) + MountCount(in)
  BY <1>1, InputIs
<1> QED BY <1>1, <1>2, RankIs DEF JailedTo, IndexInv, Turn

\* The configuration of the VMM.
LEMMA VmmConfigStep ==
    ASSUME Next, IndexInv(input, phase, i), ConfigInv(input, phase, i, mc),
           VmmConfigInv(input, phase, i, mCfg),
           Turn(input, phase, i, phase', i'), input' = input, Kept
    PROVE  VmmConfigInv(input', phase', i', mCfg')
<1> SUFFICES ASSUME Rank[phase'] >= 7
             PROVE  /\ IsConfig(mCfg')
                    /\ mCfg'.kernel = IF JailedBy(input) /\ Rank[phase'] >= 9
                                      THEN <<"kernel-image">> ELSE Kernel(input)
                    /\ mCfg'.drives = DrivesAt(input, JailedTo(input, phase', i'))
  BY DEF VmmConfigInv
<1>1. input \in Inputs BY DEF IndexInv
<1>2. Rank[phase] >= 7 =>
          /\ IsConfig(mCfg)
          /\ mCfg.kernel = IF JailedBy(input) /\ Rank[phase] >= 9
                           THEN <<"kernel-image">> ELSE Kernel(input)
          /\ mCfg.drives = DrivesAt(input, JailedTo(input, phase, i))
  BY DEF VmmConfigInv
<1>3. CASE phase = "machine"
  <2>1. IsConfig(mc) /\ mc.kernel = Kernel(input)
        /\ mc.drives = Firsts(AllDrives(input), DrivesMade(input, phase, i))
    BY <1>3, RankIs DEF ConfigInv
  <2>2. DrivesMade(input, phase, i) = Total(input)
    BY <1>1, <1>3, RankIs, InputIs DEF DrivesMade, StubsMade, MountStubsMade, Total
  <2>3. IsConfig(mCfg') /\ mCfg'.drives = mc.drives /\ mCfg'.kernel = mc.kernel
    BY <1>3, <2>1, MachineStep
  <2>4. JailedTo(input, phase', i') = 1 BY <1>3, JailedTurn, RankIs
  <2>5. Firsts(AllDrives(input), Total(input)) = DrivesAt(input, 1)
    <3>1. \A n \in 1..Total(input) : ~(n < 1) BY <1>1, InputIs
    <3> QED BY <3>1 DEF Firsts, AllDrives, DrivesAt
  <2>6. ~(JailedBy(input) /\ Rank[phase'] >= 9) BY <1>3, RankIs DEF Turn
  <2> QED BY <2>1, <2>2, <2>3, <2>4, <2>5, <2>6
<1>4. CASE Goes("jailFiles", "jailDrives")
  <2>1. mCfg' = [mCfg EXCEPT !.kernel = <<"kernel-image">>] BY <1>4, JailFilesStep
  <2>2. IsConfig(mCfg) /\ mCfg.drives = DrivesAt(input, JailedTo(input, phase, i))
    BY <1>2, <1>4, RankIs DEF Goes
  <2>3. JailedTo(input, phase', i') = JailedTo(input, phase, i)
    BY <1>4, JailedTurn, RankIs DEF Goes
  <2>4. JailedBy(input) /\ Rank[phase'] = 9 BY <1>4, RankIs DEF Goes, IndexInv
  <2>5. IsConfig(mCfg') /\ mCfg'.drives = mCfg.drives /\ mCfg'.kernel = <<"kernel-image">>
    BY <2>1, <2>2, KernelWith
  <2> QED BY <2>2, <2>3, <2>4, <2>5
<1>5. CASE Goes("jailDrives", "jailDrives")
  <2>1. /\ i \in 1..Total(input) /\ JailedBy(input) /\ JailedTo(input, phase, i) = i
        /\ JailedTo(input, phase', i') = i + 1
    BY <1>5, JailedTurn DEF Goes
  <2>9. Rank[phase] = 9 /\ Rank[phase'] = 9 BY <1>5, RankIs DEF Goes
  <2>2. IsConfig(mCfg) /\ mCfg.kernel = <<"kernel-image">> /\ mCfg.drives = DrivesAt(input, i)
    <3> QED BY <1>2, <2>1, <2>9
  <2>3. /\ mCfg.drives[i] = DriveOf(input, i)
        /\ [mCfg.drives EXCEPT ![i].path = <<Name(input, i)>>] = DrivesAt(input, i + 1)
    <3>1. DrivesAt(input, i)[i] = DriveOf(input, i) BY <1>1, <2>1, DrivesTo
    <3>2. [DrivesAt(input, i) EXCEPT ![i].path = <<Name(input, i)>>] = DrivesAt(input, i + 1)
      BY <1>1, <2>1, DrivesTo
    <3> QED BY <2>2, <3>1, <3>2
  <2>4. Last(mCfg.drives[i].path) = Name(input, i)
    <3>1. DriveOf(input, i).path = Source(input, i) BY <1>1, <2>1, DriveIs
    <3>2. Last(Source(input, i)) = Name(input, i) BY <1>1, <2>1, SourceIs
    <3> QED BY <2>3, <3>1, <3>2
  <2>5. mCfg' = [mCfg EXCEPT !.drives[i].path = <<Name(input, i)>>]
    BY <1>5, <2>4, JailDriveStep
  <2>6. [mCfg EXCEPT !.drives[i].path = <<Name(input, i)>>]
            = [mCfg EXCEPT !.drives = [mCfg.drives EXCEPT ![i].path = <<Name(input, i)>>]]
    OBVIOUS
  <2>7. mCfg' = [mCfg EXCEPT !.drives = DrivesAt(input, i + 1)] BY <2>3, <2>5, <2>6
  <2>8. IsConfig(mCfg') /\ mCfg'.drives = DrivesAt(input, i + 1) /\ mCfg'.kernel = mCfg.kernel
    BY <2>2, <2>7, DrivesWith
  <2> QED BY <2>1, <2>2, <2>8, <2>9
<1>6. CASE phase \notin {"machine", "jailFiles"} /\ ~Goes("jailDrives", "jailDrives")
  <2>1. Rank[phase] >= 7 /\ (Rank[phase'] >= 9 <=> Rank[phase] >= 9)
    BY <1>6, RankIs DEF Turn
  <2>2. JailedTo(input, phase', i') = JailedTo(input, phase, i) BY <1>6, JailedTurn DEF Goes
  <2>3. mCfg' = mCfg
    <3>1. CASE phase = "jailDrives"
      <4>1. JailDrive BY <3>1, WhichAction DEF ActionOf
      <4>2. phase' # "jailDrives" /\ phase' # "failed" BY <1>6, <3>1, RankIs DEF Goes
      <4> QED BY <4>1, <4>2 DEF JailDrive, Fail, FailAt, Goto, Again, configVars
    <3>2. CASE phase # "jailDrives"
      <4>1. phase # "over" BY <2>1, RankIs
      <4> QED BY <1>6, <3>2, <4>1 DEF Kept
    <3> QED BY <3>1, <3>2
  <2> QED BY <1>2, <2>1, <2>2, <2>3
<1>7. phase = "jailFiles" => Goes("jailFiles", "jailDrives") BY RankIs DEF Turn, Goes
<1> QED BY <1>3, <1>4, <1>5, <1>6, <1>7

\* The user and the network namespace of the jail.
LEMMA OciStep ==
    ASSUME Next, IndexInv(input, phase, i), VmmConfigInv(input, phase, i, mCfg),
           OciInv(input, phase, mCfg, oci),
           Turn(input, phase, i, phase', i'), input' = input, Kept
    PROVE  OciInv(input', phase', mCfg', oci')
<1> SUFFICES ASSUME Rank[phase'] >= 8, JailedBy(input)
             PROVE  /\ oci'.uid = User(input)
                    /\ mCfg'.netns # "" /\ Runc(input).netns # None => oci'.netns = mCfg'.netns
  BY DEF OciInv
<1>1. CASE Goes("jailConfig", "jailFiles")
  <2>1. WriteOCIConfig BY <1>1, WhichAction DEF ActionOf, Goes
  <2>2. oci' = OverwriteConfig /\ mCfg' = mCfg
    BY <1>1, <2>1 DEF WriteOCIConfig, Fail, FailAt, Goto, Goes
  <2> QED BY <2>2, Bridge DEF OverwriteConfig
<1>2. CASE phase # "jailConfig"
  <2>1. Rank[phase] >= 8 BY <1>2, RankIs DEF Turn
  <2>2. phase # "over" /\ phase # "machine" BY <2>1, RankIs
  <2>3. oci' = oci BY <1>2, <2>2 DEF Kept
  <2>4. IsConfig(mCfg)
    <3>1. Rank[phase] >= 7 BY <2>1, RankIs DEF IndexInv
    <3> QED BY <3>1 DEF VmmConfigInv
  <2>5. mCfg'.netns = mCfg.netns
    <3>1. CASE Goes("jailFiles", "jailDrives")
      <4>1. mCfg' = [mCfg EXCEPT !.kernel = <<"kernel-image">>] BY <3>1, JailFilesStep
      <4> QED BY <2>4, <4>1, KernelWith
    <3>2. CASE Goes("jailDrives", "jailDrives")
      <4>1. PICK x : mCfg' = [mCfg EXCEPT !.drives[i].path = x] BY <3>2, JailDriveStep
      <4>2. [mCfg EXCEPT !.drives[i].path = x]
                = [mCfg EXCEPT !.drives = [mCfg.drives EXCEPT ![i].path = x]]
        OBVIOUS
      <4>3. mCfg' = [mCfg EXCEPT !.drives = [mCfg.drives EXCEPT ![i].path = x]]
        BY <4>1, <4>2
      <4> QED BY <2>4, <4>3, DrivesWith
    <3>3. CASE phase \notin {"jailFiles", "jailDrives"}
      BY <2>2, <3>3 DEF Kept
    <3>4. CASE phase = "jailDrives" /\ phase' # "jailDrives"
      <4>1. JailDrive BY <3>4, WhichAction DEF ActionOf
      <4> QED BY <3>4, <4>1 DEF JailDrive, Fail, FailAt, Goto, Again, configVars
    <3>5. phase = "jailFiles" => Goes("jailFiles", "jailDrives") BY RankIs DEF Turn, Goes
    <3> QED BY <3>1, <3>2, <3>3, <3>4, <3>5 DEF Goes
  <2> QED BY <2>1, <2>3, <2>5 DEF OciInv
<1>3. phase = "jailConfig" => Goes("jailConfig", "jailFiles") BY RankIs DEF Turn, Goes
<1> QED BY <1>1, <1>2, <1>3

-----------------------------------------------------------------------------
(* Paths below a directory.                                                *)

\* One name more.
LEMMA Added ==
    ASSUME NEW p \in HostPath, NEW x \in Texts
    PROVE  /\ Append(p, x) \in HostPath /\ Len(Append(p, x)) = Len(p) + 1
           /\ Last(Append(p, x)) = x /\ Append(p, x) = p \o <<x>> /\ <<x>> \in HostPath
           /\ Append(p, x)[Len(p) + 1] = x /\ \A n \in 1..Len(p) : Append(p, x)[n] = p[n]
BY HostPaths

\* What is below the directories of a VM.
LEMMA BelowIs ==
    ASSUME NEW p \in HostPath
    PROVE  /\ Below(VmDir, p) <=> Len(p) >= 2 /\ p[1] = "run" /\ p[2] = "vm"
           /\ Below(JailRoot, p) <=>
                  Len(p) >= 3 /\ p[1] = "run" /\ p[2] = "vm" /\ p[3] = "rootfs"
<1>1. p \in Seq(Texts) /\ Len(p) \in Nat BY DEF HostPath
<1>2. ASSUME NEW n \in 1..Len(p)
      PROVE  /\ SubSeq(p, 1, n) \in Seq(Texts) /\ Len(SubSeq(p, 1, n)) = n
             /\ \A k \in 1..n : SubSeq(p, 1, n)[k] = p[k]
  <2>1. n \in 0..Len(p) /\ n - 1 + 1 = n /\ 1 \in Nat \ {0} BY <1>1
  <2>2. /\ SubSeq(p, 1, n) \in Seq(Texts)
        /\ Len(SubSeq(p, 1, n)) = IF 1 <= n THEN n - 1 + 1 ELSE 0
        /\ \A k \in 1..(n - 1 + 1) : SubSeq(p, 1, n)[k] = p[1 + k - 1]
    BY <1>1, <2>1, PartOfSeq
  <2> QED BY <2>1, <2>2
<1>3. ASSUME NEW d \in HostPath, Len(d) \in 1..Len(p)
      PROVE  SubSeq(p, 1, Len(d)) = d <=> \A k \in 1..Len(d) : p[k] = d[k]
  <2> DEFINE q == SubSeq(p, 1, Len(d))
  <2>1. q \in Seq(Texts) /\ Len(q) = Len(d) /\ \A k \in 1..Len(d) : q[k] = p[k]
    BY <1>2, <1>3
  <2>2. d \in Seq(Texts) BY DEF HostPath
  <2> HIDE DEF q
  <2>3. (\A k \in 1..Len(q) : q[k] = d[k]) => q = d BY <2>1, <2>2, SeqEqual
  <2>4. q = d <=> \A k \in 1..Len(d) : p[k] = d[k] BY <2>1, <2>3
  <2> QED BY <2>4 DEF q
<1>10. ASSUME NEW d \in HostPath, Len(d) \in Nat \ {0}
       PROVE  Below(d, p) <=> Len(p) >= Len(d) /\ \A k \in 1..Len(d) : p[k] = d[k]
  <2>1. CASE Len(p) >= Len(d)
    <3>1. Len(d) \in 1..Len(p) BY <1>1, <1>10, <2>1
    <3> QED BY <1>3, <1>10, <2>1, <3>1 DEF Below
  <2>2. CASE ~(Len(p) >= Len(d))
    BY <1>10, <2>2 DEF Below
  <2> QED BY <2>1, <2>2
<1>4. Below(VmDir, p) <=> Len(p) >= 2 /\ \A k \in 1..2 : p[k] = VmDir[k]
  <2>1. VmDir \in HostPath /\ Len(VmDir) = 2 /\ Len(VmDir) \in Nat \ {0} BY RootsArePaths
  <2>2. Below(VmDir, p) <=> Len(p) >= Len(VmDir) /\ \A k \in 1..Len(VmDir) : p[k] = VmDir[k]
    BY <1>10, <2>1
  <2> QED BY <2>1, <2>2
<1>5. Below(JailRoot, p) <=> Len(p) >= 3 /\ \A k \in 1..3 : p[k] = JailRoot[k]
  <2>1. JailRoot \in HostPath /\ Len(JailRoot) = 3 /\ Len(JailRoot) \in Nat \ {0}
    BY RootsArePaths
  <2>2. Below(JailRoot, p)
            <=> Len(p) >= Len(JailRoot) /\ \A k \in 1..Len(JailRoot) : p[k] = JailRoot[k]
    BY <1>10, <2>1
  <2> QED BY <2>1, <2>2
<1>6. \A k \in 1..2 : k = 1 \/ k = 2 OBVIOUS
<1>7. \A k \in 1..3 : k = 1 \/ k = 2 \/ k = 3 OBVIOUS
<1>8. (\A k \in 1..2 : p[k] = VmDir[k]) <=> p[1] = "run" /\ p[2] = "vm"
  BY <1>6, RootsArePaths
<1>9. (\A k \in 1..3 : p[k] = JailRoot[k]) <=> p[1] = "run" /\ p[2] = "vm" /\ p[3] = "rootfs"
  BY <1>7, RootsArePaths
<1> QED BY <1>4, <1>5, <1>8, <1>9

\* The files in the two directories.
LEMMA InVmDir ==
    ASSUME NEW x \in Texts
    PROVE  /\ Append(VmDir, x) \in HostPath /\ Len(Append(VmDir, x)) = 3
           /\ Append(VmDir, x)[3] = x /\ Last(Append(VmDir, x)) = x
           /\ Below(VmDir, Append(VmDir, x))
           /\ Below(JailRoot, Append(VmDir, x)) <=> x = "rootfs"
<1> DEFINE p == Append(VmDir, x)
<1>1. /\ p \in HostPath /\ Len(p) = 3 /\ Last(p) = x /\ p[3] = x
      /\ \A n \in 1..2 : p[n] = VmDir[n]
  <2>1. VmDir \in HostPath /\ Len(VmDir) = 2 BY RootsArePaths
  <2>2. /\ p \in HostPath /\ Len(p) = Len(VmDir) + 1 /\ Last(p) = x /\ p[Len(VmDir) + 1] = x
        /\ \A n \in 1..Len(VmDir) : p[n] = VmDir[n]
    BY <2>1, Added
  <2> HIDE DEF p
  <2> QED BY <2>1, <2>2
<1> HIDE DEF p
<1>2. p[1] = "run" /\ p[2] = "vm" BY <1>1, RootsArePaths
<1>3. Below(VmDir, p) /\ (Below(JailRoot, p) <=> x = "rootfs") BY <1>1, <1>2, BelowIs
<1> QED BY <1>1, <1>3 DEF p

\* A name in the jail is a path below the jail's root.
LEMMA InJailIs ==
    ASSUME NEW x \in Texts
    PROVE  /\ InJail(x) \in HostPath /\ Len(InJail(x)) = 4 /\ InJail(x)[4] = x
           /\ Below(VmDir, InJail(x)) /\ Below(JailRoot, InJail(x))
           /\ InJail(x) = JailRoot \o <<x>> /\ <<x>> \in HostPath /\ Last(InJail(x)) = x
<1> DEFINE p == Append(JailRoot, x)
<1>1. /\ p \in HostPath /\ Len(p) = 4 /\ p[4] = x /\ Last(p) = x
      /\ p = JailRoot \o <<x>> /\ <<x>> \in HostPath
      /\ \A n \in 1..3 : p[n] = JailRoot[n]
  <2>1. JailRoot \in HostPath /\ Len(JailRoot) = 3 BY RootsArePaths
  <2>2. /\ p \in HostPath /\ Len(p) = Len(JailRoot) + 1 /\ Last(p) = x
        /\ p[Len(JailRoot) + 1] = x /\ p = JailRoot \o <<x>> /\ <<x>> \in HostPath
        /\ \A n \in 1..Len(JailRoot) : p[n] = JailRoot[n]
    BY <2>1, Added
  <2> HIDE DEF p
  <2> QED BY <2>1, <2>2
<1> HIDE DEF p
<1>2. p[1] = "run" /\ p[2] = "vm" /\ p[3] = "rootfs" BY <1>1, RootsArePaths
<1>3. p \in HostPath /\ Len(p) >= 2 /\ Len(p) >= 3 BY <1>1
<1>4. Below(VmDir, p) /\ Below(JailRoot, p) BY <1>2, <1>3, BelowIs
<1> QED BY <1>1, <1>4 DEF p, InJail

\* What the VMM in the jail sees as h.
LEMMA JailRooted ==
    ASSUME NEW h \in HostPath
    PROVE  /\ JailRoot \o h \in HostPath /\ Len(JailRoot \o h) = 3 + Len(h)
           /\ Below(VmDir, JailRoot \o h) /\ Below(JailRoot, JailRoot \o h)
           /\ \A n \in 1..Len(h) : (JailRoot \o h)[3 + n] = h[n]
           /\ JailRoot \o h = JailRoot <=> h = << >>
           /\ \A g \in HostPath : JailRoot \o g = JailRoot \o h => g = h
<1> DEFINE q(g) == JailRoot \o g
<1>1. JailRoot \in Seq(Texts) /\ h \in Seq(Texts) /\ Len(h) \in Nat /\ Len(JailRoot) = 3
  BY RootsArePaths DEF HostPath
<1>2. ASSUME NEW g \in Seq(Texts)
      PROVE  /\ q(g) \in Seq(Texts) /\ Len(q(g)) = 3 + Len(g) /\ Len(g) \in Nat
             /\ \A n \in 1..3 : q(g)[n] = JailRoot[n]
             /\ \A n \in 1..Len(g) : q(g)[3 + n] = g[n]
  <2>1. /\ q(g) \in Seq(Texts) /\ Len(q(g)) = 3 + Len(g) /\ Len(g) \in Nat
        /\ \A n \in 1..(3 + Len(g)) : q(g)[n] = IF n <= 3 THEN JailRoot[n] ELSE g[n - 3]
    <3>1. /\ q(g) \in Seq(Texts) /\ Len(q(g)) = Len(JailRoot) + Len(g) /\ Len(g) \in Nat
          /\ \A n \in 1..(Len(JailRoot) + Len(g)) :
                 q(g)[n] = IF n <= Len(JailRoot) THEN JailRoot[n] ELSE g[n - Len(JailRoot)]
      <4>1. /\ JailRoot \o g \in Seq(Texts) /\ Len(JailRoot \o g) = Len(JailRoot) + Len(g)
            /\ \A n \in 1..(Len(JailRoot) + Len(g)) :
                   (JailRoot \o g)[n] = IF n <= Len(JailRoot) THEN JailRoot[n]
                                        ELSE g[n - Len(JailRoot)]
        BY <1>1, ConcatProperties
      <4> QED BY <4>1, LenProperties
    <3> HIDE DEF q
    <3> QED BY <1>1, <3>1
  <2>2. \A n \in 1..3 : n \in 1..(3 + Len(g)) BY <2>1
  <2>3. \A n \in 1..Len(g) : 3 + n \in 1..(3 + Len(g)) /\ ~(3 + n <= 3) /\ (3 + n) - 3 = n
    BY <2>1
  <2> HIDE DEF q
  <2> QED BY <2>1, <2>2, <2>3
<1>3. Below(VmDir, q(h)) /\ Below(JailRoot, q(h))
  <2>1. /\ q(h) \in HostPath /\ Len(q(h)) >= 3
        /\ \A n \in 1..3 : q(h)[n] = JailRoot[n]
    BY <1>1, <1>2 DEF HostPath
  <2> HIDE DEF q
  <2>2. q(h)[1] = "run" /\ q(h)[2] = "vm" /\ q(h)[3] = "rootfs" BY <2>1, RootsArePaths
  <2> QED BY <2>1, <2>2, BelowIs
<1> HIDE DEF q
<1>4. ASSUME NEW g \in HostPath, q(g) = q(h) PROVE g = h
  <2>1. g \in Seq(Texts) BY DEF HostPath
  <2>2. Len(g) = Len(h) BY <1>1, <1>2, <1>4, <2>1
  <2>4. /\ \A n \in 1..Len(g) : q(g)[3 + n] = g[n]
        /\ \A n \in 1..Len(h) : q(h)[3 + n] = h[n]
    BY <1>1, <1>2, <2>1
  <2>3. \A n \in 1..Len(g) : g[n] = h[n] BY <1>4, <2>2, <2>4
  <2> QED BY <1>1, <2>1, <2>2, <2>3, SeqEqual
<1>5. q(h) = JailRoot <=> h = << >>
  <2>1. << >> \in HostPath BY HostPaths
  <2>2. q(<< >>) = JailRoot BY <1>1, ConcatEmptySeq DEF q
  <2> QED BY <1>4, <2>1, <2>2
<1> QED BY <1>1, <1>2, <1>3, <1>4, <1>5 DEF q, HostPath

-----------------------------------------------------------------------------
(* What is written to the files.                                           *)

\* The directories above a file in the jail.
LEMMA JailedParts ==
    ASSUME NEW h \in HostPath, NEW l \in 0..Len(h)
    PROVE  /\ SubSeq(JailRoot \o h, 1, 3 + l) = JailRoot \o SubSeq(h, 1, l)
           /\ SubSeq(h, 1, l) \in HostPath /\ Len(SubSeq(h, 1, l)) = l
           /\ SubSeq(h, 1, Len(h)) = h
<1> DEFINE q == JailRoot \o h
           s == SubSeq(h, 1, l)
           r == JailRoot \o s
           t == SubSeq(q, 1, 3 + l)
<1>1. h \in Seq(Texts) /\ Len(h) \in Nat /\ JailRoot \in Seq(Texts) /\ Len(JailRoot) = 3
  BY RootsArePaths DEF HostPath
<1>2. ASSUME NEW m \in 0..Len(h)
      PROVE  /\ SubSeq(h, 1, m) \in Seq(Texts) /\ Len(SubSeq(h, 1, m)) = m
             /\ \A k \in 1..m : SubSeq(h, 1, m)[k] = h[k]
  <2>1. 1 \in Nat \ {0} /\ m - 1 + 1 = m /\ (m = 0 \/ 1 <= m) BY <1>1
  <2>2. /\ SubSeq(h, 1, m) \in Seq(Texts)
        /\ Len(SubSeq(h, 1, m)) = IF 1 <= m THEN m - 1 + 1 ELSE 0
        /\ \A k \in 1..(m - 1 + 1) : SubSeq(h, 1, m)[k] = h[1 + k - 1]
    BY <1>1, <2>1, PartOfSeq
  <2> QED BY <2>1, <2>2
<1>3. s \in Seq(Texts) /\ Len(s) = l /\ \A k \in 1..l : s[k] = h[k] BY <1>2
<1>4. SubSeq(h, 1, Len(h)) = h
  <2>1. Len(h) \in 0..Len(h) BY <1>1
  <2> DEFINE u == SubSeq(h, 1, Len(h))
  <2>2. u \in Seq(Texts) /\ Len(u) = Len(h) /\ \A k \in 1..Len(u) : u[k] = h[k]
    BY <1>2, <2>1
  <2> HIDE DEF u
  <2>3. u = h BY <1>1, <2>2, SeqEqual
  <2> QED BY <2>3 DEF u
<1>5. /\ q \in Seq(Texts) /\ Len(q) = 3 + Len(h)
      /\ \A n \in 1..(3 + Len(h)) : q[n] = IF n <= 3 THEN JailRoot[n] ELSE h[n - 3]
  <2>1. /\ q \in Seq(Texts) /\ Len(q) = Len(JailRoot) + Len(h)
        /\ \A n \in 1..(Len(JailRoot) + Len(h)) :
               q[n] = IF n <= Len(JailRoot) THEN JailRoot[n] ELSE h[n - Len(JailRoot)]
    BY <1>1, ConcatProperties
  <2> HIDE DEF q
  <2> QED BY <1>1, <2>1
<1> HIDE DEF s
<1>6. /\ r \in Seq(Texts) /\ Len(r) = 3 + l
      /\ \A n \in 1..(3 + l) : r[n] = IF n <= 3 THEN JailRoot[n] ELSE s[n - 3]
  <2>1. /\ r \in Seq(Texts) /\ Len(r) = Len(JailRoot) + Len(s)
        /\ \A n \in 1..(Len(JailRoot) + Len(s)) :
               r[n] = IF n <= Len(JailRoot) THEN JailRoot[n] ELSE s[n - Len(JailRoot)]
    BY <1>1, <1>3, ConcatProperties
  <2> HIDE DEF r
  <2> QED BY <1>1, <1>3, <2>1
<1> HIDE DEF q, r
<1>7. t \in Seq(Texts) /\ Len(t) = 3 + l /\ \A n \in 1..(3 + l) : t[n] = q[n]
  <2>1. 1 \in Nat \ {0} /\ (3 + l) \in 0..Len(q) /\ 3 + l - 1 + 1 = 3 + l /\ 1 <= 3 + l
    BY <1>1, <1>5
  <2>2. /\ SubSeq(q, 1, 3 + l) \in Seq(Texts)
        /\ Len(SubSeq(q, 1, 3 + l)) = IF 1 <= 3 + l THEN 3 + l - 1 + 1 ELSE 0
        /\ \A k \in 1..(3 + l - 1 + 1) : SubSeq(q, 1, 3 + l)[k] = q[1 + k - 1]
    BY <1>5, <2>1, PartOfSeq
  <2> QED BY <2>1, <2>2
<1> HIDE DEF t
<1>8. ASSUME NEW n \in 1..(3 + l) PROVE t[n] = r[n]
  <2>1. n \in 1..(3 + Len(h)) /\ (n <= 3 \/ n - 3 \in 1..l) BY <1>1
  <2>2. t[n] = q[n] /\ q[n] = IF n <= 3 THEN JailRoot[n] ELSE h[n - 3] BY <1>5, <1>7, <2>1
  <2>3. r[n] = IF n <= 3 THEN JailRoot[n] ELSE s[n - 3] BY <1>6
  <2> QED BY <1>3, <2>1, <2>2, <2>3
<1>9. t = r BY <1>6, <1>7, <1>8, SeqEqual
<1> QED BY <1>3, <1>4, <1>9 DEF q, r, s, t, HostPath

-----------------------------------------------------------------------------
\* What the shim writes.
IsNew(in, p, file) ==
    /\ p \in HostPath /\ Below(VmDir, p) /\ IsFile(file)
    /\ JailedBy(in) /\ Below(JailRoot, p) => file.owner = User(in)
    /\ ~JailedBy(in) /\ Below(JailRoot, p) => p = JailRoot

Written(in, ph, k, new) ==
    \A p \in DOMAIN new : IsNew(in, p, new[p]) /\ MadeAt(in, ph, k, p)

\* Files put over others hide those of the same paths only.
LEMMA OverIs ==
    ASSUME NEW new, NEW old
    PROVE  /\ DOMAIN Over(new, old) = DOMAIN new \cup DOMAIN old
           /\ \A x \in DOMAIN new : Over(new, old)[x] = new[x]
           /\ \A x \in DOMAIN old : x \notin DOMAIN new => Over(new, old)[x] = old[x]
BY DEF Over

\* A path of the upper files has its upper file.
LEMMA InOver ==
    ASSUME NEW new, NEW old, NEW x \in DOMAIN new
    PROVE  x \in DOMAIN Over(new, old) /\ Over(new, old)[x] = new[x]
BY DEF Over

\* A path of the lower files alone has its lower file.
LEMMA NotInOver ==
    ASSUME NEW new, NEW old, NEW x \in DOMAIN old, x \notin DOMAIN new
    PROVE  x \in DOMAIN Over(new, old) /\ Over(new, old)[x] = old[x]
BY DEF Over

\* A file of a path of its own.
LEMMA OnlyIs ==
    ASSUME NEW x, NEW val
    PROVE  DOMAIN Only(x, val) = {x} /\ Only(x, val)[x] = val
BY DEF Only

\* One file is written.
LEMMA OneWritten ==
    ASSUME NEW in, NEW ph, NEW k, NEW p, NEW file, IsNew(in, p, file), MadeAt(in, ph, k, p)
    PROVE  Written(in, ph, k, Only(p, file))
<1> SUFFICES ASSUME NEW q \in DOMAIN Only(p, file)
             PROVE  IsNew(in, q, Only(p, file)[q]) /\ MadeAt(in, ph, k, q)
  BY DEF Written
<1>1. q = p BY OnlyIs
<1>2. Only(p, file)[q] = file BY <1>1, OnlyIs
<1> QED BY <1>1, <1>2

\* First one function is written over another, then that one.
LEMMA WrittenOver ==
    ASSUME NEW in, NEW ph, NEW k, NEW a, NEW b, NEW old,
           Written(in, ph, k, a), Written(in, ph, k, b)
    PROVE  /\ Over(a, Over(b, old)) = Over(Over(a, b), old)
           /\ Written(in, ph, k, Over(a, b))
<1>1. Over(a, Over(b, old)) = Over(Over(a, b), old) BY DEF Over
<1>2. Written(in, ph, k, Over(a, b))
  <2> SUFFICES ASSUME NEW p \in DOMAIN Over(a, b)
               PROVE  IsNew(in, p, Over(a, b)[p]) /\ MadeAt(in, ph, k, p)
    BY DEF Written
  <2>1. CASE p \in DOMAIN a BY <2>1, OverIs DEF Written
  <2>2. CASE p \notin DOMAIN a
    <3>2. DOMAIN Over(a, b) = DOMAIN a \cup DOMAIN b BY OverIs
    <3>3. p \in DOMAIN b BY <2>2, <3>2
    <3>4. \A x \in DOMAIN b : x \notin DOMAIN a => Over(a, b)[x] = b[x] BY OverIs
    <3>1. p \in DOMAIN b /\ Over(a, b)[p] = b[p] BY <2>2, <3>3, <3>4
    <3> QED BY <3>1 DEF Written
  <2> QED BY <2>1, <2>2
<1> QED BY <1>1, <1>2

\* A file made by File, and one made from another.
LEMMA FileIs ==
    ASSUME NEW kind, NEW content, NEW owner, NEW modes
    PROVE  LET f == File(kind, content, owner, modes)
           IN  /\ IsFile(f) /\ f.owner = owner /\ f.kind = kind /\ f.content = content
               /\ f.modes = modes /\ f.sectors = 1
BY DEF File, IsFile

SizedFile(kind, content, owner, modes, s) ==
    [File(kind, content, owner, modes) EXCEPT !.sectors = s]

\* The fields of a file.
LEMMA SizedFileIs ==
    ASSUME NEW kind, NEW content, NEW owner, NEW modes, NEW s
    PROVE  LET f == SizedFile(kind, content, owner, modes, s)
           IN  /\ IsFile(f) /\ f.owner = owner /\ f.kind = kind /\ f.content = content
               /\ f.modes = modes /\ f.sectors = s
BY DEF File, IsFile, SizedFile

CopiedFile(file, o, m) == [file EXCEPT !.kind = "reg", !.owner = o, !.modes = m]
ExposedFile(file, o, m) == [file EXCEPT !.owner = o, !.modes = m]

\* A copy and an exposed file keep the content and the size, not the owner and the modes.
LEMMA CopyIs ==
    ASSUME NEW file, IsFile(file), NEW o, NEW m
    PROVE  /\ LET f == CopiedFile(file, o, m)
              IN  /\ IsFile(f) /\ f.owner = o /\ f.kind = "reg" /\ f.content = file.content
                  /\ f.modes = m /\ f.sectors = file.sectors
           /\ LET f == ExposedFile(file, o, m)
              IN  /\ IsFile(f) /\ f.owner = o /\ f.kind = file.kind /\ f.content = file.content
                  /\ f.modes = m /\ f.sectors = file.sectors
<1> DEFINE a == [file EXCEPT !.kind = "reg"]
           b == [a EXCEPT !.owner = o]
           c == [b EXCEPT !.modes = m]
           d == [file EXCEPT !.owner = o]
           e == [d EXCEPT !.modes = m]
<1>4. c = [file EXCEPT !.kind = "reg", !.owner = o, !.modes = m] OBVIOUS
<1>5. e = [file EXCEPT !.owner = o, !.modes = m] OBVIOUS
<1> HIDE DEF a, b, c, d, e
<1>6. /\ IsFile(a) /\ a.owner = file.owner /\ a.kind = "reg" /\ a.content = file.content
      /\ a.modes = file.modes /\ a.sectors = file.sectors
  BY DEF a, IsFile
<1>7. /\ IsFile(b) /\ b.owner = o /\ b.kind = a.kind /\ b.content = a.content
      /\ b.modes = a.modes /\ b.sectors = a.sectors
  <2>1. IsFile(a) BY <1>6
  <2> QED BY <2>1 DEF b, IsFile
<1>8. /\ IsFile(c) /\ c.owner = b.owner /\ c.kind = b.kind /\ c.content = b.content
      /\ c.modes = m /\ c.sectors = b.sectors
  BY <1>7 DEF c, IsFile
<1>9. /\ IsFile(d) /\ d.owner = o /\ d.kind = file.kind /\ d.content = file.content
      /\ d.modes = file.modes /\ d.sectors = file.sectors
  BY DEF d, IsFile
<1>10. /\ IsFile(e) /\ e.owner = d.owner /\ e.kind = d.kind /\ e.content = d.content
       /\ e.modes = m /\ e.sectors = d.sectors
  BY <1>9 DEF e, IsFile
<1> QED BY <1>4, <1>5, <1>6, <1>7, <1>8, <1>9, <1>10 DEF CopiedFile, ExposedFile

\* A stub drive, and a file in the jail, are written where they may be.
LEMMA StubIsNew ==
    ASSUME NEW in \in Inputs, NEW n \in 2..Total(in)
    PROVE  IsNew(in, Source(in, n), StubFile(in, n))
<1>1. n \in 1..Total(in) /\ n # 1 BY InputIs
<1>2. Source(in, n) = Append(Place(in), Name(in, n)) /\ Name(in, n) \in Texts
  BY <1>1, SourceIs
<1>3. Place(in) = VmDir \/ Place(in) = JailRoot BY RootsArePaths
<1>4. Source(in, n) \in HostPath /\ Below(VmDir, Source(in, n))
  <2>1. CASE Place(in) = VmDir BY <1>2, <2>1, InVmDir
  <2>2. CASE Place(in) = JailRoot BY <1>2, <2>2, InJailIs DEF InJail
  <2> QED BY <1>3, <2>1, <2>2
<1>5. IsFile(StubFile(in, n)) /\ StubFile(in, n).owner = User(in)
    <2>1. StubFile(in, n) = SizedFile("reg", [stub |-> TRUE, of |-> Name(in, n)], User(in),
                                    {"r", "w"}, Sectors(DriveSize(20)))
    BY DEF StubFile, SizedFile
  <2> QED BY <2>1, SizedFileIs
<1>6. ~JailedBy(in) /\ Below(JailRoot, Source(in, n)) => Source(in, n) = JailRoot
  <2>1. ~JailedBy(in) => Place(in) = VmDir BY DEF Place
  <2>2. Append(VmDir, "rootfs") = JailRoot
    <3>1. VmDir = Append(Append(<< >>, "run"), "vm") BY DEF VmDir
    <3>2. JailRoot = Append(Append(Append(<< >>, "run"), "vm"), "rootfs") BY DEF JailRoot
    <3> QED BY <3>1, <3>2
  <2>3. Below(JailRoot, Append(VmDir, Name(in, n))) <=> Name(in, n) = "rootfs"
    BY <1>2, InVmDir
  <2> QED BY <1>2, <2>1, <2>2, <2>3
<1> QED BY <1>4, <1>5, <1>6 DEF IsNew

\* A file of the jail's user in the jail is one that createVM may write.
LEMMA InJailIsNew ==
    ASSUME NEW in, JailedBy(in), NEW x \in Texts, NEW file, IsFile(file), file.owner = User(in)
    PROVE  IsNew(in, InJail(x), file)
BY InJailIs DEF IsNew

\* A copy of a file of the host.
LEMMA CopyIsNew ==
    ASSUME NEW in, JailedBy(in), NEW fs, FilesInv(fs), NEW src \in DOMAIN fs, NEW x \in Texts, NEW modes
    PROVE  IsNew(in, InJail(x), CopiedFile(fs[src], User(in), modes))
<1> DEFINE f == CopiedFile(fs[src], User(in), modes)
<1>1. IsFile(fs[src]) BY DEF FilesInv
<1>2. IsFile(f) /\ f.owner = User(in) BY <1>1, CopyIs
<1> QED BY <1>2, InJailIsNew

\* A FIFO.
LEMMA FifoIs ==
    ASSUME NEW x, NEW owner
    PROVE  /\ IsFile(FifoFile(x, owner)) /\ FifoFile(x, owner).owner = owner
           /\ FifoFile(x, owner).kind = "fifo" /\ FifoFile(x, owner).modes = {"r", "w"}
BY FileIs DEF FifoFile

-----------------------------------------------------------------------------
\* Whether a step writes files of the VM only.
Writes ==
    \/ files' = files
    \/ \E new : files' = Over(new, files) /\ Written(input, phase', i', new)

\* The jailer makes the jail's root, which was not there, and nothing else.
LEMMA JailerWrites ==
    ASSUME Next, IndexInv(input, phase, i), Goes("jailer", "config")
    PROVE  /\ Writes
           /\ IF JailedBy(input)
              THEN /\ JailRoot \notin DOMAIN files
                   /\ input.request.jailer.uid # 0 /\ input.request.jailer.gid # 0
                   /\ files' = Over(Only(JailRoot, Dir(User(input))), files)
              ELSE files' = files
<1>1. NewJailer BY WhichAction DEF ActionOf, Goes
<1>2. /\ JailedBy(input) => CanJail
      /\ files' = IF JailedBy(input) THEN Over(Only(JailRoot, Dir(User(input))), files)
                  ELSE files
  BY <1>1, Bridge DEF NewJailer, Fail, FailAt, Goto, Goes
<1>3. JailRoot \in HostPath /\ Below(VmDir, JailRoot) BY RootsArePaths, BelowIs
<1>4. IsFile(Dir(User(input))) /\ Dir(User(input)).owner = User(input)
  BY FileIs DEF Dir
<1>5. JailedBy(input) => IsNew(input, JailRoot, Dir(User(input))) BY <1>3, <1>4 DEF IsNew
<1>6. JailedBy(input) => MadeAt(input, phase', i', JailRoot)
  BY RankIs DEF Goes, MadeAt
<1>7. JailedBy(input) => Written(input, phase', i', Only(JailRoot, Dir(User(input))))
  BY <1>5, <1>6, OneWritten
<1> QED BY <1>2, <1>7, Bridge DEF Writes, CanJail

\* A stub drive is written where no file was, and nothing else is.
LEMMA StubWrites ==
    ASSUME Next, IndexInv(input, phase, i), Turn(input, phase, i, phase', i'),
           Goes("stubs", "stubs") \/ Goes("mountStubs", "mountStubs")
    PROVE  \E n \in 2..Total(input) :
               /\ DrivesMade(input, phase, i) = n - 1 /\ DrivesMade(input, phase', i') = n
               /\ Source(input, n) \notin DOMAIN files
               /\ files' = Over(Only(Source(input, n), StubFile(input, n)), files)
               /\ Written(input, phase', i', Only(Source(input, n), StubFile(input, n)))
<1>1. input \in Inputs BY DEF IndexInv
<1>2. /\ Count(input) \in Nat \ {0} /\ MountCount(input) \in Nat /\ i \in Nat
      /\ Total(input) = 1 + Count(input) + MountCount(input)
  BY <1>1, InputIs DEF IndexInv
<1>3. \E n \in 2..Total(input) :
          /\ DrivesMade(input, phase, i) = n - 1 /\ DrivesMade(input, phase', i') = n
          /\ Source(input, n) \notin DOMAIN files
          /\ files' = Over(Only(Source(input, n), StubFile(input, n)), files)
  <2>1. CASE Goes("stubs", "stubs")
    <3>1. /\ i \in 1..Count(input) /\ Source(input, i + 1) \notin DOMAIN files
          /\ files' = Over(Only(Source(input, i + 1), StubFile(input, i + 1)), files)
      BY <2>1, StubStep
    <3>2. DrivesMade(input, phase, i) = i /\ DrivesMade(input, phase', i') = i + 1
      BY <2>1, RankIs, MadeTurn DEF Goes
    <3>3. i + 1 \in 2..Total(input) /\ (i + 1) - 1 = i BY <1>2, <3>1
    <3> QED BY <3>1, <3>2, <3>3
  <2>2. CASE Goes("mountStubs", "mountStubs")
    <3> DEFINE n == 1 + Count(input) + i
    <3>1. /\ i \in 1..MountCount(input) /\ Source(input, n) \notin DOMAIN files
          /\ files' = Over(Only(Source(input, n), StubFile(input, n)), files)
      BY <2>2, MountStubStep
    <3>2. /\ DrivesMade(input, phase, i) = Count(input) + i
          /\ DrivesMade(input, phase', i') = 1 + Count(input) + i
      BY <2>2, RankIs, MadeTurn DEF Goes
    <3>3. n \in 2..Total(input) /\ n - 1 = Count(input) + i BY <1>2, <3>1
    <3> QED BY <3>1, <3>2, <3>3
  <2> QED BY <2>1, <2>2
<1>4. PICK n \in 2..Total(input) :
          /\ DrivesMade(input, phase, i) = n - 1 /\ DrivesMade(input, phase', i') = n
          /\ Source(input, n) \notin DOMAIN files
          /\ files' = Over(Only(Source(input, n), StubFile(input, n)), files)
  BY <1>3
<1>5. MadeAt(input, phase', i', Source(input, n))
  <2>1. ~(Rank[phase'] >= 8) BY RankIs DEF Goes
  <2>2. n \in 2..DrivesMade(input, phase', i') BY <1>2, <1>4
  <2> QED BY <2>1, <2>2 DEF MadeAt
<1>6. Written(input, phase', i', Only(Source(input, n), StubFile(input, n)))
  BY <1>1, <1>5, StubIsNew, OneWritten
<1> QED BY <1>4, <1>6

\* A file that is copied into the jail.
CopiedTo(in, fs, src, x, modes) ==
    Only(InJail(x), CopiedFile(fs[src], User(in), modes))

\* A copy in the jail is written over no path that others rely on.
LEMMA CopyWrites ==
    ASSUME NEW in, JailedBy(in), NEW ph, Rank[ph] >= 8, NEW k, NEW fs, FilesInv(fs),
           NEW src \in DOMAIN fs, NEW x \in Texts, NEW modes,
           x \in {"firecracker", "kernel-image", Name(in, 1)}
    PROVE  Written(in, ph, k, CopiedTo(in, fs, src, x, modes))
<1>1. IsNew(in, InJail(x), CopiedFile(fs[src], User(in), modes)) BY CopyIsNew
<1>2. MadeAt(in, ph, k, InJail(x)) BY DEF MadeAt, Makes
<1> QED BY <1>1, <1>2, OneWritten DEF CopiedTo

\* The binary and the kernel.
LEMMA JailFilesWrites ==
    ASSUME Next, IndexInv(input, phase, i), VmmConfigInv(input, phase, i, mCfg),
           FilesInv(files), Goes("jailFiles", "jailDrives")
    PROVE  LET a == CopiedTo(input, files, FirecrackerBinaryPath, "firecracker", {"r", "x"})
               b == CopiedTo(input, files, Kernel(input), "kernel-image", {"r"})
           IN  /\ FirecrackerBinaryPath \in DOMAIN files
               /\ files[FirecrackerBinaryPath].kind # "dir"
               /\ Kernel(input) \in DOMAIN files /\ files[Kernel(input)].kind # "dir"
               /\ files' = Over(a, Over(b, files))
               /\ Written(input, phase', i', a) /\ Written(input, phase', i', b)
               /\ Writes
<1> DEFINE a == CopiedTo(input, files, FirecrackerBinaryPath, "firecracker", {"r", "x"})
           b == CopiedTo(input, files, Kernel(input), "kernel-image", {"r"})
<1>1. JailedBy(input) /\ Rank[phase'] >= 8 BY RankIs DEF Goes, IndexInv
<1>2. mCfg.kernel = Kernel(input) BY RankIs DEF VmmConfigInv, Goes
<1>3. /\ FirecrackerBinaryPath \in DOMAIN files /\ files[FirecrackerBinaryPath].kind # "dir"
      /\ Kernel(input) \in DOMAIN files /\ files[Kernel(input)].kind # "dir"
  BY <1>2, JailFilesStep DEF CanCopy
<1>4. Jailer.uid = User(input) BY <1>1, Bridge
<1>5. /\ Copied(FirecrackerBinaryPath, InJail("firecracker"), {"r", "x"}) = a
      /\ Copied(mCfg.kernel, InJail("kernel-image"), {"r"}) = b
  BY <1>2, <1>4 DEF Copied, CopiedTo, CopiedFile
<1>6. files' = Over(a, Over(b, files)) BY <1>5, JailFilesStep
<1>7. "firecracker" \in Texts /\ "kernel-image" \in Texts BY DEF Texts
<1>8. Written(input, phase', i', a) /\ Written(input, phase', i', b)
  BY <1>1, <1>3, <1>7, CopyWrites
<1> HIDE DEF a, b
<1>9. Writes BY <1>6, <1>8, WrittenOver DEF Writes
<1> QED BY <1>3, <1>6, <1>8, <1>9 DEF a, b

\* A drive that is copied is the root drive: a stub is where it would be copied to.
LEMMA JailDriveWrites ==
    ASSUME Next, IndexInv(input, phase, i), VmmConfigInv(input, phase, i, mCfg),
           FilesInv(files), Goes("jailDrives", "jailDrives"),
           Turn(input, phase, i, phase', i')
    PROVE  LET src == Source(input, i) IN
           /\ src \in DOMAIN files /\ Writes
           /\ IsStubDrive(files[src]) \/ (i = 1 /\ files[src].kind # "dir")
           /\ files' = IF IsStubDrive(files[src]) THEN files
                       ELSE Over(CopiedTo(input, files, src, Name(input, 1), RootModes(input)),
                                 files)
<1> DEFINE src == Source(input, i)
           d == mCfg.drives[i]
<1>1. input \in Inputs /\ JailedBy(input) /\ i \in 1..Total(input)
  BY RankIs, JailedTurn DEF Goes, IndexInv
<1>2. mCfg.drives = DrivesAt(input, i)
  <2>1. Rank[phase] = 9 /\ Rank[phase'] = 9 BY RankIs DEF Goes
  <2>2. JailedTo(input, phase, i) = i BY <2>1, JailedTurn DEF Goes
  <2> QED BY <2>1, <2>2 DEF VmmConfigInv
<1>3. d.path = src /\ Last(d.path) = Name(input, i) /\ d.writable = DriveOf(input, i).writable
  <2>1. d = DriveOf(input, i) BY <1>1, <1>2, DrivesTo
  <2>2. DriveOf(input, i).path = src BY <1>1, DriveIs
  <2>3. Last(src) = Name(input, i) BY <1>1, SourceIs
  <2> HIDE DEF d, src
  <2> QED BY <2>1, <2>2, <2>3
<1>4. /\ src \in DOMAIN files
      /\ \/ IsStubDrive(files[src])
         \/ files[src].kind # "dir" /\ src # InJail(Name(input, i))
      /\ files' = IF IsStubDrive(files[src]) THEN files
                  ELSE Over(Copied(src, InJail(Name(input, i)), {"r"} \cup
                                       (IF d.writable THEN {"w"} ELSE {})), files)
  BY <1>3, JailDriveStep DEF CanCopy
<1> HIDE DEF d
<1>5. i # 1 => IsStubDrive(files[src])
  <2>1. Place(input) = JailRoot BY <1>1 DEF Place
  <2>2. i # 1 => src = InJail(Name(input, i)) BY <1>1, <2>1, SourceIs DEF InJail
  <2> HIDE DEF src
  <2> QED BY <1>4, <2>2
<1>6. CASE IsStubDrive(files[src])
  BY <1>4, <1>6 DEF Writes
<1>7. CASE ~IsStubDrive(files[src])
  <2>1. i = 1 BY <1>5, <1>7
  <2>2. {"r"} \cup (IF d.writable THEN {"w"} ELSE {}) = RootModes(input)
    <3>1. d.writable = Root(input).writable BY <1>1, <1>3, <2>1, DriveIs
    <3> QED BY <3>1 DEF RootModes
  <2>3. Jailer.uid = User(input) BY <1>1, Bridge
  <2>4. Copied(src, InJail(Name(input, i)), RootModes(input))
            = CopiedTo(input, files, src, Name(input, 1), RootModes(input))
    BY <2>1, <2>3 DEF Copied, CopiedTo, CopiedFile
  <2>5. files' = Over(CopiedTo(input, files, src, Name(input, 1), RootModes(input)), files)
    BY <1>4, <1>7, <2>2, <2>4
  <2>6. Name(input, 1) \in Texts /\ Rank[phase'] >= 8
    <3>1. 1 \in 1..Total(input) BY <1>1, InputIs
    <3> QED BY <1>1, <3>1, SourceIs, RankIs DEF Goes
  <2>7. Written(input, phase', i',
                CopiedTo(input, files, src, Name(input, 1), RootModes(input)))
    BY <1>1, <1>4, <2>6, CopyWrites
  <2> QED BY <1>4, <1>7, <2>1, <2>5, <2>7 DEF Writes
<1> QED BY <1>6, <1>7

-----------------------------------------------------------------------------
\* The FIFOs.
Logs == [path \in LogFifos |-> FifoFile(Last(path), 0)]
Links(in) == [path \in LogFifos \cup JailFifos |-> FifoFile(Last(path), User(in))]

\* The fifos of the logs are written in the VM's directory.
LEMMA LogsWrites ==
    ASSUME Next, IndexInv(input, phase, i), phase = "logs", phase' # "failed"
    PROVE  files' = Over(Logs, files) /\ Written(input, phase', i', Logs)
<1>1. CreateLogFiles BY WhichAction DEF ActionOf
<1>2. /\ files' = Over(Logs, files)
      /\ phase' = IF Jailed THEN "link" ELSE "attach"
  BY <1>1 DEF CreateLogFiles, Logs, Goto, Fail, FailAt
<1>3. Rank[phase'] >= 8 /\ Rank[phase'] >= 12 BY <1>2, RankIs
<1>4. ASSUME NEW p \in DOMAIN Logs
      PROVE  IsNew(input, p, Logs[p]) /\ MadeAt(input, phase', i', p)
  <2>1. PICK f \in Fifos : p = Append(VmDir, f) BY <1>4 DEF Logs, LogFifos
  <2>2. f \in Texts /\ f # "rootfs" BY DEF Texts, Fifos
  <2>3. Logs[p] = FifoFile(Last(p), 0) BY DEF Logs
  <2>4. IsFile(Logs[p]) /\ Logs[p].owner = 0 BY <2>3, FifoIs
  <2>5. p \in HostPath /\ Below(VmDir, p) /\ ~Below(JailRoot, p) BY <2>1, <2>2, InVmDir
  <2>6. MadeAt(input, phase', i', p) BY <1>3, <2>1 DEF MadeAt, Makes
  <2> QED BY <2>4, <2>5, <2>6 DEF IsNew
<1> QED BY <1>2, <1>4 DEF Written

\* The fifos are linked into the jail before the handlers of the VMM run.
LEMMA LinkWrites ==
    ASSUME Next, IndexInv(input, phase, i), phase = "link", phase' # "failed"
    PROVE  /\ files' = Over(Links(input), files) /\ Written(input, phase', i', Links(input))
           /\ phase' = "attach"
<1>1. LinkFifos BY WhichAction DEF ActionOf
<1>2. JailedBy(input) /\ Jailer.uid = User(input) BY Bridge DEF IndexInv
<1>3. files' = Over(Links(input), files) /\ phase' = "attach"
  BY <1>1, <1>2 DEF LinkFifos, Links, Goto, Fail, FailAt
<1>4. Rank[phase'] >= 8 /\ Rank[phase'] >= 12 /\ Rank[phase'] >= 13 BY <1>3, RankIs
<1>5. ASSUME NEW p \in DOMAIN Links(input)
      PROVE  IsNew(input, p, Links(input)[p]) /\ MadeAt(input, phase', i', p)
  <2>1. PICK d \in {VmDir, JailRoot}, f \in Fifos : p = Append(d, f)
    BY <1>5 DEF Links, LogFifos, JailFifos, InJail
  <2>2. f \in Texts /\ f # "rootfs" BY DEF Texts, Fifos
  <2>3. Links(input)[p] = FifoFile(Last(p), User(input)) BY DEF Links
  <2>4. IsFile(Links(input)[p]) /\ Links(input)[p].owner = User(input) BY <2>3, FifoIs
  <2>5. CASE d = VmDir
    <3>1. p \in HostPath /\ Below(VmDir, p) BY <2>1, <2>2, <2>5, InVmDir
    <3>2. MadeAt(input, phase', i', p) BY <1>4, <2>1, <2>5 DEF MadeAt, Makes
    <3> QED BY <1>2, <2>4, <3>1, <3>2 DEF IsNew
  <2>6. CASE d = JailRoot
    <3>1. p = InJail(f) BY <2>1, <2>6 DEF InJail
    <3>2. MadeAt(input, phase', i', p) BY <1>2, <1>4, <2>1, <3>1 DEF MadeAt, Makes
    <3> QED BY <1>2, <2>2, <2>4, <3>1, <3>2, InJailIsNew
  <2> QED BY <2>5, <2>6
<1> QED BY <1>3, <1>4, <1>5 DEF Written

\* The stubs that the shim knows when the VM runs.
LEMMA MountStubsAre ==
    ASSUME IndexInv(input, phase, i), StubsInv(input, phase, i, stubs, mountStubs),
           Rank[phase] >= 5
    PROVE  /\ stubs = AllStubs(input) /\ mountStubs = AllMountStubs(input)
           /\ DOMAIN mountStubs = 1..MountCount(input) /\ DOMAIN stubs = 1..Count(input)
           /\ \A n \in 1..MountCount(input) : mountStubs[n] = MountStubOf(input, n)
<1>1. /\ StubsMade(input, phase, i) = Count(input)
      /\ MountStubsMade(input, phase, i) = MountCount(input)
  BY RankIs DEF StubsMade, MountStubsMade, IndexInv
<1>2. phase \notin {"failed", "over"} BY RankIs
<1>3. /\ stubs = Firsts(AllStubs(input), Count(input))
      /\ mountStubs = Firsts(AllMountStubs(input), MountCount(input))
  BY <1>1, <1>2 DEF StubsInv
<1> QED BY <1>3 DEF Firsts, AllStubs, AllMountStubs

\* The file of a mount in the jail, with the directories above it.
MountFile(in, fs, n) ==
    LET host == MountOf(in, n).host
    IN  Only(JailRoot \o host,
             ExposedFile(fs[host], User(in),
                         IF fs[host].kind = "blk" THEN {"r", "w"} ELSE fs[host].modes))

MountDirs(in, fs, n) ==
    LET path == JailRoot \o MountOf(in, n).host
    IN  [d \in {SubSeq(path, 1, m) : m \in 3..(Len(path) - 1)} \ DOMAIN fs |-> Dir(User(in))]

\* A mount is exposed in the jail if it is a device or a file, and nowhere without a jail.
LEMMA ExposeIs ==
    ASSUME Next, IndexInv(input, phase, i), StubsInv(input, phase, i, stubs, mountStubs),
           Goes("expose", "patch")
    PROVE  LET host == MountOf(input, i).host IN
           /\ i \in 1..MountCount(input) /\ i' = i
           /\ IF JailedBy(input)
              THEN /\ host \in DOMAIN files /\ files[host].kind \in {"blk", "reg"}
                   /\ files[host].kind = "blk" => JailRoot \o host \notin DOMAIN files
                   /\ files' = Over(MountFile(input, files, i),
                                    Over(MountDirs(input, files, i), files))
              ELSE files' = files
<1>1. Expose BY WhichAction DEF ActionOf, Goes, Ready, Goto
<1>2. /\ DOMAIN mountStubs = 1..MountCount(input)
      /\ \A n \in 1..MountCount(input) : mountStubs[n] = MountStubOf(input, n)
  BY MountStubsAre, RankIs DEF Goes
<1>3. i \in 1..MountCount(input) /\ i' = i
  BY <1>1, <1>2 DEF Expose, Move, Fail, FailAt, Goto, Goes
<1>4. mountStubs[i].host = MountOf(input, i).host BY <1>2, <1>3 DEF MountStubOf
<1> DEFINE host == MountOf(input, i).host
<1>5. IF JailedBy(input) THEN CanExpose(host) /\ files' = Exposed(host) ELSE files' = files
  BY <1>1, <1>4, Bridge DEF Expose, Move, Fail, FailAt, Goto, Goes
<1>6. JailedBy(input) => Exposed(host) = Over(MountFile(input, files, i),
                                               Over(MountDirs(input, files, i), files))
  <2>1. Len(JailRoot) = 3 BY RootsArePaths
  <2>2. JailedBy(input) => Jailer.uid = User(input) BY Bridge
  <2>3. JailedBy(input) => JailDirs(JailRoot \o host) = MountDirs(input, files, i)
    BY <2>1, <2>2 DEF JailDirs, MountDirs
  <2> QED BY <2>2, <2>3 DEF Exposed, MountFile, ExposedFile
<1> HIDE DEF host
<1>7. CanExpose(host) => /\ host \in DOMAIN files /\ files[host].kind \in {"blk", "reg"}
                         /\ files[host].kind = "blk" => JailRoot \o host \notin DOMAIN files
  BY DEF CanExpose
<1> QED BY <1>3, <1>5, <1>6, <1>7 DEF host

\* An exposed mount and the directories above it are below the jail's root.
LEMMA ExposeWrites ==
    ASSUME NEW in \in Inputs, NEW k \in 1..MountCount(in), JailedBy(in), NEW fs, FilesInv(fs),
           MountOf(in, k).host \in DOMAIN fs
    PROVE  /\ Written(in, "patch", k, MountFile(in, fs, k))
           /\ Written(in, "patch", k, MountDirs(in, fs, k))
<1> DEFINE host == MountOf(in, k).host
           path == JailRoot \o host
<1>1. host \in HostPath /\ Len(host) \in Nat /\ k \in Nat /\ MountCount(in) \in Nat
  BY InputIs, HostPaths
<1>2. ExposedTo(in, "patch", k) = k BY RankIs DEF ExposedTo
<1>3. ASSUME NEW l \in 0..Len(host)
      PROVE  MadeAt(in, "patch", k, JailRoot \o SubSeq(host, 1, l))
  <2>1. k \in 1..ExposedTo(in, "patch", k) BY <1>1, <1>2
  <2>2. Makes(in, Rank["patch"], ExposedTo(in, "patch", k), JailRoot \o SubSeq(host, 1, l))
    BY <2>1 DEF Makes
  <2> QED BY <2>2, RankIs DEF MadeAt
<1>4. Written(in, "patch", k, MountFile(in, fs, k))
  <2> DEFINE f == ExposedFile(fs[host], User(in),
                      IF fs[host].kind = "blk" THEN {"r", "w"} ELSE fs[host].modes)
  <2>1. IsFile(fs[host]) BY DEF FilesInv
  <2>2. IsFile(f) /\ f.owner = User(in) BY <2>1, CopyIs
  <2>3. path \in HostPath /\ Below(VmDir, path) BY <1>1, JailRooted
  <2> HIDE DEF f
  <2>4. IsNew(in, path, f) BY <2>2, <2>3 DEF IsNew
  <2>5. MadeAt(in, "patch", k, path)
    <3>1. Len(host) \in 0..Len(host) BY <1>1
    <3>2. SubSeq(host, 1, Len(host)) = host BY <1>1, <3>1, JailedParts
    <3> QED BY <1>3, <3>1, <3>2
  <2>6. Written(in, "patch", k, Only(path, f)) BY <2>4, <2>5, OneWritten
  <2> QED BY <2>6 DEF MountFile, f
<1>5. Written(in, "patch", k, MountDirs(in, fs, k))
  <2> DEFINE D == MountDirs(in, fs, k)
  <2> SUFFICES ASSUME NEW p \in DOMAIN D
               PROVE  IsNew(in, p, D[p]) /\ MadeAt(in, "patch", k, p)
    BY DEF Written
  <2>1. PICK m \in 3..(Len(path) - 1) : p = SubSeq(path, 1, m) BY DEF MountDirs
  <2>2. D[p] = Dir(User(in)) BY DEF MountDirs
  <2>3. IsFile(D[p]) /\ D[p].owner = User(in) BY <2>2, FileIs DEF Dir
  <2>4. Len(path) = 3 + Len(host) BY <1>1, JailRooted
  <2>5. m - 3 \in 0..Len(host) /\ 3 + (m - 3) = m BY <1>1, <2>4
  <2>6. /\ SubSeq(path, 1, 3 + (m - 3)) = JailRoot \o SubSeq(host, 1, m - 3)
        /\ SubSeq(host, 1, m - 3) \in HostPath
    BY <1>1, <2>5, JailedParts
  <2> HIDE DEF D, path
  <2>7. p = JailRoot \o SubSeq(host, 1, m - 3) BY <2>1, <2>5, <2>6
  <2>8. p \in HostPath /\ Below(VmDir, p) BY <2>6, <2>7, JailRooted
  <2>9. MadeAt(in, "patch", k, p) BY <1>3, <2>5, <2>7
  <2> QED BY <2>3, <2>8, <2>9 DEF IsNew
<1> QED BY <1>4, <1>5

-----------------------------------------------------------------------------
\* Until it is over, a CreateVM writes files of its own VM only.
LEMMA WritesOnly ==
    ASSUME Next, IndexInv(input, phase, i), StubsInv(input, phase, i, stubs, mountStubs),
           VmmConfigInv(input, phase, i, mCfg), FilesInv(files),
           Turn(input, phase, i, phase', i'), Kept, phase' # "over"
    PROVE  Writes
<1>1. input \in Inputs BY DEF IndexInv
<1>2. CASE Goes("jailer", "config") BY <1>2, JailerWrites
<1>3. CASE Goes("stubs", "stubs") \/ Goes("mountStubs", "mountStubs")
  BY <1>3, StubWrites DEF Writes
<1>4. CASE Goes("jailFiles", "jailDrives") BY <1>4, JailFilesWrites
<1>5. CASE Goes("jailDrives", "jailDrives") BY <1>5, JailDriveWrites
<1>6. CASE Goes("logs", "link") \/ Goes("logs", "attach")
  BY <1>6, LogsWrites DEF Writes, Goes
<1>7. CASE Goes("link", "attach") BY <1>7, LinkWrites DEF Writes, Goes
<1>8. CASE Goes("expose", "patch")
  <2>1. /\ i \in 1..MountCount(input) /\ i' = i /\ phase' = "patch"
        /\ JailedBy(input) => /\ MountOf(input, i).host \in DOMAIN files
                              /\ files' = Over(MountFile(input, files, i),
                                               Over(MountDirs(input, files, i), files))
        /\ ~JailedBy(input) => files' = files
    BY <1>8, ExposeIs DEF Goes
  <2>2. CASE JailedBy(input)
    <3>1. /\ Written(input, "patch", i, MountFile(input, files, i))
          /\ Written(input, "patch", i, MountDirs(input, files, i))
      BY <1>1, <2>1, <2>2, ExposeWrites
    <3>2. Written(input, "patch", i, Over(MountFile(input, files, i), MountDirs(input, files, i)))
      BY <3>1, WrittenOver
    <3>3. files' = Over(Over(MountFile(input, files, i), MountDirs(input, files, i)), files)
      BY <2>1, <2>2, <3>1, WrittenOver
    <3> QED BY <2>1, <3>2, <3>3 DEF Writes
  <2>3. CASE ~JailedBy(input) BY <2>1, <2>3 DEF Writes
  <2> QED BY <2>2, <2>3
<1>9. CASE files' = files BY <1>9 DEF Writes
<1> QED BY <1>2, <1>3, <1>4, <1>5, <1>6, <1>7, <1>8, <1>9, RankIs DEF Kept, Turn

\* The end removes what the VM directory has, or nothing.
LEMMA OverWrites ==
    ASSUME Next, Turn(input, phase, i, phase', i'), phase' = "over"
    PROVE  \/ files' = [p \in {q \in DOMAIN files : ~Below(VmDir, q)} |-> files[p]]
           \/ files' = files /\ fault'
<1>1. phase \in {"failed", "ready"} BY DEF Turn
<1>2. PICK stays \in BOOLEAN : RemoveVmDir(stays) /\ (stays => fault')
  <2>1. CASE phase = "failed"
    <3>1. ShimExits BY <2>1, WhichAction DEF ActionOf
    <3>2. PICK stays \in BOOLEAN : RemoveVmDir(stays) /\ fault' = stays
      BY <3>1, Zenon DEF ShimExits
    <3> QED BY <3>2
  <2>2. CASE phase = "ready"
    <3>1. StopVM BY <2>2, WhichAction DEF ActionOf
    <3>2. PICK stays \in BOOLEAN : RemoveVmDir(stays) /\ fault' = (stays \/ container')
      BY <3>1, Zenon DEF StopVM
    <3> QED BY <3>2
  <2> QED BY <1>1, <2>1, <2>2
<1>3. CASE stays BY <1>2, <1>3 DEF RemoveVmDir
<1>4. CASE ~stays BY <1>2, <1>4 DEF RemoveVmDir, WithoutVmDir
<1> QED BY <1>3, <1>4

-----------------------------------------------------------------------------
(* Every step and the files.                                               *)

\* The files of the host stay what they were.
LEMMA FilesStep ==
    ASSUME NEW in, NEW ph, NEW k, NEW fs, FilesInv(fs), NEW new, Written(in, ph, k, new)
    PROVE  FilesInv(Over(new, fs))
<1> DEFINE g == Over(new, fs)
<1>1. /\ DOMAIN g = DOMAIN new \cup DOMAIN fs
      /\ \A x \in DOMAIN new : g[x] = new[x]
      /\ \A x \in DOMAIN fs : x \notin DOMAIN new => g[x] = fs[x]
  BY OverIs
<1> HIDE DEF g
<1>2. ASSUME NEW p \in DOMAIN new
      PROVE  p \in HostPath /\ IsFile(g[p]) /\ Below(VmDir, p)
  BY <1>1 DEF Written, IsNew
<1>3. ASSUME NEW p \in DOMAIN g
      PROVE  /\ p \in HostPath /\ IsFile(g[p])
             /\ ~Below(VmDir, p) => p \in DOMAIN HostFiles /\ g[p] = HostFiles[p]
  <2>1. CASE p \in DOMAIN new BY <1>2, <2>1
  <2>2. CASE p \notin DOMAIN new
    <3>1. p \in DOMAIN fs /\ g[p] = fs[p] BY <1>1, <2>2
    <3> QED BY <3>1 DEF FilesInv
  <2> QED BY <2>1, <2>2
<1>4. \A p \in DOMAIN HostFiles : p \in DOMAIN g BY <1>1 DEF FilesInv
<1>5. FilesInv(g) BY <1>3, <1>4 DEF FilesInv
<1> QED BY <1>5 DEF g

\* Without what is in the VM's directory the host's files are still there.
LEMMA FilesWithout ==
    ASSUME NEW fs, FilesInv(fs)
    PROVE  LET g == [p \in {q \in DOMAIN fs : ~Below(VmDir, q)} |-> fs[p]]
           IN  FilesInv(g) /\ \A p \in DOMAIN g : ~Below(VmDir, p)
<1> DEFINE g == [p \in {q \in DOMAIN fs : ~Below(VmDir, q)} |-> fs[p]]
<1>1. /\ DOMAIN g \subseteq DOMAIN fs
      /\ \A p \in DOMAIN g : g[p] = fs[p] /\ ~Below(VmDir, p)
      /\ \A p \in DOMAIN fs : ~Below(VmDir, p) => p \in DOMAIN g
  OBVIOUS
<1> HIDE DEF g
<1>2. \A p \in DOMAIN HostFiles : ~Below(VmDir, p) BY HostTree DEF HostFilesAssumption
<1>3. FilesInv(g) BY <1>1, <1>2 DEF FilesInv
<1> QED BY <1>1, <1>3 DEF g

\* The conditions of the steps on files.
FilesInvs(in, ph, k, fs, ft) ==
    /\ FilesInv(fs) /\ LeftoverInv(ph, fs, ft) /\ RootInv(fs) /\ JailInv(in, ph, fs)
    /\ MadeInv(in, ph, k, fs, ft)

\* What was made stays so.
LEMMA StillMade ==
    ASSUME NEW in, NEW ph, NEW k, NEW ph2, NEW k2, IndexInv(in, ph, k),
           Turn(in, ph, k, ph2, k2), Rank[ph] >= 2, Rank[ph2] >= 2,
           NEW p, MadeAt(in, ph, k, p)
    PROVE  MadeAt(in, ph2, k2, p)
<1>1. in \in Inputs /\ k \in Nat BY DEF IndexInv
<1>2. /\ Total(in) \in Nat /\ Count(in) \in Nat \ {0} /\ MountCount(in) \in Nat
      /\ Total(in) = 1 + Count(in) + MountCount(in)
  BY <1>1, InputIs
<1>3. DrivesMade(in, ph, k) \in 1..Total(in) BY MadeIs
<1>4. CASE Rank[ph2] < 8
  <2>1. Rank[ph] < 8 /\ ~(Rank[ph] >= 8) /\ ~(Rank[ph2] >= 8) /\ ph2 \notin {"failed", "over"}
        /\ ph # "over"
    BY <1>4, RankIs DEF Turn
  <2>2. DrivesMade(in, ph2, k2) \in Nat /\ DrivesMade(in, ph2, k2) >= DrivesMade(in, ph, k)
    BY <1>1, <1>2, <1>3, <2>1, MadeTurn
  <2>3. \A n \in 2..DrivesMade(in, ph, k) : n \in 2..DrivesMade(in, ph2, k2)
    BY <1>3, <2>2
  <2> QED BY <2>1, <2>3 DEF MadeAt
<1>5. CASE ~(Rank[ph2] < 8) /\ Rank[ph] < 8
  <2>1. Rank[ph2] >= 8 /\ ~(Rank[ph] >= 8) BY <1>5, RankIs DEF Turn
  <2>2. \A n \in 2..DrivesMade(in, ph, k) : n \in 2..Total(in) BY <1>2, <1>3
  <2>3. Makes(in, Rank[ph2], ExposedTo(in, ph2, k2), p) BY <2>1, <2>2 DEF MadeAt, Makes
  <2> QED BY <2>1, <2>3 DEF MadeAt
<1>6. CASE ~(Rank[ph] < 8)
  <2>1. Rank[ph2] >= 8 /\ Rank[ph] >= 8 BY <1>6, RankIs DEF Turn
  <2>2. /\ ExposedTo(in, ph, k) \in Nat /\ ExposedTo(in, ph2, k2) \in Nat
        /\ ExposedTo(in, ph2, k2) >= ExposedTo(in, ph, k)
    BY <1>1, <1>2, <2>1, RankIs DEF ExposedTo, IndexInv, Turn
  <2>3. \A n \in 1..ExposedTo(in, ph, k) : n \in 1..ExposedTo(in, ph2, k2) BY <2>2
  <2>6. /\ Rank[ph] >= 12 => Rank[ph2] >= 12
        /\ Rank[ph] >= 13 => Rank[ph2] >= 13
    BY <2>1, RankIs DEF Turn
  <2>4. Makes(in, Rank[ph], ExposedTo(in, ph, k), p) BY <2>1 DEF MadeAt
  <2>5. Makes(in, Rank[ph2], ExposedTo(in, ph2, k2), p) BY <2>3, <2>4, <2>6 DEF Makes
  <2> QED BY <2>1, <2>5 DEF MadeAt
<1> QED BY <1>4, <1>5, <1>6, RankIs DEF IndexInv

\* Every step keeps what is said of the files.
LEMMA FilesInvsStep ==
    ASSUME Next, IndexInv(input, phase, i), StubsInv(input, phase, i, stubs, mountStubs),
           VmmConfigInv(input, phase, i, mCfg),
           FilesInvs(input, phase, i, files, fault), phase # "over",
           Turn(input, phase, i, phase', i'), input' = input, Kept
    PROVE  FilesInvs(input', phase', i', files', fault')
<1> DEFINE in == input
<1>1. CASE phase' = "over"
  <2>1. \/ files' = [p \in {q \in DOMAIN files : ~Below(VmDir, q)} |-> files[p]]
        \/ files' = files /\ fault'
    BY <1>1, OverWrites
  <2>2. CASE files' = [p \in {q \in DOMAIN files : ~Below(VmDir, q)} |-> files[p]]
    <3>1. FilesInv(files') /\ \A p \in DOMAIN files' : ~Below(VmDir, p)
      BY <2>2, FilesWithout DEF FilesInvs
    <3>2. RootInv(files') BY <3>1, BelowIs DEF RootInv, FilesInv
    <3> QED BY <1>1, <3>1, <3>2, RankIs DEF FilesInvs, LeftoverInv, JailInv, MadeInv
  <2>3. CASE files' = files /\ fault'
    BY <1>1, <2>3, RankIs DEF FilesInvs, LeftoverInv, JailInv, MadeInv
  <2> QED BY <2>1, <2>2, <2>3
<1>2. CASE phase' # "over"
  <2>1. Writes BY <1>2, WritesOnly DEF FilesInvs
  <2>2. FilesInv(files')
    <3>1. CASE files' = files BY <3>1 DEF FilesInvs
    <3>2. CASE files' # files
      <4>1. PICK new : files' = Over(new, files) /\ Written(in, phase', i', new)
        BY <2>1, <3>2 DEF Writes
      <4> QED BY <4>1, FilesStep DEF FilesInvs
    <3> QED BY <3>1, <3>2
  <2>3. LeftoverInv(phase', files', fault')
    <3> SUFFICES ASSUME Rank[phase'] < 2, phase' # "failed"
                 PROVE  fault' \/ \A p \in DOMAIN files' : ~Below(VmDir, p)
      BY DEF LeftoverInv
    <3>1. phase = "start" /\ phase' = "jailer" BY <1>2, RankIs DEF Turn
    <3>2. files' = files /\ fault' = fault BY <3>1 DEF Kept, Goes
    <3>3. fault \/ \A p \in DOMAIN files : ~Below(VmDir, p)
      BY <3>1, RankIs DEF FilesInvs, LeftoverInv
    <3> QED BY <3>2, <3>3
  <2>4. JailInv(in, phase', files')
    <3> SUFFICES ASSUME Rank[phase'] >= 2, JailedBy(in)
                 PROVE  /\ JailRoot \in DOMAIN files'
                        /\ \A p \in DOMAIN files' : Below(JailRoot, p) => files'[p].owner = User(in)
      BY DEF JailInv
    <3>1. CASE Goes("jailer", "config")
      <4> DEFINE new == Only(JailRoot, Dir(User(in)))
      <4>1. JailRoot \notin DOMAIN files /\ files' = Over(new, files)
        BY <3>1, JailerWrites
      <4>3. \A p \in DOMAIN files : ~Below(JailRoot, p)
        BY <4>1 DEF FilesInvs, RootInv
      <4>4. DOMAIN new = {JailRoot} /\ new[JailRoot].owner = User(in)
        <5>1. Dir(User(in)).owner = User(in) BY FileIs DEF Dir
        <5>2. DOMAIN new = {JailRoot} /\ new[JailRoot] = Dir(User(in)) BY OnlyIs
        <5> QED BY <5>1, <5>2
      <4> HIDE DEF new
      <4>5. /\ DOMAIN files' = {JailRoot} \cup DOMAIN files
            /\ files'[JailRoot] = new[JailRoot]
        <5>1. JailRoot \in DOMAIN new BY <4>4
        <5>2. DOMAIN Over(new, files) = DOMAIN new \cup DOMAIN files BY OverIs
        <5>3. Over(new, files)[JailRoot] = new[JailRoot] BY <5>1, InOver
        <5> QED BY <4>1, <4>4, <5>2, <5>3
      <4> QED BY <4>3, <4>4, <4>5
    <3>2. CASE ~Goes("jailer", "config")
      <4>1. Rank[phase] >= 2 BY <1>2, <3>2, RankIs DEF Turn, Goes
      <4>2. /\ JailRoot \in DOMAIN files
            /\ \A p \in DOMAIN files : Below(JailRoot, p) => files[p].owner = User(in)
        BY <4>1 DEF FilesInvs, JailInv
      <4>3. CASE files' = files BY <4>2, <4>3
      <4>4. CASE files' # files
        <5>1. PICK new : files' = Over(new, files) /\ Written(in, phase', i', new)
          BY <2>1, <4>4 DEF Writes
        <5>2. /\ DOMAIN files' = DOMAIN new \cup DOMAIN files
              /\ \A x \in DOMAIN new : files'[x] = new[x]
              /\ \A x \in DOMAIN files : x \notin DOMAIN new => files'[x] = files[x]
          <6>1. /\ DOMAIN Over(new, files) = DOMAIN new \cup DOMAIN files
                /\ \A x \in DOMAIN new : Over(new, files)[x] = new[x]
                /\ \A x \in DOMAIN files : x \notin DOMAIN new => Over(new, files)[x] = files[x]
            BY OverIs
          <6> QED BY <5>1, <6>1
        <5>3. \A p \in DOMAIN new : Below(JailRoot, p) => new[p].owner = User(in)
          BY <5>1 DEF Written, IsNew
        <5> QED BY <4>2, <5>2, <5>3
      <4> QED BY <4>3, <4>4
    <3> QED BY <3>1, <3>2
  <2>5. MadeInv(in, phase', i', files', fault')
    <3> SUFFICES ASSUME Rank[phase'] >= 2, ~fault',
                        NEW p \in DOMAIN files', Below(VmDir, p)
                 PROVE  MadeAt(in, phase', i', p)
      BY DEF MadeInv
    <3>1. fault' = fault BY <1>2, RankIs DEF Kept, Turn
    <3>2. CASE p \in DOMAIN files
      <4>1. CASE Rank[phase] >= 2
        <5>1. MadeAt(in, phase, i, p) BY <3>1, <3>2, <4>1 DEF FilesInvs, MadeInv
        <5> QED BY <4>1, <5>1, StillMade
      <4>2. CASE ~(Rank[phase] >= 2)
        <5>1. Goes("jailer", "config") BY <4>2, RankIs DEF Turn, Goes
        <5>3. \A q \in DOMAIN files : ~Below(VmDir, q)
          BY <3>1, <5>1, RankIs DEF FilesInvs, LeftoverInv, Goes
        <5> QED BY <3>2, <5>3
      <4> QED BY <4>1, <4>2
    <3>3. CASE p \notin DOMAIN files
      <4>1. PICK new : files' = Over(new, files) /\ Written(in, phase', i', new)
        BY <2>1, <3>3 DEF Writes
      <4>2. p \in DOMAIN new
        <5>1. DOMAIN Over(new, files) = DOMAIN new \cup DOMAIN files BY OverIs
        <5> QED BY <3>3, <4>1, <5>1
      <4> QED BY <4>1, <4>2 DEF Written
    <3> QED BY <3>2, <3>3
  <2>6. RootInv(files')
    <3> SUFFICES ASSUME NEW p \in DOMAIN files', Below(JailRoot, p)
                 PROVE  JailRoot \in DOMAIN files'
      BY DEF RootInv
    <3>1. CASE files' = files BY <3>1 DEF FilesInvs, RootInv
    <3>2. CASE files' # files
      <4>1. PICK new : files' = Over(new, files) /\ Written(in, phase', i', new)
        BY <2>1, <3>2 DEF Writes
      <4>2. DOMAIN files' = DOMAIN new \cup DOMAIN files
        <5>1. DOMAIN Over(new, files) = DOMAIN new \cup DOMAIN files BY OverIs
        <5> QED BY <4>1, <5>1
      <4>3. CASE p \in DOMAIN files BY <4>2, <4>3 DEF FilesInvs, RootInv
      <4>4. CASE p \in DOMAIN new /\ ~JailedBy(in)
        BY <4>1, <4>4 DEF Written, IsNew
      <4>5. CASE JailedBy(in)
        <5>1. Rank[phase'] >= 2 BY <1>2, <3>2, RankIs DEF Kept, Goes, Turn
        <5> QED BY <2>4, <4>5, <5>1 DEF JailInv
      <4> QED BY <4>2, <4>3, <4>4, <4>5
    <3> QED BY <3>1, <3>2
  <2> QED BY <2>2, <2>3, <2>4, <2>5, <2>6 DEF FilesInvs
<1> QED BY <1>1, <1>2

\* What was accepted stays so.
LEMMA AcceptedStep ==
    ASSUME Next, IndexInv(input, phase, i), AcceptedInv(input, phase, i),
           Turn(input, phase, i, phase', i'), input' = input, Kept
    PROVE  AcceptedInv(input', phase', i')
<1> DEFINE in == input
<1>1. in \in Inputs /\ i \in Nat /\ MountCount(in) \in Nat /\ Count(in) \in Nat \ {0}
      /\ DOMAIN in.request.mounts = 1..MountCount(in)
  BY InputIs DEF IndexInv
<1>2. Rank[phase'] >= 2 /\ JailedBy(in) =>
          in.request.jailer.uid # 0 /\ in.request.jailer.gid # 0
  <2>1. CASE Goes("jailer", "config") BY <2>1, JailerWrites
  <2>2. CASE ~Goes("jailer", "config")
    <3>1. Rank[phase'] >= 2 => Rank[phase] >= 2 BY <2>2, RankIs DEF Turn, Goes
    <3> QED BY <3>1 DEF AcceptedInv
  <2> QED BY <2>1, <2>2
<1>3. Rank[phase'] >= 3 => \A n \in 1..MountCount(in) :
          IsAbs(MountOf(in, n).host) /\ IsAbs(MountOf(in, n).vm)
  <2>1. CASE Goes("config", "stubs")
    <3>1. StartConfig BY <2>1, WhichAction DEF ActionOf, Goes
    <3>2. AbsoluteMounts BY <2>1, <3>1 DEF StartConfig, Fail, FailAt, Goto, Goes
    <3> QED BY <1>1, <3>2 DEF AbsoluteMounts, Request0, MountOf
  <2>2. CASE ~Goes("config", "stubs")
    <3>1. Rank[phase'] >= 3 => Rank[phase] >= 3 BY <2>2, RankIs DEF Turn, Goes
    <3> QED BY <3>1 DEF AcceptedInv
  <2> QED BY <2>1, <2>2
<1>4. \A n \in 1..MountStubsMade(in, phase', i') :
          ~IncompatibleOptions(MountOf(in, n).options, MountOf(in, n).writable)
  <2>1. CASE phase' \in {"failed", "over"} \/ phase = "over"
    BY <2>1, RankIs DEF MountStubsMade, Turn
  <2>2. CASE Goes("mountStubs", "mountStubs")
    <3>1. /\ MountStubsMade(in, phase', i') = i /\ MountStubsMade(in, phase, i) = i - 1
          /\ i \in 1..MountCount(in)
      <4>1. /\ MountStubsMade(in, phase', i') = MountStubsMade(in, phase, i) + 1
            /\ MountStubsMade(in, phase, i) = i - 1 /\ i \in 1..MountCount(in)
        BY <2>2, MadeTurn DEF Goes
      <4> QED BY <1>1, <4>1
    <3>2. ~IncompatibleOptions(MountOf(in, i).options, MountOf(in, i).writable)
      BY <2>2, MountStubStep
    <3>3. \A n \in 1..i : n = i \/ n \in 1..(i - 1) BY <1>1
    <3> QED BY <3>1, <3>2, <3>3 DEF AcceptedInv
  <2>3. CASE phase' \notin {"failed", "over"} /\ phase # "over" /\ ~Goes("mountStubs", "mountStubs")
    <3>1. MountStubsMade(in, phase', i') = MountStubsMade(in, phase, i)
      BY <2>3, MadeTurn DEF Goes
    <3> QED BY <3>1 DEF AcceptedInv
  <2> QED BY <2>1, <2>2, <2>3
<1>5. Rank[phase'] >= 6 => \A n \in DOMAIN NetsOf(in) : IsNetworkConfig(NetsOf(in)[n])
  <2>1. CASE Goes("nets", "machine")
    <3>1. AddNetworks BY <2>1, WhichAction DEF ActionOf, Goes
    <3> QED BY <2>1, <3>1, Bridge DEF AddNetworks, Fail, FailAt, Goto, Goes
  <2>2. CASE ~Goes("nets", "machine")
    <3>1. Rank[phase'] >= 6 => Rank[phase] >= 6 BY <2>2, RankIs DEF Turn, Goes
    <3> QED BY <3>1 DEF AcceptedInv
  <2> QED BY <2>1, <2>2
<1>6. Rank[phase'] >= 8 /\ JailedBy(in) => Runc(in).process /\ Runc(in).user = 0
  <2>1. CASE Goes("jailConfig", "jailFiles")
    <3>1. WriteOCIConfig BY <2>1, WhichAction DEF ActionOf, Goes
    <3> QED BY <2>1, <3>1, Bridge DEF WriteOCIConfig, Fail, FailAt, Goto, Goes
  <2>2. CASE ~Goes("jailConfig", "jailFiles")
    <3>1. Rank[phase'] >= 8 /\ JailedBy(in) => Rank[phase] >= 8
      BY <2>2, RankIs DEF Turn, Goes
    <3> QED BY <3>1 DEF AcceptedInv
  <2> QED BY <2>1, <2>2
<1> QED BY <1>2, <1>3, <1>4, <1>5, <1>6 DEF AcceptedInv

\* The FIFOs are there when the VMM gets its configuration.
LEMMA FifosStep ==
    ASSUME Next, IndexInv(input, phase, i), FifosInv(input, phase, files),
           Turn(input, phase, i, phase', i'), input' = input, Kept
    PROVE  FifosInv(input', phase', files')
<1> DEFINE in == input
<1>1. ASSUME Rank[phase'] \in 12..13, NEW f \in Fifos
      PROVE  Append(VmDir, f) \in DOMAIN files' /\ files'[Append(VmDir, f)].kind = "fifo"
  <2> DEFINE p == Append(VmDir, f)
  <2>1. phase \in {"logs", "link"} BY <1>1, RankIs DEF Turn
  <2>2. CASE phase = "logs"
    <3>1. files' = Over(Logs, files) BY <1>1, <2>2, RankIs, LogsWrites
    <3>2. p \in DOMAIN Logs /\ Logs[p] = FifoFile(Last(p), 0) BY DEF Logs, LogFifos
    <3>3. p \in DOMAIN Over(Logs, files) /\ Over(Logs, files)[p] = Logs[p] BY <3>2, InOver
    <3> QED BY <3>1, <3>2, <3>3, FifoIs
  <2>3. CASE phase = "link"
    <3>1. files' = Over(Links(in), files) BY <1>1, <2>3, RankIs, LinkWrites
    <3>2. p \in DOMAIN Links(in) /\ Links(in)[p] = FifoFile(Last(p), User(in))
      BY DEF Links, LogFifos
    <3>3. p \in DOMAIN Over(Links(in), files) /\ Over(Links(in), files)[p] = Links(in)[p]
      BY <3>2, InOver
    <3> QED BY <3>1, <3>2, <3>3, FifoIs
  <2> QED BY <2>1, <2>2, <2>3
<1>2. ASSUME Rank[phase'] = 13, JailedBy(in), NEW f \in Fifos
      PROVE  /\ InJail(f) \in DOMAIN files'
             /\ files'[InJail(f)].kind = "fifo" /\ files'[InJail(f)].modes = {"r", "w"}
  <2> DEFINE p == InJail(f)
  <2>1. phase = "link" BY <1>2, RankIs DEF Turn
  <2>2. files' = Over(Links(in), files) BY <1>2, <2>1, RankIs, LinkWrites
  <2>3. p \in DOMAIN Links(in) /\ Links(in)[p] = FifoFile(Last(p), User(in))
    BY DEF Links, JailFifos
  <2>4. p \in DOMAIN Over(Links(in), files) /\ Over(Links(in), files)[p] = Links(in)[p]
    BY <2>3, InOver
  <2> QED BY <2>2, <2>3, <2>4, FifoIs
<1> QED BY <1>1, <1>2 DEF FifosInv

-----------------------------------------------------------------------------
(* Paths that are apart.                                                   *)

\* The names in the jail that are the shim's own, and Apart for an input.
OwnNames == {"firecracker", "kernel-image"} \cup Fifos

ApartIn(in) ==
    /\ Name(in, 1) \notin OwnNames
    /\ \A n \in 2..Total(in) : Name(in, n) # Name(in, 1)
    /\ Root(in).path \in DOMAIN HostFiles => ~IsStubDrive(HostFiles[Root(in).path])
    /\ ~Below(VmDir, Kernel(in)) /\ ~Below(VmDir, Root(in).path)
    /\ \A n \in 1..MountCount(in) :
           /\ ~Below(VmDir, MountOf(in, n).host)
           /\ MountOf(in, n).host # << >> =>
                  /\ MountOf(in, n).host[1] \notin OwnNames
                  /\ \A m \in 1..Total(in) : MountOf(in, n).host[1] # Name(in, m)

\* What is below a directory of one name starts with it.
LEMMA BelowName ==
    ASSUME NEW h \in HostPath, h # << >>, NEW x \in Texts
    PROVE  Below(<<x>>, h) <=> h[1] = x
<1>1. h \in Seq(Texts) /\ Len(h) \in Nat \ {0} BY EmptySeq DEF HostPath
<1> DEFINE s == SubSeq(h, 1, 1)
<1>2. s \in Seq(Texts) /\ Len(s) = 1 /\ s[1] = h[1]
  <2>1. 1 \in Nat \ {0} /\ 1 \in 0..Len(h) /\ 1 - 1 + 1 = 1 /\ 1 \in 1..1 BY <1>1
  <2>2. /\ SubSeq(h, 1, 1) \in Seq(Texts)
        /\ Len(SubSeq(h, 1, 1)) = IF 1 <= 1 THEN 1 - 1 + 1 ELSE 0
        /\ \A k \in 1..(1 - 1 + 1) : SubSeq(h, 1, 1)[k] = h[1 + k - 1]
    BY <1>1, <2>1, PartOfSeq
  <2> QED BY <2>1, <2>2
<1> HIDE DEF s
<1>3. <<x>> \in Seq(Texts) /\ Len(<<x>>) = 1 /\ <<x>>[1] = x
  <2>1. <<x>> \in HostPath BY HostPaths
  <2> QED BY <2>1 DEF HostPath
<1>4. s = <<x>> <=> h[1] = x
  <2>1. (\A k \in 1..Len(s) : s[k] = <<x>>[k]) => s = <<x>> BY <1>2, <1>3, SeqEqual
  <2>2. \A k \in 1..1 : k = 1 OBVIOUS
  <2> QED BY <1>2, <1>3, <2>1, <2>2
<1> QED BY <1>1, <1>3, <1>4 DEF Below, s

\* What the model calls apart, for the request of the VM.
LEMMA ApartIs ==
    ASSUME input \in Inputs, Apart
    PROVE  ApartIn(input)
<1> DEFINE in == input
<1>1. /\ Count(in) \in Nat \ {0} /\ MountCount(in) \in Nat
      /\ Total(in) = 1 + Count(in) + MountCount(in)
      /\ DOMAIN in.request.mounts = 1..MountCount(in)
      /\ \A n \in 1..MountCount(in) : MountOf(in, n).host \in Path
  BY InputIs
<1>2. Last(RootPath) = Name(in, 1) /\ RootPath = Root(in).path BY Bridge DEF Name
<1>3. OwnNames \subseteq ShimNames BY DEF OwnNames, ShimNames
<1>4. \A n \in 2..Total(in) : Name(in, n) \in ShimNames
  <2> SUFFICES ASSUME NEW n \in 2..Total(in) PROVE Name(in, n) \in ShimNames
    OBVIOUS
  <2>1. CASE n <= 1 + Count(in)
    <3>1. n - 1 \in 1..Count(in) /\ n # 1 BY <1>1, <2>1
    <3> QED BY <2>1, <3>1, Bridge DEF Name, ShimNames
  <2>2. CASE ~(n <= 1 + Count(in))
    <3>1. n - 1 - Count(in) \in 1..MountCount(in) /\ n # 1 BY <1>1, <2>2
    <3>2. DOMAIN Request0.mounts = 1..MountCount(in) BY <1>1, Bridge
    <3> QED BY <2>2, <3>1, <3>2 DEF Name, ShimNames
  <2> QED BY <2>1, <2>2
<1>5. ASSUME NEW n \in 1..MountCount(in)
      PROVE  /\ ~Below(VmDir, MountOf(in, n).host)
             /\ MountOf(in, n).host # << >> =>
                    /\ MountOf(in, n).host[1] \notin OwnNames
                    /\ \A m \in 1..Total(in) : MountOf(in, n).host[1] # Name(in, m)
  <2> DEFINE h == MountOf(in, n).host
  <2>1. h \in MountHosts
    <3>1. n \in DOMAIN Request0.mounts BY <1>1, Bridge
    <3> QED BY <3>1, Bridge DEF MountHosts
  <2>2. h \in HostPath BY <1>1, HostPaths
  <2> HIDE DEF h
  <2>3. ~Below(VmDir, h) BY <2>1 DEF Apart
  <2>4. \A x \in ShimNames \cup {Name(in, 1)} : ~Below(<<x>>, h) BY <1>2, <2>1 DEF Apart
  <2>5. ASSUME h # << >>, NEW x \in Texts, x \in ShimNames \cup {Name(in, 1)}
        PROVE  h[1] # x
    BY <2>2, <2>4, <2>5, BelowName
  <2>6. OwnNames \subseteq Texts BY DEF OwnNames, Texts
  <2>7. \A m \in 1..Total(in) : Name(in, m) \in Texts BY SourceIs
  <2>8. \A m \in 1..Total(in) : m = 1 \/ m \in 2..Total(in) BY <1>1
  <2> QED BY <1>3, <1>4, <2>3, <2>5, <2>6, <2>7, <2>8 DEF h
<1>6. Name(in, 1) \notin OwnNames /\ \A n \in 2..Total(in) : Name(in, n) # Name(in, 1)
  BY <1>2, <1>3, <1>4 DEF Apart
<1>7. /\ Root(in).path \in DOMAIN HostFiles => ~IsStubDrive(HostFiles[Root(in).path])
      /\ ~Below(VmDir, Kernel(in)) /\ ~Below(VmDir, Root(in).path)
  BY <1>2, Bridge DEF Apart
<1> QED BY <1>5, <1>6, <1>7 DEF ApartIn

-----------------------------------------------------------------------------
\* The files of the VM are told apart by their paths.
LEMMA JailNamesDiffer ==
    ASSUME NEW x \in Texts, NEW y \in Texts
    PROVE  /\ InJail(x) = InJail(y) => x = y
           /\ Append(VmDir, x) = Append(VmDir, y) => x = y
           /\ InJail(x) # Append(VmDir, y) /\ InJail(x) # JailRoot
<1>1. Len(InJail(x)) = 4 /\ InJail(x)[4] = x /\ InJail(y)[4] = y BY InJailIs
<1>2. Len(Append(VmDir, y)) = 3 /\ Append(VmDir, y)[3] = y /\ Append(VmDir, x)[3] = x
  BY InVmDir
<1>3. Len(JailRoot) = 3 BY RootsArePaths
<1>4. InJail(x) = InJail(y) => x = y BY <1>1
<1>5. Append(VmDir, x) = Append(VmDir, y) => x = y BY <1>2
<1>6. InJail(x) # Append(VmDir, y) /\ InJail(x) # JailRoot
  <2>1. Len(InJail(x)) # Len(Append(VmDir, y)) /\ Len(InJail(x)) # Len(JailRoot)
    BY <1>1, <1>2, <1>3
  <2> QED BY <2>1
<1> QED BY <1>4, <1>5, <1>6

\* The file of a stub drive is no other stub's, no copy and no fifo.
LEMMA SourcesApart ==
    ASSUME NEW in \in Inputs, ApartIn(in), NEW n \in 2..Total(in)
    PROVE  /\ \A x \in OwnNames \cup {Name(in, 1)} : Source(in, n) # InJail(x)
           /\ \A f \in Fifos : Source(in, n) # Append(VmDir, f)
           /\ \A m \in 2..Total(in) : Source(in, m) = Source(in, n) => m = n
<1>1. Total(in) \in Nat BY InputIs
<1>2. ASSUME NEW m \in 2..Total(in)
      PROVE  /\ Source(in, m) = Append(Place(in), Name(in, m)) /\ Name(in, m) \in Texts
             /\ Name(in, m) \notin OwnNames \cup {Name(in, 1)}
  <2>1. m \in 1..Total(in) /\ m # 1 BY <1>1
  <2>2. Name(in, m) \notin OwnNames BY NamesDiffer DEF OwnNames
  <2> QED BY <2>1, <2>2, SourceIs DEF ApartIn
<1>3. /\ OwnNames \cup {Name(in, 1)} \subseteq Texts
      /\ Fifos \subseteq Texts /\ Fifos \subseteq OwnNames
  <2>1. 1 \in 1..Total(in) BY <1>1
  <2> QED BY <2>1, SourceIs DEF OwnNames, Texts
<1>4. CASE Place(in) = JailRoot
  <2>1. \A m \in 2..Total(in) : Source(in, m) = InJail(Name(in, m)) BY <1>2, <1>4 DEF InJail
  <2> QED BY <1>2, <1>3, <2>1, JailNamesDiffer, NamesDiffer
<1>5. CASE Place(in) = VmDir
  <2>1. \A m \in 2..Total(in) : Source(in, m) = Append(VmDir, Name(in, m)) BY <1>2, <1>5
  <2> QED BY <1>2, <1>3, <2>1, JailNamesDiffer, NamesDiffer
<1> QED BY <1>4, <1>5, RootsArePaths

\* The path of a mount in the jail is no file that createVM names there.
LEMMA MountsApart ==
    ASSUME NEW in \in Inputs, ApartIn(in), NEW n \in 1..MountCount(in),
           NEW l \in 0..Len(MountOf(in, n).host), NEW x \in Texts,
           x \in OwnNames \/ \E m \in 1..Total(in) : x = Name(in, m)
    PROVE  JailRoot \o SubSeq(MountOf(in, n).host, 1, l) # InJail(x)
<1> DEFINE h == MountOf(in, n).host
           s == SubSeq(h, 1, l)
<1>1. h \in HostPath BY InputIs, HostPaths
<1>2. s \in HostPath /\ Len(s) = l BY <1>1, JailedParts
<1>3. h # << >> => h[1] # x BY DEF ApartIn
<1>4. InJail(x) = JailRoot \o <<x>> /\ <<x>> \in HostPath BY InJailIs
<1>5. Len(<<x>>) = 1 /\ <<x>>[1] = x OBVIOUS
<1>6. l = 1 => s[1] = h[1] /\ h # << >>
  <2> SUFFICES ASSUME l = 1 PROVE s[1] = h[1] /\ h # << >>
    OBVIOUS
  <2>1. h \in Seq(Texts) /\ 1 \in Nat \ {0} /\ 1 \in 0..Len(h) /\ 1 - 1 + 1 = 1 /\ 1 \in 1..1
    BY <1>1 DEF HostPath
  <2>2. \A k \in 1..(1 - 1 + 1) : SubSeq(h, 1, 1)[k] = h[1 + k - 1] BY <2>1, PartOfSeq
  <2>3. Len(<< >>) = 0 /\ ~(1 \in 0..0) OBVIOUS
  <2>4. h # << >> BY <2>1, <2>3
  <2> QED BY <2>1, <2>2, <2>4
<1> HIDE DEF h, s
<1>7. JailRoot \o s = JailRoot \o <<x>> => s = <<x>> BY <1>2, <1>4, JailRooted
<1>8. s # <<x>> BY <1>2, <1>3, <1>5, <1>6
<1> QED BY <1>4, <1>7, <1>8 DEF h, s

\* What a step before the VM runs does not write.
LEMMA Untouched ==
    ASSUME Next, IndexInv(input, phase, i), VmmConfigInv(input, phase, i, mCfg),
           FilesInv(files), Turn(input, phase, i, phase', i'), Kept,
           Rank[phase'] \in 3..13, phase \notin {"stubs", "mountStubs"},
           NEW p \in DOMAIN files,
           phase = "jailFiles" => p # InJail("firecracker") /\ p # InJail("kernel-image"),
           phase = "jailDrives" => p # InJail(Name(input, 1)),
           phase \in {"logs", "link"} =>
               \A f \in Fifos : p # Append(VmDir, f) /\ p # InJail(f)
    PROVE  p \in DOMAIN files' /\ files'[p] = files[p]
<1>1. phase' \notin {"failed", "over", "config", "patch"} BY RankIs
<1>2. CASE Goes("jailFiles", "jailDrives")
  <2> DEFINE a == CopiedTo(input, files, FirecrackerBinaryPath, "firecracker", {"r", "x"})
             b == CopiedTo(input, files, Kernel(input), "kernel-image", {"r"})
  <2>1. files' = Over(a, Over(b, files)) BY <1>2, JailFilesWrites
  <2>2. DOMAIN a = {InJail("firecracker")} /\ DOMAIN b = {InJail("kernel-image")}
    BY OnlyIs DEF CopiedTo
  <2>3. p \notin DOMAIN a /\ p \notin DOMAIN b BY <1>2, <2>2 DEF Goes
  <2> HIDE DEF a, b
  <2>4. p \in DOMAIN Over(b, files) /\ Over(b, files)[p] = files[p] BY <2>3, NotInOver
  <2>5. p \in DOMAIN Over(a, Over(b, files)) /\ Over(a, Over(b, files))[p] = Over(b, files)[p]
    BY <2>3, <2>4, NotInOver
  <2> QED BY <2>1, <2>4, <2>5
<1>3. CASE Goes("jailDrives", "jailDrives")
  <2> DEFINE a == CopiedTo(input, files, Source(input, i), Name(input, 1), RootModes(input))
  <2>1. files' = files \/ files' = Over(a, files) BY <1>3, JailDriveWrites
  <2>2. DOMAIN a = {InJail(Name(input, 1))} BY OnlyIs DEF CopiedTo
  <2>3. p \notin DOMAIN a BY <1>3, <2>2 DEF Goes
  <2> HIDE DEF a
  <2>4. p \in DOMAIN Over(a, files) /\ Over(a, files)[p] = files[p] BY <2>3, NotInOver
  <2> QED BY <2>1, <2>4
<1>4. CASE phase = "logs"
  <2>1. files' = Over(Logs, files) BY <1>1, <1>4, LogsWrites
  <2>2. p \notin DOMAIN Logs BY <1>4 DEF Logs, LogFifos
  <2>3. p \in DOMAIN Over(Logs, files) /\ Over(Logs, files)[p] = files[p] BY <2>2, NotInOver
  <2> QED BY <2>1, <2>3
<1>5. CASE phase = "link"
  <2>1. files' = Over(Links(input), files) BY <1>1, <1>5, LinkWrites
  <2>2. p \notin DOMAIN Links(input) BY <1>5 DEF Links, LogFifos, JailFifos
  <2>3. p \in DOMAIN Over(Links(input), files) /\ Over(Links(input), files)[p] = files[p]
    BY <2>2, NotInOver
  <2> QED BY <2>1, <2>3
<1>6. CASE files' = files BY <1>6
<1> QED BY <1>1, <1>2, <1>3, <1>4, <1>5, <1>6 DEF Kept, Goes, Turn

\* The stub drives are what they were made as, until the VMM has them.
LEMMA StubFilesStep ==
    ASSUME Next, IndexInv(input, phase, i), VmmConfigInv(input, phase, i, mCfg),
           FilesInv(files), StubFilesInv(input, phase, i, files), ApartIn(input),
           Turn(input, phase, i, phase', i'), input' = input, Kept
    PROVE  StubFilesInv(input', phase', i', files')
<1> DEFINE in == input
           Made == DrivesMade(in, phase, i)
           Makes2 == DrivesMade(in, phase', i')
<1> SUFFICES ASSUME Rank[phase'] \in 3..13, NEW n \in 2..Makes2
             PROVE  Source(in, n) \in DOMAIN files' /\ files'[Source(in, n)] = StubFile(in, n)
  BY DEF StubFilesInv
<1>1. /\ in \in Inputs /\ Made \in 1..Total(in) /\ Total(in) \in Nat
      /\ phase' \notin {"failed", "over"}
  <2>1. in \in Inputs BY DEF IndexInv
  <2>2. Made \in 1..Total(in) BY MadeIs
  <2>3. phase' \notin {"failed", "over"} BY RankIs
  <2> QED BY <2>1, <2>2, <2>3, InputIs
<1>2. CASE Goes("stubs", "stubs") \/ Goes("mountStubs", "mountStubs")
  <2>1. PICK m \in 2..Total(in) :
            /\ Made = m - 1 /\ Makes2 = m /\ Source(in, m) \notin DOMAIN files
            /\ files' = Over(Only(Source(in, m), StubFile(in, m)), files)
    BY <1>2, StubWrites
  <2> DEFINE new == Only(Source(in, m), StubFile(in, m))
  <2>2. DOMAIN new = {Source(in, m)} /\ new[Source(in, m)] = StubFile(in, m) BY OnlyIs
  <2> HIDE DEF new
  <2>3. CASE n = m
    <3>1. Source(in, m) \in DOMAIN new BY <2>2
    <3>2. /\ Source(in, m) \in DOMAIN Over(new, files)
          /\ Over(new, files)[Source(in, m)] = new[Source(in, m)]
      BY <3>1, InOver
    <3> QED BY <2>1, <2>2, <2>3, <3>2 DEF new
  <2>4. CASE n # m
    <3>1. n \in 2..Made BY <1>1, <2>1, <2>4
    <3>2. Rank[phase] \in 3..13 BY <1>2, RankIs DEF Goes
    <3>3. Source(in, n) \in DOMAIN files /\ files[Source(in, n)] = StubFile(in, n)
      BY <3>1, <3>2 DEF StubFilesInv
    <3>4. Source(in, n) \notin DOMAIN new BY <2>1, <2>2, <3>3
    <3>5. /\ Source(in, n) \in DOMAIN Over(new, files)
          /\ Over(new, files)[Source(in, n)] = files[Source(in, n)]
      BY <3>3, <3>4, NotInOver
    <3> QED BY <2>1, <3>3, <3>5 DEF new
  <2> QED BY <2>3, <2>4
<1>3. CASE ~(Goes("stubs", "stubs") \/ Goes("mountStubs", "mountStubs"))
  <2>1. Makes2 = Made
    <3>1. phase # "over" BY RankIs DEF Turn
    <3> QED BY <1>1, <1>3, <3>1, MadeTurn DEF Goes
  <2>2. Rank[phase] \in 3..13
    <3>1. Rank[phase] \in 3..13 \/ phase = "config" BY RankIs DEF Turn
    <3>2. phase = "config" => Made = 1
      BY RankIs DEF DrivesMade, StubsMade, MountStubsMade
    <3> QED BY <2>1, <3>1, <3>2
  <2>3. Source(in, n) \in DOMAIN files /\ files[Source(in, n)] = StubFile(in, n)
    BY <2>1, <2>2 DEF StubFilesInv
  <2>4. n \in 2..Total(in) BY <1>1, <2>1
  <2>5. CASE phase \in {"stubs", "mountStubs"}
    <3>1. files' = files BY <1>1, <1>3, <2>5 DEF Kept, Goes
    <3> QED BY <2>3, <3>1
  <2>6. CASE phase \notin {"stubs", "mountStubs"}
    <3>1. /\ \A x \in OwnNames \cup {Name(in, 1)} : Source(in, n) # InJail(x)
          /\ \A f \in Fifos : Source(in, n) # Append(VmDir, f)
      BY <1>1, <2>4, SourcesApart
    <3> DEFINE p == Source(in, n)
    <3>2. /\ p # InJail("firecracker") /\ p # InJail("kernel-image")
          /\ p # InJail(Name(in, 1))
          /\ \A f \in Fifos : p # Append(VmDir, f) /\ p # InJail(f)
      BY <3>1 DEF OwnNames
    <3> HIDE DEF p
    <3>3. p \in DOMAIN files BY <2>3 DEF p
    <3>4. p \in DOMAIN files' /\ files'[p] = files[p] BY <2>6, <3>2, <3>3, Untouched
    <3> QED BY <2>3, <3>4 DEF p
  <2> QED BY <2>5, <2>6
<1> QED BY <1>2, <1>3

\* A copy of a file of the host has the host's content.
LEMMA CopiedToIs ==
    ASSUME NEW in, NEW fs, FilesInv(fs), NEW src \in DOMAIN fs, ~Below(VmDir, src),
           NEW x, NEW modes
    PROVE  CopiedTo(in, fs, src, x, modes)[InJail(x)] = CopyOf(in, src, modes)
<1>1. src \in DOMAIN HostFiles /\ fs[src] = HostFiles[src] BY DEF FilesInv
<1>2. CopiedFile(fs[src], User(in), modes) = CopyOf(in, src, modes)
  BY <1>1 DEF CopiedFile, CopyOf
<1> QED BY <1>1, <1>2, OnlyIs DEF CopiedTo

\* The binary, the kernel and the root drive stay as they were copied.
LEMMA CopiesStep ==
    ASSUME Next, IndexInv(input, phase, i), VmmConfigInv(input, phase, i, mCfg),
           FilesInv(files), CopiesInv(input, phase, i, files), ApartIn(input),
           Turn(input, phase, i, phase', i'), input' = input, Kept
    PROVE  CopiesInv(input', phase', i', files')
<1> DEFINE in == input
           k == InJail("kernel-image")
           r == InJail(Name(in, 1))
           KernelCopied(fs) == k \in DOMAIN fs /\ fs[k] = CopyOf(in, Kernel(in), {"r"})
           RootCopied(fs) == r \in DOMAIN fs /\ fs[r] = CopyOf(in, Root(in).path, RootModes(in))
<1> SUFFICES ASSUME JailedBy(in), Rank[phase'] \in 9..13
             PROVE  /\ KernelCopied(files')
                    /\ JailedTo(in, phase', i') > 1 => RootCopied(files')
  BY DEF CopiesInv
<1>1. in \in Inputs /\ 1 \in 1..Total(in) /\ Total(in) \in Nat BY InputIs DEF IndexInv
<1>2. /\ k # InJail("firecracker") /\ r # InJail("firecracker") /\ r # k
      /\ \A f \in Fifos : /\ k # InJail(f) /\ k # Append(VmDir, f)
                          /\ r # InJail(f) /\ r # Append(VmDir, f)
  <2>1. /\ "kernel-image" \in Texts /\ "firecracker" \in Texts /\ Fifos \subseteq Texts
        /\ Name(in, 1) \in Texts
    BY <1>1, SourceIs DEF Texts
  <2>2. /\ Name(in, 1) # "firecracker" /\ Name(in, 1) # "kernel-image"
        /\ \A f \in Fifos : Name(in, 1) # f /\ f # "kernel-image"
    BY DEF ApartIn, OwnNames, Fifos
  <2> QED BY <2>1, <2>2, JailNamesDiffer
<1>3. CASE Goes("jailFiles", "jailDrives")
  <2> DEFINE a == CopiedTo(input, files, FirecrackerBinaryPath, "firecracker", {"r", "x"})
             b == CopiedTo(input, files, Kernel(input), "kernel-image", {"r"})
  <2>1. files' = Over(a, Over(b, files)) /\ Kernel(in) \in DOMAIN files
    BY <1>3, JailFilesWrites
  <2>2. DOMAIN b = {k} /\ b[k] = CopyOf(in, Kernel(in), {"r"})
    <3>1. ~Below(VmDir, Kernel(in)) BY DEF ApartIn
    <3>2. DOMAIN b = {k} BY OnlyIs DEF CopiedTo
    <3>3. b[k] = CopyOf(in, Kernel(in), {"r"}) BY <2>1, <3>1, CopiedToIs
    <3> QED BY <3>2, <3>3
  <2>3. DOMAIN a = {InJail("firecracker")} BY OnlyIs DEF CopiedTo
  <2> HIDE DEF a, b, k
  <2>4. k \in DOMAIN Over(b, files) /\ Over(b, files)[k] = b[k] BY <2>2, InOver
  <2>5. /\ k \in DOMAIN Over(a, Over(b, files))
        /\ Over(a, Over(b, files))[k] = Over(b, files)[k]
    BY <1>2, <2>3, <2>4, NotInOver
  <2>6. JailedTo(in, phase', i') = 1 BY <1>3, RankIs DEF Goes, Turn, JailedTo
  <2>7. KernelCopied(files') BY <2>1, <2>2, <2>4, <2>5
  <2> QED BY <2>6, <2>7
<1>4. CASE Goes("jailDrives", "jailDrives")
  <2>1. KernelCopied(files) /\ (JailedTo(in, phase, i) > 1 => RootCopied(files))
    BY <1>4, RankIs DEF CopiesInv, Goes
  <2>2. JailedTo(in, phase, i) = i /\ i \in 1..Total(in) BY <1>4, RankIs, JailedTurn DEF Goes
  <2> DEFINE src == Source(in, i)
             a == CopiedTo(in, files, src, Name(in, 1), RootModes(in))
  <2>3. /\ src \in DOMAIN files /\ (IsStubDrive(files[src]) \/ i = 1)
        /\ files' = IF IsStubDrive(files[src]) THEN files ELSE Over(a, files)
    BY <1>4, JailDriveWrites
  <2>4. CASE i = 1
    <3>1. src = Root(in).path BY <2>4 DEF Source
    <3>2. ~Below(VmDir, src) BY <3>1 DEF ApartIn
    <3>3. /\ DOMAIN a = {r} /\ a[r] = CopyOf(in, Root(in).path, RootModes(in))
          /\ src \in DOMAIN HostFiles /\ files[src] = HostFiles[src]
      <4> HIDE DEF src
      <4>1. /\ DOMAIN a = {r} /\ a[r] = CopyOf(in, src, RootModes(in))
            /\ src \in DOMAIN HostFiles /\ files[src] = HostFiles[src]
        <5>1. DOMAIN a = {r} BY OnlyIs DEF CopiedTo
        <5>2. a[r] = CopyOf(in, src, RootModes(in))
          <6>1. src \in DOMAIN files BY <2>3
          <6> QED BY <3>2, <6>1, CopiedToIs
        <5>3. src \in DOMAIN HostFiles /\ files[src] = HostFiles[src]
          BY <2>3, <3>2 DEF FilesInv
        <5> QED BY <5>1, <5>2, <5>3
      <4> QED BY <3>1, <4>1
    <3>4. ~IsStubDrive(files[src]) BY <3>1, <3>3 DEF ApartIn
    <3>5. files' = Over(a, files) BY <2>3, <3>4
    <3> HIDE DEF a, r, k
    <3>6. r \in DOMAIN Over(a, files) /\ Over(a, files)[r] = a[r] BY <3>3, InOver
    <3>7. k \in DOMAIN Over(a, files) /\ Over(a, files)[k] = files[k]
      BY <1>2, <2>1, <3>3, NotInOver
    <3> QED BY <2>1, <3>3, <3>5, <3>6, <3>7
  <2>5. CASE i # 1
    <3>1. files' = files BY <2>3, <2>5
    <3>2. i > 1 BY <2>2, <2>5
    <3> QED BY <2>1, <2>2, <3>1, <3>2
  <2> QED BY <2>4, <2>5
<1>5. CASE ~Goes("jailFiles", "jailDrives") /\ ~Goes("jailDrives", "jailDrives")
  <2>1. Rank[phase] \in 9..13 /\ JailedTo(in, phase', i') = JailedTo(in, phase, i)
    <3>1. Rank[phase] \in 9..13 BY <1>5, RankIs DEF Turn, Goes
    <3>2. Rank[phase'] >= 7 BY RankIs DEF Turn
    <3> QED BY <1>5, <3>1, <3>2, JailedTurn DEF Goes
  <2>2. KernelCopied(files) /\ (JailedTo(in, phase, i) > 1 => RootCopied(files))
    BY <2>1 DEF CopiesInv
  <2>3. CASE files' = files BY <2>1, <2>2, <2>3
  <2>4. CASE files' # files
    <3>1. phase \in {"logs", "link"} BY <1>5, <2>1, <2>4, RankIs DEF Kept, Goes, Turn
    <3>2. ASSUME NEW p \in {k, r}, p \in DOMAIN files
          PROVE  p \in DOMAIN files' /\ files'[p] = files[p]
      <4>1. \A f \in Fifos : p # Append(VmDir, f) /\ p # InJail(f) BY <1>2, <3>2
      <4>2. Rank[phase'] \in 3..13 BY RankIs DEF Turn
      <4> QED BY <3>1, <3>2, <4>1, <4>2, Untouched
    <3> HIDE DEF k, r
    <3> QED BY <2>1, <2>2, <3>2
  <2> QED BY <2>3, <2>4
<1> QED BY <1>3, <1>4, <1>5

-----------------------------------------------------------------------------
\* What was exposed to the jail.
LEMMA ExposedStep ==
    ASSUME Next, IndexInv(input, phase, i), StubsInv(input, phase, i, stubs, mountStubs),
           VmmConfigInv(input, phase, i, mCfg),
           FilesInv(files), JailInv(input, phase, files),
           ExposedInv(input, phase, i, files), ApartIn(input),
           Turn(input, phase, i, phase', i'), input' = input, Kept
    PROVE  ExposedInv(input', phase', i', files')
<1> DEFINE in == input
           InFiles(n, fs) == JailRoot \o MountOf(in, n).host \in DOMAIN fs
<1> SUFFICES ASSUME JailedBy(in)
             PROVE  /\ \A n \in 1..ExposedTo(in, phase', i') : InFiles(n, files')
                    /\ phase' = "patch" =>
                           LET host == MountOf(in, i').host
                               file == HostFiles[host]
                               copy == files'[JailRoot \o host]
                           IN  /\ host \in DOMAIN HostFiles
                               /\ copy.kind = file.kind /\ copy.content = file.content
                               /\ copy.modes = IF file.kind = "blk" THEN {"r", "w"}
                                               ELSE file.modes
                               /\ \A n \in 0..Len(host) :
                                      JailRoot \o SubSeq(host, 1, n) \in DOMAIN files'
  BY DEF ExposedInv
<1>1. in \in Inputs /\ MountCount(in) \in Nat /\ i \in Nat BY InputIs DEF IndexInv
<1>2. \A n \in 1..ExposedTo(in, phase, i) : InFiles(n, files) BY DEF ExposedInv
<1>3. CASE Goes("expose", "patch")
  <2> DEFINE host == MountOf(in, i).host
             p == JailRoot \o host
             a == MountFile(in, files, i)
             b == MountDirs(in, files, i)
             m == IF files[host].kind = "blk" THEN {"r", "w"} ELSE files[host].modes
             f == ExposedFile(files[host], User(in), m)
  <2>1. /\ i \in 1..MountCount(in) /\ i' = i
        /\ host \in DOMAIN files /\ files[host].kind \in {"blk", "reg"}
        /\ files' = Over(a, Over(b, files))
    BY <1>3, ExposeIs
  <2>2. host \in DOMAIN HostFiles /\ files[host] = HostFiles[host]
    BY <2>1 DEF FilesInv, ApartIn
  <2>3. IsFile(files[host]) BY <2>1 DEF FilesInv
  <2>4. f.kind = files[host].kind /\ f.content = files[host].content /\ f.modes = m
    BY <2>3, CopyIs
  <2>5. DOMAIN a = {p} /\ a[p] = f
    <3>1. a = Only(p, f) BY DEF MountFile
    <3> HIDE DEF a, p, f
    <3> QED BY <3>1, OnlyIs
  <2>6. \A n \in 0..Len(host) : /\ SubSeq(p, 1, 3 + n) = JailRoot \o SubSeq(host, 1, n)
                                /\ SubSeq(host, 1, Len(host)) = host
    BY <1>1, <2>1, InputIs, HostPaths, JailedParts
  <2>7. Len(p) = 3 + Len(host) /\ Len(host) \in Nat /\ JailRoot \o << >> = JailRoot
    <3>1. host \in HostPath /\ << >> \in HostPath BY <1>1, <2>1, InputIs, HostPaths
    <3>2. Len(p) = 3 + Len(host) BY <3>1, JailRooted
    <3>3. JailRoot \o << >> = JailRoot BY <3>1, JailRooted
    <3> QED BY <3>1, <3>2, <3>3, HostPaths
  <2>8. DOMAIN b = {SubSeq(p, 1, n) : n \in 3..(Len(p) - 1)} \ DOMAIN files BY DEF MountDirs
  <2>9. JailRoot \in DOMAIN files BY <1>3, RankIs DEF JailInv, Goes
  <2> HIDE DEF a, b, f, p, host
  <2>10. /\ DOMAIN files' = DOMAIN a \cup (DOMAIN b \cup DOMAIN files)
         /\ files'[p] = f
    <3>1. p \in DOMAIN a BY <2>5
    <3>2. p \in DOMAIN Over(a, Over(b, files)) /\ Over(a, Over(b, files))[p] = a[p]
      BY <3>1, InOver
    <3>3. /\ DOMAIN Over(a, Over(b, files)) = DOMAIN a \cup DOMAIN Over(b, files)
          /\ DOMAIN Over(b, files) = DOMAIN b \cup DOMAIN files
      BY OverIs
    <3> QED BY <2>1, <2>5, <3>2, <3>3
  <2>11. ASSUME NEW n \in 0..Len(host)
         PROVE  JailRoot \o SubSeq(host, 1, n) \in DOMAIN files'
    <3>1. CASE n = Len(host)
      BY <2>5, <2>6, <2>10, <3>1 DEF p
    <3>2. CASE n # Len(host)
      <4>1. 3 + n \in 3..(Len(p) - 1) BY <2>7, <3>2
      <4>2. SubSeq(p, 1, 3 + n) \in DOMAIN b \cup DOMAIN files BY <2>8, <4>1
      <4>3. SubSeq(p, 1, 3 + n) = JailRoot \o SubSeq(host, 1, n) BY <2>6
      <4> QED BY <2>10, <4>2, <4>3
    <3> QED BY <3>1, <3>2
  <2>12. \A n \in 1..ExposedTo(in, phase', i') : InFiles(n, files')
    <3>1. ExposedTo(in, phase', i') = i /\ ExposedTo(in, phase, i) = i - 1
      BY <1>3, <2>1, RankIs DEF ExposedTo, Goes
    <3>2. \A n \in 1..i : n = i \/ n \in 1..(i - 1) BY <1>1
    <3>3. InFiles(i, files') BY <2>5, <2>10 DEF p, host
    <3> QED BY <1>2, <2>10, <3>1, <3>2, <3>3
  <2> QED BY <2>1, <2>2, <2>4, <2>10, <2>11, <2>12 DEF p, host
<1>4. CASE ~Goes("expose", "patch")
  <2>1. phase' # "patch" BY <1>4, RankIs DEF Turn, Goes
  <2>2. CASE Rank[phase'] < 15
    <3>1. ExposedTo(in, phase', i') = 0 BY <2>2, RankIs DEF ExposedTo
    <3> QED BY <2>1, <3>1
  <2>3. CASE Rank[phase] < 15 /\ ~(Rank[phase'] < 15)
    <3>1. ExposedTo(in, phase', i') = 0 BY <2>3, RankIs DEF ExposedTo, Turn
    <3> QED BY <2>1, <3>1
  <2>4. CASE ~(Rank[phase] < 15) /\ ~(Rank[phase'] < 15)
    <3>1. files' = files
      <4>1. phase \notin {"jailer", "stubs", "mountStubs", "jailFiles", "jailDrives", "logs",
                          "link", "failed"} /\ phase # "ready"
        BY <2>4, RankIs DEF Turn
      <4> QED BY <1>4, <4>1 DEF Kept, Goes
    <3>2. ExposedTo(in, phase', i') = ExposedTo(in, phase, i)
      BY <1>1, <1>4, <2>4, RankIs DEF ExposedTo, Turn, Goes, IndexInv
    <3> QED BY <1>2, <2>1, <3>1, <3>2
  <2> QED BY <2>2, <2>3, <2>4
<1> QED BY <1>3, <1>4

-----------------------------------------------------------------------------
(* The files that the VMM opens.                                           *)

\* The drives of the VMM, and where it finds them.
RealPath(in, n) == IF n = 1 /\ JailedBy(in) THEN InJail(Name(in, 1)) ELSE Source(in, n)

\* The drives of the VMM's configuration, where the VMM finds them.
LEMMA VmmDrives ==
    ASSUME IndexInv(input, phase, i), VmmConfigInv(input, phase, i, mCfg), Rank[phase] >= 10
    PROVE  /\ DOMAIN mCfg.drives = 1..Total(input)
           /\ \A n \in 1..Total(input) :
                  /\ VmmPath(mCfg.drives[n].path) = RealPath(input, n)
                  /\ mCfg.drives[n].id = IF n = 1 THEN "root_drive" ELSE Name(input, n)
                  /\ mCfg.drives[n].writable = DriveOf(input, n).writable
           /\ VmmPath(mCfg.kernel) = IF JailedBy(input) THEN InJail("kernel-image")
                                     ELSE Kernel(input)
<1> DEFINE in == input
           j == JailedTo(in, phase, i)
<1>1. in \in Inputs /\ Total(in) \in Nat BY InputIs DEF IndexInv
<1>2. Rank[phase] >= 7 /\ Rank[phase] >= 9 /\ j = IF JailedBy(in) THEN Total(in) + 1 ELSE 1
  BY RankIs DEF JailedTo, IndexInv
<1>3. /\ mCfg.drives = DrivesAt(in, j)
      /\ mCfg.kernel = IF JailedBy(in) THEN <<"kernel-image">> ELSE Kernel(in)
  BY <1>2 DEF VmmConfigInv
<1>4. ASSUME NEW n \in 1..Total(in)
      PROVE  DrivesAt(in, j)[n] = IF JailedBy(in) THEN DriveInJail(in, n) ELSE DriveOf(in, n)
  BY <1>1, <1>2 DEF DrivesAt
<1> HIDE DEF j
<1>5. ASSUME NEW n \in 1..Total(in)
      PROVE  /\ VmmPath(mCfg.drives[n].path) = RealPath(in, n)
             /\ mCfg.drives[n].id = IF n = 1 THEN "root_drive" ELSE Name(in, n)
             /\ mCfg.drives[n].writable = DriveOf(in, n).writable
  <2>1. /\ DriveOf(in, n).path = Source(in, n)
        /\ DriveOf(in, n).id = IF n = 1 THEN "root_drive" ELSE Name(in, n)
        /\ DriveInJail(in, n).path = <<Name(in, n)>>
        /\ DriveInJail(in, n).id = DriveOf(in, n).id
        /\ DriveInJail(in, n).writable = DriveOf(in, n).writable
    BY <1>1, DriveIs
  <2>2. CASE JailedBy(in)
    <3>1. mCfg.drives[n] = DriveInJail(in, n) BY <1>3, <1>4, <2>2
    <3>2. VmmPath(<<Name(in, n)>>) = JailRoot \o <<Name(in, n)>> BY <2>2, Bridge DEF VmmPath
    <3>3. JailRoot \o <<Name(in, n)>> = InJail(Name(in, n))
      BY <1>1, SourceIs, InJailIs
    <3>4. InJail(Name(in, n)) = RealPath(in, n)
      BY <1>1, <2>2, SourceIs DEF RealPath, Place, InJail
    <3> QED BY <2>1, <3>1, <3>2, <3>3, <3>4
  <2>3. CASE ~JailedBy(in)
    <3>1. mCfg.drives[n] = DriveOf(in, n) BY <1>3, <1>4, <2>3
    <3>2. VmmPath(Source(in, n)) = Source(in, n) BY <2>3, Bridge DEF VmmPath
    <3> QED BY <2>1, <2>3, <3>1, <3>2 DEF RealPath
  <2> QED BY <2>2, <2>3
<1>6. DOMAIN mCfg.drives = 1..Total(in) BY <1>3 DEF DrivesAt
<1>7. VmmPath(mCfg.kernel) = IF JailedBy(in) THEN InJail("kernel-image") ELSE Kernel(in)
  <2>1. "kernel-image" \in Texts BY DEF Texts
  <2>2. InJail("kernel-image") = JailRoot \o <<"kernel-image">> BY <2>1, InJailIs
  <2> QED BY <1>3, <2>2, Bridge DEF VmmPath
<1> QED BY <1>5, <1>6, <1>7

\* The drive with an ID.
LEMMA DeviceIs ==
    ASSUME IndexInv(input, phase, i), VmmConfigInv(input, phase, i, mCfg), Rank[phase] >= 10,
           NEW n \in 2..Total(input)
    PROVE  Device(Name(input, n)) = n
<1> DEFINE D == DOMAIN mCfg.drives
           P(m) == mCfg.drives[m].id = Name(input, n)
<1>1. input \in Inputs /\ Total(input) \in Nat BY InputIs DEF IndexInv
<1>2. /\ D = 1..Total(input)
      /\ \A m \in D : mCfg.drives[m].id = IF m = 1 THEN "root_drive" ELSE Name(input, m)
  BY VmmDrives
<1>3. n \in D /\ P(n) BY <1>1, <1>2
<1>4. ASSUME NEW m \in D, P(m) PROVE m = n
  <2>1. Name(input, n) # "root_drive" BY <1>1, NamesDiffer
  <2>2. m # 1 /\ Name(input, m) = Name(input, n) BY <1>2, <1>4, <2>1
  <2>3. m \in 2..Total(input) BY <1>1, <1>2, <2>2
  <2> QED BY <1>1, <2>2, <2>3, NamesDiffer
<1>5. (CHOOSE m \in D : P(m)) = n BY <1>3, <1>4, Zenon
<1> QED BY <1>5 DEF Device

\* UpdateGuestDrive.
LEMMA PatchIs ==
    ASSUME Next, IndexInv(input, phase, i), StubsInv(input, phase, i, stubs, mountStubs),
           VmmConfigInv(input, phase, i, mCfg), Goes("patch", "mount")
    PROVE  LET host == MountOf(input, i).host IN
           /\ i \in 1..MountCount(input) /\ i' = i
           /\ CanOpen(host, DriveModes(MountOf(input, i)))
           /\ devices' = [devices EXCEPT ![1 + Count(input) + i] = files[VmmPath(host)]]
<1> DEFINE in == input
           n == 1 + Count(in) + i
<1>1. /\ in \in Inputs /\ Count(in) \in Nat \ {0} /\ MountCount(in) \in Nat
      /\ Total(in) = 1 + Count(in) + MountCount(in)
      /\ i \in 1..MountCount(in) /\ Rank[phase] >= 10 /\ Rank[phase] >= 5
  <2>1. in \in Inputs BY DEF IndexInv
  <2>2. /\ Count(in) \in Nat \ {0} /\ MountCount(in) \in Nat
        /\ Total(in) = 1 + Count(in) + MountCount(in)
    BY <2>1, InputIs
  <2>3. i \in 1..MountCount(in) BY <2>2 DEF IndexInv, Goes
  <2>4. Rank[phase] = 16 BY RankIs DEF Goes
  <2> QED BY <2>1, <2>2, <2>3, <2>4
<1>2. n \in 2..Total(in) /\ n \in 1..Total(in) /\ n # 1 /\ ~(n <= 1 + Count(in))
      /\ n - 1 - Count(in) = i
  BY <1>1
<1>3. mountStubs[i].id = Name(in, n) /\ mountStubs[i].host = MountOf(in, i).host
  <2>1. mountStubs[i] = MountStubOf(in, i) BY <1>1, MountStubsAre
  <2>2. Name(in, n) = StubName("drivemntstub", i) BY <1>1, NamesDiffer
  <2> QED BY <2>1, <2>2 DEF MountStubOf
<1> HIDE DEF n
<1>4. Device(mountStubs[i].id) = n BY <1>1, <1>2, <1>3, DeviceIs
<1>5. mCfg.drives[n].writable = MountOf(in, i).writable
  <2>1. mCfg.drives[n].writable = DriveOf(in, n).writable BY <1>1, <1>2, VmmDrives
  <2>2. DriveOf(in, n).writable = MountOf(in, i).writable BY <1>1, <1>2, DriveIs
  <2> QED BY <2>1, <2>2
<1>6. DriveModes(mCfg.drives[n]) = DriveModes(MountOf(in, i)) BY <1>5 DEF DriveModes
<1>7. Patch BY WhichAction DEF ActionOf, Goes
<1>8. /\ i' = i /\ CanOpen(mountStubs[i].host, DriveModes(mCfg.drives[n]))
      /\ devices' = [devices EXCEPT ![n] = files[VmmPath(mountStubs[i].host)]]
  BY <1>4, <1>7 DEF Patch, Move, Fail, FailAt, Goto, Goes
<1> QED BY <1>1, <1>3, <1>6, <1>8 DEF n

\* What is not in the VM directory is what was there from the start.
LEMMA HostFileIs ==
    ASSUME NEW fs, FilesInv(fs), NEW p, ~Below(VmDir, p)
    PROVE  /\ p \in DOMAIN fs <=> p \in DOMAIN HostFiles
           /\ p \in DOMAIN fs => fs[p] = HostFiles[p]
BY DEF FilesInv

\* The VMM's binary is not in a VM's directory.
LEMMA BinaryOutside == ~Below(VmDir, FirecrackerBinaryPath)
<1>1. "bin" # "run" OBVIOUS
<1>2. SubSeq(FirecrackerBinaryPath, 1, 2)[1] = "bin"
  <2> DEFINE p == FirecrackerBinaryPath
             S == {"bin", "firecracker"}
  <2>1. p \in Seq(S) /\ Len(p) = 2 /\ p[1] = "bin" BY DEF FirecrackerBinaryPath
  <2>2. 1 \in Nat \ {0} /\ 2 \in 0..2 /\ 1 \in 1..(2 - 1 + 1) /\ 1 + 1 - 1 = 1 OBVIOUS
  <2> HIDE DEF p, S
  <2>3. \A k \in 1..(2 - 1 + 1) : SubSeq(p, 1, 2)[k] = p[1 + k - 1] BY <2>1, <2>2, PartOfSeq
  <2> QED BY <2>1, <2>2, <2>3 DEF p
<1>3. VmDir[1] = "run" /\ Len(VmDir) = 2 BY RootsArePaths
<1> QED BY <1>1, <1>2, <1>3 DEF Below

\* What is known when the VMM has opened its files.
LEMMA AttachIs ==
    ASSUME Next, IndexInv(input, phase, i), VmmConfigInv(input, phase, i, mCfg),
           Goes("attach", "dial")
    PROVE  /\ VmmOpensAll
           /\ devices' = [n \in 1..Total(input) |-> files[RealPath(input, n)]]
           /\ \A n \in 1..Total(input) :
                  RealPath(input, n) \in DOMAIN files /\ files[RealPath(input, n)].kind # "dir"
           /\ ~JailedBy(input) =>
                  Kernel(input) \in DOMAIN files /\ files[Kernel(input)].kind # "dir"
<1>1. Attach BY WhichAction DEF ActionOf, Goes
<1>2. /\ VmmOpensAll
      /\ devices' = [n \in DOMAIN mCfg.drives |-> files[VmmPath(mCfg.drives[n].path)]]
  BY <1>1 DEF Attach, Fail, FailAt, Goto, Goes
<1>3. Rank[phase] >= 10 BY RankIs DEF Goes
<1>4. /\ DOMAIN mCfg.drives = 1..Total(input)
      /\ \A n \in 1..Total(input) : VmmPath(mCfg.drives[n].path) = RealPath(input, n)
      /\ VmmPath(mCfg.kernel) = IF JailedBy(input) THEN InJail("kernel-image")
                                ELSE Kernel(input)
  BY <1>3, VmmDrives
<1>5. \A n \in 1..Total(input) : CanOpen(mCfg.drives[n].path, DriveModes(mCfg.drives[n]))
  BY <1>2, <1>4 DEF VmmOpensAll
<1>6. CanOpen(mCfg.kernel, {"r"}) BY <1>2 DEF VmmOpensAll
<1>7. ASSUME NEW n \in 1..Total(input)
      PROVE  RealPath(input, n) \in DOMAIN files /\ files[RealPath(input, n)].kind # "dir"
  BY <1>4, <1>5 DEF CanOpen
<1>8. ~JailedBy(input) => Kernel(input) \in DOMAIN files /\ files[Kernel(input)].kind # "dir"
  BY <1>4, <1>6 DEF CanOpen
<1> QED BY <1>2, <1>4, <1>7, <1>8

-----------------------------------------------------------------------------
\* What the shim found of the files of the host.
LEMMA ExecutablesStep ==
    ASSUME Next, IndexInv(input, phase, i), VmmConfigInv(input, phase, i, mCfg),
           FilesInv(files), HostInv(input, phase, i), ApartIn(input),
           Turn(input, phase, i, phase', i')
    PROVE  /\ JailedBy(input) /\ Rank[phase'] >= 9 => ~Missing(FirecrackerBinaryPath)
           /\ (JailedBy(input) /\ Rank[phase'] >= 9) \/ Rank[phase'] >= 14 =>
                  ~Missing(Kernel(input))
<1> DEFINE in == input
<1>1. ~Below(VmDir, Kernel(in)) BY DEF ApartIn
<1>2. CASE Goes("jailFiles", "jailDrives")
  <2>1. /\ FirecrackerBinaryPath \in DOMAIN files /\ files[FirecrackerBinaryPath].kind # "dir"
        /\ Kernel(in) \in DOMAIN files /\ files[Kernel(in)].kind # "dir"
    BY <1>2, JailFilesWrites
  <2>2. /\ FirecrackerBinaryPath \in DOMAIN HostFiles
        /\ files[FirecrackerBinaryPath] = HostFiles[FirecrackerBinaryPath]
    BY <2>1, BinaryOutside, HostFileIs
  <2>3. Kernel(in) \in DOMAIN HostFiles /\ files[Kernel(in)] = HostFiles[Kernel(in)]
    BY <1>1, <2>1, HostFileIs
  <2> QED BY <2>1, <2>2, <2>3 DEF Missing
<1>3. CASE Goes("attach", "dial") /\ ~JailedBy(in)
  <2>1. Kernel(in) \in DOMAIN files /\ files[Kernel(in)].kind # "dir" BY <1>3, AttachIs
  <2>2. Kernel(in) \in DOMAIN HostFiles /\ files[Kernel(in)] = HostFiles[Kernel(in)]
    BY <1>1, <2>1, HostFileIs
  <2> QED BY <1>3, <2>1, <2>2 DEF Missing
<1>4. CASE ~Goes("jailFiles", "jailDrives") /\ ~(Goes("attach", "dial") /\ ~JailedBy(in))
  <2>1. JailedBy(in) /\ Rank[phase'] >= 9 => Rank[phase] >= 9
    BY <1>4, RankIs DEF Turn, Goes, IndexInv
  <2>2. ~JailedBy(in) /\ Rank[phase'] >= 14 => Rank[phase] >= 14
    BY <1>4, RankIs DEF Turn, Goes, IndexInv
  <2>3. Rank[phase'] >= 14 => Rank[phase'] >= 9
    BY RankIs DEF Turn
  <2> QED BY <2>1, <2>2, <2>3 DEF HostInv
<1> QED BY <1>2, <1>3, <1>4

\* A VM whose root drive is missing gets no further than its copy or the VMM.
LEMMA RootStep ==
    ASSUME Next, IndexInv(input, phase, i), VmmConfigInv(input, phase, i, mCfg),
           FilesInv(files), HostInv(input, phase, i), ApartIn(input),
           Turn(input, phase, i, phase', i')
    PROVE  JailedTo(input, phase', i') > 1 \/ Rank[phase'] >= 14 => ~Missing(Root(input).path)
<1> DEFINE in == input
           root == Root(in).path
<1>1. /\ ~Below(VmDir, root) /\ Source(in, 1) = root
      /\ root \in DOMAIN HostFiles => ~IsStubDrive(HostFiles[root])
  BY DEF ApartIn, Source
<1>2. in \in Inputs /\ 1 \in 1..Total(in) /\ Total(in) \in Nat \ {0} BY InputIs DEF IndexInv
<1>3. ASSUME root \in DOMAIN files, files[root].kind # "dir"
      PROVE  ~Missing(root)
  <2>1. root \in DOMAIN HostFiles /\ files[root] = HostFiles[root]
    BY <1>1, <1>3, HostFileIs
  <2> QED BY <1>3, <2>1 DEF Missing
<1>4. CASE Goes("jailDrives", "jailDrives") /\ i = 1
  <2>1. Source(in, i) = root BY <1>1, <1>4
  <2>2. root \in DOMAIN files /\ (IsStubDrive(files[root]) \/ files[root].kind # "dir")
    <3>1. Goes("jailDrives", "jailDrives") BY <1>4
    <3>2. LET src == Source(input, i)
          IN  src \in DOMAIN files /\ (IsStubDrive(files[src]) \/ files[src].kind # "dir")
      BY <3>1, JailDriveWrites
    <3> QED BY <2>1, <3>2
  <2>3. ~IsStubDrive(files[root])
    BY <1>1, <2>2, HostFileIs
  <2> QED BY <1>3, <2>2, <2>3
<1>5. CASE Goes("attach", "dial") /\ ~JailedBy(in)
  <2>1. RealPath(in, 1) = root BY <1>1, <1>5 DEF RealPath
  <2>2. RealPath(in, 1) \in DOMAIN files /\ files[RealPath(in, 1)].kind # "dir"
    BY <1>2, <1>5, AttachIs
  <2> QED BY <1>3, <2>1, <2>2
<1>6. CASE /\ ~(Goes("jailDrives", "jailDrives") /\ i = 1)
           /\ ~(Goes("attach", "dial") /\ ~JailedBy(in))
  <2>1. SUFFICES ASSUME JailedTo(in, phase', i') > 1 \/ Rank[phase'] >= 14
                 PROVE  JailedTo(in, phase, i) > 1 \/ Rank[phase] >= 14
    BY DEF HostInv
  <2>2. CASE JailedBy(in)
    <3>1. Rank[phase'] >= 9
      BY <2>1, <2>2, RankIs DEF JailedTo, Turn
    <3>2. CASE phase = "jailDrives"
      <4>1. i # 1
        BY <1>2, <1>6, <2>1, <2>2, <3>2, RankIs DEF Turn, Goes, JailedTo
      <4> QED BY <2>2, <3>2, <4>1, RankIs DEF JailedTo, IndexInv
    <3>3. CASE phase # "jailDrives"
      <4>1. Rank[phase] >= 9
        BY <1>2, <2>1, <2>2, <3>1, <3>3, RankIs DEF Turn, IndexInv, JailedTo
      <4> QED BY <1>2, <2>2, <3>3, <4>1, RankIs DEF JailedTo, IndexInv
    <3> QED BY <3>2, <3>3
  <2>3. CASE ~JailedBy(in)
    <3>1. phase' # "jailDrives" BY <2>3, RankIs DEF Turn, IndexInv
    <3>2. JailedTo(in, phase', i') = 1 BY <2>3, <3>1 DEF JailedTo
    <3>3. Rank[phase'] >= 14 BY <2>1, <3>2
    <3> QED BY <1>6, <2>3, <3>3, RankIs DEF Turn, Goes, IndexInv
  <2> QED BY <2>2, <2>3
<1> QED BY <1>4, <1>5, <1>6

\* How far the mounts are.
LEMMA MountsTurn ==
    ASSUME NEW in, NEW ph, NEW k, NEW ph2, NEW k2, IndexInv(in, ph, k),
           Turn(in, ph, k, ph2, k2)
    PROVE  /\ ExposedTo(in, ph2, k2) =
                  IF ph = "expose" /\ ph2 = "patch" THEN k
                  ELSE IF Rank[ph2] < 15 THEN 0 ELSE ExposedTo(in, ph, k)
           /\ PatchedTo(in, ph2, k2) =
                  IF ph = "patch" /\ ph2 = "mount" THEN k
                  ELSE IF Rank[ph2] < 15 THEN 0 ELSE PatchedTo(in, ph, k)
           /\ MountedTo(in, ph2, k2) =
                  IF ph = "mount" /\ ph2 = "expose" THEN k
                  ELSE IF Rank[ph2] < 15 THEN 0 ELSE MountedTo(in, ph, k)
<1>1. in \in Inputs /\ k \in Nat \ {0} BY DEF IndexInv
<1>2. MountCount(in) \in Nat BY <1>1, InputIs
<1>3. ph = "expose" => k <= MountCount(in) + 1 BY DEF IndexInv
<1> USE <1>1, <1>2, <1>3, RankIs
<1>4. ExposedTo(in, ph2, k2) =
          IF ph = "expose" /\ ph2 = "patch" THEN k
          ELSE IF Rank[ph2] < 15 THEN 0 ELSE ExposedTo(in, ph, k)
  BY DEF ExposedTo, Turn
<1>5. PatchedTo(in, ph2, k2) =
          IF ph = "patch" /\ ph2 = "mount" THEN k
          ELSE IF Rank[ph2] < 15 THEN 0 ELSE PatchedTo(in, ph, k)
  BY DEF PatchedTo, Turn
<1>6. MountedTo(in, ph2, k2) =
          IF ph = "mount" /\ ph2 = "expose" THEN k
          ELSE IF Rank[ph2] < 15 THEN 0 ELSE MountedTo(in, ph, k)
  BY DEF MountedTo, Turn
<1> QED BY <1>4, <1>5, <1>6

\* How far the mounts are when createVM is at one of them.
LEMMA MountsFar ==
    ASSUME NEW in, NEW ph, NEW k, IndexInv(in, ph, k)
    PROVE  /\ ExposedTo(in, ph, k) \in 0..MountCount(in)
           /\ PatchedTo(in, ph, k) \in 0..MountCount(in)
           /\ MountedTo(in, ph, k) \in 0..MountCount(in)
           /\ ph = "patch" => ExposedTo(in, ph, k) = k
           /\ ph = "expose" => ExposedTo(in, ph, k) = k - 1
           /\ ph = "mount" => PatchedTo(in, ph, k) = k
<1>1. in \in Inputs /\ k \in Nat \ {0} BY DEF IndexInv
<1>2. MountCount(in) \in Nat BY <1>1, InputIs
<1>3. /\ ExposedTo(in, ph, k) \in 0..MountCount(in)
      /\ ph = "patch" => ExposedTo(in, ph, k) = k
      /\ ph = "expose" => ExposedTo(in, ph, k) = k - 1
  BY <1>1, <1>2, RankIs DEF ExposedTo, IndexInv
<1>4. /\ PatchedTo(in, ph, k) \in 0..MountCount(in)
      /\ ph = "mount" => PatchedTo(in, ph, k) = k
  BY <1>1, <1>2, RankIs DEF PatchedTo, IndexInv
<1>5. MountedTo(in, ph, k) \in 0..MountCount(in)
  BY <1>1, <1>2, RankIs DEF MountedTo, IndexInv
<1> QED BY <1>3, <1>4, <1>5

\* What can be exposed of the files of the mounts, and opened.
Exposable(in, n) ==
    LET host == MountOf(in, n).host IN
    /\ host \in DOMAIN HostFiles /\ HostFiles[host].kind \in {"blk", "reg"}
    /\ HostFiles[host].kind = "blk" => \A m \in 1..(n - 1) : MountOf(in, m).host # host

Openable(in, n) ==
    LET host == MountOf(in, n).host IN
    /\ ~Missing(host)
    /\ JailedBy(in) /\ HostFiles[host].kind = "reg" =>
           DriveModes(MountOf(in, n)) \subseteq HostFiles[host].modes

\* A mount that was exposed could be exposed.
LEMMA ExposableStep ==
    ASSUME Next, IndexInv(input, phase, i), StubsInv(input, phase, i, stubs, mountStubs),
           FilesInv(files), ExposedInv(input, phase, i, files),
           HostInv(input, phase, i), ApartIn(input), JailedBy(input),
           Turn(input, phase, i, phase', i')
    PROVE  \A n \in 1..ExposedTo(input, phase', i') : Exposable(input, n)
<1> DEFINE in == input
<1>1. \A n \in 1..ExposedTo(in, phase, i) : Exposable(in, n) BY DEF HostInv, Exposable
<1>2. CASE Goes("expose", "patch")
  <2>1. ExposedTo(in, phase', i') = i /\ ExposedTo(in, phase, i) = i - 1
    BY <1>2, MountsTurn, MountsFar DEF Goes
  <2> DEFINE host == MountOf(in, i).host
  <2>2. /\ i \in 1..MountCount(in) /\ i \in Nat
        /\ host \in DOMAIN files /\ files[host].kind \in {"blk", "reg"}
        /\ files[host].kind = "blk" => JailRoot \o host \notin DOMAIN files
    BY <1>2, ExposeIs DEF IndexInv
  <2>3. ~Below(VmDir, host) BY <2>2 DEF ApartIn
  <2>4. host \in DOMAIN HostFiles /\ files[host] = HostFiles[host] BY <2>2, <2>3, HostFileIs
  <2>5. \A m \in 1..(i - 1) : JailRoot \o MountOf(in, m).host \in DOMAIN files
    BY <2>1 DEF ExposedInv
  <2>6. Exposable(in, i) BY <2>2, <2>4, <2>5 DEF Exposable
  <2> QED BY <1>1, <2>1, <2>2, <2>6
<1>3. CASE ~Goes("expose", "patch")
  <2>1. ExposedTo(in, phase', i') = 0 \/ ExposedTo(in, phase', i') = ExposedTo(in, phase, i)
    BY <1>3, MountsTurn DEF Goes
  <2> QED BY <1>1, <2>1
<1> QED BY <1>2, <1>3

\* A mount that was patched could be opened by the VMM.
LEMMA OpenableStep ==
    ASSUME Next, IndexInv(input, phase, i), StubsInv(input, phase, i, stubs, mountStubs),
           VmmConfigInv(input, phase, i, mCfg),
           FilesInv(files), ExposedInv(input, phase, i, files),
           HostInv(input, phase, i), ApartIn(input),
           Turn(input, phase, i, phase', i')
    PROVE  \A n \in 1..PatchedTo(input, phase', i') : Openable(input, n)
<1> DEFINE in == input
<1>1. \A n \in 1..PatchedTo(in, phase, i) : Openable(in, n) BY DEF HostInv, Openable
<1>2. CASE Goes("patch", "mount")
  <2>1. /\ PatchedTo(in, phase', i') = i /\ PatchedTo(in, phase, i) = i - 1
        /\ ExposedTo(in, phase, i) = i
    BY <1>2, MountsTurn, MountsFar, RankIs DEF Goes, PatchedTo
  <2> DEFINE host == MountOf(in, i).host
             modes == DriveModes(MountOf(in, i))
  <2>2. i \in 1..MountCount(in) /\ i \in Nat /\ CanOpen(host, modes)
    BY <1>2, PatchIs DEF IndexInv
  <2>3. ~Below(VmDir, host) BY <2>2 DEF ApartIn
  <2>4. CASE ~JailedBy(in)
    <3>1. VmmPath(host) = host BY <2>4, Bridge DEF VmmPath
    <3>2. host \in DOMAIN files /\ files[host].kind # "dir" BY <2>2, <3>1 DEF CanOpen
    <3>3. host \in DOMAIN HostFiles /\ files[host] = HostFiles[host]
      BY <2>3, <3>2, HostFileIs
    <3> QED BY <1>1, <2>1, <2>2, <2>4, <3>2, <3>3 DEF Openable, Missing
  <2>5. CASE JailedBy(in)
    <3>1. VmmPath(host) = JailRoot \o host /\ Jailed BY <2>5, Bridge DEF VmmPath
    <3>2. modes \subseteq files[JailRoot \o host].modes BY <2>2, <3>1 DEF CanOpen
    <3>3. \A n \in 1..i : Exposable(in, n) BY <2>1, <2>5 DEF HostInv, Exposable
    <3>4. host \in DOMAIN HostFiles /\ HostFiles[host].kind \in {"blk", "reg"}
      BY <2>2, <3>3 DEF Exposable
    <3>5. files[JailRoot \o host].modes =
              IF HostFiles[host].kind = "blk" THEN {"r", "w"} ELSE HostFiles[host].modes
      BY <1>2, <2>5 DEF ExposedInv, Goes
    <3>6. Openable(in, i) BY <3>2, <3>4, <3>5 DEF Openable, Missing
    <3> QED BY <1>1, <2>1, <2>2, <3>6
  <2> QED BY <2>4, <2>5
<1>3. CASE ~Goes("patch", "mount")
  <2>1. PatchedTo(in, phase', i') = 0 \/ PatchedTo(in, phase', i') = PatchedTo(in, phase, i)
    BY <1>3, MountsTurn DEF Goes
  <2> QED BY <1>1, <2>1
<1> QED BY <1>2, <1>3

\* Every step keeps what a VM that got so far says of the host's files.
LEMMA HostStep ==
    ASSUME Next, IndexInv(input, phase, i), StubsInv(input, phase, i, stubs, mountStubs),
           VmmConfigInv(input, phase, i, mCfg),
           FilesInv(files), ExposedInv(input, phase, i, files),
           HostInv(input, phase, i), ApartIn(input),
           Turn(input, phase, i, phase', i'), input' = input
    PROVE  HostInv(input', phase', i')
<1>1. /\ JailedBy(input) /\ Rank[phase'] >= 9 => ~Missing(FirecrackerBinaryPath)
      /\ (JailedBy(input) /\ Rank[phase'] >= 9) \/ Rank[phase'] >= 14 => ~Missing(Kernel(input))
  BY ExecutablesStep
<1>2. JailedTo(input, phase', i') > 1 \/ Rank[phase'] >= 14 => ~Missing(Root(input).path)
  BY RootStep
<1>3. JailedBy(input) => \A n \in 1..ExposedTo(input, phase', i') : Exposable(input, n)
  BY ExposableStep
<1>4. \A n \in 1..PatchedTo(input, phase', i') : Openable(input, n) BY OpenableStep
<1>5. HostInv(input, phase', i') BY <1>1, <1>2, <1>3, <1>4 DEF HostInv, Exposable, Openable
<1> QED BY <1>5

-----------------------------------------------------------------------------
(* The devices of the guest and what the agent finds.                      *)

\* The file of a stub is a stub.
LEMMA StubFileIs ==
    ASSUME NEW in, NEW n
    PROVE  /\ IsStubDrive(StubFile(in, n)) /\ StubFile(in, n).content.of = Name(in, n)
           /\ StubFile(in, n).owner = User(in) /\ StubFile(in, n).modes = {"r", "w"}
           /\ StubFile(in, n).kind = "reg"
<1> DEFINE c == [stub |-> TRUE, of |-> Name(in, n)]
           s == Sectors(DriveSize(20))
           f == SizedFile("reg", c, User(in), {"r", "w"}, s)
<1>1. StubFile(in, n) = f BY DEF StubFile, SizedFile
<1>2. s = 1 BY DEF Sectors, DriveSize, SectorSize
<1>3. c.stub = TRUE /\ c.of = Name(in, n) OBVIOUS
<1> HIDE DEF c, s
<1>4. f.content = c /\ f.sectors = s /\ f.owner = User(in) /\ f.modes = {"r", "w"}
      /\ f.kind = "reg"
  BY SizedFileIs
<1> HIDE DEF f
<1> QED BY <1>1, <1>2, <1>3, <1>4 DEF IsStubDrive

\* The copy of a file.
LEMMA CopyOfIs ==
    ASSUME NEW in, NEW src \in DOMAIN HostFiles, NEW modes
    PROVE  LET f == CopyOf(in, src, modes)
           IN  /\ f.owner = User(in) /\ f.kind = "reg" /\ f.modes = modes
               /\ f.content = HostFiles[src].content /\ f.sectors = HostFiles[src].sectors
<1>2. IsFile(HostFiles[src])
  <2> DEFINE f == HostFiles[src]
  <2>1. f = [File(f.kind, f.content, 0, f.modes) EXCEPT !.sectors = f.sectors]
    BY HostTree DEF HostFilesAssumption
  <2>2. f = SizedFile(f.kind, f.content, 0, f.modes, f.sectors) BY <2>1 DEF SizedFile
  <2> QED BY <2>2, SizedFileIs
<1>3. CopyOf(in, src, modes) = CopiedFile(HostFiles[src], User(in), modes)
  BY DEF CopyOf, CopiedFile
<1> QED BY <1>2, <1>3, CopyIs

\* The root drive is no stub.
LEMMA RootNoStub ==
    ASSUME Next, IndexInv(input, phase, i), VmmConfigInv(input, phase, i, mCfg),
           FilesInv(files), CopiesInv(input, phase, i, files),
           HostInv(input, phase, i), ApartIn(input), Goes("attach", "dial")
    PROVE  ~IsStubDrive(files[RealPath(input, 1)])
<1> DEFINE in == input
           root == Root(in).path
<1>1. in \in Inputs /\ 1 \in 1..Total(in) /\ Total(in) \in Nat \ {0} BY InputIs DEF IndexInv
<1>2. root \in DOMAIN HostFiles => ~IsStubDrive(HostFiles[root]) BY DEF ApartIn
<1>3. ~Below(VmDir, root) BY DEF ApartIn
<1>4. CASE JailedBy(in)
  <2>1. JailedTo(in, phase, i) > 1 /\ Rank[phase] \in 9..13
    BY <1>1, <1>4, RankIs DEF Goes, JailedTo
  <2>2. files[InJail(Name(in, 1))] = CopyOf(in, root, RootModes(in))
    BY <1>4, <2>1 DEF CopiesInv
  <2>3. RealPath(in, 1) = InJail(Name(in, 1)) BY <1>4 DEF RealPath
  <2>4. root \in DOMAIN HostFiles BY <2>1 DEF HostInv, Missing
  <2>5. /\ CopyOf(in, root, RootModes(in)).content = HostFiles[root].content
        /\ CopyOf(in, root, RootModes(in)).sectors = HostFiles[root].sectors
    BY <2>4, CopyOfIs
  <2> QED BY <1>2, <2>2, <2>3, <2>4, <2>5 DEF IsStubDrive
<1>5. CASE ~JailedBy(in)
  <2>1. RealPath(in, 1) = root BY <1>5 DEF RealPath, Source
  <2>2. RealPath(in, 1) \in DOMAIN files BY <1>1, AttachIs
  <2>3. root \in DOMAIN HostFiles /\ files[root] = HostFiles[root]
    BY <1>3, <2>1, <2>2, HostFileIs
  <2> QED BY <1>2, <2>1, <2>3
<1> QED BY <1>4, <1>5

-----------------------------------------------------------------------------
\* The drives that the guest has, and those that the agent finds.
LEMMA DevicesStep ==
    ASSUME Next, IndexInv(input, phase, i), StubsInv(input, phase, i, stubs, mountStubs),
           VmmConfigInv(input, phase, i, mCfg), FilesInv(files),
           StubFilesInv(input, phase, i, files), CopiesInv(input, phase, i, files),
           ExposedInv(input, phase, i, files), HostInv(input, phase, i),
           DevicesInv(input, phase, i, devices), ApartIn(input),
           Turn(input, phase, i, phase', i'), input' = input, Kept
    PROVE  DevicesInv(input', phase', i', devices')
<1> DEFINE in == input
<1>1. /\ in \in Inputs /\ 1 \in 1..Total(in) /\ Total(in) \in Nat \ {0}
      /\ Count(in) \in Nat \ {0} /\ MountCount(in) \in Nat
      /\ Total(in) = 1 + Count(in) + MountCount(in)
  BY InputIs DEF IndexInv
<1>2. CASE Goes("attach", "dial")
  <2>1. devices' = [n \in 1..Total(in) |-> files[RealPath(in, n)]] BY <1>2, AttachIs
  <2>2. ~IsStubDrive(files[RealPath(in, 1)]) BY <1>2, RootNoStub
  <2>3. ASSUME NEW n \in 1..Total(in), n # 1
        PROVE  IsStubDrive(files[RealPath(in, n)])
               /\ files[RealPath(in, n)].content.of = Name(in, n)
    <3>1. RealPath(in, n) = Source(in, n) /\ n \in 2..Total(in) BY <1>1, <2>3 DEF RealPath
    <3>2. DrivesMade(in, phase, i) = Total(in) /\ Rank[phase] \in 3..13
      BY <1>1, <1>2, RankIs DEF Goes, DrivesMade, StubsMade, MountStubsMade
    <3>3. files[Source(in, n)] = StubFile(in, n) BY <3>1, <3>2 DEF StubFilesInv
    <3> QED BY <3>1, <3>3, StubFileIs
  <2>4. /\ DOMAIN devices' = 1..Total(in)
        /\ \A n \in 1..Total(in) : /\ IsStubDrive(devices'[n]) <=> n # 1
                                   /\ n # 1 => devices'[n].content.of = Name(in, n)
    BY <2>1, <2>2, <2>3
  <2>5. phase' = "dial" BY <1>2 DEF Goes
  <2>6. DevicesInv(in, phase', i', devices') BY <2>4, <2>5 DEF DevicesInv
  <2> QED BY <2>6
<1>3. CASE Goes("patch", "mount")
  <2> DEFINE host == MountOf(in, i).host
             d == 1 + Count(in) + i
  <2>1. i \in 1..MountCount(in) /\ i' = i
        /\ CanOpen(host, DriveModes(MountOf(in, i)))
        /\ devices' = [devices EXCEPT ![d] = files[VmmPath(host)]]
    BY <1>3, PatchIs
  <2>2. DOMAIN devices = 1..Total(in) BY <1>3, RankIs DEF Goes, DevicesInv
  <2>3. d \in 1..Total(in) BY <1>1, <2>1
  <2>4. files[VmmPath(host)].content = HostFiles[host].content
    <3>1. CASE JailedBy(in)
      <4>1. VmmPath(host) = JailRoot \o host BY <3>1, Bridge DEF VmmPath
      <4>2. files[JailRoot \o host].content = HostFiles[host].content
        BY <1>3, <3>1 DEF ExposedInv, Goes
      <4> QED BY <4>1, <4>2
    <3>2. CASE ~JailedBy(in)
      <4>1. VmmPath(host) = host BY <3>2, Bridge DEF VmmPath
      <4>2. host \in DOMAIN files BY <2>1, <4>1 DEF CanOpen
      <4>3. ~Below(VmDir, host) BY <2>1 DEF ApartIn
      <4> QED BY <4>1, <4>2, <4>3, HostFileIs
    <3> QED BY <3>1, <3>2
  <2> HIDE DEF d
  <2>5. DOMAIN devices' = 1..Total(in) /\ devices'[d].content = HostFiles[host].content
    BY <2>1, <2>2, <2>3, <2>4
  <2>6. phase' = "mount" BY <1>3 DEF Goes
  <2>7. DevicesInv(in, phase', i', devices') BY <2>1, <2>5, <2>6 DEF DevicesInv, d
  <2> QED BY <2>7
<1>4. CASE ~Goes("attach", "dial") /\ ~Goes("patch", "mount")
  <2>1. phase' # "dial" /\ phase' # "mount" BY <1>4 DEF Turn, Goes
  <2>2. CASE Rank[phase'] >= 14
    <3>1. Rank[phase] >= 14 /\ devices' = devices
      BY <1>4, <2>2, RankIs DEF Turn, Goes, Kept
    <3> QED BY <2>1, <3>1 DEF DevicesInv
  <2> QED BY <2>2 DEF DevicesInv
<1> QED BY <1>2, <1>3, <1>4

\* Every step keeps where the agent has found the stub drives.
LEMMA FoundStep ==
    ASSUME Next, IndexInv(input, phase, i), DevicesInv(input, phase, i, devices),
           FoundInv(input, phase, found),
           Turn(input, phase, i, phase', i'), input' = input, Kept
    PROVE  FoundInv(input', phase', found')
<1> DEFINE in == input
<1>1. in \in Inputs /\ 1 \in 1..Total(in) /\ Total(in) \in Nat \ {0} BY InputIs DEF IndexInv
<1>2. CASE Goes("dial", "expose")
  <2> DEFINE stubDevices == {n \in DOMAIN devices : IsStubDrive(devices[n])}
             With(id) == {n \in stubDevices : devices[n].content.of = id}
  <2>1. Dial BY <1>2, WhichAction DEF ActionOf, Goes
  <2>2. found' = DiscoverDrives BY <1>2, <2>1 DEF Dial, Break, FailAt, Goto, Goes
  <2>3. /\ DOMAIN devices = 1..Total(in)
        /\ \A n \in 1..Total(in) : /\ IsStubDrive(devices[n]) <=> n # 1
                                   /\ n # 1 => devices[n].content.of = Name(in, n)
    BY <1>2, RankIs DEF DevicesInv, Goes
  <2>4. stubDevices = 2..Total(in) BY <1>1, <2>3
  <2>5. DiscoverDrives = [id \in {devices[n].content.of : n \in stubDevices} |-> Max(With(id))]
    BY DEF DiscoverDrives
  <2> HIDE DEF stubDevices
  <2>6. \A n \in 2..Total(in) : n \in 1..Total(in) /\ n # 1 /\ n \in Nat BY <1>1
  <2>7. {devices[n].content.of : n \in stubDevices} = {Name(in, n) : n \in 2..Total(in)}
    BY <2>3, <2>4, <2>6
  <2>8. ASSUME NEW n \in 2..Total(in) PROVE Max(With(Name(in, n))) = n
    <3>1. \A m \in 2..Total(in) : Name(in, m) = Name(in, n) => m = n BY <1>1, NamesDiffer
    <3>2. With(Name(in, n)) = {n} BY <2>3, <2>4, <2>6, <3>1
    <3>3. {n} \subseteq 1..n /\ {n} # {} /\ n \in Nat BY <2>6
    <3> HIDE DEF With
    <3>4. Max({n}) \in {n} BY <3>3, MaxIs
    <3> QED BY <3>2, <3>4
  <2> HIDE DEF With
  <2>9. /\ DOMAIN found' = {Name(in, n) : n \in 2..Total(in)}
        /\ \A n \in 2..Total(in) : found'[Name(in, n)] = n
    BY <2>2, <2>5, <2>7, <2>8
  <2>10. FoundInv(in, phase', found') BY <2>9 DEF FoundInv
  <2> QED BY <2>10
<1>3. CASE ~Goes("dial", "expose")
  <2>1. CASE Rank[phase'] >= 15
    <3>1. Rank[phase] >= 15 /\ found' = found
      BY <1>3, <2>1, RankIs DEF Turn, Goes, Kept
    <3> QED BY <3>1 DEF FoundInv
  <2> QED BY <2>1 DEF FoundInv
<1> QED BY <1>2, <1>3

-----------------------------------------------------------------------------
(* The mounts of the guest.                                                *)

\* Of options that name one of "ro" and "rw", the last counts as the first.
LEMMA OptionsAgree ==
    ASSUME NEW options \in Seq(STRING), NEW writable \in BOOLEAN,
           ~IncompatibleOptions(options, writable), Named(options) # {"ro", "rw"}
    PROVE  LET set == SetReadWriteOptions(options, writable)
           IN  (set[Max(ReadWriteOptions(set))] = "rw") <=> writable
<1> DEFINE rw == ReadWriteOptions(options)
           n == Len(options)
<1>1. n \in Nat /\ DOMAIN options = 1..n OBVIOUS
<1>2. rw \subseteq 1..n /\ \A k \in rw : options[k] \in {"ro", "rw"}
  BY <1>1 DEF ReadWriteOptions
<1>3. ReadWrite(writable) \in {"ro", "rw"} /\ (ReadWrite(writable) = "rw" <=> writable)
  BY DEF ReadWrite
<1>4. CASE rw = {}
  <2> DEFINE set == Append(options, ReadWrite(writable))
  <2>1. SetReadWriteOptions(options, writable) = set BY <1>4 DEF SetReadWriteOptions
  <2>2. /\ DOMAIN set = 1..(n + 1) /\ set[n + 1] = ReadWrite(writable)
        /\ \A k \in 1..n : set[k] = options[k]
    BY <1>1
  <2> HIDE DEF set
  <2>3. \A k \in 1..(n + 1) : set[k] \in {"ro", "rw"} <=> k = n + 1
    BY <1>1, <1>3, <1>4, <2>2 DEF ReadWriteOptions
  <2>4. ReadWriteOptions(set) = {n + 1} BY <1>1, <2>2, <2>3 DEF ReadWriteOptions
  <2>5. Max({n + 1}) \in {n + 1}
    <3>1. n + 1 \in Nat /\ {n + 1} \subseteq 1..(n + 1) /\ {n + 1} # {} BY <1>1
    <3> QED BY <3>1, MaxIs
  <2> QED BY <1>3, <2>1, <2>2, <2>4, <2>5
<1>5. CASE rw # {}
  <2>1. SetReadWriteOptions(options, writable) = options BY <1>5 DEF SetReadWriteOptions
  <2>2. rw \subseteq Nat BY <1>1, <1>2
  <2> HIDE DEF rw
  <2>3. Min(rw) \in rw /\ Max(rw) \in rw BY <1>1, <1>2, <1>5, <2>2, MinIs, MaxIs
  <2>4. options[Min(rw)] = ReadWrite(writable) BY <1>5 DEF IncompatibleOptions, rw
  <2>5. options[Max(rw)] = options[Min(rw)]
    <3>1. SUFFICES ASSUME options[Max(rw)] # options[Min(rw)] PROVE FALSE OBVIOUS
    <3>2. Named(options) = {options[k] : k \in rw} BY DEF Named, rw
    <3>3. {options[Max(rw)], options[Min(rw)]} = {"ro", "rw"} BY <1>2, <2>3, <3>1
    <3>4. Named(options) = {"ro", "rw"} BY <1>2, <2>3, <3>2, <3>3
    <3> QED BY <3>4
  <2>6. ReadWriteOptions(options) = rw BY DEF rw
  <2> QED BY <1>3, <2>1, <2>4, <2>5, <2>6
<1> QED BY <1>4, <1>5

\* What MountDrive is given.
MountsWritable ==
    LET options == mountStubs[i].options
    IN  options[Max(ReadWriteOptions(options))] = "rw"

\* What the agent is asked to mount: the device of the mount's own stub drive.
LEMMA MountGiven ==
    ASSUME IndexInv(input, phase, i), StubsInv(input, phase, i, stubs, mountStubs),
           VmmConfigInv(input, phase, i, mCfg), FoundInv(input, phase, found),
           AcceptedInv(input, phase, i), phase = "mount"
    PROVE  LET mount == MountOf(input, i)
               n == 1 + Count(input) + i
           IN  /\ i \in 1..MountCount(input) /\ n \in 2..Total(input)
               /\ mountStubs[i].id \in DOMAIN found /\ found[mountStubs[i].id] = n
               /\ mountStubs[i].vm = mount.vm /\ mount.vm \in Path
               /\ mCfg.drives[n].writable = mount.writable
               /\ ~Ambiguous(mount) => (MountsWritable <=> mount.writable)
<1> DEFINE in == input
           n == 1 + Count(in) + i
           mount == MountOf(in, i)
<1>1. /\ in \in Inputs /\ Count(in) \in Nat \ {0} /\ MountCount(in) \in Nat
      /\ Total(in) = 1 + Count(in) + MountCount(in)
      /\ i \in 1..MountCount(in) /\ Rank[phase] = 17
      /\ mount.vm \in Path /\ mount.options \in Seq(STRING) /\ mount.writable \in BOOLEAN
  BY InputIs, RankIs DEF IndexInv
<1>2. n \in 2..Total(in) /\ n \in 1..Total(in) /\ n # 1 /\ ~(n <= 1 + Count(in))
      /\ n - 1 - Count(in) = i
  BY <1>1
<1>3. mountStubs[i] = MountStubOf(in, i) BY <1>1, MountStubsAre
<1>4. /\ mountStubs[i].id = StubName("drivemntstub", i) /\ mountStubs[i].vm = mount.vm
      /\ mountStubs[i].options = SetReadWriteOptions(mount.options, mount.writable)
  BY <1>3 DEF MountStubOf
<1>5. mountStubs[i].id = Name(in, n) BY <1>1, <1>4, NamesDiffer
<1> HIDE DEF n
<1>6. mountStubs[i].id \in DOMAIN found /\ found[mountStubs[i].id] = n
  BY <1>1, <1>2, <1>5 DEF FoundInv
<1>7. mCfg.drives[n].writable = mount.writable
  <2>1. mCfg.drives[n].writable = DriveOf(in, n).writable BY <1>1, <1>2, VmmDrives
  <2>2. DriveOf(in, n).writable = mount.writable BY <1>1, <1>2, DriveIs
  <2> QED BY <2>1, <2>2
<1>8. ASSUME ~Ambiguous(mount) PROVE MountsWritable <=> mount.writable
  <2>1. MountStubsMade(in, phase, i) = MountCount(in)
    BY <1>1, RankIs DEF MountStubsMade
  <2>2. ~IncompatibleOptions(mount.options, mount.writable)
    BY <1>1, <2>1 DEF AcceptedInv
  <2>3. Named(mount.options) # {"ro", "rw"} BY <1>8 DEF Ambiguous
  <2> DEFINE options == SetReadWriteOptions(mount.options, mount.writable)
  <2>4. (options[Max(ReadWriteOptions(options))] = "rw") <=> mount.writable
    BY <1>1, <2>2, <2>3, OptionsAgree
  <2> HIDE DEF options
  <2>5. mountStubs[i].options = options BY <1>4 DEF options
  <2> QED BY <2>4, <2>5 DEF MountsWritable
<1> QED BY <1>1, <1>2, <1>4, <1>6, <1>7, <1>8 DEF n

\* MountDrive.
LEMMA MountIs ==
    ASSUME Next, IndexInv(input, phase, i), StubsInv(input, phase, i, stubs, mountStubs),
           VmmConfigInv(input, phase, i, mCfg), FoundInv(input, phase, found),
           AcceptedInv(input, phase, i), PlacesInv(input, phase, i, dirs),
           Goes("mount", "expose")
    PROVE  LET mount == MountOf(input, i)
               n == 1 + Count(input) + i
           IN  /\ i \in 1..MountCount(input) /\ i' = i + 1
               /\ CanMkdirAll(dirs, mount.vm) /\ mount.vm \in Path
               /\ dirs' = MkdirAll(dirs, mount.vm)
               /\ NoDotsIn(input) => ~UnderBanned(Lead(mount.vm)) /\ Tree(dirs')
               /\ mounted' = Over(Only(Lead(mount.vm),
                                       [content |-> devices[n].content,
                                        writable |-> MountsWritable]), mounted)
               /\ ~Ambiguous(mount) => (MountsWritable <=> mount.writable)
<1> DEFINE mount == MountOf(input, i)
           n == 1 + Count(input) + i
<1>1. /\ i \in 1..MountCount(input) /\ n \in 2..Total(input)
      /\ mountStubs[i].id \in DOMAIN found /\ found[mountStubs[i].id] = n
      /\ mountStubs[i].vm = mount.vm /\ mount.vm \in Path
      /\ ~Ambiguous(mount) => (MountsWritable <=> mount.writable)
  BY MountGiven DEF Goes
<1>2. MountDrive BY WhichAction DEF ActionOf, Goes
<1>3. /\ i' = i + 1
      /\ ~IsSystemDir(dirs, mountStubs[i].vm) /\ CanMkdirAll(dirs, mountStubs[i].vm)
      /\ dirs' = MkdirAll(dirs, mountStubs[i].vm)
      /\ mounted' = Over(Only(Lead(mountStubs[i].vm),
                              [content |-> devices[found[mountStubs[i].id]].content,
                               writable |-> MountsWritable]), mounted)
  BY <1>2 DEF MountDrive, MountsWritable, Fail, Break, FailAt, Goto, Goes
<1>4. CanMkdirAll(dirs, mount.vm) BY <1>1, <1>3
<1>5. ASSUME NoDotsIn(input)
      PROVE  ~UnderBanned(Lead(mount.vm)) /\ Tree(MkdirAll(dirs, mount.vm))
  <2>1. Tree(dirs) BY <1>5 DEF PlacesInv
  <2>2. Plain(mount.vm)
    <3>1. i \in DOMAIN input.request.mounts BY <1>1, InputIs DEF IndexInv
    <3> QED BY <1>5, <3>1 DEF NoDotsIn
  <2>3. /\ IsSystemDir(dirs, mount.vm) <=> UnderBanned(Lead(mount.vm))
        /\ Tree(MkdirAll(dirs, mount.vm))
    BY <1>1, <1>4, <2>1, <2>2, RefusedWhereItLeads
  <2> QED BY <1>1, <1>3, <2>3
<1> QED BY <1>1, <1>3, <1>4, <1>5

\* The directories of the guest, and what is mounted where.
LEMMA PlacesStep ==
    ASSUME Next, IndexInv(input, phase, i), StubsInv(input, phase, i, stubs, mountStubs),
           VmmConfigInv(input, phase, i, mCfg), FoundInv(input, phase, found),
           AcceptedInv(input, phase, i), PlacesInv(input, phase, i, dirs),
           Turn(input, phase, i, phase', i'), input' = input, Kept
    PROVE  PlacesInv(input', phase', i', dirs')
<1> SUFFICES ASSUME NoDotsIn(input)
             PROVE  /\ Tree(dirs')
                    /\ \A n \in 1..MountedTo(input, phase', i') :
                           /\ CanMkdirAll(dirs', MountOf(input, n).vm)
                           /\ ~UnderBanned(Lead(MountOf(input, n).vm))
  BY DEF PlacesInv
<1> DEFINE in == input
<1>1. in \in Inputs /\ i \in Nat \ {0} /\ MountedTo(in, phase, i) \in 0..MountCount(in)
  BY MountsFar DEF IndexInv
<1>2. /\ Tree(dirs)
      /\ \A n \in 1..MountedTo(in, phase, i) : /\ CanMkdirAll(dirs, MountOf(in, n).vm)
                                              /\ ~UnderBanned(Lead(MountOf(in, n).vm))
  BY DEF PlacesInv
<1>3. CASE Goes("mount", "expose")
  <2> DEFINE vm == MountOf(in, i).vm
  <2>1. /\ i \in 1..MountCount(in) /\ CanMkdirAll(dirs, vm) /\ ~UnderBanned(Lead(vm))
        /\ dirs' = MkdirAll(dirs, vm) /\ Tree(dirs')
    BY <1>3, MountIs
  <2>2. MountedTo(in, phase, i) = i - 1 /\ MountedTo(in, phase', i') = i
    BY <1>3, MountsTurn, RankIs DEF Goes, MountedTo
  <2>3. dirs \subseteq dirs' BY <2>1 DEF MkdirAll
  <2>4. ASSUME NEW n \in 1..i
        PROVE  CanMkdirAll(dirs', MountOf(in, n).vm) /\ ~UnderBanned(Lead(MountOf(in, n).vm))
    <3>1. CanMkdirAll(dirs, MountOf(in, n).vm) /\ ~UnderBanned(Lead(MountOf(in, n).vm))
      <4>1. n = i \/ n \in 1..(i - 1) BY <1>1
      <4> QED BY <1>2, <2>1, <2>2, <4>1
    <3> QED BY <2>3, <3>1, CanStill
  <2> QED BY <2>1, <2>2, <2>4
<1>4. CASE ~Goes("mount", "expose")
  <2>1. CASE Goes("over", "start")
    <3>1. CreateVMAgain BY <2>1, WhichAction DEF ActionOf, Goes
    <3>2. dirs' = GuestDirs BY <3>1 DEF CreateVMAgain
    <3>3. Tree(GuestDirs) BY GuestTree DEF GuestAssumption, Tree
    <3>4. MountedTo(in, phase', i') = 0 BY <2>1, RankIs DEF Goes, MountedTo
    <3> QED BY <3>2, <3>3, <3>4
  <2>2. CASE ~Goes("over", "start")
    <3>1. dirs' = dirs BY <1>4, <2>2 DEF Kept
    <3>2. MountedTo(in, phase', i') = 0 \/ MountedTo(in, phase', i') = MountedTo(in, phase, i)
      BY <1>4, MountsTurn DEF Goes
    <3> QED BY <1>2, <3>1, <3>2
  <2> QED BY <2>1, <2>2
<1> QED BY <1>3, <1>4

\* What holds of a mount while none is made over it.
MountedAs(in, md, n) ==
    LET place == Lead(MountOf(in, n).vm)
    IN  /\ md[place].content = HostFiles[MountOf(in, n).host].content
        /\ ~Ambiguous(MountOf(in, n)) => md[place].writable = MountOf(in, n).writable

\* A mount stays what it is until another one takes its place.
LEMMA MountedStep ==
    ASSUME Next, IndexInv(input, phase, i), StubsInv(input, phase, i, stubs, mountStubs),
           VmmConfigInv(input, phase, i, mCfg), DevicesInv(input, phase, i, devices),
           FoundInv(input, phase, found), AcceptedInv(input, phase, i),
           PlacesInv(input, phase, i, dirs), MountedInv(input, phase, i, mounted),
           Turn(input, phase, i, phase', i'), input' = input, Kept
    PROVE  MountedInv(input', phase', i', mounted')
<1> DEFINE in == input
           Place1(n) == Lead(MountOf(in, n).vm)
<1>1. \A n \in 1..MountedTo(in, phase, i) :
          /\ Place1(n) \in DOMAIN mounted
          /\ (\A m \in 1..MountedTo(in, phase, i) : m > n => Place1(m) # Place1(n)) =>
                 MountedAs(in, mounted, n)
  BY DEF MountedInv, MountedAs
<1>2. CASE Goes("mount", "expose")
  <2> DEFINE d == 1 + Count(in) + i
             new == [content |-> devices[d].content, writable |-> MountsWritable]
  <2>1. /\ i \in 1..MountCount(in)
        /\ mounted' = Over(Only(Place1(i), new), mounted)
        /\ ~Ambiguous(MountOf(in, i)) => (MountsWritable <=> MountOf(in, i).writable)
    BY <1>2, MountIs
  <2>2. MountedTo(in, phase, i) = i - 1 /\ MountedTo(in, phase', i') = i
    BY <1>2, MountsTurn, RankIs DEF Goes, MountedTo
  <2>3. devices[d].content = HostFiles[MountOf(in, i).host].content
    BY <1>2, RankIs DEF DevicesInv, Goes
  <2>4. MountOf(in, i).writable \in BOOLEAN /\ MountsWritable \in BOOLEAN
    <3>1. in \in Inputs BY DEF IndexInv
    <3> QED BY <2>1, <3>1, InputIs DEF MountsWritable
  <2>5. new.content = devices[d].content /\ new.writable = MountsWritable OBVIOUS
  <2> HIDE DEF new, d, Place1
  <2>6. /\ Place1(i) \in DOMAIN Over(Only(Place1(i), new), mounted)
        /\ Over(Only(Place1(i), new), mounted)[Place1(i)] = new
    <3>1. Place1(i) \in DOMAIN Only(Place1(i), new) /\ Only(Place1(i), new)[Place1(i)] = new
      BY OnlyIs
    <3> QED BY <3>1, InOver
  <2>7. ASSUME NEW p \in DOMAIN mounted, p # Place1(i)
        PROVE  p \in DOMAIN mounted' /\ mounted'[p] = mounted[p]
    <3>1. p \notin DOMAIN Only(Place1(i), new) BY <2>7, OnlyIs
    <3>2. /\ p \in DOMAIN Over(Only(Place1(i), new), mounted)
          /\ Over(Only(Place1(i), new), mounted)[p] = mounted[p]
      BY <3>1, NotInOver
    <3> QED BY <2>1, <3>2
  <2>8. ASSUME NEW n \in 1..i
        PROVE  /\ Place1(n) \in DOMAIN mounted'
               /\ (\A m \in 1..i : m > n => Place1(m) # Place1(n)) => MountedAs(in, mounted', n)
    <3>1. CASE n = i
      <4>1. MountedAs(in, mounted', i)
        BY <2>1, <2>3, <2>4, <2>5, <2>6 DEF MountedAs, Place1
      <4> QED BY <2>1, <2>6, <3>1, <4>1
    <3>2. CASE n # i /\ Place1(n) = Place1(i)
      <4>1. i \in 1..i /\ i > n BY <2>1, <3>2
      <4> QED BY <2>1, <2>6, <3>2, <4>1
    <3>3. CASE n # i /\ Place1(n) # Place1(i)
      <4>1. n \in 1..(i - 1) /\ 1..(i - 1) \subseteq 1..i BY <2>1, <3>3
      <4>2. /\ Place1(n) \in DOMAIN mounted
            /\ (\A m \in 1..(i - 1) : m > n => Place1(m) # Place1(n)) =>
                   MountedAs(in, mounted, n)
        BY <1>1, <2>2, <4>1
      <4>3. Place1(n) \in DOMAIN mounted' /\ mounted'[Place1(n)] = mounted[Place1(n)]
        BY <2>7, <3>3, <4>2
      <4>4. MountedAs(in, mounted, n) => MountedAs(in, mounted', n)
        BY <4>3 DEF MountedAs, Place1
      <4> QED BY <4>1, <4>2, <4>3, <4>4
    <3> QED BY <3>1, <3>2, <3>3
  <2>9. MountedInv(in, phase', i', mounted')
    BY <2>2, <2>8 DEF MountedInv, MountedAs, Place1
  <2> QED BY <2>9
<1>3. CASE ~Goes("mount", "expose")
  <2>1. CASE MountedTo(in, phase', i') = 0
    <3>1. MountedInv(in, phase', i', mounted') BY <2>1 DEF MountedInv
    <3> QED BY <3>1
  <2>2. CASE MountedTo(in, phase', i') # 0
    <3>1. /\ MountedTo(in, phase', i') = MountedTo(in, phase, i)
          /\ phase' # "start"
      BY <1>3, <2>2, MountsTurn, RankIs DEF Goes, MountedTo
    <3>2. mounted' = mounted BY <1>3, <3>1 DEF Kept, Goes
    <3>3. MountedInv(in, phase', i', mounted') BY <3>1, <3>2 DEF MountedInv
    <3> QED BY <3>3
  <2> QED BY <2>1, <2>2
<1> QED BY <1>2, <1>3

-----------------------------------------------------------------------------
(* What the VMM cannot open.                                               *)

\* What the user of a jail can open there.
LEMMA OpensInJail ==
    ASSUME IndexInv(input, phase, i), OciInv(input, phase, mCfg, oci),
           JailInv(input, phase, files), JailedBy(input), Rank[phase] >= 8,
           NEW x \in Texts, InJail(x) \in DOMAIN files, files[InJail(x)].kind # "dir",
           NEW modes, modes \subseteq files[InJail(x)].modes
    PROVE  CanOpen(<<x>>, modes)
<1> DEFINE real == InJail(x)
<1>1. /\ VmmPath(<<x>>) = real /\ Jailed
  <2>1. InJail(x) = JailRoot \o <<x>> BY InJailIs
  <2> QED BY <2>1, Bridge DEF VmmPath
<1>2. real \in HostPath /\ Len(real) = 4 /\ Below(JailRoot, real) BY InJailIs
<1>3. oci.uid = User(input) BY DEF OciInv
<1>4. /\ JailRoot \in DOMAIN files
      /\ \A p \in DOMAIN files : Below(JailRoot, p) => files[p].owner = User(input)
  BY RankIs DEF JailInv, IndexInv
<1>5. Len(JailRoot) = 3 /\ JailRoot \in HostPath BY RootsArePaths
<1>6. SubSeq(real, 1, 3) = JailRoot /\ Below(JailRoot, JailRoot)
  <2>1. SubSeq(real, 1, 3) = JailRoot BY <1>2, <1>5 DEF Below
  <2>2. SubSeq(JailRoot, 1, 3) = JailRoot
    <3>1. JailRoot[1] = "run" /\ JailRoot[2] = "vm" /\ JailRoot[3] = "rootfs"
      BY RootsArePaths
    <3>2. 3 \in Nat /\ 3 >= 3 OBVIOUS
    <3>3. Below(JailRoot, JailRoot) BY <1>5, <3>1, <3>2, BelowIs
    <3> QED BY <1>5, <3>3 DEF Below
  <2> QED BY <1>5, <2>1, <2>2 DEF Below
<1> HIDE DEF real
<1>7. ASSUME NEW n \in Len(JailRoot)..(Len(real) - 1)
      PROVE  SubSeq(real, 1, n) \in DOMAIN files /\ files[SubSeq(real, 1, n)].owner = oci.uid
  <2>1. n = 3 BY <1>2, <1>5
  <2> QED BY <1>3, <1>4, <1>6, <2>1
<1>8. files[real].owner = oci.uid BY <1>2, <1>3, <1>4 DEF real
<1>9. real \in DOMAIN files /\ files[real].kind # "dir" /\ modes \subseteq files[real].modes
  BY DEF real
<1> QED BY <1>1, <1>7, <1>8, <1>9 DEF CanOpen

\* The fifos, when they are made.
LEMMA OpensFifos ==
    ASSUME IndexInv(input, phase, i), OciInv(input, phase, mCfg, oci),
           JailInv(input, phase, files), FifosInv(input, phase, files),
           phase = "attach", NEW f \in Fifos
    PROVE  CanOpen(LogPath(f), {"w"})
<1>1. Rank[phase] = 13 BY RankIs
<1>2. f \in Texts BY DEF Texts
<1>3. CASE JailedBy(input)
  <2>1. /\ InJail(f) \in DOMAIN files /\ files[InJail(f)].kind = "fifo"
        /\ files[InJail(f)].modes = {"r", "w"}
    BY <1>1, <1>3 DEF FifosInv
  <2>2. {"w"} \subseteq files[InJail(f)].modes /\ files[InJail(f)].kind # "dir" BY <2>1
  <2>3. CanOpen(<<f>>, {"w"}) BY <1>1, <1>2, <1>3, <2>1, <2>2, OpensInJail
  <2>4. LogPath(f) = <<f>> BY <1>3, Bridge DEF LogPath
  <2> QED BY <2>3, <2>4
<1>4. CASE ~JailedBy(input)
  <2>1. Append(VmDir, f) \in DOMAIN files /\ files[Append(VmDir, f)].kind = "fifo"
    BY <1>1 DEF FifosInv
  <2>2. ~Jailed /\ LogPath(f) = Append(VmDir, f) BY <1>4, Bridge DEF LogPath
  <2> QED BY <2>1, <2>2 DEF CanOpen, VmmPath
<1> QED BY <1>3, <1>4

\* In a jail everything that the configuration names.
LEMMA OpensJailed ==
    ASSUME IndexInv(input, phase, i), VmmConfigInv(input, phase, i, mCfg),
           OciInv(input, phase, mCfg, oci), FilesInv(files),
           JailInv(input, phase, files), StubFilesInv(input, phase, i, files),
           CopiesInv(input, phase, i, files), HostInv(input, phase, i),
           phase = "attach", JailedBy(input)
    PROVE  /\ CanOpen(mCfg.kernel, {"r"})
           /\ DOMAIN mCfg.drives = 1..Total(input)
           /\ \A n \in DOMAIN mCfg.drives :
                  CanOpen(mCfg.drives[n].path, DriveModes(mCfg.drives[n]))
           /\ files[InJail("kernel-image")].content = HostFiles[Kernel(input)].content
           /\ files[InJail(Name(input, 1))].content = HostFiles[Root(input).path].content
<1> DEFINE in == input
<1>1. /\ in \in Inputs /\ Total(in) \in Nat \ {0} /\ Rank[phase] = 13 /\ 1 \in 1..Total(in)
      /\ JailedTo(in, phase, i) = Total(in) + 1
      /\ DrivesMade(in, phase, i) = Total(in)
  <2>1. in \in Inputs /\ Rank[phase] = 13 BY RankIs DEF IndexInv
  <2>2. Total(in) = 1 + Count(in) + MountCount(in) /\ Total(in) \in Nat \ {0}
    BY <2>1, InputIs
  <2>3. JailedTo(in, phase, i) = Total(in) + 1 BY <2>1 DEF JailedTo
  <2>4. StubsMade(in, phase, i) = Count(in) BY <2>1 DEF StubsMade
  <2>5. MountStubsMade(in, phase, i) = MountCount(in) BY <2>1 DEF MountStubsMade
  <2> QED BY <2>1, <2>2, <2>3, <2>4, <2>5 DEF DrivesMade
<1>2. /\ mCfg.drives = DrivesAt(in, Total(in) + 1) /\ mCfg.kernel = <<"kernel-image">>
  BY <1>1 DEF VmmConfigInv
<1>3. /\ DOMAIN mCfg.drives = 1..Total(in)
      /\ \A n \in 1..Total(in) : mCfg.drives[n] = DriveInJail(in, n)
  BY <1>1, <1>2 DEF DrivesAt
<1>4. /\ InJail("kernel-image") \in DOMAIN files
      /\ files[InJail("kernel-image")] = CopyOf(in, Kernel(in), {"r"})
      /\ InJail(Name(in, 1)) \in DOMAIN files
      /\ files[InJail(Name(in, 1))] = CopyOf(in, Root(in).path, RootModes(in))
  BY <1>1 DEF CopiesInv
<1>5. Kernel(in) \in DOMAIN HostFiles /\ Root(in).path \in DOMAIN HostFiles
  BY <1>1 DEF HostInv, Missing
<1>6. LET f == CopyOf(in, Kernel(in), {"r"})
      IN  /\ f.kind = "reg" /\ f.modes = {"r"} /\ f.content = HostFiles[Kernel(in)].content
  <2> DEFINE src == Kernel(in)
             modes == {"r"}
  <2>1. src \in DOMAIN HostFiles BY <1>5
  <2> HIDE DEF src, modes
  <2>2. LET f == CopyOf(in, src, modes)
        IN  f.kind = "reg" /\ f.modes = modes /\ f.content = HostFiles[src].content
    BY <2>1, CopyOfIs
  <2> QED BY <2>2 DEF src, modes
<1>7. LET f == CopyOf(in, Root(in).path, RootModes(in))
      IN  /\ f.kind = "reg" /\ f.modes = RootModes(in)
          /\ f.content = HostFiles[Root(in).path].content
  BY <1>5, CopyOfIs
<1>8. CanOpen(mCfg.kernel, {"r"})
  <2> DEFINE x == "kernel-image"
  <2>1. x \in Texts BY DEF Texts
  <2>2. InJail(x) \in DOMAIN files /\ files[InJail(x)].kind # "dir"
        /\ {"r"} \subseteq files[InJail(x)].modes
    BY <1>4, <1>6
  <2>3. mCfg.kernel = <<x>> /\ Rank[phase] >= 8 BY <1>1, <1>2
  <2> HIDE DEF x
  <2>4. CanOpen(<<x>>, {"r"}) BY <2>1, <2>2, <2>3, OpensInJail
  <2> QED BY <2>3, <2>4
<1>9. ASSUME NEW n \in 1..Total(in)
      PROVE  CanOpen(mCfg.drives[n].path, DriveModes(mCfg.drives[n]))
  <2> DEFINE x == Name(in, n)
             modes == DriveModes(mCfg.drives[n])
  <2>1. /\ DriveInJail(in, n).path = <<x>>
        /\ DriveInJail(in, n).writable = DriveOf(in, n).writable
    BY <1>1, DriveIs
  <2>2. x \in Texts /\ Source(in, n) \in HostPath BY <1>1, SourceIs
  <2>3. InJail(x) \in DOMAIN files /\ files[InJail(x)].kind # "dir"
        /\ modes \subseteq files[InJail(x)].modes
    <3>1. CASE n = 1
      <4>1. DriveOf(in, 1).writable = Root(in).writable BY DEF DriveOf
      <4>2. modes = RootModes(in)
        BY <1>1, <1>3, <2>1, <3>1, <4>1, InputIs DEF DriveModes, RootModes
      <4> QED BY <1>4, <1>7, <3>1, <4>2
    <3>2. CASE n # 1
      <4>1. n \in 2..Total(in) BY <1>1, <3>2
      <4>2. Source(in, n) = InJail(x)
        BY <1>1, <3>2, SourceIs DEF Place, InJail
      <4>3. InJail(x) \in DOMAIN files /\ files[InJail(x)] = StubFile(in, n)
        BY <1>1, <4>1, <4>2 DEF StubFilesInv
      <4>4. files[InJail(x)].kind = "reg" /\ files[InJail(x)].modes = {"r", "w"}
        BY <4>3, StubFileIs
      <4> QED BY <4>3, <4>4 DEF DriveModes
    <3> QED BY <3>1, <3>2
  <2>4. Rank[phase] >= 8 /\ mCfg.drives[n].path = <<x>> BY <1>1, <1>3, <2>1
  <2> HIDE DEF x, modes
  <2>5. CanOpen(<<x>>, modes) BY <2>2, <2>3, <2>4, OpensInJail
  <2> QED BY <2>4, <2>5 DEF modes
<1> QED BY <1>3, <1>4, <1>6, <1>7, <1>8, <1>9

\* Without one all of it that is there.
LEMMA OpensUnjailed ==
    ASSUME IndexInv(input, phase, i), VmmConfigInv(input, phase, i, mCfg),
           FilesInv(files), StubFilesInv(input, phase, i, files), ApartIn(input),
           phase = "attach", ~JailedBy(input)
    PROVE  /\ DOMAIN mCfg.drives = 1..Total(input)
           /\ Missing(Kernel(input)) \/ CanOpen(mCfg.kernel, {"r"})
           /\ Missing(Root(input).path) \/
                  \A n \in DOMAIN mCfg.drives :
                      CanOpen(mCfg.drives[n].path, DriveModes(mCfg.drives[n]))
<1> DEFINE in == input
<1>1. /\ in \in Inputs /\ Total(in) \in Nat \ {0} /\ Rank[phase] = 13 /\ Rank[phase] >= 10
      /\ DrivesMade(in, phase, i) = Total(in)
  BY InputIs, RankIs DEF IndexInv, DrivesMade, StubsMade, MountStubsMade
<1>2. /\ DOMAIN mCfg.drives = 1..Total(in)
      /\ \A n \in 1..Total(in) : VmmPath(mCfg.drives[n].path) = RealPath(in, n)
      /\ VmmPath(mCfg.kernel) = Kernel(in)
  BY <1>1, VmmDrives
<1>3. ~Below(VmDir, Kernel(in)) /\ ~Below(VmDir, Root(in).path) /\ ~Jailed
  BY Bridge DEF ApartIn
<1>4. Missing(Kernel(in)) \/ CanOpen(mCfg.kernel, {"r"})
  <2>1. SUFFICES ASSUME ~Missing(Kernel(in)) PROVE CanOpen(mCfg.kernel, {"r"}) OBVIOUS
  <2>2. Kernel(in) \in DOMAIN HostFiles /\ HostFiles[Kernel(in)].kind # "dir"
    BY <2>1 DEF Missing
  <2>3. Kernel(in) \in DOMAIN files /\ files[Kernel(in)] = HostFiles[Kernel(in)]
    BY <1>3, <2>2, HostFileIs
  <2> QED BY <1>2, <1>3, <2>2, <2>3 DEF CanOpen
<1>5. ASSUME ~Missing(Root(in).path), NEW n \in 1..Total(in)
      PROVE  CanOpen(mCfg.drives[n].path, DriveModes(mCfg.drives[n]))
  <2>1. CASE n = 1
    <3>1. RealPath(in, n) = Root(in).path BY <2>1 DEF RealPath, Source
    <3>2. Root(in).path \in DOMAIN HostFiles /\ HostFiles[Root(in).path].kind # "dir"
      BY <1>5 DEF Missing
    <3>3. /\ Root(in).path \in DOMAIN files
          /\ files[Root(in).path] = HostFiles[Root(in).path]
      BY <1>3, <3>2, HostFileIs
    <3> QED BY <1>2, <1>3, <3>1, <3>2, <3>3 DEF CanOpen
  <2>2. CASE n # 1
    <3>1. n \in 2..Total(in) /\ RealPath(in, n) = Source(in, n) BY <1>1, <2>2 DEF RealPath
    <3>2. Source(in, n) \in DOMAIN files /\ files[Source(in, n)] = StubFile(in, n)
      BY <1>1, <3>1 DEF StubFilesInv
    <3>3. files[Source(in, n)].kind = "reg" BY <3>2, StubFileIs
    <3> QED BY <1>2, <1>3, <3>1, <3>2, <3>3 DEF CanOpen
  <2> QED BY <2>1, <2>2
<1> QED BY <1>2, <1>4, <1>5

-----------------------------------------------------------------------------
(* The causes of a failure.                                                *)

\* What is to be refused, in words of the input.
RefusedMountOf(in, n) ==
    LET mount == MountOf(in, n)
        file == HostFiles[mount.host]
    IN  \/ ~IsAbs(mount.host) \/ ~IsAbs(mount.vm) \/ Missing(mount.host)
        \/ Named(mount.options) # {} /\ ReadWrite(mount.writable) \notin Named(mount.options)
        \/ /\ JailedBy(in)
           /\ \/ file.kind \notin {"blk", "reg"}
              \/ file.kind = "reg" /\ ~(DriveModes(mount) \subseteq file.modes)

RefusedJail(in) ==
    /\ JailedBy(in)
    /\ \/ in.request.jailer.uid = 0 \/ in.request.jailer.gid = 0
       \/ Runc(in).user # 0 \/ ~Runc(in).process \/ Missing(FirecrackerBinaryPath)

SharedBlocks(in) ==
    JailedBy(in) /\ \E j, k \in 1..MountCount(in) :
        /\ j # k /\ MountOf(in, j).host = MountOf(in, k).host
        /\ HostFiles[MountOf(in, j).host].kind = "blk"

RefusedIn(in, within) ==
    \/ Twice(Levels(in)) \/ \E k \in DOMAIN Levels(in) : Levels(in)[k].of = "invalid"
    \/ RefusedJail(in) \/ Missing(Kernel(in)) \/ Missing(Root(in).path)
    \/ \E k \in 1..MountCount(in) :
           RefusedMountOf(in, k) \/ RefusedPlace(within, MountOf(in, k).vm)
    \/ SharedBlocks(in)
    \/ \E k \in DOMAIN NetsOf(in) : NetsOf(in)[k].addr = "malformed"

\* What the model refuses, for the request of the VM.
LEMMA RefusedIs ==
    ASSUME input \in Inputs, NEW within
    PROVE  Refused(within) <=> RefusedIn(input, within)
<1> DEFINE in == input
<1>1. /\ DOMAIN Request0.mounts = 1..MountCount(in)
      /\ \A k : Request0.mounts[k] = MountOf(in, k)
  BY InputIs, Bridge
<1>2. /\ (Jailed <=> JailedBy(in)) /\ Jailer = in.request.jailer /\ Config.runc = Runc(in)
      /\ Config.levels = Levels(in) /\ KernelPath = Kernel(in) /\ RootPath = Root(in).path
      /\ Networks(Config, Request0) = NetsOf(in)
  BY Bridge
<1>3. \A k : RefusedMount(MountOf(in, k)) <=> RefusedMountOf(in, k)
  BY <1>2 DEF RefusedMount, RefusedMountOf
<1>4. (\E k \in DOMAIN Request0.mounts :
          RefusedMount(Request0.mounts[k]) \/ RefusedPlace(within, Request0.mounts[k].vm))
      <=> \E k \in 1..MountCount(in) :
              RefusedMountOf(in, k) \/ RefusedPlace(within, MountOf(in, k).vm)
  BY <1>1, <1>3
<1>5. (Jailed /\ (Jailer.uid = 0 \/ Jailer.gid = 0 \/ Config.runc.user # 0
                     \/ ~Config.runc.process \/ Missing(FirecrackerBinaryPath)))
      <=> RefusedJail(in)
  BY <1>2 DEF RefusedJail
<1>6. (Jailed /\ \E j, k \in DOMAIN Request0.mounts :
          /\ j # k /\ Request0.mounts[j].host = Request0.mounts[k].host
          /\ HostFiles[Request0.mounts[j].host].kind = "blk")
      <=> SharedBlocks(in)
  BY <1>1, <1>2 DEF SharedBlocks
<1> QED BY <1>2, <1>4, <1>5, <1>6 DEF Refused, RefusedIn

\* Why a CreateVM fails.
Unclear(in) == \E n \in 1..MountCount(in) : Ambiguous(MountOf(in, n))
Cause(in, ft) == RefusedIn(in, GuestDirs) \/ ft \/ Unclear(in)

-----------------------------------------------------------------------------
Fails(from) == phase = from /\ phase' = "failed"

\* The configuration.
LEMMA LevelsTwice ==
    ASSUME NEW levels \in Seq(Entries)
    PROVE  /\ Twice(levels) <=> TwiceTo(levels, Len(levels))
           /\ (\E k \in DOMAIN levels : levels[k].of = "invalid") <=>
                  InvalidTo(levels, Len(levels))
           /\ New(levels) = None <=>
                  TwiceTo(levels, Len(levels)) \/ InvalidTo(levels, Len(levels))
<1>1. DOMAIN levels = 1..Len(levels) OBVIOUS
<1>2. LevelsTo(New(levels), levels, Len(levels)) BY NewFoldsLevels
<1>3. None \notin Helpers BY NoneIsNoHelper
<1> QED BY <1>1, <1>2, <1>3 DEF LevelsTo, Twice, TwiceTo, InvalidTo, Kinds

\* createVM fails before the jailer for the levels of the file only.
LEMMA StartFails ==
    ASSUME Next, IndexInv(input, phase, i), Fails("start")
    PROVE  Cause(input, fault')
<1>1. Levels(input) \in Seq(Entries) BY InputIs DEF IndexInv
<1>2. StartService BY WhichAction DEF ActionOf, Fails
<1>3. New(Config.levels) = None BY <1>2 DEF StartService, Fails, Goto
<1>4. New(Levels(input)) = None BY <1>3, Bridge
<1> QED BY <1>1, <1>4, LevelsTwice DEF Cause, RefusedIn

\* It fails at the jailer for a jailer of root or a directory left over.
LEMMA JailerFails ==
    ASSUME Next, IndexInv(input, phase, i), LeftoverInv(phase, files, fault), Kept,
           Fails("jailer")
    PROVE  Cause(input, fault')
<1>1. NewJailer BY WhichAction DEF ActionOf, Fails
<1>2. Jailed /\ ~CanJail /\ fault' = fault
  BY <1>1 DEF NewJailer, Fails, Fail, FailAt, Goto
<1>3. JailedBy(input) /\ Jailer = input.request.jailer BY <1>2, Bridge
<1>4. CASE JailRoot \in DOMAIN files
  <2>1. Below(VmDir, JailRoot)
    <3>1. JailRoot \in HostPath /\ Len(JailRoot) >= 2 /\ JailRoot[1] = "run"
          /\ JailRoot[2] = "vm"
      BY RootsArePaths
    <3> QED BY <3>1, BelowIs
  <2>2. fault BY <1>4, <2>1, RankIs DEF LeftoverInv, Fails
  <2> QED BY <1>2, <2>2 DEF Cause
<1>5. CASE JailRoot \notin DOMAIN files
  <2>1. Jailer.uid = 0 \/ Jailer.gid = 0 BY <1>2, <1>5 DEF CanJail
  <2>2. RefusedJail(input) BY <1>3, <2>1 DEF RefusedJail
  <2> QED BY <2>2 DEF Cause, RefusedIn
<1> QED BY <1>4, <1>5

\* It fails at the VMM's configuration for a path of a mount that is not absolute.
LEMMA ConfigFails ==
    ASSUME Next, IndexInv(input, phase, i), Fails("config")
    PROVE  Cause(input, fault')
<1>1. StartConfig BY WhichAction DEF ActionOf, Fails
<1>2. ~AbsoluteMounts BY <1>1 DEF StartConfig, Fails, Goto
<1>3. \E n \in 1..MountCount(input) :
          ~IsAbs(MountOf(input, n).host) \/ ~IsAbs(MountOf(input, n).vm)
  <2>1. DOMAIN Request0.mounts = 1..MountCount(input) BY InputIs, Bridge DEF IndexInv
  <2> QED BY <1>2, <2>1, Bridge DEF AbsoluteMounts
<1>4. \E n \in 1..MountCount(input) : RefusedMountOf(input, n) BY <1>3 DEF RefusedMountOf
<1> QED BY <1>4 DEF Cause, RefusedIn

\* It fails at the networks for a malformed address.
LEMMA NetsFail ==
    ASSUME Next, IndexInv(input, phase, i), Fails("nets")
    PROVE  Cause(input, fault')
<1>1. AddNetworks BY WhichAction DEF ActionOf, Fails
<1>2. \E n \in DOMAIN NetsOf(input) : ~IsNetworkConfig(NetsOf(input)[n])
  BY <1>1, Bridge DEF AddNetworks, Fails, Goto
<1> QED BY <1>2 DEF Cause, RefusedIn, IsNetworkConfig

\* It fails at the jail's configuration for a template it cannot read.
LEMMA TemplateFails ==
    ASSUME Next, IndexInv(input, phase, i), Fails("jailConfig")
    PROVE  Cause(input, fault')
<1>1. WriteOCIConfig BY WhichAction DEF ActionOf, Fails
<1>2. ~Runc(input).process \/ Runc(input).user # 0
  BY <1>1, Bridge DEF WriteOCIConfig, Fails, Goto
<1>3. RefusedJail(input) BY <1>2 DEF RefusedJail, IndexInv, Fails
<1> QED BY <1>3 DEF Cause, RefusedIn

\* The file of the next stub is not there yet.
LEMMA NextStubIsNew ==
    ASSUME IndexInv(input, phase, i), MadeInv(input, phase, i, files, fault),
           ApartIn(input), phase \in {"stubs", "mountStubs"},
           NEW n \in 2..Total(input), n = DrivesMade(input, phase, i) + 1, ~fault
    PROVE  Source(input, n) \notin DOMAIN files
<1> DEFINE in == input
<1>1. in \in Inputs /\ Total(in) \in Nat \ {0} /\ n \in 1..Total(in) /\ n # 1
  BY InputIs DEF IndexInv
<1>2. Source(in, n) = Append(Place(in), Name(in, n)) /\ Name(in, n) \in Texts
  BY <1>1, SourceIs
<1>3. SUFFICES ASSUME Source(in, n) \in DOMAIN files PROVE FALSE OBVIOUS
<1>4. Below(VmDir, Source(in, n))
  <2>1. Source(in, n) = Append(VmDir, Name(in, n)) \/ Source(in, n) = InJail(Name(in, n))
    BY <1>2 DEF Place, InJail
  <2>2. Below(VmDir, Append(VmDir, Name(in, n))) BY <1>2, InVmDir
  <2>3. Below(VmDir, InJail(Name(in, n))) BY <1>2, InJailIs
  <2> QED BY <2>1, <2>2, <2>3
<1>5. Rank[phase] >= 2 /\ ~(Rank[phase] >= 8) BY RankIs
<1>6. MadeAt(in, phase, i, Source(in, n)) BY <1>3, <1>4, <1>5 DEF MadeInv
<1>7. \/ JailedBy(in) /\ Source(in, n) = JailRoot
      \/ \E m \in 2..DrivesMade(in, phase, i) : Source(in, n) = Source(in, m)
  BY <1>5, <1>6 DEF MadeAt
<1>8. CASE JailedBy(in) /\ Source(in, n) = JailRoot
  <2>1. Source(in, n) = InJail(Name(in, n)) BY <1>2, <1>8 DEF Place, InJail
  <2> QED BY <1>2, <1>8, <2>1, JailNamesDiffer
<1>9. CASE \E m \in 2..DrivesMade(in, phase, i) : Source(in, n) = Source(in, m)
  <2>1. PICK m \in 2..DrivesMade(in, phase, i) : Source(in, n) = Source(in, m) BY <1>9
  <2>2. m # n /\ m \in 2..Total(in)
    <3>1. DrivesMade(in, phase, i) \in Int
      <4>1. i \in Nat /\ Count(in) \in Nat BY <1>1, InputIs DEF IndexInv
      <4>2. StubsMade(in, phase, i) \in Int BY <4>1, RankIs DEF StubsMade
      <4>3. MountStubsMade(in, phase, i) \in Int BY <4>1, RankIs DEF MountStubsMade
      <4> QED BY <4>2, <4>3 DEF DrivesMade
    <3> QED BY <1>1, <3>1
  <2>3. \A l \in 2..Total(in) : Source(in, l) = Source(in, n) => l = n BY <1>1, SourcesApart
  <2> QED BY <2>1, <2>2, <2>3
<1> QED BY <1>7, <1>8, <1>9

\* It fails at a stub drive for a file left over, or a fault.
LEMMA StubFails ==
    ASSUME Next, IndexInv(input, phase, i), MadeInv(input, phase, i, files, fault),
           ApartIn(input), Kept, Fails("stubs")
    PROVE  Cause(input, fault')
<1> DEFINE in == input
<1>1. CreateContainerStub BY WhichAction DEF ActionOf, Fails
<1>2. /\ i <= Count(in) /\ StubPath("ctrstub", i) \in DOMAIN files /\ fault' = fault
  BY <1>1, Bridge DEF CreateContainerStub, Fails, Fail, FailAt, Goto, Again
<1>3. /\ in \in Inputs /\ Count(in) \in Nat \ {0} /\ MountCount(in) \in Nat /\ i \in Nat \ {0}
      /\ Total(in) = 1 + Count(in) + MountCount(in)
  BY InputIs DEF IndexInv
<1>4. i + 1 \in 2..Total(in) /\ i + 1 = DrivesMade(in, phase, i) + 1
  BY <1>2, <1>3, RankIs DEF Fails, DrivesMade, StubsMade, MountStubsMade
<1>5. Source(in, i + 1) = StubPath("ctrstub", i)
  <2>1. i \in 1..Count(in) BY <1>2, <1>3
  <2>2. Name(in, i + 1) = StubName("ctrstub", i) BY <1>3, <2>1, NamesDiffer
  <2>3. Source(in, i + 1) = Append(Place(in), Name(in, i + 1)) BY <1>3 DEF Source
  <2> QED BY <2>2, <2>3, Bridge
<1>6. fault
  <2>1. SUFFICES ASSUME ~fault PROVE FALSE OBVIOUS
  <2>2. Source(in, i + 1) \notin DOMAIN files BY <1>4, <2>1, NextStubIsNew DEF Fails
  <2> QED BY <1>2, <1>5, <2>2
<1> QED BY <1>2, <1>6 DEF Cause

\* Options that contradict the drive.
LEMMA BadOptions ==
    ASSUME NEW mount, mount.options \in Seq(STRING),
           IncompatibleOptions(mount.options, mount.writable)
    PROVE  /\ Named(mount.options) # {}
           /\ ReadWrite(mount.writable) \in Named(mount.options) => Ambiguous(mount)
<1> DEFINE options == mount.options
           rw == ReadWriteOptions(options)
           bad == options[Min(rw)]
<1>1. rw # {} /\ bad # ReadWrite(mount.writable) BY DEF IncompatibleOptions
<1>2. rw \subseteq Nat /\ \A n \in rw : options[n] \in {"ro", "rw"}
  BY DEF ReadWriteOptions
<1>3. Named(options) = {options[n] : n \in rw} BY DEF Named
<1> HIDE DEF rw
<1>4. Min(rw) \in rw BY <1>1, <1>2, MinIs
<1>5. bad \in Named(options) /\ bad \in {"ro", "rw"} /\ Named(options) \subseteq {"ro", "rw"}
  BY <1>2, <1>3, <1>4
<1>6. ReadWrite(mount.writable) \in {"ro", "rw"} BY DEF ReadWrite
<1> QED BY <1>1, <1>5, <1>6 DEF Ambiguous

\* It fails at a mount's stub for its options, a file left over, or a fault.
LEMMA MountStubFails ==
    ASSUME Next, IndexInv(input, phase, i), MadeInv(input, phase, i, files, fault),
           ApartIn(input), Kept, Fails("mountStubs")
    PROVE  Cause(input, fault')
<1> DEFINE in == input
           mount == MountOf(in, i)
<1>1. CreateDriveMountStub BY WhichAction DEF ActionOf, Fails
<1>2. /\ in \in Inputs /\ Count(in) \in Nat \ {0} /\ MountCount(in) \in Nat /\ i \in Nat \ {0}
      /\ Total(in) = 1 + Count(in) + MountCount(in)
  BY InputIs DEF IndexInv
<1>3. /\ i \in DOMAIN Request0.mounts /\ fault' = fault
      /\ \/ IncompatibleOptions(Request0.mounts[i].options, Request0.mounts[i].writable)
         \/ StubPath("drivemntstub", i) \in DOMAIN files
  BY <1>1 DEF CreateDriveMountStub, Fails, Fail, FailAt, Goto, Again
<1>4. /\ i \in 1..MountCount(in) /\ mount = Request0.mounts[i]
      /\ mount.options \in Seq(STRING)
  <2>1. DOMAIN Request0.mounts = 1..MountCount(in) BY <1>2, InputIs, Bridge
  <2>2. mount = Request0.mounts[i] BY Bridge
  <2> QED BY <1>2, <1>3, <2>1, <2>2, InputIs
<1>5. CASE IncompatibleOptions(mount.options, mount.writable)
  <2>1. Ambiguous(mount) \/ RefusedMountOf(in, i)
    <3>1. /\ Named(mount.options) # {}
          /\ ReadWrite(mount.writable) \in Named(mount.options) => Ambiguous(mount)
      BY <1>4, <1>5, BadOptions
    <3> QED BY <3>1 DEF RefusedMountOf
  <2> QED BY <1>4, <2>1 DEF Cause, RefusedIn, Unclear
<1>6. CASE StubPath("drivemntstub", i) \in DOMAIN files
  <2> DEFINE n == 1 + Count(in) + i
  <2>1. n \in 2..Total(in) /\ n # 1 /\ n = DrivesMade(in, phase, i) + 1
    <3>1. StubsMade(in, phase, i) = Count(in) BY RankIs DEF Fails, StubsMade
    <3>2. MountStubsMade(in, phase, i) = i - 1 BY RankIs DEF Fails, MountStubsMade
    <3> QED BY <1>2, <1>4, <3>1, <3>2 DEF DrivesMade
  <2>2. Source(in, n) = StubPath("drivemntstub", i)
    <3>1. Name(in, n) = StubName("drivemntstub", i) BY <1>2, <1>4, NamesDiffer
    <3> HIDE DEF n
    <3>2. Source(in, n) = Append(Place(in), Name(in, n)) BY <2>1 DEF Source
    <3> QED BY <3>1, <3>2, Bridge
  <2> HIDE DEF n
  <2>3. fault
    <3>1. SUFFICES ASSUME ~fault PROVE FALSE OBVIOUS
    <3>2. Source(in, n) \notin DOMAIN files BY <2>1, <3>1, NextStubIsNew DEF Fails
    <3> QED BY <1>6, <2>2, <3>2
  <2> QED BY <1>3, <2>3 DEF Cause
<1> QED BY <1>3, <1>4, <1>5, <1>6

-----------------------------------------------------------------------------
\* The jail.
LEMMA NoCopy ==
    ASSUME NEW in, FilesInv(files), NEW src, ~Below(VmDir, src), NEW x \in Texts,
           ~CanCopy(src, InJail(x))
    PROVE  Missing(src)
<1>1. src # InJail(x) BY InJailIs
<1>2. src \notin DOMAIN files \/ files[src].kind = "dir" BY <1>1 DEF CanCopy
<1> QED BY <1>2, HostFileIs DEF Missing

\* It fails at the copies of the jail for a missing kernel or binary.
LEMMA JailFilesFail ==
    ASSUME Next, IndexInv(input, phase, i), VmmConfigInv(input, phase, i, mCfg),
           FilesInv(files), ApartIn(input), Fails("jailFiles")
    PROVE  Cause(input, fault')
<1>1. JailFiles BY WhichAction DEF ActionOf, Fails
<1>2. \/ ~CanCopy(FirecrackerBinaryPath, InJail("firecracker"))
      \/ ~CanCopy(mCfg.kernel, InJail("kernel-image"))
  BY <1>1 DEF JailFiles, Fails, Goto
<1>3. mCfg.kernel = Kernel(input) BY RankIs DEF VmmConfigInv, Fails
<1>4. JailedBy(input) BY DEF IndexInv, Fails
<1>5. "firecracker" \in Texts /\ "kernel-image" \in Texts BY DEF Texts
<1>6. CASE ~CanCopy(FirecrackerBinaryPath, InJail("firecracker"))
  <2>1. Missing(FirecrackerBinaryPath) BY <1>5, <1>6, BinaryOutside, NoCopy
  <2>2. RefusedJail(input) BY <1>4, <2>1 DEF RefusedJail
  <2> QED BY <2>2 DEF Cause, RefusedIn
<1>7. CASE ~CanCopy(Kernel(input), InJail("kernel-image"))
  <2>1. ~Below(VmDir, Kernel(input)) BY DEF ApartIn
  <2>2. Missing(Kernel(input)) BY <1>5, <1>7, <2>1, NoCopy
  <2> QED BY <2>2 DEF Cause, RefusedIn
<1> QED BY <1>2, <1>3, <1>6, <1>7

\* It fails at the drives of the jail for a missing root drive.
LEMMA JailDriveFails ==
    ASSUME Next, IndexInv(input, phase, i), VmmConfigInv(input, phase, i, mCfg),
           FilesInv(files), StubFilesInv(input, phase, i, files), ApartIn(input),
           Fails("jailDrives")
    PROVE  Cause(input, fault')
<1> DEFINE in == input
           path == Source(in, i)
<1>1. /\ in \in Inputs /\ Total(in) \in Nat \ {0} /\ i \in Nat \ {0} /\ Rank[phase] = 9
      /\ Total(in) = 1 + Count(in) + MountCount(in)
  BY InputIs, RankIs DEF IndexInv, Fails
<1>2. JailDrive BY WhichAction DEF ActionOf, Fails
<1>3. mCfg.drives = DrivesAt(in, i)
  <2>1. JailedTo(in, phase, i) = i BY <1>1 DEF JailedTo, IndexInv, Fails
  <2> QED BY <1>1, <2>1 DEF VmmConfigInv
<1>4. /\ i \in DOMAIN mCfg.drives
      /\ \/ mCfg.drives[i].path \notin DOMAIN files
         \/ /\ ~LeaveStub(mCfg.drives[i].path)
            /\ ~CanCopy(mCfg.drives[i].path, InJail(Last(mCfg.drives[i].path)))
  BY <1>2 DEF JailDrive, Fails, Goto, Again
<1>5. i \in 1..Total(in) /\ mCfg.drives[i] = DriveOf(in, i)
  BY <1>1, <1>3, <1>4 DEF DrivesAt
<1>6. DriveOf(in, i).path = path BY <1>1, <1>5, DriveIs
<1>7. \/ path \notin DOMAIN files
      \/ ~IsStubDrive(files[path]) /\ ~CanCopy(path, InJail(Last(path)))
  BY <1>4, <1>5, <1>6 DEF LeaveStub
<1>8. CASE i # 1
  <2>1. i \in 2..DrivesMade(in, phase, i) /\ Rank[phase] \in 3..13
    <3>1. DrivesMade(in, phase, i) = Total(in)
      BY <1>1, RankIs DEF DrivesMade, StubsMade, MountStubsMade, Fails
    <3> QED BY <1>1, <1>5, <1>8, <3>1
  <2>2. path \in DOMAIN files /\ files[path] = StubFile(in, i) BY <2>1 DEF StubFilesInv
  <2>3. IsStubDrive(files[path]) BY <2>2, StubFileIs
  <2> QED BY <1>7, <2>2, <2>3
<1>9. CASE i = 1
  <2>1. path = Root(in).path /\ ~Below(VmDir, path) BY <1>9 DEF Source, ApartIn
  <2>2. Last(path) \in Texts BY <1>1, <1>5, SourceIs
  <2> HIDE DEF path
  <2>3. Missing(path)
    <3>1. CASE path \notin DOMAIN files BY <2>1, <3>1, HostFileIs DEF Missing
    <3>2. CASE ~CanCopy(path, InJail(Last(path))) BY <2>1, <2>2, <3>2, NoCopy
    <3> QED BY <1>7, <3>1, <3>2
  <2> QED BY <2>1, <2>3 DEF Cause, RefusedIn
<1> QED BY <1>8, <1>9

-----------------------------------------------------------------------------
\* The VMM.
LEMMA VMMFails ==
    ASSUME Next, ContainerInv(phase, container, fault), Fails("vmm") \/ Fails("dial")
    PROVE  Cause(input, fault')
<1>1. CASE phase = "vmm"
  <2>1. StartVMM BY <1>1, WhichAction DEF ActionOf
  <2>2. \/ container /\ fault' = fault
        \/ fault'
    BY <1>1, <2>1 DEF StartVMM, Fails, Fail, Break, FailAt, Goto
  <2>3. container => fault BY <1>1, RankIs DEF ContainerInv
  <2> QED BY <2>2, <2>3 DEF Cause
<1>2. CASE phase = "dial"
  <2>1. Dial BY <1>2, WhichAction DEF ActionOf
  <2> QED BY <1>2, <2>1 DEF Dial, Fails, Fail, Break, FailAt, Goto, Cause, hostVars
<1> QED BY <1>1, <1>2 DEF Fails

\* Nothing that was made is in the way of the fifos.
LEMMA LogsFail ==
    ASSUME Next, IndexInv(input, phase, i), MadeInv(input, phase, i, files, fault),
           Kept, Fails("logs")
    PROVE  Cause(input, fault')
<1> DEFINE in == input
<1>1. CreateLogFiles BY WhichAction DEF ActionOf, Fails
<1>2. LogFifos \cap DOMAIN files # {} /\ fault' = fault
  BY <1>1 DEF CreateLogFiles, Fails, Fail, FailAt, Goto
<1>3. SUFFICES ASSUME ~fault PROVE FALSE BY <1>2 DEF Cause
<1>4. PICK f \in Fifos : Append(VmDir, f) \in DOMAIN files BY <1>2 DEF LogFifos
<1>5. f \in Texts /\ f # "rootfs" BY DEF Texts, Fifos
<1> DEFINE p == Append(VmDir, f)
<1>6. Below(VmDir, p) /\ ~Below(JailRoot, p) /\ p # JailRoot
  <2>1. Below(VmDir, p) /\ ~Below(JailRoot, p) BY <1>5, InVmDir
  <2>2. Below(JailRoot, JailRoot) BY RootsArePaths, BelowIs
  <2> QED BY <2>1, <2>2
<1>7. in \in Inputs /\ Rank[phase] = 11 BY RankIs DEF IndexInv, Fails
<1>8. Makes(in, 11, ExposedTo(in, phase, i), p)
  <2>1. MadeAt(in, phase, i, p) BY <1>3, <1>4, <1>6, <1>7 DEF MadeInv
  <2> QED BY <1>7, <2>1 DEF MadeAt
<1>9. ASSUME NEW n \in 2..Total(in) PROVE p # Source(in, n)
  <2>1. n \in 1..Total(in) /\ n # 1 BY <1>7, InputIs
  <2>2. /\ Name(in, n) \notin Fifos /\ Name(in, n) \in Texts
        /\ Source(in, n) = Append(Place(in), Name(in, n))
    BY <1>7, <2>1, SourceIs, NamesDiffer
  <2>3. CASE Place(in) = VmDir
    <3>1. Last(p) = f /\ Last(Source(in, n)) = Name(in, n)
      BY <1>5, <2>2, <2>3, InVmDir
    <3> QED BY <2>2, <3>1
  <2>4. CASE Place(in) = JailRoot
    <3>1. Below(JailRoot, Source(in, n)) BY <2>2, <2>4, InJailIs DEF InJail
    <3> QED BY <1>6, <3>1
  <2> QED BY <2>3, <2>4, RootsArePaths
<1>10. ExposedTo(in, phase, i) = 0 BY <1>7 DEF ExposedTo, Fails
<1>11. \A x \in {"firecracker", "kernel-image", Name(in, 1)} : p # InJail(x)
  <2> TAKE x \in {"firecracker", "kernel-image", Name(in, 1)}
  <2>1. x \in Texts
    <3>1. 1 \in 1..Total(in) BY <1>7, InputIs
    <3>2. Name(in, 1) \in Texts BY <1>7, <3>1, SourceIs
    <3> QED BY <3>2 DEF Texts
  <2>2. Below(JailRoot, InJail(x)) BY <2>1, InJailIs
  <2> QED BY <1>6, <2>2
<1> HIDE DEF p
<1> QED BY <1>6, <1>8, <1>9, <1>10, <1>11 DEF Makes

\* Nor in the way of their links in the jail.
LEMMA LinkFails ==
    ASSUME Next, IndexInv(input, phase, i), MadeInv(input, phase, i, files, fault),
           ApartIn(input), Kept, Fails("link")
    PROVE  Cause(input, fault')
<1> DEFINE in == input
<1>1. LinkFifos BY WhichAction DEF ActionOf, Fails
<1>2. JailFifos \cap DOMAIN files # {} /\ fault' = fault
  BY <1>1 DEF LinkFifos, Fails, Fail, FailAt, Goto
<1>3. SUFFICES ASSUME ~fault PROVE FALSE BY <1>2 DEF Cause
<1>4. PICK f \in Fifos : InJail(f) \in DOMAIN files BY <1>2 DEF JailFifos
<1>5. f \in Texts BY DEF Texts, Fifos
<1> DEFINE p == InJail(f)
<1>6. Below(VmDir, p) /\ Below(JailRoot, p) /\ p # JailRoot
  BY <1>5, InJailIs, JailNamesDiffer
<1>7. in \in Inputs /\ Rank[phase] = 12 /\ JailedBy(in) BY RankIs DEF IndexInv, Fails
<1>8. Makes(in, 12, ExposedTo(in, phase, i), p)
  <2>1. MadeAt(in, phase, i, p) BY <1>3, <1>4, <1>6, <1>7 DEF MadeInv
  <2> QED BY <1>7, <2>1 DEF MadeAt
<1>9. ASSUME NEW n \in 2..Total(in) PROVE p # Source(in, n)
  <2>1. n \in 1..Total(in) /\ n # 1 BY <1>7, InputIs
  <2>2. /\ Name(in, n) \notin Fifos /\ Name(in, n) \in Texts
        /\ Source(in, n) = InJail(Name(in, n))
    BY <1>7, <2>1, SourceIs, NamesDiffer DEF Place, InJail
  <2> QED BY <1>5, <2>2, JailNamesDiffer
<1>10. ExposedTo(in, phase, i) = 0 BY <1>7 DEF ExposedTo, Fails
<1>11. \A x \in {"firecracker", "kernel-image", Name(in, 1)} : p # InJail(x)
  <2> TAKE x \in {"firecracker", "kernel-image", Name(in, 1)}
  <2>1. x \in Texts
    <3>1. 1 \in 1..Total(in) BY <1>7, InputIs
    <3>2. Name(in, 1) \in Texts BY <1>7, <3>1, SourceIs
    <3> QED BY <3>2 DEF Texts
  <2>2. x # f
    <3>1. Name(in, 1) \notin Fifos BY DEF ApartIn, OwnNames
    <3> QED BY <3>1 DEF Fifos
  <2> QED BY <1>5, <2>1, <2>2, JailNamesDiffer
<1>12. \A g \in Fifos : p # Append(VmDir, g)
  <2> TAKE g \in Fifos
  <2>1. g \in Texts /\ g # "rootfs" BY DEF Texts, Fifos
  <2>2. ~Below(JailRoot, Append(VmDir, g)) BY <2>1, InVmDir
  <2> QED BY <1>6, <2>2
<1> HIDE DEF p
<1> QED BY <1>6, <1>8, <1>9, <1>10, <1>11, <1>12 DEF Makes

\* It fails at the VMM's start for a file that the VMM cannot open.
LEMMA AttachFails ==
    ASSUME Next, IndexInv(input, phase, i), VmmConfigInv(input, phase, i, mCfg),
           OciInv(input, phase, mCfg, oci), FilesInv(files),
           JailInv(input, phase, files), StubFilesInv(input, phase, i, files),
           CopiesInv(input, phase, i, files), FifosInv(input, phase, files),
           HostInv(input, phase, i), ApartIn(input), Fails("attach")
    PROVE  Cause(input, fault')
<1>1. Attach BY WhichAction DEF ActionOf, Fails
<1>2. ~VmmOpensAll BY <1>1 DEF Attach, Fails, Goto
<1>3. \A f \in Fifos : CanOpen(LogPath(f), {"w"}) BY OpensFifos DEF Fails
<1>4. \/ ~CanOpen(mCfg.kernel, {"r"})
      \/ ~\A n \in DOMAIN mCfg.drives :
             CanOpen(mCfg.drives[n].path, DriveModes(mCfg.drives[n]))
  BY <1>2, <1>3 DEF VmmOpensAll
<1>5. ~JailedBy(input) BY <1>4, OpensJailed DEF Fails
<1>6. Missing(Kernel(input)) \/ Missing(Root(input).path)
  BY <1>4, <1>5, OpensUnjailed DEF Fails
<1> QED BY <1>6 DEF Cause, RefusedIn

\* A file in the jail where a block device is to be made is one of another
\* mount that shares it: above a file is a directory.
LEMMA InTheWay ==
    ASSUME IndexInv(input, phase, i), MadeInv(input, phase, i, files, fault),
           AcceptedInv(input, phase, i), HostInv(input, phase, i), ApartIn(input),
           JailedBy(input), phase = "expose", i \in 1..MountCount(input),
           MountOf(input, i).host \in DOMAIN HostFiles,
           HostFiles[MountOf(input, i).host].kind = "blk", ~fault,
           JailRoot \o MountOf(input, i).host \in DOMAIN files
    PROVE  SharedBlocks(input)
<1> DEFINE in == input
           host == MountOf(in, i).host
           real == JailRoot \o host
<1>1. /\ in \in Inputs /\ Total(in) \in Nat \ {0} /\ Rank[phase] = 15 /\ i \in Nat \ {0}
      /\ ExposedTo(in, phase, i) = i - 1
      /\ \A n \in 1..MountCount(in) : MountOf(in, n).host \in Path
      /\ MountCount(in) \in Nat
  <2>1. in \in Inputs /\ i \in Nat \ {0} BY DEF IndexInv
  <2>2. ExposedTo(in, phase, i) = i - 1 BY MountsFar
  <2>3. Rank[phase] = 15 BY RankIs
  <2>4. /\ Total(in) \in Nat \ {0} /\ MountCount(in) \in Nat
        /\ \A n \in 1..MountCount(in) : MountOf(in, n).host \in Path
    BY <2>1, InputIs
  <2> QED BY <2>1, <2>2, <2>3, <2>4
<1>2. host \in Path /\ host \in HostPath /\ Len(host) \in Nat /\ host # << >>
  <2>1. host \in Path /\ Path \subseteq HostPath BY <1>1, HostPaths
  <2>2. IsAbs(host) BY <1>1 DEF AcceptedInv
  <2> QED BY <2>1, <2>2, HostPaths DEF IsAbs
<1>3. Below(VmDir, real) /\ Below(JailRoot, real) /\ real # JailRoot
  BY <1>2, JailRooted
<1>4. Makes(in, 15, i - 1, real)
  <2>1. MadeAt(in, phase, i, real) BY <1>1, <1>3 DEF MadeInv
  <2> QED BY <1>1, <2>1 DEF MadeAt
<1>5. SubSeq(host, 1, Len(host)) = host /\ Len(host) \in 0..Len(host)
  BY <1>2, JailedParts
<1>6. ASSUME NEW x \in Texts, x \in OwnNames \/ \E m \in 1..Total(in) : x = Name(in, m)
      PROVE  real # InJail(x)
  <2>1. JailRoot \o SubSeq(host, 1, Len(host)) # InJail(x) BY <1>5, <1>6, MountsApart DEF IndexInv
  <2> QED BY <1>5, <2>1
<1>7. \A n \in 2..Total(in) : real # Source(in, n)
  <2> TAKE n \in 2..Total(in)
  <2>1. n \in 1..Total(in) /\ n # 1 BY <1>1
  <2>2. Source(in, n) = InJail(Name(in, n)) /\ Name(in, n) \in Texts
    BY <1>1, <2>1, SourceIs DEF Place, InJail
  <2> QED BY <1>6, <2>1, <2>2
<1>8. \A f \in Fifos : real # Append(VmDir, f)
  <2> TAKE f \in Fifos
  <2>1. f \in Texts /\ f # "rootfs" BY DEF Texts, Fifos
  <2>2. ~Below(JailRoot, Append(VmDir, f)) BY <2>1, InVmDir
  <2> QED BY <1>3, <2>2
<1>9. \A x \in {"firecracker", "kernel-image", Name(in, 1)} \cup Fifos : real # InJail(x)
  <2> TAKE x \in {"firecracker", "kernel-image", Name(in, 1)} \cup Fifos
  <2>1. 1 \in 1..Total(in) BY <1>1
  <2>2. Name(in, 1) \in Texts BY <1>1, <2>1, SourceIs
  <2>3. x \in Texts BY <2>2 DEF Texts
  <2>4. x \in OwnNames \/ x = Name(in, 1) BY DEF OwnNames
  <2> QED BY <1>6, <2>1, <2>3, <2>4
<1>10. PICK m \in 1..(i - 1) : \E l \in 0..Len(MountOf(in, m).host) :
           real = JailRoot \o SubSeq(MountOf(in, m).host, 1, l)
  BY <1>3, <1>4, <1>7, <1>8, <1>9 DEF Makes
<1> DEFINE other == MountOf(in, m).host
<1>11. PICK l \in 0..Len(other) : real = JailRoot \o SubSeq(other, 1, l) BY <1>10
<1>12. m \in 1..MountCount(in) /\ m # i BY <1>1
<1>13. /\ other \in HostPath /\ other \in DOMAIN HostFiles /\ Len(other) \in Nat
  <2>1. other \in Path BY <1>1, <1>12
  <2>2. other \in DOMAIN HostFiles BY <1>1 DEF HostInv
  <2> QED BY <2>1, <2>2, HostPaths
<1> HIDE DEF other, host, real
<1>14. host = SubSeq(other, 1, l)
  <2>1. SubSeq(other, 1, l) \in HostPath BY <1>13, JailedParts
  <2>2. JailRoot \o SubSeq(other, 1, l) = JailRoot \o host BY <1>11 DEF real
  <2>3. \A g \in HostPath : JailRoot \o g = JailRoot \o host => g = host
    <3>1. \A g, h \in HostPath : JailRoot \o h = JailRoot \o g => g = h BY JailRooted
    <3> QED BY <1>2, <3>1
  <2> QED BY <2>1, <2>2, <2>3
<1>15. l = Len(other)
  <2>1. SUFFICES ASSUME l # Len(other) PROVE FALSE OBVIOUS
  <2>2. l \in 0..(Len(other) - 1) BY <1>13, <2>1
  <2>3. \A n \in 0..(Len(other) - 1) :
            SubSeq(other, 1, n) \in DOMAIN HostFiles =>
                HostFiles[SubSeq(other, 1, n)].kind = "dir"
    BY <1>13, HostTree DEF HostFilesAssumption
  <2>4. host \in DOMAIN HostFiles /\ HostFiles[host].kind = "blk" BY DEF host
  <2> QED BY <1>14, <2>2, <2>3, <2>4
<1>16. other = host BY <1>13, <1>14, <1>15, JailedParts
<1>17. HostFiles[host].kind = "blk" BY DEF host
<1> QED BY <1>12, <1>16, <1>17 DEF SharedBlocks, other, host

\* It fails at an exposed mount for a missing file or a device exposed twice.
LEMMA ExposeFails ==
    ASSUME Next, IndexInv(input, phase, i), StubsInv(input, phase, i, stubs, mountStubs),
           FilesInv(files), MadeInv(input, phase, i, files, fault),
           AcceptedInv(input, phase, i), HostInv(input, phase, i), ApartIn(input),
           Fails("expose")
    PROVE  Cause(input, fault')
<1> DEFINE in == input
           host == MountOf(in, i).host
<1>1. Expose \/ Ready BY WhichAction DEF ActionOf, Fails
<1>2. i \in DOMAIN mountStubs /\ Jailed /\ ~CanExpose(mountStubs[i].host)
  BY <1>1 DEF Expose, Ready, Fails, Goto, Move
<1>3. /\ in \in Inputs /\ Rank[phase] = 15 /\ Rank[phase] >= 5 BY RankIs DEF IndexInv, Fails
<1>4. /\ i \in 1..MountCount(in) /\ mountStubs[i].host = host /\ JailedBy(in)
  <2>1. /\ DOMAIN mountStubs = 1..MountCount(in)
        /\ \A n \in 1..MountCount(in) : mountStubs[n] = MountStubOf(in, n)
    BY <1>3, MountStubsAre
  <2> QED BY <1>2, <2>1, Bridge DEF MountStubOf
<1>5. ~Below(VmDir, host) BY <1>4 DEF ApartIn
<1>6. SUFFICES ASSUME ~fault'
               PROVE  RefusedMountOf(in, i) \/ SharedBlocks(in)
  BY <1>4 DEF Cause, RefusedIn
<1>9. ~fault
  <2>1. fault' = fault BY <1>1 DEF Expose, Ready, Fails, Fail, FailAt, Goto, Move
  <2> QED BY <1>6, <2>1
<1>7. CASE host \notin DOMAIN files
  <2>1. Missing(host) BY <1>5, <1>7, HostFileIs DEF Missing
  <2> QED BY <2>1 DEF RefusedMountOf
<1>8. CASE host \in DOMAIN files
  <2>1. host \in DOMAIN HostFiles /\ files[host] = HostFiles[host] BY <1>5, <1>8, HostFileIs
  <2>2. \/ HostFiles[host].kind \notin {"blk", "reg"}
        \/ HostFiles[host].kind = "blk" /\ JailRoot \o host \in DOMAIN files
    BY <1>2, <1>4, <1>8, <2>1 DEF CanExpose
  <2>3. CASE HostFiles[host].kind \notin {"blk", "reg"}
    BY <1>4, <2>3 DEF RefusedMountOf
  <2>4. CASE HostFiles[host].kind = "blk" /\ JailRoot \o host \in DOMAIN files
    BY <1>4, <1>9, <2>1, <2>4, InTheWay DEF Fails
  <2> QED BY <2>2, <2>3, <2>4
<1> QED BY <1>7, <1>8

\* It fails at a patched drive for a file that the VMM cannot open.
LEMMA PatchFails ==
    ASSUME Next, IndexInv(input, phase, i), StubsInv(input, phase, i, stubs, mountStubs),
           VmmConfigInv(input, phase, i, mCfg), OciInv(input, phase, mCfg, oci),
           FilesInv(files), JailInv(input, phase, files),
           ExposedInv(input, phase, i, files), HostInv(input, phase, i), ApartIn(input),
           Fails("patch")
    PROVE  Cause(input, fault')
<1> DEFINE in == input
           host == MountOf(in, i).host
           modes == DriveModes(MountOf(in, i))
           n == 1 + Count(in) + i
<1>1. /\ in \in Inputs /\ Count(in) \in Nat \ {0} /\ MountCount(in) \in Nat
      /\ Total(in) = 1 + Count(in) + MountCount(in) /\ i \in 1..MountCount(in)
      /\ Rank[phase] = 16 /\ Rank[phase] >= 5 /\ Rank[phase] >= 8 /\ Rank[phase] >= 10
      /\ Rank[phase] >= 2 /\ host \in Path /\ ExposedTo(in, phase, i) = i
  <2>1. in \in Inputs /\ phase = "patch" /\ i \in Nat \ {0} /\ i <= MountCount(in)
    BY DEF IndexInv, Fails
  <2>2. ExposedTo(in, phase, i) = i BY <2>1, MountsFar
  <2>3. Rank[phase] = 16 BY <2>1, RankIs
  <2>4. /\ Count(in) \in Nat \ {0} /\ MountCount(in) \in Nat
        /\ Total(in) = 1 + Count(in) + MountCount(in)
        /\ \A m \in 1..MountCount(in) : MountOf(in, m).host \in Path
    BY <2>1, InputIs
  <2> QED BY <2>1, <2>2, <2>3, <2>4
<1>2. ~CanOpen(mountStubs[i].host, DriveModes(mCfg.drives[Device(mountStubs[i].id)]))
  BY WhichAction DEF ActionOf, Fails, Patch, Move
<1>3. n \in 2..Total(in) /\ n \in 1..Total(in) /\ n # 1 /\ ~(n <= 1 + Count(in))
      /\ n - 1 - Count(in) = i
  BY <1>1
<1>4. mountStubs[i].id = Name(in, n) /\ mountStubs[i].host = host
  <2>1. mountStubs[i] = MountStubOf(in, i) BY <1>1, MountStubsAre
  <2>2. Name(in, n) = StubName("drivemntstub", i) BY <1>1, NamesDiffer
  <2> QED BY <2>1, <2>2 DEF MountStubOf
<1> HIDE DEF n
<1>5. Device(mountStubs[i].id) = n BY <1>1, <1>3, <1>4, DeviceIs
<1>6. mCfg.drives[n].writable = MountOf(in, i).writable
  <2>1. mCfg.drives[n].writable = DriveOf(in, n).writable BY <1>1, <1>3, VmmDrives
  <2>2. DriveOf(in, n).writable = MountOf(in, i).writable BY <1>1, <1>3, DriveIs
  <2> QED BY <2>1, <2>2
<1>7. ~CanOpen(host, modes) BY <1>2, <1>4, <1>5, <1>6 DEF DriveModes
<1> HIDE DEF modes
<1>8. ~Below(VmDir, host) BY <1>1 DEF ApartIn
<1>9. SUFFICES RefusedMountOf(in, i) BY <1>1 DEF Cause, RefusedIn
<1>10. CASE ~JailedBy(in)
  <2>1. VmmPath(host) = host /\ ~Jailed BY <1>10, Bridge DEF VmmPath
  <2>2. host \notin DOMAIN files \/ files[host].kind = "dir" BY <1>7, <2>1 DEF CanOpen
  <2>3. Missing(host) BY <1>8, <2>2, HostFileIs DEF Missing
  <2> QED BY <2>3 DEF RefusedMountOf
<1>11. CASE JailedBy(in)
  <2> DEFINE real == JailRoot \o host
             file == HostFiles[host]
  <2>1. VmmPath(host) = real /\ Jailed BY <1>11, Bridge DEF VmmPath
  <2>2. /\ real \in DOMAIN files /\ files[real].kind = file.kind
        /\ files[real].modes = IF file.kind = "blk" THEN {"r", "w"} ELSE file.modes
        /\ \A l \in 0..Len(host) : JailRoot \o SubSeq(host, 1, l) \in DOMAIN files
    BY <1>1, <1>11 DEF ExposedInv, Fails
  <2>3. file.kind \in {"blk", "reg"} BY <1>1, <1>11 DEF HostInv
  <2>4. /\ \A p \in DOMAIN files : Below(JailRoot, p) => files[p].owner = User(in)
        /\ oci.uid = User(in)
    BY <1>1, <1>11 DEF JailInv, OciInv
  <2>5. host \in HostPath /\ Len(host) \in Nat BY <1>1, HostPaths
  <2>6. Len(real) = 3 + Len(host) /\ Below(JailRoot, real) BY <2>5, JailRooted
  <2>7. files[real].owner = oci.uid BY <2>2, <2>4, <2>6
  <2>8. ASSUME NEW m \in Len(JailRoot)..(Len(real) - 1)
        PROVE  SubSeq(real, 1, m) \in DOMAIN files /\ files[SubSeq(real, 1, m)].owner = oci.uid
    <3> DEFINE l == m - 3
    <3>1. l \in 0..Len(host) /\ m = 3 + l BY <2>5, <2>6, RootsArePaths
    <3> HIDE DEF l, real
    <3>2. /\ SubSeq(JailRoot \o host, 1, 3 + l) = JailRoot \o SubSeq(host, 1, l)
          /\ SubSeq(host, 1, l) \in HostPath
      BY <2>5, <3>1, JailedParts
    <3>3. Below(JailRoot, JailRoot \o SubSeq(host, 1, l)) BY <3>2, JailRooted
    <3>4. JailRoot \o SubSeq(host, 1, l) \in DOMAIN files BY <2>2, <3>1
    <3>5. SubSeq(real, 1, m) = JailRoot \o SubSeq(host, 1, l) BY <3>1, <3>2 DEF real
    <3> QED BY <2>4, <3>3, <3>4, <3>5
  <2> HIDE DEF real
  <2>9. ~(modes \subseteq files[real].modes)
    BY <1>7, <2>1, <2>2, <2>3, <2>7, <2>8 DEF CanOpen
  <2>10. modes \subseteq {"r", "w"} BY DEF modes, DriveModes
  <2>11. file.kind = "reg" /\ ~(modes \subseteq file.modes) BY <2>2, <2>3, <2>9, <2>10
  <2> QED BY <1>11, <2>11 DEF RefusedMountOf, modes
<1> QED BY <1>10, <1>11

\* It fails at a mount in the guest for its options or its place.
LEMMA MountFails ==
    ASSUME Next, IndexInv(input, phase, i), StubsInv(input, phase, i, stubs, mountStubs),
           VmmConfigInv(input, phase, i, mCfg), FoundInv(input, phase, found),
           AcceptedInv(input, phase, i), PlacesInv(input, phase, i, dirs), NoDotsIn(input),
           Fails("mount")
    PROVE  Cause(input, fault')
<1> DEFINE in == input
           mount == MountOf(in, i)
           n == 1 + Count(in) + i
           stub == mountStubs[i]
           good == /\ stub.id \in DOMAIN found
                   /\ ~IsSystemDir(dirs, stub.vm) /\ CanMkdirAll(dirs, stub.vm)
                   /\ MountsWritable => mCfg.drives[found[stub.id]].writable
<1>1. fault' \/ ~good
  <2>1. MountDrive BY WhichAction DEF ActionOf, Fails
  <2> QED BY <2>1 DEF MountDrive, Break, Fails, Fail, FailAt, Goto, MountsWritable
<1>2. /\ i \in 1..MountCount(in) /\ n \in 2..Total(in)
      /\ stub.id \in DOMAIN found /\ found[stub.id] = n
      /\ stub.vm = mount.vm /\ mount.vm \in Path /\ mCfg.drives[n].writable = mount.writable
      /\ ~Ambiguous(mount) => (MountsWritable <=> mount.writable)
  BY MountGiven DEF Fails
<1>3. SUFFICES ASSUME ~good
               PROVE  Ambiguous(mount) \/ RefusedPlace(GuestDirs, mount.vm)
  BY <1>1, <1>2 DEF Cause, RefusedIn, Unclear
<1>4. \/ IsSystemDir(dirs, mount.vm) \/ ~CanMkdirAll(dirs, mount.vm)
      \/ MountsWritable /\ ~mCfg.drives[n].writable
  BY <1>2, <1>3
<1>5. Tree(dirs) /\ GuestDirs \subseteq dirs BY DEF PlacesInv, Tree
<1>6. CASE ~CanMkdirAll(dirs, mount.vm)
  <2>1. ~CanMkdirAll(GuestDirs, mount.vm) BY <1>2, <1>5, <1>6, CanStill
  <2> QED BY <2>1 DEF CanMkdirAll, RefusedPlace
<1>7. CASE CanMkdirAll(dirs, mount.vm) /\ IsSystemDir(dirs, mount.vm)
  <2>1. Plain(mount.vm)
    <3>1. i \in DOMAIN input.request.mounts BY <1>2, InputIs DEF IndexInv
    <3> QED BY <3>1 DEF NoDotsIn
  <2>2. UnderBanned(Lead(mount.vm)) BY <1>2, <1>5, <1>7, <2>1, RefusedWhereItLeads
  <2> QED BY <2>2 DEF RefusedPlace
<1>8. CASE MountsWritable /\ ~mCfg.drives[n].writable
  BY <1>2, <1>8
<1> QED BY <1>4, <1>6, <1>7, <1>8

-----------------------------------------------------------------------------
(* The invariant.                                                          *)

\* A CreateVM that has failed.
FailedInv(in, ph, ft) == ph = "failed" /\ NoDotsIn(in) => Cause(in, ft)

\* The inductive invariant: what holds in any case, and what holds when the
\* names of the input are apart.
Counters == attempt \in 1..MaxAttempts /\ container \in BOOLEAN /\ fault \in BOOLEAN

AnyInv ==
    /\ IndexInv(input, phase, i) /\ Counters
    /\ HelperInv(input, phase, helper)
    /\ StubsInv(input, phase, i, stubs, mountStubs)
    /\ ConfigInv(input, phase, i, mc) /\ VmmConfigInv(input, phase, i, mCfg)
    /\ OciInv(input, phase, mCfg, oci)
    /\ FilesInvs(input, phase, i, files, fault)
    /\ FifosInv(input, phase, files) /\ AcceptedInv(input, phase, i)
    /\ ContainerInv(phase, container, fault)

ApartInv ==
    /\ StubFilesInv(input, phase, i, files) /\ CopiesInv(input, phase, i, files)
    /\ ExposedInv(input, phase, i, files) /\ HostInv(input, phase, i)
    /\ DevicesInv(input, phase, i, devices) /\ FoundInv(input, phase, found)
    /\ PlacesInv(input, phase, i, dirs) /\ MountedInv(input, phase, i, mounted)
    /\ FailedInv(input, phase, fault)

IInv == AnyInv /\ (ApartIn(input) => ApartInv)

\* A step that fails has a cause.
LEMMA FailedStep ==
    ASSUME Next, AnyInv, ApartInv, ApartIn(input), Turn(input, phase, i, phase', i'), Kept,
           phase' = "failed", NoDotsIn(input)
    PROVE  Cause(input, fault')
<1> USE DEF AnyInv, ApartInv, FilesInvs
<1>1. phase \in DOMAIN Rank /\ phase \notin {"machine", "failed", "over", "ready"}
  BY RankIs DEF IndexInv, Turn
<1>2. CASE phase = "start" BY <1>2, StartFails DEF Fails
<1>3. CASE phase = "jailer" BY <1>3, JailerFails DEF Fails
<1>4. CASE phase = "config" BY <1>4, ConfigFails DEF Fails
<1>5. CASE phase = "stubs" BY <1>5, StubFails DEF Fails
<1>6. CASE phase = "mountStubs" BY <1>6, MountStubFails DEF Fails
<1>7. CASE phase = "nets" BY <1>7, NetsFail DEF Fails
<1>8. CASE phase = "jailConfig" BY <1>8, TemplateFails DEF Fails
<1>9. CASE phase = "jailFiles" BY <1>9, JailFilesFail DEF Fails
<1>10. CASE phase = "jailDrives" BY <1>10, JailDriveFails DEF Fails
<1>11. CASE phase \in {"vmm", "dial"} BY <1>11, VMMFails DEF Fails
<1>12. CASE phase = "attach" BY <1>12, AttachFails DEF Fails
<1>13. CASE phase = "expose" BY <1>13, ExposeFails DEF Fails
<1>14. CASE phase = "patch" BY <1>14, PatchFails DEF Fails
<1>15. CASE phase = "mount" BY <1>15, MountFails DEF Fails
<1>16. CASE phase = "logs" BY <1>16, LogsFail DEF Fails
<1>17. CASE phase = "link" BY <1>17, LinkFails DEF Fails
<1> QED
  BY <1>1, <1>2, <1>3, <1>4, <1>5, <1>6, <1>7, <1>8, <1>9, <1>10, <1>11, <1>12, <1>13, <1>14,
     <1>15, <1>16, <1>17, RankIs

Counted ==
    /\ attempt' = attempt /\ container' \in {container, Jailed \/ container, FALSE}
    /\ fault' \in {fault} \cup BOOLEAN

\* Every step keeps the count of the attempts.
LEMMA CountersStep ==
    ASSUME Next, Counters
    PROVE  Counters'
<1>1. CASE CreateVMAgain
  <2>1. /\ attempt < MaxAttempts /\ attempt' = attempt + 1
        /\ container' = container /\ fault' = (fault \/ container)
    BY <1>1, Zenon DEF CreateVMAgain, hostVars
  <2>2. fault' \in BOOLEAN BY <2>1
  <2> QED BY <2>1, <2>2, SomeAttempts DEF Counters
<1>2. CASE ~CreateVMAgain
  <2> USE DEF Counted, Goto, Again, Fail, FailAt, Break, Move, hostVars
  <2>1. StartService => Counted BY Zenon DEF StartService
  <2>2. NewJailer => Counted BY Zenon DEF NewJailer
  <2>3. StartConfig => Counted BY Zenon DEF StartConfig
  <2>4. CreateContainerStub => Counted BY Zenon DEF CreateContainerStub
  <2>5. CreateDriveMountStub => Counted BY Zenon DEF CreateDriveMountStub
  <2>6. AddNetworks => Counted BY Zenon DEF AddNetworks
  <2>7. NewMachine => Counted BY Zenon DEF NewMachine
  <2>8. WriteOCIConfig => Counted BY Zenon DEF WriteOCIConfig
  <2>9. JailFiles => Counted BY Zenon DEF JailFiles
  <2>10. JailDrive => Counted BY Zenon DEF JailDrive
  <2>11. StartVMM => Counted BY Zenon DEF StartVMM
  <2>12. CreateLogFiles => Counted BY Zenon DEF CreateLogFiles
  <2>13. LinkFifos => Counted BY DEF LinkFifos
  <2>14. Attach => Counted BY Zenon DEF Attach
  <2>15. Dial => Counted BY Zenon DEF Dial
  <2>16. Expose => Counted BY Zenon DEF Expose
  <2>17. Patch => Counted BY Zenon DEF Patch
  <2>18. MountDrive => Counted BY Zenon DEF MountDrive
  <2>19. Ready => Counted BY Zenon DEF Ready
  <2>20. ShimExits => Counted BY Zenon DEF ShimExits
  <2>21. StopVM => Counted
    <3>1. SUFFICES ASSUME StopVM PROVE Counted OBVIOUS
    <3>2. PICK stays \in BOOLEAN : fault' = (stays \/ container')
      BY <3>1, Zenon DEF StopVM
    <3>3. fault' \in BOOLEAN BY <3>2
    <3>4. attempt' = attempt /\ container' \in {FALSE, container} BY <3>1, Zenon DEF StopVM
    <3> QED BY <3>3, <3>4
  <2>22. Counted
    BY <1>2, <2>1, <2>2, <2>3, <2>4, <2>5, <2>6, <2>7, <2>8, <2>9, <2>10, <2>11, <2>12,
       <2>13, <2>14, <2>15, <2>16, <2>17, <2>18, <2>19, <2>20, <2>21 DEF Next
  <2> QED BY <2>22 DEF Counters, Jailed
<1> QED BY <1>1, <1>2

\* A container that is there before the VMM was left by the attempt before.
LEMMA ContainerStep ==
    ASSUME Next, ContainerInv(phase, container, fault), Turn(input, phase, i, phase', i'), Kept
    PROVE  ContainerInv(phase', container', fault')
<1>1. SUFFICES ASSUME Rank[phase'] \in 0..10, phase' \notin {"failed", "over"}, ~fault'
               PROVE  ~container'
  BY DEF ContainerInv
<1>2. CASE phase = "over"
  <2>1. CreateVMAgain BY <1>2, WhichAction DEF ActionOf
  <2>2. container' = container /\ fault' = (fault \/ container)
    BY <2>1, Zenon DEF CreateVMAgain, hostVars
  <2> QED BY <1>1, <2>2
<1>3. CASE phase # "over"
  <2>1. Rank[phase] \in 0..10 /\ phase \notin {"failed", "ready", "over"} /\ ~Goes("vmm", "logs")
    BY <1>1, <1>3, RankIs DEF Turn, Goes
  <2>2. container' = container /\ fault' = fault BY <1>1, <2>1 DEF Kept
  <2> QED BY <1>1, <2>1, <2>2 DEF ContainerInv
<1> QED BY <1>2, <1>3

\* Every step keeps the part of the invariant that holds of any request.
LEMMA AnyStep ==
    ASSUME Next, AnyInv, Turn(input, phase, i, phase', i'), input' = input, Kept,
           phase # "over"
    PROVE  AnyInv'
<1> USE DEF AnyInv
<1>1. IndexInv(input, phase', i') BY IndexTurn
<1>2. IndexInv(input', phase', i') BY <1>1
<1>3. Counters' BY CountersStep
<1>4. HelperInv(input', phase', helper') BY HelperStep
<1>5. StubsInv(input', phase', i', stubs', mountStubs') BY StubsStep
<1>6. ConfigInv(input', phase', i', mc') BY ConfigStep
<1>7. VmmConfigInv(input', phase', i', mCfg') BY VmmConfigStep
<1>8. OciInv(input', phase', mCfg', oci') BY OciStep
<1>9. FilesInvs(input', phase', i', files', fault') BY FilesInvsStep
<1>10. FifosInv(input', phase', files') BY FifosStep
<1>11. AcceptedInv(input', phase', i') BY AcceptedStep
<1>12. ContainerInv(phase', container', fault') BY ContainerStep
<1> QED BY <1>2, <1>3, <1>4, <1>5, <1>6, <1>7, <1>8, <1>9, <1>10, <1>11, <1>12

\* Every step keeps the part that holds of a request whose paths are apart.
LEMMA ApartStep ==
    ASSUME Next, AnyInv, ApartInv, ApartIn(input),
           Turn(input, phase, i, phase', i'), input' = input, Kept, phase # "over"
    PROVE  ApartInv'
<1> USE DEF AnyInv, ApartInv, FilesInvs
<1>1. StubFilesInv(input', phase', i', files') BY StubFilesStep
<1>2. CopiesInv(input', phase', i', files') BY CopiesStep
<1>3. ExposedInv(input', phase', i', files') BY ExposedStep
<1>4. HostInv(input', phase', i') BY HostStep
<1>5. DevicesInv(input', phase', i', devices') BY DevicesStep
<1>6. FoundInv(input', phase', found') BY FoundStep
<1>7. PlacesInv(input', phase', i', dirs') BY PlacesStep
<1>8. MountedInv(input', phase', i', mounted') BY MountedStep
<1>9. FailedInv(input', phase', fault')
  <2>1. FailedInv(input, phase', fault') BY FailedStep DEF FailedInv
  <2> QED BY <2>1
<1> QED BY <1>1, <1>2, <1>3, <1>4, <1>5, <1>6, <1>7, <1>8, <1>9

\* Where CreateVM starts, whatever of files the attempts before have left.
LEMMA StartState ==
    ASSUME NEW in \in Inputs, NEW fs, FilesInv(fs), RootInv(fs), NEW ft,
           ft \/ \A p \in DOMAIN fs : ~Below(VmDir, p), NEW ct, ct => ft
    PROVE  LET ph == "start" IN
           /\ IndexInv(in, ph, 1)
           /\ \A h : HelperInv(in, ph, h)
           /\ StubsInv(in, ph, 1, << >>, << >>)
           /\ \A c : ConfigInv(in, ph, 1, c) /\ VmmConfigInv(in, ph, 1, c)
           /\ \A c, o : OciInv(in, ph, c, o)
           /\ FilesInvs(in, ph, 1, fs, ft)
           /\ FifosInv(in, ph, fs) /\ AcceptedInv(in, ph, 1) /\ ContainerInv(ph, ct, ft)
           /\ StubFilesInv(in, ph, 1, fs) /\ CopiesInv(in, ph, 1, fs)
           /\ ExposedInv(in, ph, 1, fs) /\ HostInv(in, ph, 1)
           /\ \A ds : DevicesInv(in, ph, 1, ds) /\ FoundInv(in, ph, ds)
           /\ PlacesInv(in, ph, 1, GuestDirs)
           /\ \A md : MountedInv(in, ph, 1, md)
           /\ FailedInv(in, ph, ft)
<1> DEFINE ph == "start"
<1>1. Rank[ph] = 0 /\ ph \in DOMAIN Rank BY RankIs
<1>2. ph \notin {"stubs", "mountStubs", "expose", "patch", "mount", "jailConfig", "jailFiles",
                "jailDrives", "link", "ready", "failed", "over"}
  OBVIOUS
<1> HIDE DEF ph
<1>3. IndexInv(in, ph, 1) BY <1>1, <1>2 DEF IndexInv
<1>4. /\ \A h : HelperInv(in, ph, h)
      /\ \A c : ConfigInv(in, ph, 1, c) /\ VmmConfigInv(in, ph, 1, c)
      /\ \A c, o : OciInv(in, ph, c, o)
  BY <1>1 DEF HelperInv, ConfigInv, VmmConfigInv, OciInv
<1>5. StubsInv(in, ph, 1, << >>, << >>)
  <2>1. StubsMade(in, ph, 1) = 0 /\ MountStubsMade(in, ph, 1) = 0
    BY <1>1 DEF StubsMade, MountStubsMade
  <2> QED BY <2>1, FirstsNone DEF StubsInv
<1>6. FilesInvs(in, ph, 1, fs, ft)
  <2>1. LeftoverInv(ph, fs, ft) BY DEF LeftoverInv
  <2>2. JailInv(in, ph, fs) /\ MadeInv(in, ph, 1, fs, ft) BY <1>1 DEF JailInv, MadeInv
  <2> QED BY <2>1, <2>2 DEF FilesInvs
<1>7. FifosInv(in, ph, fs) BY <1>1 DEF FifosInv
<1>8. AcceptedInv(in, ph, 1)
  <2>1. MountStubsMade(in, ph, 1) = 0 BY <1>1 DEF MountStubsMade
  <2> QED BY <1>1, <2>1 DEF AcceptedInv
<1>9. ContainerInv(ph, ct, ft) BY DEF ContainerInv
<1>10. /\ ExposedTo(in, ph, 1) = 0 /\ PatchedTo(in, ph, 1) = 0
       /\ MountedTo(in, ph, 1) = 0 /\ JailedTo(in, ph, 1) = 1
  BY <1>1, <1>2 DEF ExposedTo, PatchedTo, MountedTo, JailedTo
<1>11. StubFilesInv(in, ph, 1, fs) /\ CopiesInv(in, ph, 1, fs)
  BY <1>1 DEF StubFilesInv, CopiesInv
<1>12. ExposedInv(in, ph, 1, fs) BY <1>1, <1>2, <1>10 DEF ExposedInv
<1>13. HostInv(in, ph, 1) BY <1>1, <1>10 DEF HostInv
<1>14. \A ds : DevicesInv(in, ph, 1, ds) /\ FoundInv(in, ph, ds)
  BY <1>1 DEF DevicesInv, FoundInv
<1>15. PlacesInv(in, ph, 1, GuestDirs)
  <2>1. Tree(GuestDirs) BY GuestTree DEF GuestAssumption, Tree
  <2> QED BY <1>10, <2>1 DEF PlacesInv
<1>16. \A md : MountedInv(in, ph, 1, md) BY <1>10 DEF MountedInv
<1>17. FailedInv(in, ph, ft) BY <1>2 DEF FailedInv
<1> QED
  BY <1>3, <1>4, <1>5, <1>6, <1>7, <1>8, <1>9, <1>11, <1>12, <1>13, <1>14, <1>15, <1>16, <1>17
  DEF ph

\* The invariant holds at first.
LEMMA InitInvariant ==
    ASSUME Init
    PROVE  IInv
<1>1. /\ input \in Inputs /\ phase = "start" /\ i = 1 /\ files = HostFiles
      /\ stubs = << >> /\ mountStubs = << >> /\ dirs = GuestDirs
      /\ container = FALSE /\ fault = FALSE /\ attempt = 1
  BY DEF Init
<1>2. Counters
  <2>1. 1 \in 1..MaxAttempts BY SomeAttempts
  <2> QED BY <1>1, <2>1 DEF Counters
<1>3. FilesInv(files)
  <2>1. DOMAIN HostFiles \subseteq HostPath BY HostTree, HostPaths DEF HostFilesAssumption
  <2>2. ASSUME NEW p \in DOMAIN HostFiles PROVE IsFile(HostFiles[p])
    <3> DEFINE f == HostFiles[p]
    <3>1. f = [File(f.kind, f.content, 0, f.modes) EXCEPT !.sectors = f.sectors]
      BY HostTree DEF HostFilesAssumption
    <3>2. f = SizedFile(f.kind, f.content, 0, f.modes, f.sectors) BY <3>1 DEF SizedFile
    <3> QED BY <3>2, SizedFileIs
  <2> QED BY <1>1, <2>1, <2>2 DEF FilesInv
<1>4. \A p \in DOMAIN files : ~Below(VmDir, p) BY <1>1, HostTree DEF HostFilesAssumption
<1>5. RootInv(files)
  <2>1. \A p \in DOMAIN files : ~Below(JailRoot, p) BY <1>3, <1>4, BelowIs DEF FilesInv
  <2> QED BY <2>1 DEF RootInv
<1>6. container => fault BY <1>1
<1> QED BY <1>1, <1>2, <1>3, <1>4, <1>5, <1>6, StartState DEF IInv, AnyInv, ApartInv

\* Another CreateVM, of any request.
LEMMA AgainInvariant ==
    ASSUME Next, AnyInv, phase = "over"
    PROVE  IInv'
<1>1. CreateVMAgain BY WhichAction DEF ActionOf
<1>2. /\ input' \in Inputs /\ phase' = "start" /\ i' = 1 /\ files' = files
      /\ stubs' = << >> /\ mountStubs' = << >> /\ dirs' = GuestDirs
      /\ container' = container
  BY <1>1, RetriesAreInputs DEF CreateVMAgain, Goto, hostVars
<1>3. fault' = (fault \/ container) BY <1>1, Zenon DEF CreateVMAgain
<1>4. Counters' BY CountersStep DEF AnyInv
<1>5. FilesInv(files) /\ RootInv(files) BY DEF AnyInv, FilesInvs
<1>6. fault \/ \A p \in DOMAIN files : ~Below(VmDir, p)
  BY RankIs DEF AnyInv, FilesInvs, LeftoverInv
<1>7. FilesInv(files') /\ RootInv(files') BY <1>2, <1>5
<1>8. fault' \/ \A p \in DOMAIN files' : ~Below(VmDir, p) BY <1>2, <1>3, <1>6
<1>9. container' => fault' BY <1>2, <1>3
<1>10. /\ IndexInv(input', phase', i') /\ HelperInv(input', phase', helper')
       /\ StubsInv(input', phase', i', stubs', mountStubs')
       /\ ConfigInv(input', phase', i', mc') /\ VmmConfigInv(input', phase', i', mCfg')
       /\ OciInv(input', phase', mCfg', oci')
       /\ FilesInvs(input', phase', i', files', fault')
       /\ FifosInv(input', phase', files') /\ AcceptedInv(input', phase', i')
       /\ ContainerInv(phase', container', fault')
       /\ StubFilesInv(input', phase', i', files') /\ CopiesInv(input', phase', i', files')
       /\ ExposedInv(input', phase', i', files') /\ HostInv(input', phase', i')
       /\ DevicesInv(input', phase', i', devices') /\ FoundInv(input', phase', found')
       /\ PlacesInv(input', phase', i', dirs') /\ MountedInv(input', phase', i', mounted')
       /\ FailedInv(input', phase', fault')
  BY <1>2, <1>7, <1>8, <1>9, StartState
<1> QED BY <1>4, <1>10 DEF IInv, AnyInv, ApartInv

\* The invariant is inductive.
LEMMA InductiveStep ==
    ASSUME IInv, [Next]_vars
    PROVE  IInv'
<1>1. CASE Next /\ phase # "over"
  <2>1. Turn(input, phase, i, phase', i') /\ input' = input /\ Kept
    BY <1>1, Turns DEF IInv, AnyInv
  <2>2. AnyInv' BY <1>1, <2>1, AnyStep DEF IInv
  <2>3. ApartIn(input') => ApartIn(input) BY <2>1
  <2>4. ApartIn(input) => ApartInv' BY <1>1, <2>1, ApartStep DEF IInv
  <2> QED BY <2>2, <2>3, <2>4 DEF IInv
<1>2. CASE Next /\ phase = "over" BY <1>2, AgainInvariant DEF IInv
<1>3. CASE UNCHANGED vars
  BY <1>3 DEF vars, hostVars, configVars, guestVars, IInv, AnyInv, ApartInv, Counters
<1> QED BY <1>1, <1>2, <1>3

\* Every behaviour has the invariant.
LEMMA Invariant == Spec => []IInv
<1>1. Init => IInv BY InitInvariant
<1>2. IInv /\ [Next]_vars => IInv' BY InductiveStep
<1> QED BY <1>1, <1>2, PTL DEF Spec

-----------------------------------------------------------------------------
(* The theorems.                                                           *)

\* The invariant says what the types are.
LEMMA IInvTypes ==
    ASSUME IInv
    PROVE  TypeOK
<1> DEFINE in == input
<1> USE DEF IInv, AnyInv
<1>1. /\ in \in Inputs /\ i \in Nat /\ attempt \in 1..MaxAttempts
      /\ container \in BOOLEAN /\ fault \in BOOLEAN
  BY DEF IndexInv, Counters
<1>3. ASSUME phase = "nets"
      PROVE  /\ Len(mountStubs) = Len(Request0.mounts)
             /\ Len(stubs) = Positive(Request0.count, 1)
             /\ Len(mc.drives) = 1 + Len(stubs) + Len(mountStubs)
  <2>1. /\ StubsMade(in, phase, i) = Count(in) /\ MountStubsMade(in, phase, i) = MountCount(in)
        /\ Rank[phase] >= 3
    BY <1>3, RankIs DEF StubsMade, MountStubsMade
  <2>2. /\ Count(in) \in Nat \ {0} /\ MountCount(in) \in Nat BY <1>1, InputIs
  <2>3. stubs = Firsts(AllStubs(in), Count(in))
        /\ mountStubs = Firsts(AllMountStubs(in), MountCount(in))
    BY <1>3, <2>1 DEF StubsInv
  <2>4. Len(stubs) = Count(in) BY <2>2, <2>3, FirstsAppend
  <2>5. Len(mountStubs) = MountCount(in) BY <2>2, <2>3, FirstsAppend
  <2>6. mc.drives = Firsts(AllDrives(in), 1 + Count(in) + MountCount(in))
    BY <2>1 DEF ConfigInv, DrivesMade
  <2>7. Len(mc.drives) = 1 + Count(in) + MountCount(in)
    <3>1. 1 + Count(in) + MountCount(in) \in Nat BY <2>2
    <3> QED BY <2>6, <3>1, FirstsAppend
  <2>8. Count(in) = Positive(Request0.count, 1)
    BY DEF Count, ContainerCount, Request0
  <2> QED BY <2>4, <2>5, <2>7, <2>8, Bridge
<1> QED BY <1>1, <1>3 DEF TypeOK

\* The variables of createVM have their types, and when the drives are all made
\* there is one stub per mount of the request and one per container, but at
\* least one (CreateContainerStubs, CreateDriveMountStubs).
THEOREM VmSetupTypes == Spec => []TypeOK
<1>1. IInv => TypeOK BY IInvTypes
<1> QED BY <1>1, Invariant, PTL

-----------------------------------------------------------------------------
\* The levels that a helper has, of the entries.
LEMMA LevelIs ==
    ASSUME NEW levels \in Seq(Entries), NEW h \in Helpers,
           LevelsTo(h, levels, Len(levels)), NEW of \in Kinds
    PROVE  /\ h.level[of] = None <=> Asked(levels, of) = {}
           /\ {h.level[of]} \ {None} = {e.level : e \in Asked(levels, of)}
<1> DEFINE n == Len(levels)
           l == h.level[of]
<1>1. DOMAIN levels = 1..n /\ n \in Nat /\ \A k \in 1..n : levels[k] \in Entries OBVIOUS
<1>2. None \notin Helpers BY NoneIsNoHelper
<1>3. LevelTo(h, levels, n, of) /\ ~TwiceTo(levels, n) BY <1>2 DEF LevelsTo
<1>4. \A e \in Entries : e.of = of => e.level # None
  BY NoneIsNoSeverity DEF Entries, Kinds, Components
<1>5. CASE l = None /\ \A m \in 1..n : levels[m].of # of
  <2>1. Asked(levels, of) = {} BY <1>1, <1>5 DEF Asked
  <2> QED BY <1>5, <2>1
<1>6. CASE \E m \in 1..n : levels[m].of = of /\ levels[m].level = l
  <2>1. PICK m \in 1..n : levels[m].of = of /\ levels[m].level = l BY <1>6
  <2>2. l # None BY <1>1, <1>4, <2>1
  <2>3. \A k \in 1..n : levels[k].of = of => k = m BY <1>3, <2>1 DEF TwiceTo
  <2>4. Asked(levels, of) = {levels[m]} BY <1>1, <2>1, <2>3 DEF Asked
  <2>5. {e.level : e \in Asked(levels, of)} = {l} BY <2>1, <2>4
  <2> QED BY <2>2, <2>4, <2>5
<1> QED BY <1>3, <1>5, <1>6 DEF LevelTo

\* The level of a component is its own, or the top's.
LEMMA OrTopIs ==
    ASSUME NEW levels \in Seq(Entries), NEW h \in Helpers,
           LevelsTo(h, levels, Len(levels)), NEW of \in Kinds
    PROVE  {OrTop(h, of)} \ {None} =
               (CASE Asked(levels, of) # {} -> {e.level : e \in Asked(levels, of)}
                  [] OTHER -> {e.level : e \in Asked(levels, "top")})
<1>1. "top" \in Kinds BY DEF Kinds
<1>2. /\ h.level[of] = None <=> Asked(levels, of) = {}
      /\ {h.level[of]} \ {None} = {e.level : e \in Asked(levels, of)}
  BY LevelIs
<1>3. {h.level["top"]} \ {None} = {e.level : e \in Asked(levels, "top")} BY <1>1, LevelIs
<1> QED BY <1>2, <1>3 DEF OrTop

\* The output of the VMM is shown for its own entry and for the level debug.
LEMMA OutputIs ==
    ASSUME NEW levels \in Seq(Entries), NEW h \in Helpers, LevelsTo(h, levels, Len(levels)),
           ~Twice(levels)
    PROVE  LogFirecrackerOutput(h) <=>
               \/ Asked(levels, "output") # {}
               \/ "debug" \in {e.level : e \in Asked(levels, "top")}
<1>1. "top" \in Kinds /\ "debug" # None BY NoneIsNoSeverity DEF Kinds, Severities
<1>2. {h.level["top"]} \ {None} = {e.level : e \in Asked(levels, "top")} BY <1>1, LevelIs
<1>3. h.level["top"] = "debug" <=> "debug" \in {e.level : e \in Asked(levels, "top")}
  BY <1>1, <1>2
<1>4. h.output <=> \E m \in 1..Len(levels) : levels[m].of = "output"
  BY NoneIsNoHelper DEF LevelsTo
<1>5. (\E m \in 1..Len(levels) : levels[m].of = "output") <=> Asked(levels, "output") # {}
  BY DEF Asked
<1> QED BY <1>3, <1>4, <1>5 DEF LogFirecrackerOutput

\* The invariant says that the levels are as asked.
LEMMA IInvLevels ==
    ASSUME IInv
    PROVE  LevelsAsAsked
<1> DEFINE levels == Levels(input)
           h == helper
           debug == Config.shimDebug
<1>1. SUFFICES ASSUME phase \notin {"start", "failed", "over"} PROVE LevelsAsAsked
  BY DEF LevelsAsAsked
<1>2. Rank[phase] >= 1 /\ input \in Inputs
  BY <1>1, RankIs DEF IInv, AnyInv, IndexInv
<1>3. h = New(levels) /\ h # None BY <1>2 DEF IInv, AnyInv, HelperInv
<1>4. levels \in Seq(Entries) /\ Config.levels = levels BY <1>2, InputIs, Bridge
<1> HIDE DEF levels, h
<1>5. /\ LevelsTo(h, levels, Len(levels)) /\ h \in Helpers /\ ~Twice(levels)
  <2>1. LevelsTo(New(levels), levels, Len(levels)) BY <1>4, NewFoldsLevels
  <2>2. h \in Helpers BY <1>3, <2>1 DEF LevelsTo
  <2>3. ~Twice(levels) BY <1>3, <1>4, LevelsTwice
  <2> QED BY <1>3, <2>1, <2>2, <2>3
<1> DEFINE Level(of) == CASE Asked(levels, of) # {} -> {e.level : e \in Asked(levels, of)}
                          [] OTHER -> {e.level : e \in Asked(levels, "top")}
<1>6. "firecracker" \in Kinds /\ "sdk" \in Kinds /\ "containerd" \in Kinds
  BY DEF Kinds, Components
<1>7. {GetFirecrackerLogLevel(h)} \ {None} = Level("firecracker")
  BY <1>4, <1>5, <1>6, OrTopIs DEF GetFirecrackerLogLevel
<1>8. {GetFirecrackerSDKLogLevel(h)} \ {None} = Level("sdk")
  BY <1>4, <1>5, <1>6, OrTopIs DEF GetFirecrackerSDKLogLevel
<1>9. {GetFirecrackerContainerdLogLevel(h, debug)} \ {None} =
          IF Asked(levels, "containerd") = {} /\ debug THEN {"debug"} ELSE Level("containerd")
  <2>1. {OrTop(h, "containerd")} \ {None} = Level("containerd") BY <1>4, <1>5, <1>6, OrTopIs
  <2>2. h.level["containerd"] = None <=> Asked(levels, "containerd") = {}
    BY <1>4, <1>5, <1>6, LevelIs
  <2>3. {"debug"} \ {None} = {"debug"} BY NoneIsNoSeverity DEF Severities
  <2> HIDE DEF Level, debug
  <2> QED BY <2>1, <2>2, <2>3 DEF GetFirecrackerContainerdLogLevel
<1>10. "warning" \notin Level("top") =>
          (LogFirecrackerOutput(h) <=>
               Asked(levels, "output") # {} \/ "debug" \in Level("top"))
  <2>1. Level("top") = {e.level : e \in Asked(levels, "top")} OBVIOUS
  <2> HIDE DEF Level
  <2> QED BY <1>4, <1>5, <2>1, OutputIs
<1> HIDE DEF Level
<1>11. Config.levels = levels /\ helper = h BY <1>4 DEF h
<1> QED BY <1>5, <1>7, <1>8, <1>9, <1>10, <1>11 DEF LevelsAsAsked, Level

\* Whatever list of log levels the configuration file has, the shim logs each
\* component at the level that was asked of it or else of all, and shows the
\* output of the VMM if that was asked for, in whatever order the entries come, and a list that asks twice is refused by NewService
\* (debug.New, setLogLevel).
THEOREM AskedLevels == Spec => []LevelsAsAsked
<1>1. IInv => LevelsAsAsked BY IInvLevels
<1> QED BY <1>1, Invariant, PTL

\* The invariant says that the VMM sees its files.
LEMMA IInvFiles ==
    ASSUME IInv
    PROVE  VmmSeesItsFiles
<1> DEFINE in == input
<1>1. SUFFICES ASSUME phase = "attach", Apart PROVE VmmSeesItsFiles BY DEF VmmSeesItsFiles
<1>2. in \in Inputs /\ Rank[phase] = 13 BY <1>1, RankIs DEF IInv, AnyInv, IndexInv
<1>3. ApartIn(in) BY <1>1, <1>2, ApartIs
<1>4. AnyInv /\ ApartInv BY <1>3 DEF IInv
<1> USE DEF AnyInv, ApartInv, FilesInvs
<1>5. \A f \in Fifos : CanOpen(LogPath(f), {"w"}) BY <1>1, <1>4, OpensFifos
<1>6. ASSUME JailedBy(in)
      PROVE  /\ \A n \in DOMAIN mCfg.drives :
                    CanOpen(mCfg.drives[n].path, DriveModes(mCfg.drives[n]))
             /\ oci.uid = Jailer.uid /\ oci.uid # 0
             /\ files[VmmPath(mCfg.kernel)].content = HostFiles[KernelPath].content
             /\ files[VmmPath(mCfg.drives[1].path)].content = HostFiles[RootPath].content
             /\ mCfg.netns # "" /\ Config.runc.netns # None => oci.netns = mCfg.netns
  <2>1. /\ \A n \in DOMAIN mCfg.drives :
               CanOpen(mCfg.drives[n].path, DriveModes(mCfg.drives[n]))
        /\ files[InJail("kernel-image")].content = HostFiles[Kernel(in)].content
        /\ files[InJail(Name(in, 1))].content = HostFiles[Root(in).path].content
    BY <1>1, <1>4, <1>6, OpensJailed
  <2>2. /\ VmmPath(mCfg.kernel) = InJail("kernel-image")
        /\ VmmPath(mCfg.drives[1].path) = InJail(Name(in, 1))
    <3>1. 1 \in 1..Total(in) BY <1>2, InputIs
    <3>2. RealPath(in, 1) = InJail(Name(in, 1)) BY <1>6 DEF RealPath
    <3> QED BY <1>2, <1>4, <1>6, <3>1, <3>2, VmmDrives
  <2>3. /\ oci.uid = User(in)
        /\ mCfg.netns # "" /\ Runc(in).netns # None => oci.netns = mCfg.netns
    <3>1. OciInv(in, phase, mCfg, oci) BY <1>4
    <3>2. Rank[phase] >= 8 BY <1>2
    <3> QED BY <1>6, <3>1, <3>2, Zenon DEF OciInv
  <2>4. in.request.jailer.uid # 0 BY <1>2, <1>4, <1>6 DEF AcceptedInv
  <2>5. User(in) = in.request.jailer.uid BY <1>6 DEF User
  <2> QED BY <1>6, <2>1, <2>2, <2>3, <2>4, <2>5, Bridge
<1>7. Jailed <=> JailedBy(in) BY Bridge
<1> QED BY <1>5, <1>6, <1>7 DEF VmmSeesItsFiles

\* When the VMM is given its configuration, in a jail or not, it can open every
\* drive and fifo with the rights it needs, finds the content that the request
\* means, and runs as the user and in the network namespace that were asked for
\* (BuildJailedRootHandler, copyFileToJail, overwriteConfig), if none of its paths
\* has the name of a file that the shim makes (Apart).
THEOREM FilesAreSeen == Spec => []VmmSeesItsFiles
<1>1. IInv => VmmSeesItsFiles BY IInvFiles
<1> QED BY <1>1, Invariant, PTL

\* The names of all drives but the root's are those of the stubs.
LEMMA StubsFound ==
    ASSUME NEW in \in Inputs
    PROVE  {Name(in, n) : n \in 2..Total(in)} =
               {StubName("ctrstub", n) : n \in 1..Count(in)}
                   \cup {StubName("drivemntstub", n) : n \in 1..MountCount(in)}
<1> DEFINE C == {StubName("ctrstub", n) : n \in 1..Count(in)}
           M == {StubName("drivemntstub", n) : n \in 1..MountCount(in)}
<1>1. /\ Count(in) \in Nat \ {0} /\ MountCount(in) \in Nat
      /\ Total(in) = 1 + Count(in) + MountCount(in)
  BY InputIs
<1>2. /\ \A n \in 1..Count(in) : Name(in, n + 1) = StubName("ctrstub", n)
      /\ \A n \in 1..MountCount(in) :
             Name(in, 1 + Count(in) + n) = StubName("drivemntstub", n)
  BY NamesDiffer
<1>3. ASSUME NEW n \in 2..Total(in) PROVE Name(in, n) \in C \cup M
  <2>1. CASE n <= 1 + Count(in)
    <3>1. n - 1 \in 1..Count(in) /\ (n - 1) + 1 = n BY <1>1, <2>1
    <3>2. Name(in, (n - 1) + 1) = StubName("ctrstub", n - 1) BY <1>2, <3>1
    <3> QED BY <3>1, <3>2
  <2>2. CASE ~(n <= 1 + Count(in))
    <3> DEFINE m == n - 1 - Count(in)
    <3>1. m \in 1..MountCount(in) /\ 1 + Count(in) + m = n BY <1>1, <2>2
    <3> HIDE DEF m
    <3>2. Name(in, 1 + Count(in) + m) = StubName("drivemntstub", m) BY <1>2, <3>1
    <3> QED BY <3>1, <3>2
  <2> QED BY <2>1, <2>2
<1>4. ASSUME NEW n \in 1..Count(in)
      PROVE  \E m \in 2..Total(in) : Name(in, m) = StubName("ctrstub", n)
  <2>1. n + 1 \in 2..Total(in) BY <1>1
  <2> QED BY <1>2, <2>1
<1>5. ASSUME NEW n \in 1..MountCount(in)
      PROVE  \E m \in 2..Total(in) : Name(in, m) = StubName("drivemntstub", n)
  <2>1. 1 + Count(in) + n \in 2..Total(in) BY <1>1
  <2> QED BY <1>2, <2>1
<1> QED BY <1>3, <1>4, <1>5

\* The invariant says that the guest is as asked.
LEMMA IInvGuest ==
    ASSUME IInv
    PROVE  GuestAsAsked
<1> DEFINE in == input
<1>1. SUFFICES ASSUME phase = "ready", Apart PROVE GuestAsAsked BY DEF GuestAsAsked
<1>2. in \in Inputs /\ Rank[phase] = 18 /\ Rank[phase] >= 5 /\ Rank[phase] >= 10
  BY <1>1, RankIs DEF IInv, AnyInv, IndexInv
<1>3. ApartIn(in) BY <1>1, <1>2, ApartIs
<1>4. AnyInv /\ ApartInv BY <1>3 DEF IInv
<1> USE DEF AnyInv, ApartInv
<1>5. /\ stubs = AllStubs(in) /\ DOMAIN mountStubs = 1..MountCount(in)
      /\ DOMAIN stubs = 1..Count(in)
      /\ \A n \in 1..MountCount(in) : mountStubs[n] = MountStubOf(in, n)
  BY <1>2, <1>4, MountStubsAre
<1>6. /\ DOMAIN found = {Name(in, n) : n \in 2..Total(in)}
      /\ \A n \in 2..Total(in) : found[Name(in, n)] = n
  BY <1>2, <1>4 DEF FoundInv
<1>7. DOMAIN found = ToSet(stubs) \cup {mountStubs[n].id : n \in DOMAIN mountStubs}
  <2>1. ToSet(stubs) = {StubName("ctrstub", n) : n \in 1..Count(in)}
    BY <1>5 DEF ToSet, AllStubs
  <2>2. \A n \in 1..MountCount(in) : mountStubs[n].id = StubName("drivemntstub", n)
    BY <1>5 DEF MountStubOf
  <2>3. {mountStubs[n].id : n \in DOMAIN mountStubs} =
            {StubName("drivemntstub", n) : n \in 1..MountCount(in)}
    BY <1>5, <2>2
  <2> QED BY <1>2, <1>6, <2>1, <2>3, StubsFound
<1>8. \A id \in DOMAIN found : mCfg.drives[found[id]].id = id
  <2>1. \A n \in 2..Total(in) : mCfg.drives[n].id = Name(in, n)
    <3>1. \A n \in 2..Total(in) : n \in 1..Total(in) /\ n # 1 BY <1>2, InputIs
    <3> QED BY <1>2, <1>4, <3>1, VmmDrives
  <2> QED BY <1>6, <2>1
<1>9. MountedTo(in, phase, i) = MountCount(in) BY <1>1, <1>2 DEF MountedTo
<1> DEFINE Place1(n) == Lead(Request0.mounts[n].vm)
<1>10. /\ \A n : Place1(n) = Lead(MountOf(in, n).vm) /\ Request0.mounts[n] = MountOf(in, n)
       /\ NoDots <=> NoDotsIn(in)
  BY Bridge
<1>11. DOMAIN Request0.mounts = 1..MountCount(in) BY <1>2, InputIs, Bridge
<1>12. ASSUME NEW n \in 1..MountCount(in)
       PROVE  /\ NoDots => ~UnderBanned(Place1(n))
              /\ ~(\E k \in 1..MountCount(in) : k > n /\ Place1(k) = Place1(n)) =>
                     /\ mounted[Place1(n)].content = HostFiles[MountOf(in, n).host].content
                     /\ ~Ambiguous(MountOf(in, n)) =>
                            mounted[Place1(n)].writable = MountOf(in, n).writable
  <2>1. NoDots => ~UnderBanned(Place1(n)) BY <1>4, <1>9, <1>10 DEF PlacesInv
  <2> HIDE DEF Place1
  <2>2. ASSUME ~(\E k \in 1..MountCount(in) : k > n /\ Place1(k) = Place1(n))
        PROVE  MountedAs(in, mounted, n)
    <3>1. \A m \in 1..MountedTo(in, phase, i) :
              m > n => Lead(MountOf(in, m).vm) # Lead(MountOf(in, n).vm)
      BY <1>9, <1>10, <2>2
    <3>2. n \in 1..MountedTo(in, phase, i) BY <1>9
    <3>3. MountedInv(in, phase, i, mounted) BY <1>4
    <3> QED BY <3>1, <3>2, <3>3 DEF MountedInv, MountedAs
  <2> QED BY <1>10, <2>1, <2>2 DEF MountedAs
<1> QED BY <1>7, <1>8, <1>10, <1>11, <1>12 DEF GuestAsAsked

\* After createVM the agent has found exactly the stub drives that the shim will
\* refer to, each at its device, and every mount of the request is where its path
\* leads to for the kernel, with the content of its file and writable as asked
\* (PatchAndMount, discoverDrives, MountDrive), if the paths are apart; and that
\* is outside of the system directories, if no destination has a "..".
THEOREM GuestIsAsAsked == Spec => []GuestAsAsked
<1>1. IInv => GuestAsAsked BY IInvGuest
<1> QED BY <1>1, Invariant, PTL

-----------------------------------------------------------------------------
\* What is not incompatible is not refused for its options.
LEMMA GoodOptions ==
    ASSUME NEW mount, mount.options \in Seq(STRING),
           ~IncompatibleOptions(mount.options, mount.writable)
    PROVE  Named(mount.options) = {} \/ ReadWrite(mount.writable) \in Named(mount.options)
<1> DEFINE options == mount.options
           rw == ReadWriteOptions(options)
<1>1. rw \subseteq Nat BY DEF ReadWriteOptions
<1>2. Named(options) = {options[n] : n \in rw} BY DEF Named
<1>3. rw = {} \/ options[Min(rw)] = ReadWrite(mount.writable) BY DEF IncompatibleOptions
<1> HIDE DEF rw
<1>4. rw # {} => Min(rw) \in rw BY <1>1, MinIs
<1> QED BY <1>2, <1>3, <1>4

\* What is ready had nothing to be refused.
LEMMA ReadyNotRefused ==
    ASSUME AnyInv, ApartInv, NoDotsIn(input), phase = "ready"
    PROVE  ~RefusedIn(input, dirs)
<1> DEFINE in == input
<1> USE DEF AnyInv, ApartInv
<1>1. /\ in \in Inputs /\ Rank[phase] = 18 BY RankIs DEF IndexInv
<1>2. /\ Total(in) \in Nat \ {0} /\ MountCount(in) \in Nat /\ Levels(in) \in Seq(Entries)
      /\ \A n \in 1..MountCount(in) : MountOf(in, n).options \in Seq(STRING)
  BY <1>1, InputIs
<1>3. /\ ExposedTo(in, phase, i) = MountCount(in) /\ PatchedTo(in, phase, i) = MountCount(in)
      /\ MountedTo(in, phase, i) = MountCount(in) /\ MountStubsMade(in, phase, i) = MountCount(in)
  BY <1>1 DEF ExposedTo, PatchedTo, MountedTo, MountStubsMade
<1>4. ~Twice(Levels(in)) /\ ~\E k \in DOMAIN Levels(in) : Levels(in)[k].of = "invalid"
  <2>1. New(Levels(in)) # None BY <1>1 DEF HelperInv
  <2> QED BY <1>2, <2>1, LevelsTwice
<1>5. ~RefusedJail(in)
  BY <1>1 DEF RefusedJail, AcceptedInv, HostInv
<1>6. ~Missing(Kernel(in)) /\ ~Missing(Root(in).path) BY <1>1 DEF HostInv
<1>7. ASSUME NEW n \in 1..MountCount(in) PROVE ~RefusedMountOf(in, n)
  <2>1. IsAbs(MountOf(in, n).host) /\ IsAbs(MountOf(in, n).vm) BY <1>1 DEF AcceptedInv
  <2>2. Openable(in, n) BY <1>3 DEF HostInv, Openable
  <2>3. JailedBy(in) => Exposable(in, n) BY <1>3 DEF HostInv, Exposable
  <2>4. \/ Named(MountOf(in, n).options) = {}
        \/ ReadWrite(MountOf(in, n).writable) \in Named(MountOf(in, n).options)
    <3>1. ~IncompatibleOptions(MountOf(in, n).options, MountOf(in, n).writable)
      BY <1>3 DEF AcceptedInv
    <3> QED BY <1>2, <3>1, GoodOptions
  <2> QED BY <2>1, <2>2, <2>3, <2>4 DEF RefusedMountOf, Openable, Exposable
<1>8. ASSUME NEW n \in 1..MountCount(in) PROVE ~RefusedPlace(dirs, MountOf(in, n).vm)
  BY <1>3 DEF PlacesInv, RefusedPlace, CanMkdirAll
<1>9. ~SharedBlocks(in)
  <2>1. SUFFICES ASSUME JailedBy(in), NEW j \in 1..MountCount(in), NEW k \in 1..MountCount(in),
                        j # k, MountOf(in, j).host = MountOf(in, k).host,
                        HostFiles[MountOf(in, j).host].kind = "blk"
                 PROVE  FALSE
    BY DEF SharedBlocks
  <2>2. \A n \in 1..MountCount(in) : Exposable(in, n) BY <1>3, <2>1 DEF HostInv, Exposable
  <2>3. j \in 1..(k - 1) \/ k \in 1..(j - 1) BY <1>2, <2>1
  <2> QED BY <2>1, <2>2, <2>3 DEF Exposable
<1>10. ~\E k \in DOMAIN NetsOf(in) : NetsOf(in)[k].addr = "malformed"
  BY <1>1 DEF AcceptedInv, IsNetworkConfig
<1> QED BY <1>4, <1>5, <1>6, <1>7, <1>8, <1>9, <1>10 DEF RefusedIn

\* The invariant says that createVM fails for a cause.
LEMMA IInvCauses ==
    ASSUME IInv
    PROVE  FailsOnlyForCause
<1> DEFINE in == input
<1>1. in \in Inputs BY DEF IInv, AnyInv, IndexInv
<1>2. ASSUME phase = "failed", Apart, NoDots
      PROVE  \/ Refused(GuestDirs) \/ fault
             \/ \E k \in DOMAIN Request0.mounts : Ambiguous(Request0.mounts[k])
  <2>1. Cause(in, fault)
    BY <1>1, <1>2, ApartIs, Bridge DEF IInv, ApartInv, FailedInv
  <2>2. RefusedIn(in, GuestDirs) => Refused(GuestDirs) BY <1>1, RefusedIs
  <2>3. /\ DOMAIN Request0.mounts = 1..MountCount(in)
        /\ \A k : Request0.mounts[k] = MountOf(in, k)
    BY <1>1, InputIs, Bridge
  <2> QED BY <2>1, <2>2, <2>3 DEF Cause, Unclear
<1>3. ASSUME phase = "ready", Apart, NoDots PROVE ~Refused(dirs)
  <2>1. ~RefusedIn(in, dirs) BY <1>1, <1>3, ApartIs, Bridge, ReadyNotRefused DEF IInv
  <2> QED BY <1>1, <2>1, RefusedIs
<1> QED BY <1>2, <1>3 DEF FailsOnlyForCause

\* An attempt to create a VM fails only for a request that is to be refused by
\* the image as it is, because something outside of the shim failed in this
\* attempt, or because the one before left its container or could not remove its
\* directory; and it refuses what is to be refused (createVM with all that it
\* calls), if the paths are apart, no mount has options that name both "ro" and
\* "rw" and no destination has a "..".  Attempts that failed before, at whatever
\* step and for whatever request, are no excuse.
THEOREM FailsForCause == Spec => []FailsOnlyForCause
<1>1. IInv => FailsOnlyForCause BY IInvCauses
<1> QED BY <1>1, Invariant, PTL
=============================================================================
