-------------------------- MODULE TranscriptProofs --------------------------
(***************************************************************************)
(* What is on screen is what was told: first the phone's screen (PhoneFeed *)
(* over the core), then the replies of one conversation (Conversation).    *)
(*                                                                         *)
(* The phone's screen follows the core, however rarely the app polls and   *)
(* whatever its queue coalesced or let go of.  AppDrawsTheCore speaks of   *)
(* moments when everything was told.  FeedInv says what holds on the way:  *)
(* what a thread may have left to say and of which change, that the newest *)
(* change was pushed or is about to be, what the app would show if it took *)
(* all that is queued, and between turns that the transcript which settles *)
(* the queue is too far back in the line to fall out of it.                *)
(*                                                                         *)
(* What the app draws and what finish_turn keeps are folds over sequences. *)
(* A fold is by definition a function on sets of positions; that it goes   *)
(* step by step is shown once, from the fact that a set of numbers that is *)
(* not empty has a least one, which is also what induction rests on here.  *)
(***************************************************************************)
EXTENDS PhoneFeed, Conversation, SequenceTheorems, FiniteSetTheorems, WellFoundedInduction, TLAPS

-----------------------------------------------------------------------------
(* Induction: a set of numbers that is not empty has a least one.            *)
LEMMA LeastNumber ==
  ASSUME NEW T, T \subseteq Nat, T # {}
  PROVE  \E n \in T : \A m \in T : n <= m
<1> DEFINE R == OpToRel(<, Nat)
<1>1. IsWellFoundedOn(R, Nat)
  BY NatLessThanWellFounded, Zenon
<1>2. \A x, y \in Nat : x < y => <<x, y>> \in R
  BY DEF OpToRel
<1> HIDE DEF R
<1>3. PICK n \in T : \A m \in T : ~(<<m, n>> \in R)
  BY <1>1, WFMin
<1>4. ASSUME NEW m \in T
      PROVE  n <= m
  <2>1. n \in Nat /\ m \in Nat
    OBVIOUS
  <2>2. ~(m < n)
    BY <1>2, <1>3, <2>1
  <2> QED
    BY <2>1, <2>2
<1> QED
  BY <1>4

LEMMA Induction ==
  ASSUME NEW n \in Nat, NEW T, 0 \in T, \A i \in 1 .. n : i - 1 \in T => i \in T
  PROVE  \A i \in 0 .. n : i \in T
<1> DEFINE Out == (0 .. n) \ T
<1> SUFFICES ASSUME Out # {}
             PROVE  FALSE
  OBVIOUS
<1>1. Out \subseteq Nat
  OBVIOUS
<1>2. PICK m \in Out : \A k \in Out : m <= k
  <2> HIDE DEF Out
  <2> QED BY <1>1, LeastNumber
<1>3. m \in 1 .. n /\ m - 1 \in 0 .. n /\ ~(m <= m - 1)
  OBVIOUS
<1>4. m - 1 \in T
  BY <1>2, <1>3
<1> QED
  BY <1>3, <1>4

LEMMA GreatestNumber ==
  ASSUME NEW T, NEW n \in Nat, T \subseteq 0 .. n, T # {}
  PROVE  \E k \in T : \A m \in T : m <= k
<1> DEFINE Rest == {n - m : m \in T}
<1>1. Rest \subseteq Nat /\ Rest # {}
  <2>1. \A m \in T : n - m \in Nat
    <3>1. \A m \in 0 .. n : n - m \in Nat
      OBVIOUS
    <3> QED
      BY <3>1
  <2> QED
    BY <2>1
<1>2. PICK r \in Rest : \A x \in Rest : r <= x
  <2> HIDE DEF Rest
  <2> QED BY <1>1, LeastNumber
<1>3. PICK k \in T : r = n - k
  OBVIOUS
<1>4. ASSUME NEW m \in T
      PROVE  m <= k
  <2>1. n - m \in Rest
    OBVIOUS
  <2>2. n - k <= n - m
    BY <2>1, <1>2, <1>3
  <2>3. n \in Int /\ m \in Int /\ k \in Int
    OBVIOUS
  <2> QED
    BY <2>2, <2>3
<1> QED
  BY <1>4

LEMMA MaxIs ==
  ASSUME NEW T, NEW n \in Nat, T \subseteq Nat, n \in T, \A m \in T : m <= n
  PROVE  Max(T) = n
<1>1. \E x \in T : \A y \in T : x >= y
  OBVIOUS
<1>2. Max(T) \in T /\ \A y \in T : Max(T) >= y
  BY <1>1 DEF Max
<1>3. Max(T) \in Nat /\ Max(T) >= n /\ Max(T) <= n
  BY <1>2
<1> QED
  BY <1>3

LEMMA MaxIn ==
  ASSUME NEW n \in Nat, NEW T \in SUBSET (1 .. n), T # {}
  PROVE  Max(T) \in T
<1>1. T \subseteq 0 .. n /\ T \subseteq Nat
  OBVIOUS
<1>2. PICK k \in T : \A m \in T : m <= k
  BY <1>1, GreatestNumber
<1> QED
  BY <1>1, <1>2, MaxIs

LEMMA MaxOfTop ==
  ASSUME NEW n \in Nat, n # 0, NEW T \in SUBSET (1 .. n), n \in T
  PROVE  Max(T) = n
<1>1. T \subseteq Nat /\ \A m \in T : m <= n
  OBVIOUS
<1> QED
  BY <1>1, MaxIs

LEMMA FirstOnes ==
  ASSUME NEW n \in Nat, NEW i \in 1 .. n
  PROVE  /\ 1 .. i \in SUBSET (1 .. n) /\ 1 .. i # {} /\ Max(1 .. i) = i
         /\ (1 .. i) \ {i} = 1 .. (i - 1)
<1>1. 1 .. i \in SUBSET (1 .. n) /\ i \in 1 .. i /\ i \in Nat /\ i # 0 /\ 1 .. i \in SUBSET (1 .. i)
  OBVIOUS
<1>2. Max(1 .. i) = i
  BY <1>1, MaxOfTop
<1>3. ASSUME NEW k
      PROVE  k \in (1 .. i) \ {i} <=> k \in 1 .. (i - 1)
  OBVIOUS
<1>4. (1 .. i) \ {i} = 1 .. (i - 1)
  BY <1>3
<1> QED
  BY <1>1, <1>2, <1>4

-----------------------------------------------------------------------------
(* Folds.  What a fold goes through is a function: of the sets of positions  *)
(* it has been through, in its definition, and so of how many there were.    *)

Iterates(it, m, b, step) ==
  \A t \in SUBSET (1 .. m) :
    it[t] = IF t = {} THEN b ELSE step[<<it[t \ {Max(t)}], Max(t)>>]

LEMMA IteratesExist ==
  ASSUME NEW X, NEW b \in X, NEW n \in Nat, NEW step \in [X \X (1 .. n) -> X]
  PROVE  \E it \in [SUBSET (1 .. n) -> X] : Iterates(it, n, b, step)
<1> DEFINE Has(m) == \E it \in [SUBSET (1 .. m) -> X] : Iterates(it, m, b, step)
<1>1. Has(0)
  <2> DEFINE it == [t \in SUBSET (1 .. 0) |-> b]
  <2>1. it \in [SUBSET (1 .. 0) -> X]
    OBVIOUS
  <2>2. \A t \in SUBSET (1 .. 0) : t = {}
    OBVIOUS
  <2>3. Iterates(it, 0, b, step)
    BY <2>2 DEF Iterates
  <2> QED
    BY <2>1, <2>3
<1>2. ASSUME NEW m \in 1 .. n, Has(m - 1)
      PROVE  Has(m)
  <2>1. PICK it \in [SUBSET (1 .. (m - 1)) -> X] : Iterates(it, m - 1, b, step)
    BY <1>2
  <2> DEFINE more == [t \in SUBSET (1 .. m) |->
                        IF m \in t THEN step[<<it[t \ {m}], m>>] ELSE it[t]]
  <2>2. \A t \in SUBSET (1 .. m) : t \ {m} \in SUBSET (1 .. (m - 1))
    OBVIOUS
  <2>3. \A t \in SUBSET (1 .. m) : m \notin t => t \in SUBSET (1 .. (m - 1))
    BY <2>2
  <2>4. \A t \in SUBSET (1 .. m) : (IF m \in t THEN step[<<it[t \ {m}], m>>] ELSE it[t]) \in X
    BY <2>2, <2>3
  <2>5. more \in [SUBSET (1 .. m) -> X]
    BY <2>4
  <2>6. ASSUME NEW t \in SUBSET (1 .. m)
        PROVE  more[t] = IF t = {} THEN b ELSE step[<<more[t \ {Max(t)}], Max(t)>>]
    <3>1. CASE m \in t
      <4>1. Max(t) = m
        BY <3>1, MaxOfTop
      <4>2. more[t \ {m}] = it[t \ {m}]
        <5>1. t \ {m} \in SUBSET (1 .. m) /\ m \notin t \ {m}
          OBVIOUS
        <5> QED BY <5>1
      <4>3. more[t] = step[<<it[t \ {m}], m>>]
        BY <3>1
      <4> HIDE DEF more
      <4> QED
        BY <3>1, <4>1, <4>2, <4>3, Zenon
    <3>2. CASE m \notin t /\ t # {}
      <4>1. t \in SUBSET (1 .. (m - 1))
        BY <3>2, <2>3
      <4>2. it[t] = step[<<it[t \ {Max(t)}], Max(t)>>]
        BY <2>1, <3>2, <4>1 DEF Iterates
      <4>3. t \ {Max(t)} \in SUBSET (1 .. m) /\ m \notin t \ {Max(t)}
        BY <3>2
      <4>4. more[t] = it[t] /\ more[t \ {Max(t)}] = it[t \ {Max(t)}]
        BY <3>2, <4>3
      <4> HIDE DEF more
      <4> QED
        BY <3>2, <4>2, <4>4, Zenon
    <3>3. CASE t = {}
      <4>1. {} \in SUBSET (1 .. (m - 1)) /\ m \notin {}
        OBVIOUS
      <4>2. it[{}] = b
        BY <2>1, <4>1 DEF Iterates
      <4>3. more[t] = it[{}]
        BY <3>3
      <4> HIDE DEF more
      <4> QED
        BY <4>2, <4>3, <3>3, Zenon
    <3> QED
      BY <3>1, <3>2, <3>3
  <2>7. Iterates(more, m, b, step)
    <3> HIDE DEF more
    <3> QED BY <2>6 DEF Iterates
  <2> QED
    BY <2>5, <2>7
<1> HIDE DEF Has
<1>3. Has(n)
  <2> DEFINE T == {m \in 0 .. n : Has(m)}
  <2>1. 0 \in T
    BY <1>1
  <2>2. \A i \in 1 .. n : i - 1 \in T => i \in T
    BY <1>2
  <2> HIDE DEF T
  <2>3. \A i \in 0 .. n : i \in T
    BY <2>1, <2>2, Induction
  <2> QED
    BY <2>3 DEF T
<1> QED
  BY <1>3 DEF Has

(* A fold over n positions, by sets of positions and by how many there were. *)
FoldsOver(it, X, b, n, step) ==
  /\ b \in X /\ n \in Nat /\ step \in [X \X (1 .. n) -> X]
  /\ it[{}] = b
  /\ \A t \in SUBSET (1 .. n) :
       t # {} /\ it[t \ {Max(t)}] \in X => it[t] = step[<<it[t \ {Max(t)}], Max(t)>>]

GoesOn(g, X, b, n, step) ==
  /\ g \in [0 .. n -> X] /\ g[0] = b
  /\ \A i \in 1 .. n : g[i] = step[<<g[i - 1], i>>]

LEMMA FoldGoes ==
  ASSUME NEW X, NEW b, NEW n, NEW step, NEW it, FoldsOver(it, X, b, n, step)
  PROVE  \E g : GoesOn(g, X, b, n, step) /\ g[n] = it[1 .. n]
<1> USE DEF FoldsOver
<1> DEFINE T == {i \in 0 .. n : it[1 .. i] \in X}
           g == [i \in 0 .. n |-> it[1 .. i]]
<1>1. 1 .. 0 = {}
  OBVIOUS
<1>2. ASSUME NEW i \in 1 .. n, it[1 .. (i - 1)] \in X
      PROVE  it[1 .. i] = step[<<it[1 .. (i - 1)], i>>] /\ it[1 .. i] \in X
  <2>1. /\ 1 .. i \in SUBSET (1 .. n) /\ 1 .. i # {} /\ Max(1 .. i) = i
        /\ (1 .. i) \ {i} = 1 .. (i - 1)
    BY FirstOnes
  <2>3. it[1 .. i] = step[<<it[1 .. (i - 1)], i>>]
    BY <1>2, <2>1
  <2>4. step[<<it[1 .. (i - 1)], i>>] \in X
    BY <1>2
  <2> QED
    BY <2>3, <2>4
<1>3. \A i \in 0 .. n : i \in T
  <2>1. 0 \in T
    BY <1>1
  <2>2. ASSUME NEW i \in 1 .. n, i - 1 \in T
        PROVE  i \in T
    <3>1. i \in 0 .. n /\ it[1 .. (i - 1)] \in X
      BY <2>2
    <3> QED
      BY <1>2, <3>1
  <2> HIDE DEF T
  <2> QED
    BY <2>1, <2>2, Induction
<1>4. \A i \in 0 .. n : it[1 .. i] \in X
  BY <1>3
<1>5. g \in [0 .. n -> X] /\ g[n] = it[1 .. n] /\ g[0] = b
  BY <1>1, <1>4
<1>6. \A i \in 1 .. n : i \in 0 .. n /\ i - 1 \in 0 .. n
  OBVIOUS
<1>7. \A i \in 1 .. n : g[i] = step[<<g[i - 1], i>>]
  BY <1>2, <1>4, <1>6
<1> HIDE DEF g
<1> QED
  BY <1>5, <1>7 DEF GoesOn

-----------------------------------------------------------------------------
(* What the app draws.                                                       *)

LEMMA NoticeIs ==
  ASSUME NEW e \in Notice
  PROVE  /\ e.kind \in {"snapshot", "composer_restore", "error", "assistant", "transcript"}
         /\ e.kind = "assistant" => e.id \in Nat /\ e.text \in Nat /\ e.change \in Nat
         /\ e.kind = "transcript" => e.screen \in Screen /\ e.change \in Nat
         /\ e.kind \in {"assistant", "transcript"} <=> "change" \in DOMAIN e
         /\ (e = Snapshot) <=> e.kind = "snapshot"
BY DEF Notice, Snapshot

Rewritten(drawn, screen, id, text) ==
  /\ drawn \in Screen /\ DOMAIN drawn.entries = DOMAIN screen.entries
  /\ \A i \in DOMAIN screen.entries :
       drawn.entries[i] = IF screen.entries[i].id = id THEN [screen.entries[i] EXCEPT !.text = text]
                          ELSE screen.entries[i]

LEMMA WithTextIs ==
  ASSUME NEW screen \in Screen, NEW id, NEW text \in Nat
  PROVE  Rewritten(WithText(screen, id, text), screen, id, text)
<1> DEFINE es == screen.entries
           drawn == [i \in DOMAIN es |-> IF es[i].id = id THEN [es[i] EXCEPT !.text = text] ELSE es[i]]
<1>1. es \in Seq(Entry)
  BY DEF Screen
<1>2. DOMAIN es = 1 .. Len(es) /\ Len(es) \in Nat /\ \A i \in DOMAIN es : es[i] \in Entry
  BY <1>1, LenProperties
<1>3. \A i \in 1 .. Len(es) :
        (IF es[i].id = id THEN [es[i] EXCEPT !.text = text] ELSE es[i]) \in Entry
  BY <1>2 DEF Entry
<1>4. drawn \in Seq(Entry)
  BY <1>2, <1>3
<1>5. WithText(screen, id, text) = [screen EXCEPT !.entries = drawn]
  BY DEF WithText
<1>6. DOMAIN drawn = DOMAIN es
  OBVIOUS
<1>7. \A i \in DOMAIN es :
        drawn[i] = IF es[i].id = id THEN [es[i] EXCEPT !.text = text] ELSE es[i]
  OBVIOUS
<1> HIDE DEF drawn
<1> QED
  BY <1>4, <1>5, <1>6, <1>7 DEF Screen, Rewritten

LEMMA DrawnOnIs ==
  ASSUME NEW screen \in Screen, NEW e \in Notice
  PROVE  /\ DrawnOn(screen, e) \in Screen
         /\ e.kind = "transcript" => DrawnOn(screen, e) = e.screen
         /\ e.kind = "assistant" => DrawnOn(screen, e) = WithText(screen, e.id, e.text)
         /\ e.kind \notin {"transcript", "assistant"} => DrawnOn(screen, e).entries = screen.entries
<1>1. CASE e.kind = "transcript"
  BY <1>1, NoticeIs DEF DrawnOn
<1>2. CASE e.kind = "assistant"
  BY <1>2, NoticeIs, WithTextIs DEF DrawnOn, Rewritten
<1>3. CASE e.kind = "error"
  BY <1>3 DEF DrawnOn, Screen
<1>4. CASE e.kind \notin {"transcript", "assistant", "error"}
  BY <1>4 DEF DrawnOn
<1> QED
  BY <1>1, <1>2, <1>3, <1>4

DrawnFrom(screen, queue) == FoldLeft(DrawnOn, screen, queue)

(* A fold of DrawnOn over a queue, step by step. *)
Draws(g, screen, queue) ==
  /\ g \in [0 .. Len(queue) -> Screen] /\ g[0] = screen
  /\ \A i \in 1 .. Len(queue) : g[i] = DrawnOn(g[i - 1], queue[i])

LEMMA DrawnInSteps ==
  ASSUME NEW screen \in Screen, NEW queue \in Seq(Notice)
  PROVE  \E g : Draws(g, screen, queue) /\ DrawnFrom(screen, queue) = g[Len(queue)]
<1> DEFINE n == Len(queue)
           step == [x \in Screen \X (1 .. n) |-> DrawnOn(x[1], queue[x[2]])]
           Body(it) == it = [t \in SUBSET (1 .. n) |->
                              IF t = {} THEN screen ELSE DrawnOn(it[t \ {Max(t)}], queue[Max(t)])]
           iter == CHOOSE it : Body(it)
<1>1. n \in Nat /\ DOMAIN queue = 1 .. n /\ \A i \in 1 .. n : queue[i] \in Notice
  BY LenProperties
<1>2. DrawnFrom(screen, queue) = iter[1 .. n]
  BY <1>1 DEF DrawnFrom, FoldLeft, MapThenFoldSet
<1> HIDE DEF n
<1>3. step \in [Screen \X (1 .. n) -> Screen]
  BY <1>1, DrawnOnIs
<1>4. \A x \in Screen, i \in 1 .. n : step[<<x, i>>] = DrawnOn(x, queue[i])
  OBVIOUS
<1> HIDE DEF step
<1>5. PICK it0 \in [SUBSET (1 .. n) -> Screen] : Iterates(it0, n, screen, step)
  BY <1>1, <1>3, IteratesExist
<1>6. Body(it0)
  <2>1. ASSUME NEW t \in SUBSET (1 .. n)
        PROVE  it0[t] = IF t = {} THEN screen ELSE DrawnOn(it0[t \ {Max(t)}], queue[Max(t)])
    <3>1. CASE t # {}
      <4>1. Max(t) \in 1 .. n /\ t \ {Max(t)} \in SUBSET (1 .. n)
        BY <1>1, <3>1, MaxIn
      <4>2. it0[t \ {Max(t)}] \in Screen
        BY <4>1
      <4>3. step[<<it0[t \ {Max(t)}], Max(t)>>] = DrawnOn(it0[t \ {Max(t)}], queue[Max(t)])
        BY <1>4, <4>1, <4>2
      <4> QED
        BY <1>5, <3>1, <4>3, Zenon DEF Iterates
    <3>2. CASE t = {}
      BY <1>5, <3>2 DEF Iterates
    <3> QED
      BY <3>1, <3>2
  <2>2. it0 = [t \in SUBSET (1 .. n) |-> it0[t]]
    OBVIOUS
  <2> QED
    BY <2>1, <2>2
<1>7. Body(iter)
  <2> HIDE DEF Body
  <2> QED BY <1>6, Zenon
<1>8. \A t \in SUBSET (1 .. n) :
        iter[t] = IF t = {} THEN screen ELSE DrawnOn(iter[t \ {Max(t)}], queue[Max(t)])
  <2> HIDE DEF iter
  <2> QED BY <1>7
<1> HIDE DEF iter, Body
<1>9. iter[{}] = screen
  BY <1>8
<1>10. FoldsOver(iter, Screen, screen, n, step)
  BY <1>1, <1>3, <1>4, <1>8, MaxIn DEF FoldsOver
<1>11. PICK g : GoesOn(g, Screen, screen, n, step) /\ g[n] = iter[1 .. n]
  BY <1>10, FoldGoes
<1>12. \A i \in 1 .. n : g[i] = DrawnOn(g[i - 1], queue[i])
  <2>1. \A i \in 1 .. n : g[i - 1] \in Screen
    BY <1>1, <1>11 DEF GoesOn
  <2> QED
    BY <1>4, <1>11, <2>1 DEF GoesOn
<1>13. Draws(g, screen, queue)
  BY <1>11, <1>12 DEF n, GoesOn, Draws
<1> QED
  BY <1>2, <1>11, <1>13, Zenon DEF n

SameUpTo(n, queue, longer) ==
  /\ queue \in Seq(Notice) /\ longer \in Seq(Notice)
  /\ n \in 0 .. Len(queue) /\ n \in 0 .. Len(longer)
  /\ \A i \in 1 .. n : queue[i] = longer[i]

LEMMA SameDraws ==
  ASSUME NEW screen, NEW queue, NEW longer, NEW g, NEW h, NEW n,
         Draws(g, screen, queue), Draws(h, screen, longer), SameUpTo(n, queue, longer)
  PROVE  g[n] = h[n]
<1> USE DEF SameUpTo
<1> DEFINE T == {i \in 0 .. n : g[i] = h[i]}
<1>1. Len(queue) \in Nat /\ Len(longer) \in Nat /\ n \in Nat
  OBVIOUS
<1>2. 0 \in T
  BY DEF Draws
<1>3. \A i \in 1 .. n : i - 1 \in T => i \in T
  BY <1>1 DEF Draws
<1>4. \A i \in 0 .. n : i \in T
  <2> HIDE DEF T
  <2> QED BY <1>1, <1>2, <1>3, Induction
<1> QED
  BY <1>4

LEMMA DrawnIs ==
  ASSUME NEW screen \in Screen
  PROVE  /\ DrawnFrom(screen, <<>>) = screen
         /\ \A queue \in Seq(Notice) : DrawnFrom(screen, queue) \in Screen
         /\ \A queue \in Seq(Notice), e \in Notice :
              DrawnFrom(screen, Append(queue, e)) = DrawnOn(DrawnFrom(screen, queue), e)
<1>1. DrawnFrom(screen, <<>>) = screen
  <2>1. <<>> \in Seq(Notice) /\ Len(<<>>) = 0
    BY EmptySeq
  <2>2. PICK g : Draws(g, screen, <<>>) /\ DrawnFrom(screen, <<>>) = g[Len(<<>>)]
    BY <2>1, DrawnInSteps
  <2> QED
    BY <2>1, <2>2 DEF Draws
<1>2. ASSUME NEW queue \in Seq(Notice)
      PROVE  DrawnFrom(screen, queue) \in Screen
  <2>1. PICK g : Draws(g, screen, queue) /\ DrawnFrom(screen, queue) = g[Len(queue)]
    BY DrawnInSteps
  <2>2. Len(queue) \in Nat
    OBVIOUS
  <2> QED
    BY <2>1, <2>2 DEF Draws
<1>3. ASSUME NEW queue \in Seq(Notice), NEW e \in Notice
      PROVE  DrawnFrom(screen, Append(queue, e)) = DrawnOn(DrawnFrom(screen, queue), e)
  <2> DEFINE longer == Append(queue, e)
             n == Len(queue)
  <2>1. /\ longer \in Seq(Notice) /\ n \in Nat /\ Len(longer) = n + 1
        /\ longer[n + 1] = e /\ \A i \in 1 .. n : longer[i] = queue[i]
    OBVIOUS
  <2>2. PICK g : Draws(g, screen, queue) /\ DrawnFrom(screen, queue) = g[n]
    BY DrawnInSteps
  <2> HIDE DEF longer
  <2>3. PICK h : Draws(h, screen, longer) /\ DrawnFrom(screen, longer) = h[Len(longer)]
    BY <2>1, DrawnInSteps
  <2>4. g[n] = h[n]
    <3>1. SameUpTo(n, queue, longer)
      BY <2>1 DEF SameUpTo
    <3> HIDE DEF n
    <3> QED
      BY <2>2, <2>3, <3>1, SameDraws
  <2>5. n + 1 \in 1 .. n + 1 /\ (n + 1) - 1 = n
    BY <2>1
  <2>6. h[n + 1] = DrawnOn(h[n], e)
    BY <2>1, <2>3, <2>5 DEF Draws
  <2> QED
    BY <2>1, <2>2, <2>3, <2>4, <2>6, Zenon DEF longer
<1> QED
  BY <1>1, <1>2, <1>3

(* What comes after position k in a queue changes nothing of these entries.  *)
Harmless(n, entries) ==
  /\ n.kind # "transcript"
  /\ n.kind = "assistant" => \A i \in DOMAIN entries : entries[i].id = n.id => entries[i].text = n.text

LEMMA HarmlessDraws ==
  ASSUME NEW screen \in Screen, NEW n \in Notice, Harmless(n, screen.entries)
  PROVE  DrawnOn(screen, n).entries = screen.entries
<1>1. CASE n.kind = "assistant"
  <2> DEFINE drawn == WithText(screen, n.id, n.text)
             es == screen.entries
  <2>1. n.text \in Nat
    BY <1>1, NoticeIs
  <2>2. /\ drawn \in Screen /\ DOMAIN drawn.entries = DOMAIN es
        /\ \A i \in DOMAIN es :
             drawn.entries[i] = IF es[i].id = n.id THEN [es[i] EXCEPT !.text = n.text] ELSE es[i]
    <3>1. Rewritten(drawn, screen, n.id, n.text)
      BY <2>1, WithTextIs
    <3> HIDE DEF drawn
    <3> QED
      BY <3>1 DEF Rewritten
  <2>3. es \in Seq(Entry) /\ drawn.entries \in Seq(Entry)
    BY <2>2 DEF Screen
  <2>4. \A i \in DOMAIN es : es[i] \in Entry
    BY <2>3
  <2> HIDE DEF drawn
  <2>5. ASSUME NEW i \in DOMAIN es
        PROVE  drawn.entries[i] = es[i]
    <3>1. CASE es[i].id = n.id
      <4>1. es[i].text = n.text
        BY <1>1, <3>1 DEF Harmless
      <4>2. [es[i] EXCEPT !.text = n.text] = es[i]
        BY <2>4, <4>1 DEF Entry
      <4> QED
        BY <2>2, <3>1, <4>2, Zenon
    <3>2. CASE es[i].id # n.id
      BY <2>2, <3>2, Zenon
    <3> QED
      BY <3>1, <3>2
  <2>6. drawn.entries = es
    BY <2>2, <2>3, <2>5
  <2> QED
    BY <1>1, <2>6, DrawnOnIs DEF drawn
<1>2. CASE n.kind # "assistant"
  BY <1>2, DrawnOnIs DEF Harmless
<1> QED
  BY <1>1, <1>2

Settles(queue, k, screen, entries) ==
  /\ k \in 0 .. Len(queue)
  /\ k = 0 => screen.entries = entries
  /\ k # 0 => queue[k].kind = "transcript" /\ queue[k].screen.entries = entries
  /\ \A i \in (k + 1) .. Len(queue) : Harmless(queue[i], entries)

LEMMA SettledIsDrawn ==
  ASSUME NEW screen \in Screen, NEW queue \in Seq(Notice), NEW k, NEW entries,
         Settles(queue, k, screen, entries)
  PROVE  DrawnFrom(screen, queue).entries = entries
<1> DEFINE n == Len(queue)
<1>1. PICK g : Draws(g, screen, queue) /\ DrawnFrom(screen, queue) = g[n]
  BY DrawnInSteps
<1>2. n \in Nat /\ k \in 0 .. n /\ \A i \in 1 .. n : queue[i] \in Notice
  BY DEF Settles
<1>3. g[k].entries = entries
  <2>1. CASE k = 0
    BY <1>1, <2>1 DEF Draws, Settles
  <2>2. CASE k # 0
    <3>1. k \in 1 .. n /\ k - 1 \in 0 .. n
      BY <1>2, <2>2
    <3>2. g[k] = DrawnOn(g[k - 1], queue[k]) /\ g[k - 1] \in Screen
      BY <1>1, <3>1 DEF Draws
    <3>3. queue[k].kind = "transcript" /\ queue[k].screen.entries = entries
      BY <2>2 DEF Settles
    <3> QED
      BY <1>2, <3>1, <3>2, <3>3, DrawnOnIs
  <2> QED
    BY <2>1, <2>2
<1> HIDE DEF n
<1> DEFINE T == {i \in 0 .. n : i >= k => g[i].entries = entries}
<1>4. 0 \in T
  BY <1>2, <1>3
<1>5. ASSUME NEW i \in 1 .. n, i - 1 \in T
      PROVE  i \in T
  <2>1. CASE i <= k
    BY <1>2, <1>3, <2>1
  <2>2. CASE i > k
    <3>1. /\ i \in (k + 1) .. n /\ i - 1 >= k /\ i - 1 \in 0 .. n
      BY <1>2, <2>2
    <3>2. g[i - 1].entries = entries /\ g[i - 1] \in Screen /\ g[i] = DrawnOn(g[i - 1], queue[i])
      BY <1>1, <1>5, <3>1 DEF Draws, n
    <3>3. Harmless(queue[i], entries) /\ queue[i] \in Notice
      BY <1>2, <3>1 DEF Settles, n
    <3> QED
      BY <3>2, <3>3, HarmlessDraws
  <2> QED
    BY <1>2, <2>1, <2>2
<1>6. \A i \in 0 .. n : i \in T
  <2> HIDE DEF T
  <2> QED BY <1>2, <1>4, <1>5, Induction
<1> QED
  BY <1>1, <1>2, <1>6

-----------------------------------------------------------------------------
(* What finish_turn leaves of the entries: some of them, each once.          *)

LEMMA ClosesIs ==
  ASSUME NEW kept \in Seq(Entry), NEW m \in Entry
  PROVE  /\ Closes(kept, m) \in Seq(Entry)
         /\ [m EXCEPT !.open = FALSE] \in Entry
         /\ Closes(kept, m) = kept \/ Closes(kept, m) = Append(kept, [m EXCEPT !.open = FALSE])
<1>1. [m EXCEPT !.open = FALSE] \in Entry
  BY DEF Entry
<1>2. Closes(kept, m) = kept \/ Closes(kept, m) = Append(kept, [m EXCEPT !.open = FALSE])
  BY Zenon DEF Closes
<1>3. Append(kept, [m EXCEPT !.open = FALSE]) \in Seq(Entry)
  BY <1>1
<1> QED
  BY <1>1, <1>2, <1>3

Closings(g, es) ==
  /\ g \in [0 .. Len(es) -> Seq(Entry)] /\ g[0] = <<>>
  /\ \A i \in 1 .. Len(es) : g[i] = Closes(g[i - 1], es[i])

LEMMA FinishedInSteps ==
  ASSUME NEW es \in Seq(Entry)
  PROVE  \E g : Closings(g, es) /\ Finished(es) = g[Len(es)]
<1> DEFINE n == Len(es)
           X == Seq(Entry)
           step == [x \in X \X (1 .. n) |-> Closes(x[1], es[x[2]])]
           Body(it) == it = [t \in SUBSET (1 .. n) |->
                              IF t = {} THEN <<>> ELSE Closes(it[t \ {Max(t)}], es[Max(t)])]
           iter == CHOOSE it : Body(it)
<1>1. n \in Nat /\ DOMAIN es = 1 .. n /\ \A i \in 1 .. n : es[i] \in Entry
  BY LenProperties
<1>2. Finished(es) = iter[1 .. n]
  BY <1>1 DEF Finished, FoldLeft, MapThenFoldSet
<1> HIDE DEF n
<1>3. step \in [X \X (1 .. n) -> X] /\ <<>> \in X
  <2>1. \A x \in X, i \in 1 .. n : Closes(x, es[i]) \in X
    BY <1>1, ClosesIs
  <2> HIDE DEF X
  <2>2. step \in [X \X (1 .. n) -> X]
    BY <2>1
  <2> QED
    BY <2>2 DEF X
<1>4. \A x \in X, i \in 1 .. n : step[<<x, i>>] = Closes(x, es[i])
  <2> HIDE DEF X
  <2> QED OBVIOUS
<1> HIDE DEF step, X
<1>5. PICK it0 \in [SUBSET (1 .. n) -> X] : Iterates(it0, n, <<>>, step)
  BY <1>1, <1>3, IteratesExist
<1>6. Body(it0)
  <2>1. ASSUME NEW t \in SUBSET (1 .. n)
        PROVE  it0[t] = IF t = {} THEN <<>> ELSE Closes(it0[t \ {Max(t)}], es[Max(t)])
    <3>1. CASE t # {}
      <4>1. Max(t) \in 1 .. n /\ t \ {Max(t)} \in SUBSET (1 .. n)
        BY <1>1, <3>1, MaxIn
      <4>2. it0[t \ {Max(t)}] \in X
        BY <4>1
      <4>3. step[<<it0[t \ {Max(t)}], Max(t)>>] = Closes(it0[t \ {Max(t)}], es[Max(t)])
        BY <1>4, <4>1, <4>2
      <4> QED
        BY <1>5, <3>1, <4>3, Zenon DEF Iterates
    <3>2. CASE t = {}
      BY <1>5, <3>2 DEF Iterates
    <3> QED
      BY <3>1, <3>2
  <2>2. it0 = [t \in SUBSET (1 .. n) |-> it0[t]]
    OBVIOUS
  <2> QED
    BY <2>1, <2>2
<1>7. Body(iter)
  <2> HIDE DEF Body
  <2> QED BY <1>6, Zenon
<1>8. \A t \in SUBSET (1 .. n) :
        iter[t] = IF t = {} THEN <<>> ELSE Closes(iter[t \ {Max(t)}], es[Max(t)])
  <2> HIDE DEF iter
  <2> QED BY <1>7
<1> HIDE DEF iter, Body
<1>9. FoldsOver(iter, X, <<>>, n, step)
  BY <1>1, <1>3, <1>4, <1>8, MaxIn DEF FoldsOver
<1>10. PICK g : GoesOn(g, X, <<>>, n, step) /\ g[n] = iter[1 .. n]
  BY <1>9, FoldGoes
<1>11. \A i \in 1 .. n : g[i] = Closes(g[i - 1], es[i])
  <2>1. \A i \in 1 .. n : g[i - 1] \in X
    BY <1>1, <1>10 DEF GoesOn
  <2> QED
    BY <1>4, <1>10, <2>1 DEF GoesOn
<1>12. Closings(g, es)
  BY <1>10, <1>11 DEF n, X, GoesOn, Closings
<1> QED
  BY <1>2, <1>10, <1>12, Zenon DEF n

Distinct(es) == \A i, j \in DOMAIN es : es[i].id = es[j].id => i = j

(* k is made of entries of es up to position n, closed. *)
PartOf(k, es, n) ==
  /\ Distinct(k)
  /\ \A x \in DOMAIN k : \E j \in 1 .. n : k[x] = [es[j] EXCEPT !.open = FALSE]

LEMMA FinishedIs ==
  ASSUME NEW es \in Seq(Entry), Distinct(es)
  PROVE  Finished(es) \in Seq(Entry) /\ PartOf(Finished(es), es, Len(es))
<1> DEFINE n == Len(es)
<1>1. PICK g : Closings(g, es) /\ Finished(es) = g[n]
  BY FinishedInSteps
<1>2. n \in Nat /\ n \in 0 .. n /\ DOMAIN es = 1 .. n /\ \A i \in 1 .. n : es[i] \in Entry
  BY LenProperties
<1>3. \A i \in 0 .. n : g[i] \in Seq(Entry)
  BY <1>1 DEF Closings
<1> DEFINE T == {i \in 0 .. n : PartOf(g[i], es, i)}
<1>4. 0 \in T
  BY <1>1, <1>2 DEF Closings, PartOf, Distinct
<1>5. ASSUME NEW i \in 1 .. n, i - 1 \in T
      PROVE  i \in T
  <2> DEFINE k == g[i - 1]
             m == [es[i] EXCEPT !.open = FALSE]
  <2>1. i - 1 \in 0 .. n /\ i \in 0 .. n /\ k \in Seq(Entry) /\ PartOf(k, es, i - 1)
    BY <1>2, <1>3, <1>5
  <2>2. /\ es[i] \in Entry /\ m \in Entry /\ m.id = es[i].id
        /\ g[i] = k \/ g[i] = Append(k, m)
    BY <1>1, <1>2, <2>1, ClosesIs DEF Closings, Entry
  <2>3. \A j \in 1 .. (i - 1) : j \in 1 .. i /\ j \in 1 .. n /\ j # i
    BY <1>2
  <2>4. \A x \in DOMAIN k : k[x].id # m.id
    <3> SUFFICES ASSUME NEW x \in DOMAIN k, k[x].id = m.id
                 PROVE  FALSE
      OBVIOUS
    <3>1. PICK j \in 1 .. (i - 1) : k[x] = [es[j] EXCEPT !.open = FALSE]
      BY <2>1 DEF PartOf
    <3>2. es[j] \in Entry
      BY <1>2, <2>3
    <3>3. k[x].id = es[j].id
      BY <3>1, <3>2 DEF Entry
    <3> QED
      BY <1>2, <2>2, <2>3, <3>3 DEF Distinct
  <2> HIDE DEF k, m
  <2>5. CASE g[i] = k
    BY <2>1, <2>3, <2>5 DEF PartOf
  <2>6. CASE g[i] = Append(k, m)
    <3> DEFINE l == Len(k)
    <3>1. /\ l \in Nat /\ DOMAIN k = 1 .. l /\ DOMAIN g[i] = 1 .. (l + 1)
          /\ \A x \in 1 .. (l + 1) : x \in 1 .. l \/ x = l + 1
          /\ \A x \in 1 .. l : g[i][x] = k[x]
          /\ g[i][l + 1] = m
      BY <2>1, <2>2, <2>6
    <3> HIDE DEF l
    <3>2. Distinct(g[i])
      <4>1. ASSUME NEW x \in 1 .. (l + 1), NEW y \in 1 .. (l + 1), g[i][x].id = g[i][y].id
            PROVE  x = y
        <5>1. CASE x \in 1 .. l /\ y \in 1 .. l
          BY <2>1, <3>1, <4>1, <5>1 DEF PartOf, Distinct
        <5>2. CASE x = l + 1 /\ y \in 1 .. l
          BY <2>4, <3>1, <4>1, <5>2
        <5>3. CASE x \in 1 .. l /\ y = l + 1
          BY <2>4, <3>1, <4>1, <5>3
        <5> QED
          BY <3>1, <5>1, <5>2, <5>3
      <4> QED
        BY <3>1, <4>1 DEF Distinct
    <3>3. i \in 1 .. i
      BY <1>2
    <3>4. ASSUME NEW x \in DOMAIN g[i]
          PROVE  \E j \in 1 .. i : g[i][x] = [es[j] EXCEPT !.open = FALSE]
      <4>1. CASE x \in 1 .. l
        <5>1. PICK j \in 1 .. (i - 1) : k[x] = [es[j] EXCEPT !.open = FALSE]
          BY <2>1, <3>1, <4>1 DEF PartOf
        <5> QED
          BY <2>3, <3>1, <4>1, <5>1
      <4>2. CASE x = l + 1
        BY <3>1, <3>3, <4>2 DEF m
      <4> QED
        BY <3>1, <4>1, <4>2
    <3> QED
      BY <2>1, <3>2, <3>4 DEF PartOf
  <2> QED
    BY <2>2, <2>5, <2>6
<1>6. \A i \in 0 .. n : i \in T
  <2> HIDE DEF T
  <2> QED BY <1>2, <1>4, <1>5, Induction
<1>7. PartOf(g[n], es, n)
  BY <1>2, <1>6
<1> QED
  BY <1>1, <1>2, <1>3, <1>7

-----------------------------------------------------------------------------
(* The phone's screen: the inductive invariant of AppDrawsTheCore.           *)

NoCalls(entries) == \A i \in DOMAIN entries : entries[i].calls = 0

Whole(e) == e.kind \in {"snapshot", "transcript"}
Mute(e) == e.kind \in {"composer_restore", "error"}
Dated(e) == e.kind \in {"assistant", "transcript"}

(* What thread t is about to push, if anything. *)
Speech(t) == Head(telling[t])
Says(t, kind) == ~Done(t) /\ Speech(t).kind = kind

(* What the app is shown once it has taken all that is queued. *)
Shown == DrawnFrom(app, feed)

(* Each entry has an id of its own, and what streams is a reply. *)
Numbered(es, made) ==
  /\ Distinct(es)
  /\ \A i \in DOMAIN es : es[i].id <= made /\ (es[i].open => es[i].by = "assistant")

EntriesInv ==
  /\ Numbered(conv.entries, conv.made)
  /\ conv.sending /\ NoCalls(conv.entries) => \E i \in DOMAIN conv.entries : conv.entries[i].open

(* What each thread may hold: only a failed delivery has more than one thing *)
(* to say, and only the pump says less than a transcript.                    *)
DartSays(q) == Len(q) <= 1 /\ \A i \in DOMAIN q : Whole(q[i])
PumpSays(q) == Len(q) <= 1 /\ \A i \in DOMAIN q : Whole(q[i]) \/ q[i].kind = "assistant"
TaskSays(q) ==
  /\ Len(q) <= 3 /\ (Len(q) = 3 => Whole(q[1]))
  /\ \A i \in DOMAIN q : Mute(q[i]) \/ (i = 1 /\ Len(q) = 3)

TellersInv == DartSays(telling["dart"]) /\ PumpSays(telling["pump"]) /\ TaskSays(telling["task"])

(* Text that waits to be pushed is what the entry has. *)
TextInv ==
  Says("pump", "assistant") =>
    /\ Speech("pump").id <= conv.made
    /\ Harmless(Speech("pump"), conv.entries)
    /\ Speech("pump").change = conv.changes => conv.sending /\ pushed.newest >= conv.changes - 1

ChangesInv ==
  /\ pushed.newest <= conv.changes
  /\ \A t \in Teller : ~Done(t) /\ Dated(Speech(t)) => Speech(t).change <= conv.changes
  /\ \A t \in Teller : Says(t, "transcript") /\ Speech(t).change = conv.changes =>
       Speech(t).screen.entries = conv.entries

(* Every change is pushed or about to be; while a turn runs, not only by a   *)
(* delivery that fails.                                                      *)
Brings(t) == ~Done(t) /\ (Speech(t) = Snapshot \/ (Dated(Speech(t)) /\ Speech(t).change = conv.changes))
ToldInv ==
  /\ pushed.newest = conv.changes \/ \E t \in Teller : Brings(t)
  /\ conv.sending => pushed.newest = conv.changes \/ \E t \in {"pump", "dart"} : Brings(t)

(* In a turn without calls, with nothing missed, the app is shown what the   *)
(* core has, or is once the pump's text is pushed.                           *)
Follows == ~pushed.overtaken /\ conv.sending /\ ~missed /\ NoCalls(conv.entries)
Completes(screen, e) == WithText(screen, e.id, e.text).entries = conv.entries
TurnInv ==
  /\ pushed.newest = conv.changes /\ Follows => Shown.entries = conv.entries
  /\ Says("pump", "assistant") /\ Speech("pump").change = conv.changes =>
       /\ pushed.newest < conv.changes /\ Follows => Completes(Shown, Speech("pump"))
       /\ \A t \in Teller :
            Says(t, "transcript") /\ Speech(t).change = conv.changes - 1 /\ NoCalls(conv.entries)
              => Completes(Speech(t).screen, Speech("pump"))

(* Between turns the newest transcript is shown or queued, and what comes    *)
(* after it changes nothing and is too little to push it out.                *)
Rest == (IF Says("pump", "assistant") THEN 1 ELSE 0)
          + (IF ~Done("task") /\ Mute(Speech("task")) THEN Len(telling["task"]) ELSE 0)
IdleInv ==
  pushed.newest = conv.changes /\ ~pushed.overtaken /\ ~conv.sending =>
    \E k \in 0 .. Len(feed) :
      /\ Settles(feed, k, app, conv.entries)
      /\ k # 0 => (Len(feed) - k) + Rest <= 3

FeedInv ==
  /\ FeedTypeOK /\ EntriesInv /\ TellersInv /\ TextInv /\ ChangesInv /\ ToldInv
  /\ TurnInv /\ IdleInv

-----------------------------------------------------------------------------
(* Types.                                                                    *)

LEMMA ConvIs ==
  ASSUME FeedTypeOK
  PROVE  /\ conv.entries \in Seq(Entry) /\ conv.sending \in BOOLEAN
         /\ conv.streamed \in Nat /\ conv.made \in Nat /\ conv.changes \in Nat
         /\ NewId \in Nat /\ conv.changes + 1 \in Nat
         /\ DOMAIN conv.entries = 1 .. Len(conv.entries) /\ Len(conv.entries) \in Nat
         /\ \A i \in DOMAIN conv.entries : conv.entries[i] \in Entry
<1>1. /\ conv.entries \in Seq(Entry)
      /\ conv.streamed \in Nat /\ conv.made \in Nat /\ conv.changes \in Nat
  BY DEF FeedTypeOK
<1>2. conv.sending \in BOOLEAN
  BY Zenon DEF FeedTypeOK
<1>3. NewId \in Nat /\ conv.changes + 1 \in Nat
  BY <1>1 DEF NewId
<1> QED
  BY <1>1, <1>2, <1>3, LenProperties

LEMMA BecomesIs ==
  ASSUME FeedTypeOK, NEW entries \in Seq(Entry), NEW streamed \in Nat, NEW running \in BOOLEAN,
         NEW more \in Nat, Becomes(entries, streamed, running, more)
  PROVE  /\ conv' \in [entries : Seq(Entry), sending : BOOLEAN, streamed : Nat, made : Nat, changes : Nat]
         /\ conv'.entries = entries /\ conv'.sending = running
         /\ conv'.made = conv.made + more /\ conv'.changes = conv.changes + 1
<1>1. conv.made + more \in Nat /\ conv.changes + 1 \in Nat
  BY ConvIs
<1> QED
  BY <1>1, Zenon DEF Becomes

LEMMA StreamedIs ==
  ASSUME NEW id \in Nat, NEW text \in Nat, NEW calls \in Nat
  PROVE  /\ Streamed(id, text, calls) \in Entry /\ Closed(id, text) \in Entry
         /\ Streamed(id, text, calls).id = id /\ Closed(id, text).id = id
         /\ Streamed(id, text, calls).by = "assistant" /\ Closed(id, text).by = "assistant"
         /\ Streamed(id, text, calls).calls = calls /\ Streamed(id, text, calls).open
         /\ ~Closed(id, text).open
BY DEF Streamed, Closed, Entry

LEMMA UsesIs ==
  ASSUME FeedTypeOK, NEW c \in DOMAIN FeedBudget, Uses(c)
  PROVE  left' \in [DOMAIN FeedBudget -> Nat]
BY FeedAssumption DEF FeedTypeOK, Uses

LEMMA TellsIs ==
  ASSUME FeedTypeOK, NEW t \in Teller, NEW notices \in Seq(Notice), Tells(t, notices)
  PROVE  /\ telling' \in [Teller -> Seq(Notice)]
         /\ telling'[t] = notices /\ \A u \in Teller : u # t => telling'[u] = telling[u]
BY DEF FeedTypeOK, Tells

LEMMA NoticesAre ==
  /\ Snapshot \in Notice /\ Restore \in Notice /\ Failure \in Notice
  /\ Snapshot.kind = "snapshot" /\ Mute(Restore) /\ Mute(Failure)
  /\ <<Snapshot>> \in Seq(Notice) /\ Head(<<Snapshot>>) = Snapshot /\ Len(<<Snapshot>>) = 1
<1>1. Snapshot \in Notice /\ Restore \in Notice /\ Failure \in Notice
  BY DEF Snapshot, Restore, Failure, Notice
<1>2. Snapshot.kind = "snapshot" /\ Mute(Restore) /\ Mute(Failure)
  BY DEF Snapshot, Restore, Failure, Mute
<1> QED
  BY <1>1, <1>2

LEMMA QueuedIs ==
  ASSUME NEW queue \in Seq(Notice), NEW e \in Notice
  PROVE  \E kept \in Seq(Notice) :
           /\ Queued(e, queue) = Append(kept, e)
           /\ \/ ~Supersedes(e, queue) /\ kept = queue
              \/ /\ e.kind = "assistant"
                 /\ \E before \in Notice :
                      /\ queue = Append(kept, before)
                      /\ before.kind = "assistant" /\ before.id = e.id
<1>1. CASE ~Supersedes(e, queue)
  BY <1>1 DEF Queued
<1>2. CASE Supersedes(e, queue)
  <2> DEFINE kept == Front(queue)
             before == Last(queue)
  <2>1. queue # <<>> /\ e.kind = "assistant" /\ before.kind = "assistant" /\ before.id = e.id
    BY <1>2 DEF Supersedes
  <2>2. Len(queue) \in Nat \ {0}
    BY <2>1, EmptySeq
  <2>3. before \in Notice
    BY <2>2 DEF Last
  <2>4. /\ kept \in Seq(Notice) /\ Len(kept) = Len(queue) - 1
        /\ \A i \in 1 .. Len(queue) - 1 : kept[i] = queue[i]
    <3> DEFINE n == Len(queue) - 1
    <3>1. 1 \in Int /\ n \in Int /\ n >= 0 /\ \A i \in 1 .. n : queue[i] \in Notice
      BY <2>2
    <3>2. kept = SubSeq(queue, 1, n)
      BY DEF Front
    <3> HIDE DEF n, kept
    <3>3. /\ SubSeq(queue, 1, n) \in Seq(Notice)
          /\ Len(SubSeq(queue, 1, n)) = IF 1 <= n THEN n - 1 + 1 ELSE 0
          /\ \A i \in 1 .. n - 1 + 1 : SubSeq(queue, 1, n)[i] = queue[1 + i - 1]
      BY <3>1, SubSeqProperties
    <3>4. \A i \in 1 .. n : i \in 1 .. n - 1 + 1 /\ 1 + i - 1 = i
      BY <3>1
    <3>5. kept \in Seq(Notice) /\ Len(kept) = n /\ \A i \in 1 .. n : kept[i] = queue[i]
      BY <3>1, <3>2, <3>3, <3>4
    <3> QED
      BY <3>5 DEF n
  <2>5. queue = Append(kept, before)
    <3> HIDE DEF kept
    <3>1. Append(kept, before) \in Seq(Notice) /\ Len(Append(kept, before)) = Len(queue)
      BY <2>2, <2>3, <2>4
    <3>2. \A i \in 1 .. Len(queue) : queue[i] = Append(kept, before)[i]
      BY <2>2, <2>3, <2>4 DEF Last
    <3> QED
      BY <3>1, <3>2, SeqEqual
  <2>6. Queued(e, queue) = Append(kept, e)
    BY <1>2 DEF Queued
  <2> HIDE DEF kept, before
  <2> QED
    BY <2>1, <2>3, <2>4, <2>5, <2>6
<1> QED
  BY <1>1, <1>2

LEMMA WithTextTwice ==
  ASSUME NEW screen \in Screen, NEW id, NEW a \in Nat, NEW b \in Nat
  PROVE  WithText(WithText(screen, id, a), id, b).entries = WithText(screen, id, b).entries
<1> DEFINE once == WithText(screen, id, a)
           twice == WithText(once, id, b)
           direct == WithText(screen, id, b)
<1>1. Rewritten(once, screen, id, a) /\ Rewritten(direct, screen, id, b)
  BY WithTextIs
<1>2. Rewritten(twice, once, id, b)
  <2>1. once \in Screen
    BY <1>1 DEF Rewritten
  <2> HIDE DEF once
  <2> QED
    BY <2>1, WithTextIs
<1> HIDE DEF once, twice, direct
<1>3. /\ screen.entries \in Seq(Entry) /\ twice.entries \in Seq(Entry) /\ direct.entries \in Seq(Entry)
      /\ DOMAIN twice.entries = DOMAIN screen.entries /\ DOMAIN direct.entries = DOMAIN screen.entries
  BY <1>1, <1>2 DEF Rewritten, Screen
<1>4. ASSUME NEW i \in DOMAIN screen.entries
      PROVE  twice.entries[i] = direct.entries[i]
  <2> DEFINE m == screen.entries[i]
  <2>1. m \in Entry
    BY <1>3
  <2>2. CASE m.id = id
    <3>1. once.entries[i] = [m EXCEPT !.text = a] /\ direct.entries[i] = [m EXCEPT !.text = b]
      BY <1>1, <2>2 DEF Rewritten
    <3>2. [m EXCEPT !.text = a].id = id
      BY <2>1, <2>2 DEF Entry
    <3>3. i \in DOMAIN once.entries
      BY <1>1 DEF Rewritten
    <3>4. twice.entries[i] = [[m EXCEPT !.text = a] EXCEPT !.text = b]
      BY <1>2, <3>1, <3>2, <3>3, Zenon DEF Rewritten
    <3> HIDE DEF m
    <3>5. [[m EXCEPT !.text = a] EXCEPT !.text = b] = [m EXCEPT !.text = b]
      BY <2>1 DEF Entry
    <3> QED
      BY <3>1, <3>4, <3>5
  <2>3. CASE m.id # id
    <3>1. once.entries[i] = m /\ direct.entries[i] = m /\ i \in DOMAIN once.entries
      BY <1>1, <2>3 DEF Rewritten
    <3> QED
      BY <1>2, <2>3, <3>1 DEF Rewritten
  <2> QED
    BY <2>2, <2>3
<1>5. twice.entries = direct.entries
  BY <1>3, <1>4
<1> QED
  BY <1>5 DEF once, twice, direct

(* However a push is queued, it adds to what is shown as if it came last.    *)
LEMMA PushIsShown ==
  ASSUME FeedTypeOK, NEW e \in Notice
  PROVE  /\ Queued(e, feed) \in Seq(Notice) /\ Len(Queued(e, feed)) \in 1 .. MaxQueued + 1
         /\ Queued(e, feed)[Len(Queued(e, feed))] = e
         /\ DrawnFrom(app, Queued(e, feed)).entries = DrawnOn(Shown, e).entries
<1>1. feed \in Seq(Notice) /\ Len(feed) <= MaxQueued /\ app \in Screen /\ MaxQueued \in Nat
  BY FeedAssumption DEF FeedTypeOK
<1>2. PICK kept \in Seq(Notice) :
        /\ Queued(e, feed) = Append(kept, e)
        /\ \/ kept = feed
           \/ /\ e.kind = "assistant"
              /\ \E before \in Notice :
                   /\ feed = Append(kept, before)
                   /\ before.kind = "assistant" /\ before.id = e.id
  BY <1>1, QueuedIs
<1>3. Len(kept) <= Len(feed) /\ Len(kept) \in Nat
  BY <1>1, <1>2
<1>4. DrawnFrom(app, Queued(e, feed)) = DrawnOn(DrawnFrom(app, kept), e) /\ DrawnFrom(app, kept) \in Screen
  BY <1>1, <1>2, DrawnIs
<1>5. DrawnOn(DrawnFrom(app, kept), e).entries = DrawnOn(Shown, e).entries
  <2>1. CASE kept = feed
    BY <2>1 DEF Shown
  <2>2. CASE kept # feed
    <3>1. PICK before \in Notice : /\ feed = Append(kept, before)
                                   /\ before.kind = "assistant" /\ before.id = e.id
      BY <1>2, <2>2
    <3>2. e.kind = "assistant" /\ e.text \in Nat /\ before.text \in Nat
      BY <1>2, <2>2, <3>1, NoticeIs
    <3> DEFINE x == DrawnFrom(app, kept)
    <3>3. Shown = DrawnOn(x, before)
      BY <1>1, <3>1, DrawnIs DEF Shown
    <3>4. x \in Screen
      BY <1>4
    <3> HIDE DEF x
    <3>5. Shown = WithText(x, e.id, before.text) /\ Shown \in Screen
      BY <3>1, <3>2, <3>3, <3>4, DrawnOnIs
    <3>6. DrawnOn(Shown, e) = WithText(Shown, e.id, e.text) /\ DrawnOn(x, e) = WithText(x, e.id, e.text)
      BY <3>2, <3>4, <3>5, DrawnOnIs
    <3>7. WithText(WithText(x, e.id, before.text), e.id, e.text).entries = WithText(x, e.id, e.text).entries
      BY <3>2, <3>4, WithTextTwice
    <3>8. DrawnOn(Shown, e).entries = DrawnOn(x, e).entries
      BY <3>5, <3>6, <3>7, Zenon
    <3> QED
      BY <3>8 DEF x
  <2> QED
    BY <2>1, <2>2
<1>6. /\ Append(kept, e) \in Seq(Notice) /\ Len(Append(kept, e)) = Len(kept) + 1
      /\ Append(kept, e)[Len(kept) + 1] = e
  BY <1>2
<1> QED
  BY <1>1, <1>2, <1>3, <1>4, <1>5, <1>6

-----------------------------------------------------------------------------
(* The steps.                                                                *)

LEMMA SpeechIs ==
  ASSUME FeedTypeOK, NEW t \in Teller, ~Done(t)
  PROVE  /\ telling[t] \in Seq(Notice) /\ telling[t] # <<>>
         /\ Speech(t) \in Notice /\ Speech(t) = telling[t][1] /\ 1 \in DOMAIN telling[t]
         /\ Tail(telling[t]) \in Seq(Notice) /\ Len(telling[t]) \in Nat \ {0}
         /\ Len(Tail(telling[t])) = Len(telling[t]) - 1
         /\ \A i \in DOMAIN Tail(telling[t]) : i + 1 \in DOMAIN telling[t] /\ Tail(telling[t])[i] = telling[t][i + 1]
<1>1. telling[t] \in Seq(Notice) /\ telling[t] # <<>>
  BY DEF FeedTypeOK, Done
<1> QED
  BY <1>1, HeadTailProperties DEF Speech

(* A thread that is given something to say, and the others.                  *)
LEMMA OthersSpeak ==
  ASSUME FeedTypeOK, NEW t \in Teller, NEW notices \in Seq(Notice), Tells(t, notices)
  PROVE  /\ telling'[t] = notices /\ Speech(t)' = Head(notices)
         /\ Done(t)' <=> notices = <<>>
         /\ \A u \in Teller \ {t} :
              /\ telling'[u] = telling[u] /\ Speech(u)' = Speech(u)
              /\ Done(u)' <=> Done(u)
<1>1. telling'[t] = notices /\ \A u \in Teller \ {t} : telling'[u] = telling[u]
  BY TellsIs
<1> QED
  BY <1>1 DEF Speech, Done

(* The conversation changes, and whoever changed it is to push a snapshot.   *)
Retells(t, notices) ==
  /\ t \in Teller /\ Done(t) /\ Tells(t, notices)
  /\ IF t = "task" THEN notices = <<Snapshot, Restore, Failure>> ELSE notices = <<Snapshot>>

LEMMA RetellsIs ==
  ASSUME FeedTypeOK, NEW t, NEW notices, Retells(t, notices)
  PROVE  /\ notices \in Seq(Notice) /\ notices # <<>> /\ Head(notices) = Snapshot
         /\ IF t = "task" THEN /\ Len(notices) = 3 /\ DOMAIN notices = 1 .. 3
                               /\ Mute(notices[2]) /\ Mute(notices[3])
            ELSE Len(notices) = 1 /\ DOMAIN notices = 1 .. 1
         /\ notices[1] = Snapshot
         /\ telling' \in [Teller -> Seq(Notice)]
         /\ telling'[t] = notices /\ Speech(t)' = Snapshot /\ ~Done(t)'
         /\ \A u \in Teller \ {t} :
              /\ telling'[u] = telling[u] /\ Speech(u)' = Speech(u)
              /\ Done(u)' <=> Done(u)
<1>1. CASE t = "task"
  <2>1. notices = <<Snapshot, Restore, Failure>>
    BY <1>1 DEF Retells
  <2>2. notices \in Seq(Notice) /\ notices # <<>> /\ Head(notices) = Snapshot
    BY <2>1, NoticesAre
  <2>3. /\ Len(notices) = 3 /\ DOMAIN notices = 1 .. 3
        /\ notices[1] = Snapshot /\ notices[2] = Restore /\ notices[3] = Failure
    BY <2>1
  <2> QED
    BY <1>1, <2>2, <2>3, NoticesAre, OthersSpeak, TellsIs DEF Retells
<1>2. CASE t # "task"
  <2>1. notices = <<Snapshot>>
    BY <1>2 DEF Retells
  <2>2. notices \in Seq(Notice) /\ notices # <<>> /\ Head(notices) = Snapshot
    BY <2>1, NoticesAre
  <2>3. Len(notices) = 1 /\ DOMAIN notices = 1 .. 1 /\ notices[1] = Snapshot
    BY <2>1
  <2> QED
    BY <1>2, <2>2, <2>3, OthersSpeak, TellsIs DEF Retells
<1> QED
  BY <1>1, <1>2

LEMMA RetellsTellers ==
  ASSUME FeedTypeOK, TellersInv, NEW t, NEW notices, Retells(t, notices)
  PROVE  TellersInv'
<1>1. /\ notices[1] = Snapshot /\ Snapshot.kind = "snapshot" /\ telling'[t] = notices
      /\ IF t = "task" THEN /\ Len(notices) = 3 /\ DOMAIN notices = 1 .. 3
                            /\ Mute(notices[2]) /\ Mute(notices[3])
         ELSE Len(notices) = 1 /\ DOMAIN notices = 1 .. 1
      /\ \A u \in Teller \ {t} : telling'[u] = telling[u]
  BY RetellsIs, NoticesAre
<1>2. t \in Teller /\ Teller = {"pump", "dart", "task"} /\ Whole(Snapshot)
  BY NoticesAre DEF Retells, Teller, Whole
<1>3. CASE t = "task"
  <2>1. \A i \in DOMAIN notices : Mute(notices[i]) \/ i = 1
    BY <1>1, <1>3
  <2>2. TaskSays(notices)
    <3>1. Len(notices) = 3
      BY <1>1, <1>3
    <3>2. Whole(notices[1])
      BY <1>1, <1>2, Zenon
    <3> QED
      BY <2>1, <3>1, <3>2 DEF TaskSays
  <2>3. /\ telling'["task"] = notices
        /\ telling'["pump"] = telling["pump"] /\ telling'["dart"] = telling["dart"]
    BY <1>1, <1>2, <1>3
  <2> QED
    BY <2>2, <2>3, Zenon DEF TellersInv
<1>4. CASE t # "task"
  <2>1. \A i \in DOMAIN notices : i = 1 /\ notices[i] = Snapshot
    BY <1>1, <1>4
  <2>2. DartSays(notices) /\ PumpSays(notices)
    BY <1>1, <1>2, <1>4, <2>1 DEF DartSays, PumpSays
  <2>3. /\ telling'["task"] = telling["task"]
        /\ telling'["pump"] \in {notices, telling["pump"]}
        /\ telling'["dart"] \in {notices, telling["dart"]}
    BY <1>1, <1>2, <1>4
  <2> QED
    BY <2>2, <2>3, Zenon DEF TellersInv
<1> QED
  BY <1>3, <1>4

LEMMA ConvChanges ==
  ASSUME FeedInv, FeedTypeOK', EntriesInv', NEW t, NEW notices, Retells(t, notices),
         conv'.changes = conv.changes + 1, pushed' = pushed,
         conv'.sending => t # "task",
         Says("pump", "assistant") =>
           Speech("pump").id <= conv'.made /\ Harmless(Speech("pump"), conv'.entries)
  PROVE  FeedInv'
<1> USE DEF FeedInv
<1>1. /\ conv.changes \in Nat /\ pushed.newest \in Nat /\ pushed.newest <= conv.changes
      /\ pushed'.newest < conv'.changes /\ pushed'.newest <= conv'.changes
  BY ConvIs DEF ChangesInv, FeedTypeOK
<1>2. /\ t \in Teller /\ Speech(t)' = Snapshot /\ ~Done(t)' /\ Snapshot.kind = "snapshot"
      /\ \A u \in Teller \ {t} : (Done(u)' <=> Done(u)) /\ Speech(u)' = Speech(u)
  BY RetellsIs, NoticesAre DEF Retells
<1>3. \A u \in Teller : Says(u, "assistant")' => u # t /\ Says(u, "assistant")
  BY <1>2 DEF Says
<1>4. \A u \in Teller : Says(u, "transcript")' => u # t /\ Says(u, "transcript")
  BY <1>2 DEF Says
<1>5. \A u \in Teller : ~Done(u)' /\ Dated(Speech(u)') => u # t /\ ~Done(u) /\ Dated(Speech(u))
  BY <1>2 DEF Dated
<1>6. ASSUME NEW u \in Teller, ~Done(u)', Dated(Speech(u)')
      PROVE  Speech(u)'.change \in Nat /\ Speech(u)'.change <= conv.changes
  <2>1. u # t /\ ~Done(u) /\ Dated(Speech(u)) /\ Speech(u)' = Speech(u)
    BY <1>2, <1>5, <1>6
  <2>2. Speech(u) \in Notice
    BY <2>1, SpeechIs
  <2> QED
    BY <2>1, <2>2, NoticeIs DEF ChangesInv, Dated
<1>7. TellersInv'
  BY RetellsTellers
<1>8. "pump" \in Teller
  BY DEF Teller
<1>9. TextInv'
  <2> SUFFICES ASSUME Says("pump", "assistant")'
               PROVE  /\ Speech("pump")'.id <= conv'.made
                      /\ Harmless(Speech("pump")', conv'.entries)
                      /\ Speech("pump")'.change # conv'.changes
    BY DEF TextInv
  <2>1. Says("pump", "assistant") /\ Speech("pump")' = Speech("pump")
    BY <1>2, <1>3, <1>8
  <2>2. ~Done("pump")' /\ Dated(Speech("pump")')
    BY DEF Says, Dated
  <2> QED
    BY <1>1, <1>6, <1>8, <2>1, <2>2
<1>10. ChangesInv'
  <2>1. \A u \in Teller : ~Done(u)' /\ Dated(Speech(u)') => Speech(u)'.change <= conv'.changes
    BY <1>1, <1>6
  <2>2. \A u \in Teller : Says(u, "transcript")' => Speech(u)'.change # conv'.changes
    BY <1>1, <1>6 DEF Says, Dated
  <2> QED
    BY <1>1, <2>1, <2>2 DEF ChangesInv
<1>11. ToldInv'
  <2>1. Brings(t)'
    BY <1>2 DEF Brings
  <2>2. conv'.sending => t \in {"pump", "dart"}
    BY <1>2 DEF Teller
  <2> QED
    BY <1>2, <2>1, <2>2 DEF ToldInv
<1>12. TurnInv'
  <2>1. Says("pump", "assistant")' => Speech("pump")'.change # conv'.changes
    BY <1>1, <1>6, <1>8 DEF Says, Dated
  <2>2. pushed'.newest # conv'.changes
    BY <1>1
  <2> QED
    BY <2>1, <2>2 DEF TurnInv
<1>13. IdleInv'
  <2>1. pushed'.newest # conv'.changes
    BY <1>1
  <2> QED
    BY <2>1 DEF IdleInv
<1> QED
  BY <1>7, <1>9, <1>10, <1>11, <1>12, <1>13

LEMMA NumberedAppend ==
  ASSUME NEW es \in Seq(Entry), NEW made \in Nat, Numbered(es, made), NEW e \in Entry,
         NEW more \in Nat, made < e.id, e.id <= more, e.open => e.by = "assistant"
  PROVE  /\ Append(es, e) \in Seq(Entry) /\ Numbered(Append(es, e), more)
         /\ Len(Append(es, e)) = Len(es) + 1 /\ Append(es, e)[Len(es) + 1] = e
         /\ \A i \in DOMAIN es : Append(es, e)[i] = es[i] /\ i \in DOMAIN Append(es, e)
<1> DEFINE n == Len(es)
           longer == Append(es, e)
<1>1. /\ n \in Nat /\ DOMAIN es = 1 .. n /\ \A i \in 1 .. n : es[i] \in Entry
      /\ longer \in Seq(Entry) /\ Len(longer) = n + 1 /\ DOMAIN longer = 1 .. (n + 1)
      /\ longer[n + 1] = e /\ \A i \in 1 .. n : longer[i] = es[i]
  OBVIOUS
<1>2. \A i \in 1 .. (n + 1) : i \in 1 .. n \/ i = n + 1
  BY <1>1
<1>3. \A i \in 1 .. n : i \in 1 .. (n + 1)
  BY <1>1
<1> HIDE DEF n, longer
<1>4. ASSUME NEW i \in 1 .. (n + 1)
      PROVE  longer[i].id <= more /\ (longer[i].open => longer[i].by = "assistant")
  <2>1. CASE i \in 1 .. n
    <3>1. es[i].id <= made /\ es[i].id \in Nat /\ e.id \in Nat
      BY <1>1, <2>1 DEF Numbered, Entry
    <3>2. es[i].open => es[i].by = "assistant"
      BY <1>1, <2>1, Zenon DEF Numbered
    <3> QED
      BY <1>1, <2>1, <3>1, <3>2
  <2>2. CASE i = n + 1
    BY <1>1, <2>2
  <2> QED
    BY <1>2, <2>1, <2>2
<1>5. ASSUME NEW i \in 1 .. n
      PROVE  es[i].id # e.id
  <2>1. es[i].id <= made /\ es[i].id \in Nat /\ e.id \in Nat
    BY <1>1 DEF Numbered, Entry
  <2> QED
    BY <2>1
<1>6. Distinct(longer)
  BY <1>1, <1>2, <1>5 DEF Numbered, Distinct
<1> QED
  BY <1>1, <1>3, <1>4, <1>6 DEF n, longer, Numbered

LEMMA NumberedExcept ==
  ASSUME NEW es \in Seq(Entry), NEW made, Numbered(es, made), NEW i \in DOMAIN es,
         NEW e \in Entry, e.id = es[i].id, e.open => e.by = "assistant"
  PROVE  /\ [es EXCEPT ![i] = e] \in Seq(Entry) /\ Numbered([es EXCEPT ![i] = e], made)
         /\ DOMAIN [es EXCEPT ![i] = e] = DOMAIN es
         /\ \A j \in DOMAIN es : [es EXCEPT ![i] = e][j] = IF j = i THEN e ELSE es[j]
<1> DEFINE changed == [es EXCEPT ![i] = e]
<1>1. /\ changed \in Seq(Entry) /\ DOMAIN changed = DOMAIN es
      /\ \A j \in DOMAIN es : changed[j] = IF j = i THEN e ELSE es[j]
  OBVIOUS
<1> HIDE DEF changed
<1>2. Distinct(changed)
  BY <1>1 DEF Numbered, Distinct
<1>3. \A j \in DOMAIN es : changed[j].id <= made
  BY <1>1 DEF Numbered
<1>4. \A j \in DOMAIN es : changed[j].open => changed[j].by = "assistant"
  BY <1>1, Zenon DEF Numbered
<1> QED
  BY <1>1, <1>2, <1>3, <1>4 DEF changed, Numbered

LEMMA NumberedFinished ==
  ASSUME NEW es \in Seq(Entry), NEW made, Numbered(es, made)
  PROVE  /\ Finished(es) \in Seq(Entry) /\ Numbered(Finished(es), made)
         /\ \A e \in Notice : Harmless(e, es) => Harmless(e, Finished(es))
<1> DEFINE k == Finished(es)
<1>1. k \in Seq(Entry) /\ PartOf(k, es, Len(es))
  BY FinishedIs DEF Numbered
<1> HIDE DEF k
<1>2. ASSUME NEW x \in DOMAIN k
      PROVE  \E j \in DOMAIN es : k[x].id = es[j].id /\ k[x].text = es[j].text /\ ~k[x].open
  <2>1. PICK j \in 1 .. Len(es) : k[x] = [es[j] EXCEPT !.open = FALSE]
    BY <1>1 DEF PartOf
  <2>2. j \in DOMAIN es /\ es[j] \in Entry
    OBVIOUS
  <2> QED
    BY <2>1, <2>2 DEF Entry
<1>3. Numbered(k, made)
  BY <1>1, <1>2 DEF PartOf, Numbered
<1>4. \A e \in Notice : Harmless(e, es) => Harmless(e, k)
  BY <1>2 DEF Harmless
<1> QED
  BY <1>1, <1>3, <1>4 DEF k

LEMMA NumberedWithout ==
  ASSUME FeedTypeOK, EntriesInv, NEW p \in OnScreen
  PROVE  /\ Without(p) \in Seq(Entry) /\ Numbered(Without(p), conv.made)
         /\ \A e \in Notice : Harmless(e, conv.entries) => Harmless(e, Without(p))
<1> DEFINE es == conv.entries
           n == Len(es)
           at == SelectInSeq(es, LAMBDA m : m.id = p)
           I == {i \in 1 .. n : es[i].id = p}
<1>1. es \in Seq(Entry) /\ n \in Nat /\ DOMAIN es = 1 .. n /\ \A i \in 1 .. n : es[i] \in Entry
  BY ConvIs
<1>2. Numbered(es, conv.made)
  BY DEF EntriesInv
<1>3. at \in 1 .. n
  <2>1. I # {} /\ I \subseteq Nat
    BY <1>1 DEF OnScreen
  <2>2. at = Min(I)
    BY <2>1 DEF SelectInSeq
  <2>3. \E x \in I : \A y \in I : x <= y
    <3> HIDE DEF I
    <3> QED BY <2>1, LeastNumber
  <2>4. Min(I) \in I
    BY <2>3 DEF Min
  <2> QED
    BY <2>2, <2>4
<1>4. Without(p) = SubSeq(es, 1, at - 1) \o SubSeq(es, at + 1, n)
  BY DEF Without, RemoveAt
<1> HIDE DEF es, n, at
<1> DEFINE front == SubSeq(es, 1, at - 1)
           back == SubSeq(es, at + 1, n)
<1>5. /\ front \in Seq(Entry) /\ Len(front) = at - 1 /\ \A i \in 1 .. (at - 1) : front[i] = es[i]
  <2>1. 1 \in Int /\ at - 1 \in Int /\ at - 1 >= 0 /\ \A i \in 1 .. (at - 1) : es[i] \in Entry
    BY <1>1, <1>3
  <2>2. /\ front \in Seq(Entry) /\ Len(front) = IF 1 <= at - 1 THEN at - 1 - 1 + 1 ELSE 0
        /\ \A i \in 1 .. at - 1 - 1 + 1 : front[i] = es[1 + i - 1]
    BY <2>1, SubSeqProperties
  <2>3. \A i \in 1 .. (at - 1) : i \in 1 .. at - 1 - 1 + 1 /\ 1 + i - 1 = i
    BY <2>1
  <2> HIDE DEF front
  <2> QED
    BY <2>1, <2>2, <2>3
<1>6. /\ back \in Seq(Entry) /\ Len(back) = n - at
      /\ \A i \in 1 .. (n - at) : back[i] = es[at + i]
  <2>1. at + 1 \in Int /\ n \in Int /\ n - at >= 0 /\ \A i \in (at + 1) .. n : es[i] \in Entry
    BY <1>1, <1>3
  <2>2. /\ back \in Seq(Entry) /\ Len(back) = IF at + 1 <= n THEN n - (at + 1) + 1 ELSE 0
        /\ \A i \in 1 .. n - (at + 1) + 1 : back[i] = es[at + 1 + i - 1]
    BY <2>1, SubSeqProperties
  <2>3. \A i \in 1 .. (n - at) : i \in 1 .. n - (at + 1) + 1 /\ at + 1 + i - 1 = at + i
    BY <2>1, <1>3
  <2> HIDE DEF back
  <2> QED
    BY <1>3, <2>1, <2>2, <2>3
<1> HIDE DEF front, back
<1> DEFINE k == front \o back
           Was(i) == IF i < at THEN i ELSE i + 1
<1>7. /\ k \in Seq(Entry) /\ Len(k) = Len(front) + Len(back)
      /\ \A i \in 1 .. Len(front) + Len(back) :
           k[i] = IF i <= Len(front) THEN front[i] ELSE back[i - Len(front)]
  BY <1>5, <1>6, ConcatProperties
<1> HIDE DEF k
<1>8. DOMAIN k = 1 .. (n - 1)
  BY <1>1, <1>3, <1>5, <1>6, <1>7
<1>9. ASSUME NEW i \in DOMAIN k
      PROVE  k[i] = es[Was(i)] /\ Was(i) \in DOMAIN es
  <2>1. i \in 1 .. Len(front) + Len(back)
    BY <1>7
  <2>2. CASE i < at
    <3>1. i \in 1 .. (at - 1) /\ i <= Len(front) /\ i \in 1 .. n
      BY <1>1, <1>3, <1>5, <1>8, <2>2
    <3> QED
      BY <1>1, <1>5, <1>7, <2>1, <2>2, <3>1
  <2>3. CASE ~(i < at)
    <3>1. /\ i - Len(front) = i - (at - 1) /\ i - (at - 1) \in 1 .. (n - at)
          /\ ~(i <= Len(front)) /\ at + (i - (at - 1)) = i + 1 /\ i + 1 \in 1 .. n
      BY <1>1, <1>3, <1>5, <1>8, <2>3
    <3>2. k[i] = back[i - (at - 1)]
      BY <1>7, <2>1, <3>1
    <3>3. k[i] = es[i + 1]
      BY <1>6, <3>1, <3>2
    <3> QED
      BY <1>1, <2>3, <3>1, <3>3
  <2> QED
    BY <2>2, <2>3
<1>10. \A i, j \in DOMAIN k : Was(i) = Was(j) => i = j
  BY <1>3, <1>8
<1> HIDE DEF Was
<1>11. Numbered(k, conv.made)
  <2>1. Distinct(k)
    BY <1>2, <1>9, <1>10 DEF Numbered, Distinct
  <2>2. \A i \in DOMAIN k : k[i].id <= conv.made /\ (k[i].open => k[i].by = "assistant")
    BY <1>2, <1>9, Zenon DEF Numbered
  <2> QED
    BY <2>1, <2>2 DEF Numbered
<1>12. \A e \in Notice : Harmless(e, es) => Harmless(e, k)
  BY <1>9 DEF Harmless
<1> QED
  BY <1>4, <1>7, <1>11, <1>12 DEF k, front, back, es

LEMMA HarmlessAppend ==
  ASSUME NEW es \in Seq(Entry), NEW made \in Nat, NEW e \in Entry, made < e.id,
         NEW s \in Notice, s.kind = "assistant", s.id <= made, Harmless(s, es)
  PROVE  Harmless(s, Append(es, e))
<1> DEFINE n == Len(es)
           longer == Append(es, e)
<1>1. /\ n \in Nat /\ DOMAIN es = 1 .. n /\ DOMAIN longer = 1 .. (n + 1)
      /\ longer[n + 1] = e /\ \A i \in 1 .. n : longer[i] = es[i]
      /\ \A i \in 1 .. (n + 1) : i \in 1 .. n \/ i = n + 1
  OBVIOUS
<1> HIDE DEF n, longer
<1>2. s.id # e.id
  <2>1. s.id \in Nat /\ e.id \in Nat
    BY NoticeIs DEF Entry
  <2> QED
    BY <2>1
<1>3. \A i \in 1 .. (n + 1) : longer[i].id = s.id => longer[i].text = s.text
  BY <1>1, <1>2 DEF Harmless
<1> QED
  BY <1>1, <1>3 DEF longer, Harmless

LEMMA PumpSpeech ==
  ASSUME FeedTypeOK, TextInv, Says("pump", "assistant")
  PROVE  /\ Speech("pump") \in Notice /\ Speech("pump").kind = "assistant"
         /\ Speech("pump").id \in Nat /\ Speech("pump").text \in Nat /\ Speech("pump").change \in Nat
         /\ Speech("pump").id <= conv.made /\ Harmless(Speech("pump"), conv.entries)
<1>1. "pump" \in Teller
  BY DEF Teller
<1>2. Speech("pump") \in Notice
  BY <1>1, SpeechIs DEF Says
<1> QED
  BY <1>2, NoticeIs DEF Says, TextInv

(* What a change of the conversation may do to the rest.                     *)
Around ==
  /\ delivering' \subseteq Nat /\ app' \in Screen /\ left' \in [DOMAIN FeedBudget -> Nat]
  /\ feed' = feed /\ pushed' = pushed /\ missed' \in BOOLEAN

LEMMA BecomesKeeps ==
  ASSUME FeedInv, NEW entries \in Seq(Entry), NEW streamed \in Nat, NEW running \in BOOLEAN,
         NEW more \in Nat, Becomes(entries, streamed, running, more), Around,
         NEW t, NEW notices, Retells(t, notices), running => t # "task",
         Numbered(entries, conv.made + more),
         running /\ NoCalls(entries) => \E i \in DOMAIN entries : entries[i].open,
         Says("pump", "assistant") => Harmless(Speech("pump"), entries)
  PROVE  FeedInv'
<1>1. FeedTypeOK /\ EntriesInv /\ TextInv
  BY DEF FeedInv
<1>2. /\ conv' \in [entries : Seq(Entry), sending : BOOLEAN, streamed : Nat, made : Nat, changes : Nat]
      /\ conv'.entries = entries /\ conv'.sending = running
      /\ conv'.made = conv.made + more /\ conv'.changes = conv.changes + 1
  BY <1>1, BecomesIs
<1>3. FeedTypeOK'
  <2>1. telling' \in [Teller -> Seq(Notice)]
    BY <1>1, RetellsIs
  <2> QED
    BY <1>1, <1>2, <2>1, Zenon DEF FeedTypeOK, Around
<1>4. EntriesInv'
  <2>1. Numbered(conv'.entries, conv'.made)
    BY <1>2, Zenon
  <2>2. conv'.sending /\ NoCalls(conv'.entries) => \E i \in DOMAIN conv'.entries : conv'.entries[i].open
    BY <1>2, Zenon
  <2> QED
    BY <2>1, <2>2, Zenon DEF EntriesInv, NoCalls
<1>5. ASSUME Says("pump", "assistant")
      PROVE  Speech("pump").id <= conv'.made /\ Harmless(Speech("pump"), conv'.entries)
  <2>1. Speech("pump").id <= conv.made + more
    <3>1. Speech("pump").id \in Nat /\ Speech("pump").id <= conv.made /\ conv.made \in Nat
      BY <1>1, <1>5, PumpSpeech, ConvIs
    <3> QED
      BY <3>1
  <2> QED
    BY <1>2, <1>5, <2>1
<1>6. pushed' = pushed /\ (conv'.sending => t # "task")
  BY <1>2, Zenon DEF Around
<1> QED
  BY <1>2, <1>3, <1>4, <1>5, <1>6, ConvChanges

LEMMA SendsKeeps ==
  ASSUME FeedInv, AppSends
  PROVE  FeedInv'
<1> DEFINE es == conv.entries
           a == [id |-> NewId, by |-> "user", text |-> 1, open |-> FALSE, calls |-> 0]
           b == Streamed(NewId + 1, 0, 0)
           one == Append(es, a)
           two == Append(one, b)
<1>1. FeedTypeOK /\ EntriesInv /\ TextInv
  BY DEF FeedInv
<1>2. /\ es \in Seq(Entry) /\ conv.made \in Nat /\ NewId \in Nat /\ conv.changes \in Nat
      /\ NewId = conv.made + 1 /\ NewId + 1 = conv.made + 2
  BY <1>1, ConvIs DEF NewId
<1>3. a \in Entry /\ a.id = NewId /\ ~a.open
  BY <1>2 DEF Entry
<1>4. b \in Entry /\ b.id = NewId + 1 /\ b.open /\ b.by = "assistant"
  <2>1. NewId + 1 \in Nat /\ 0 \in Nat
    BY <1>2
  <2> QED
    BY <2>1, StreamedIs
<1>5. es \o <<a, b>> = two
  <2> HIDE DEF es, a, b
  <2> QED BY <1>2, <1>3, <1>4
<1> HIDE DEF a, b
<1>6. one \in Seq(Entry) /\ Numbered(one, conv.made + 1)
  <2>1. conv.made + 1 \in Nat /\ conv.made < a.id /\ a.id <= conv.made + 1
    BY <1>2, <1>3
  <2>2. Numbered(es, conv.made)
    BY <1>1 DEF EntriesInv
  <2> HIDE DEF es
  <2> QED
    BY <1>2, <1>3, <2>1, <2>2, NumberedAppend
<1> HIDE DEF one
<1>7. /\ two \in Seq(Entry) /\ Numbered(two, conv.made + 2)
      /\ Len(two) = Len(one) + 1 /\ two[Len(one) + 1] = b
  <2>1. conv.made + 1 \in Nat /\ conv.made + 2 \in Nat /\ conv.made + 1 < b.id /\ b.id <= conv.made + 2
    BY <1>2, <1>4
  <2> QED
    BY <1>4, <1>6, <2>1, NumberedAppend
<1>8. Len(one) + 1 \in DOMAIN two
  BY <1>6, <1>7
<1> HIDE DEF two
<1>9. Becomes(two, 0, TRUE, 2)
  BY <1>5, Zenon DEF AppSends, es, a, b
<1>10. /\ Retells("dart", <<Snapshot>>) /\ "dart" # "task" /\ TRUE \in BOOLEAN
       /\ 0 \in Nat /\ 2 \in Nat
  BY DEF AppSends, Retells, Teller
<1>11. Around
  <2>1. left' \in [DOMAIN FeedBudget -> Nat]
    BY <1>1, UsesIs, FeedAssumption DEF AppSends
  <2>2. app' \in Screen
    BY <1>1 DEF AppSends, FeedTypeOK, Screen
  <2>3. delivering' \subseteq Nat
    BY <1>1, <1>2 DEF AppSends, FeedTypeOK
  <2>4. feed' = feed /\ pushed' = pushed /\ missed' \in BOOLEAN
    BY Zenon DEF AppSends
  <2> QED
    BY <2>1, <2>2, <2>3, <2>4 DEF Around
<1>12. \E i \in DOMAIN two : two[i].open
  BY <1>4, <1>7, <1>8
<1>13. ASSUME Says("pump", "assistant")
       PROVE  Harmless(Speech("pump"), two)
  <2> DEFINE s == Speech("pump")
  <2>1. /\ s \in Notice /\ s.kind = "assistant" /\ s.id \in Nat
        /\ s.id <= conv.made /\ Harmless(s, es)
    BY <1>1, <1>13, PumpSpeech
  <2> HIDE DEF s, es
  <2>2. Harmless(s, one)
    <3>1. conv.made < a.id
      BY <1>2, <1>3
    <3> QED
      BY <1>2, <1>3, <2>1, <3>1, HarmlessAppend DEF one
  <2>3. Harmless(s, two)
    <3>1. conv.made + 1 < b.id /\ conv.made + 1 \in Nat /\ s.id <= conv.made + 1
      BY <1>2, <1>4, <2>1
    <3> QED
      BY <1>2, <1>4, <1>6, <2>1, <2>2, <3>1, HarmlessAppend DEF two
  <2> QED
    BY <2>3 DEF s
<1> QED
  BY <1>7, <1>9, <1>10, <1>11, <1>12, <1>13, BecomesKeeps

LEMMA StartsKeeps ==
  ASSUME FeedInv, AppStartsChat
  PROVE  FeedInv'
<1> DEFINE none == <<>>
<1>1. FeedTypeOK
  BY DEF FeedInv
<1>2. none \in Seq(Entry) /\ DOMAIN none = {}
  OBVIOUS
<1>3. Becomes(none, 0, FALSE, 0) /\ Retells("dart", <<Snapshot>>)
  BY DEF AppStartsChat, Retells, Teller
<1>4. Around
  <2>1. left' \in [DOMAIN FeedBudget -> Nat]
    BY <1>1, UsesIs, FeedAssumption DEF AppStartsChat
  <2>2. app' \in Screen
    BY <1>2 DEF AppStartsChat, Screen
  <2>3. delivering' \subseteq Nat /\ feed' = feed /\ pushed' = pushed
    BY <1>1 DEF AppStartsChat, FeedTypeOK
  <2>4. missed' \in BOOLEAN
    BY <1>1, Zenon DEF AppStartsChat, FeedTypeOK
  <2> QED
    BY <2>1, <2>2, <2>3, <2>4 DEF Around
<1>5. Numbered(none, conv.made + 0)
  BY <1>2 DEF Numbered, Distinct
<1>6. ASSUME Says("pump", "assistant")
      PROVE  Harmless(Speech("pump"), none)
  BY <1>2, <1>6 DEF Harmless, Says
<1>7. 0 \in Nat /\ FALSE \in BOOLEAN
  OBVIOUS
<1> HIDE DEF none
<1> QED
  BY <1>2, <1>3, <1>4, <1>5, <1>6, <1>7, BecomesKeeps

LEMMA LostKeeps ==
  ASSUME FeedInv, NEW p \in OnScreen, Becomes(Finished(Without(p)), 0, FALSE, 0), Around,
         Retells("task", <<Snapshot, Restore, Failure>>)
  PROVE  FeedInv'
<1> DEFINE es == Finished(Without(p))
<1>1. FeedTypeOK /\ EntriesInv /\ TextInv
  BY DEF FeedInv
<1>2. /\ Without(p) \in Seq(Entry) /\ Numbered(Without(p), conv.made)
      /\ \A e \in Notice : Harmless(e, conv.entries) => Harmless(e, Without(p))
  BY <1>1, NumberedWithout
<1>3. /\ es \in Seq(Entry) /\ Numbered(es, conv.made)
      /\ \A e \in Notice : Harmless(e, Without(p)) => Harmless(e, es)
  BY <1>2, NumberedFinished
<1>4. conv.made + 0 = conv.made /\ 0 \in Nat /\ FALSE \in BOOLEAN
  BY <1>1, ConvIs
<1>5. ASSUME Says("pump", "assistant")
      PROVE  Harmless(Speech("pump"), es)
  BY <1>1, <1>2, <1>3, <1>5, PumpSpeech
<1> HIDE DEF es
<1>6. Becomes(es, 0, FALSE, 0)
  BY DEF es
<1> QED
  BY <1>3, <1>4, <1>5, <1>6, BecomesKeeps

LEMMA NumberedMore ==
  ASSUME NEW es \in Seq(Entry), NEW made \in Nat, Numbered(es, made), NEW more \in Nat, made <= more
  PROVE  Numbered(es, more)
<1>1. ASSUME NEW i \in DOMAIN es
      PROVE  es[i].id <= more
  <2>1. es[i] \in Entry /\ es[i].id <= made
    BY DEF Numbered
  <2>2. es[i].id \in Nat
    BY <2>1 DEF Entry
  <2> QED
    BY <2>1, <2>2
<1> QED
  BY <1>1, Zenon DEF Numbered

LEMMA FirstCallIs ==
  ASSUME NewId \in Nat
  PROVE  /\ Streamed(NewId, 0, 1) \in Entry /\ Streamed(NewId, 0, 1).id = NewId
         /\ Streamed(NewId, 0, 1).by = "assistant" /\ Streamed(NewId, 0, 1).calls = 1
<1>1. 0 \in Nat /\ 1 \in Nat
  OBVIOUS
<1> QED
  BY <1>1, StreamedIs

LEMMA CallKeeps ==
  ASSUME FeedInv, FoldsCall
  PROVE  FeedInv'
<1> DEFINE es == conv.entries
           n == Len(es)
           I == {j \in 1 .. n : es[j].open /\ es[j].text = 0}
           i == SelectLastInSeq(es, LAMBDA m : m.open /\ m.text = 0)
           entry == IF i = 0 THEN Streamed(NewId, 0, 1) ELSE [es[i] EXCEPT !.calls = @ + 1]
<1>1. FeedTypeOK /\ EntriesInv
  BY DEF FeedInv
<1>2. /\ es \in Seq(Entry) /\ n \in Nat /\ DOMAIN es = 1 .. n /\ \A j \in 1 .. n : es[j] \in Entry
      /\ conv.streamed \in Nat /\ conv.made \in Nat /\ NewId \in Nat /\ NewId = conv.made + 1
      /\ Numbered(es, conv.made) /\ TRUE \in BOOLEAN /\ 0 \in Nat /\ 1 \in Nat
      /\ conv.made + 1 \in Nat /\ conv.made + 0 = conv.made
  BY <1>1, ConvIs DEF NewId, EntriesInv
<1>3. i = 0 \/ i \in I
  <2>1. i = IF I = {} THEN 0 ELSE Max(I)
    BY DEF SelectLastInSeq
  <2> HIDE DEF i
  <2>2. I \in SUBSET (1 .. n)
    OBVIOUS
  <2> HIDE DEF I, n
  <2> QED
    BY <1>2, <2>1, <2>2, MaxIn
<1>4. Retells("pump", <<Snapshot>>) /\ "pump" # "task"
  BY DEF FoldsCall, Folds, Retells, Teller
<1>5. Around
  <2>1. left' \in [DOMAIN FeedBudget -> Nat]
    BY <1>1, UsesIs, FeedAssumption DEF FoldsCall
  <2>2. delivering' \subseteq Nat /\ feed' = feed /\ pushed' = pushed /\ app' \in Screen
    BY <1>1 DEF FoldsCall, Folds, FeedTypeOK
  <2>3. missed' \in BOOLEAN
    BY <1>1, Zenon DEF FoldsCall, Folds, FeedTypeOK
  <2> QED
    BY <2>1, <2>2, <2>3 DEF Around
<1>6. ~Says("pump", "assistant")
  BY DEF FoldsCall, Folds, Says
<1>7. PutsInto(i, entry, conv.streamed)
  BY DEF FoldsCall
<1> HIDE DEF i
<1>8. CASE i = 0
  <2>1. entry = Streamed(NewId, 0, 1)
    BY <1>8
  <2> HIDE DEF entry, es, n
  <2>2. /\ entry \in Entry /\ entry.id = NewId /\ entry.by = "assistant" /\ entry.calls = 1
    <3>1. NewId \in Nat
      BY <1>2
    <3> QED
      BY <2>1, <3>1, FirstCallIs, Zenon
  <2> DEFINE longer == Append(es, entry)
  <2>3. Becomes(longer, conv.streamed, TRUE, 1)
    BY <1>7, <1>8, Zenon DEF PutsInto, es
  <2>4. /\ longer \in Seq(Entry) /\ Numbered(longer, conv.made + 1)
        /\ Len(longer) = Len(es) + 1 /\ longer[Len(es) + 1] = entry
    <3>1. conv.made < entry.id /\ entry.id <= conv.made + 1
      BY <1>2, <2>2
    <3> HIDE DEF es
    <3> QED
      BY <1>2, <2>2, <3>1, NumberedAppend
  <2>5. ~NoCalls(longer)
    <3>1. Len(es) + 1 \in DOMAIN longer
      BY <2>4, <1>2
    <3> HIDE DEF longer
    <3> QED
      BY <2>2, <2>4, <3>1 DEF NoCalls
  <2> HIDE DEF longer
  <2> QED
    BY <1>2, <1>4, <1>5, <1>6, <2>3, <2>4, <2>5, BecomesKeeps
<1>9. CASE i # 0
  <2>1. i \in DOMAIN es /\ es[i] \in Entry
    BY <1>2, <1>3, <1>9
  <2>2. entry = [es[i] EXCEPT !.calls = @ + 1]
    BY <1>9
  <2>3. /\ entry \in Entry /\ entry.id = es[i].id /\ entry.calls # 0
        /\ entry.by = es[i].by
    BY <2>1, <2>2 DEF Entry
  <2>4. entry.by = "assistant"
    <3>1. es[i].open
      BY <1>3, <1>9
    <3> QED
      BY <1>2, <2>1, <2>3, <3>1, Zenon DEF Numbered
  <2> DEFINE changed == [es EXCEPT ![i] = entry]
  <2>5. Becomes(changed, conv.streamed, TRUE, 0)
    BY <1>7, <1>9 DEF PutsInto
  <2> HIDE DEF entry, n
  <2>6. /\ changed \in Seq(Entry) /\ Numbered(changed, conv.made)
        /\ DOMAIN changed = DOMAIN es /\ changed[i] = entry
    <3> HIDE DEF es
    <3> QED
      BY <1>2, <2>1, <2>3, <2>4, NumberedExcept
  <2> HIDE DEF changed, es
  <2>7. ~NoCalls(changed)
    BY <2>1, <2>3, <2>6 DEF NoCalls
  <2> QED
    BY <1>2, <1>4, <1>5, <1>6, <2>5, <2>6, <2>7, BecomesKeeps
<1> QED
  BY <1>8, <1>9

LEMMA EndKeeps ==
  ASSUME FeedInv, FoldsEnd
  PROVE  FeedInv'
<1> DEFINE es == conv.entries
           n == Len(es)
           I == {j \in 1 .. n : es[j].open}
           i == SelectLastInSeq(es, LAMBDA m : m.open)
           Ended(f) == IF f = 0 THEN es
                       ELSE IF i # 0 /\ es[i].calls = 0 THEN [es EXCEPT ![i].text = f]
                       ELSE Append(es, Closed(NewId, f))
<1>1. FeedTypeOK /\ EntriesInv
  BY DEF FeedInv
<1>2. /\ es \in Seq(Entry) /\ n \in Nat /\ DOMAIN es = 1 .. n /\ \A j \in 1 .. n : es[j] \in Entry
      /\ conv.streamed \in Nat /\ conv.made \in Nat /\ NewId \in Nat /\ NewId = conv.made + 1
      /\ Numbered(es, conv.made) /\ FALSE \in BOOLEAN /\ 0 \in Nat /\ 1 \in Nat
      /\ conv.made + 1 \in Nat
  BY <1>1, ConvIs DEF NewId, EntriesInv
<1>3. i = 0 \/ i \in I
  <2>1. i = IF I = {} THEN 0 ELSE Max(I)
    BY DEF SelectLastInSeq
  <2> HIDE DEF i
  <2>2. I \in SUBSET (1 .. n)
    OBVIOUS
  <2> HIDE DEF I, n
  <2> QED
    BY <1>2, <2>1, <2>2, MaxIn
<1>4. Retells("pump", <<Snapshot>>) /\ "pump" # "task"
  BY DEF FoldsEnd, Folds, Retells, Teller
<1>5. Around
  <2>1. left' \in [DOMAIN FeedBudget -> Nat]
    BY <1>1 DEF FoldsEnd, FeedTypeOK
  <2>2. delivering' \subseteq Nat /\ feed' = feed /\ pushed' = pushed /\ app' \in Screen
    BY <1>1 DEF FoldsEnd, Folds, FeedTypeOK
  <2>3. missed' \in BOOLEAN
    BY <1>1, Zenon DEF FoldsEnd, Folds, FeedTypeOK
  <2> QED
    BY <2>1, <2>2, <2>3 DEF Around
<1>6. ~Says("pump", "assistant")
  BY DEF FoldsEnd, Folds, Says
<1>7. PICK f \in {0, conv.streamed} : Becomes(EndsWith(f), 0, FALSE, 1)
  BY DEF FoldsEnd
<1>8. EndsWith(f) = Finished(Ended(f)) /\ f \in Nat
  <2>1. f \in Nat
    BY <1>2
  <2> QED
    BY <2>1 DEF EndsWith
<1> HIDE DEF i
<1>9. Ended(f) \in Seq(Entry) /\ Numbered(Ended(f), conv.made + 1)
  <2>1. Numbered(es, conv.made + 1)
    BY <1>2, NumberedMore
  <2>2. CASE f = 0
    BY <1>2, <2>1, <2>2
  <2>3. CASE f # 0 /\ i # 0 /\ es[i].calls = 0
    <3> DEFINE e == [es[i] EXCEPT !.text = f]
    <3>1. i \in DOMAIN es /\ es[i] \in Entry /\ es[i].open
      BY <1>2, <1>3, <2>3
    <3>2. e \in Entry /\ e.id = es[i].id /\ e.by = es[i].by
      BY <1>8, <3>1 DEF Entry
    <3>3. e.by = "assistant"
      BY <1>2, <3>1, <3>2, Zenon DEF Numbered
    <3>4. Ended(f) = [es EXCEPT ![i] = e]
      BY <2>3
    <3> HIDE DEF e, es, Ended
    <3> DEFINE changed == [es EXCEPT ![i] = e]
    <3>5. changed \in Seq(Entry) /\ Numbered(changed, conv.made + 1)
      BY <1>2, <2>1, <3>1, <3>2, <3>3, NumberedExcept
    <3> HIDE DEF changed
    <3>6. Ended(f) = changed
      BY <3>4 DEF changed
    <3> QED
      BY <3>5, <3>6
  <2>4. CASE f # 0 /\ ~(i # 0 /\ es[i].calls = 0)
    <3> DEFINE e == Closed(NewId, f)
    <3>1. e \in Entry /\ e.id = NewId /\ e.by = "assistant"
      BY <1>2, <1>8, StreamedIs
    <3>2. Ended(f) = Append(es, e)
      BY <2>4
    <3> HIDE DEF e, es, Ended
    <3>3. conv.made < e.id /\ e.id <= conv.made + 1
      BY <1>2, <3>1
    <3> QED
      BY <1>2, <3>1, <3>2, <3>3, NumberedAppend
  <2> QED
    BY <2>2, <2>3, <2>4
<1> HIDE DEF Ended
<1>10. Finished(Ended(f)) \in Seq(Entry) /\ Numbered(Finished(Ended(f)), conv.made + 1)
  BY <1>9, NumberedFinished
<1> QED
  BY <1>2, <1>4, <1>5, <1>6, <1>7, <1>8, <1>10, BecomesKeeps

(* A thread has a snapshot to take or has taken one: nothing else changes.   *)
Readies(t) ==
  /\ t \in Teller /\ (Done(t) \/ Speech(t) = Snapshot)
  /\ conv' = conv /\ feed' = feed /\ app' = app /\ pushed' = pushed /\ missed' = missed
  /\ ~Done(t)'
  /\ \/ Speech(t)' = Snapshot
     \/ /\ Speech(t)'.kind = "transcript" /\ Speech(t)'.change = conv.changes
        /\ Speech(t)'.screen.entries = conv.entries
  /\ \A u \in Teller \ {t} :
       telling'[u] = telling[u] /\ Speech(u)' = Speech(u) /\ (Done(u)' <=> Done(u))

LEMMA ReadiesKeeps ==
  ASSUME FeedInv, FeedTypeOK', TellersInv', NEW t, Readies(t)
  PROVE  FeedInv'
<1> USE DEF FeedInv
<1>1. /\ conv' = conv /\ feed' = feed /\ app' = app /\ pushed' = pushed /\ missed' = missed
      /\ t \in Teller /\ ~Done(t)'
  BY DEF Readies
<1>2. \A u \in Teller \ {t} :
        telling'[u] = telling[u] /\ Speech(u)' = Speech(u) /\ (Done(u)' <=> Done(u))
  BY DEF Readies
<1>3. Speech(t)'.kind \in {"snapshot", "transcript"}
  BY NoticesAre DEF Readies
<1>4. ~Says(t, "assistant") /\ ~Says(t, "transcript") /\ ~(~Done(t) /\ Mute(Speech(t)))
  BY NoticesAre DEF Readies, Says, Mute
<1>5. ~Says(t, "assistant")' /\ ~(~Done(t)' /\ Mute(Speech(t)'))
  BY <1>3 DEF Says, Mute
<1>6. /\ "pump" \in Teller /\ "dart" \in Teller /\ "task" \in Teller
      /\ conv.changes \in Nat /\ conv.changes # conv.changes - 1
  BY ConvIs DEF Teller
<1>7. Says("pump", "assistant")' <=> Says("pump", "assistant")
  BY <1>2, <1>4, <1>5, <1>6 DEF Says
<1>8. Says("pump", "assistant")' => Speech("pump")' = Speech("pump")
  BY <1>2, <1>5, <1>6
<1>9. EntriesInv'
  BY <1>1, Zenon DEF EntriesInv, NoCalls
<1>10. TextInv'
  BY <1>1, <1>7, <1>8, Zenon DEF TextInv
<1>11. ChangesInv'
  <2>1. ASSUME NEW u \in Teller, ~Done(u)', Dated(Speech(u)')
        PROVE  Speech(u)'.change <= conv.changes
    <3>1. CASE u = t
      <4>1. Speech(t)'.change = conv.changes
        BY <2>1, <3>1, NoticesAre DEF Readies, Dated
      <4> QED
        BY <1>6, <3>1, <4>1
    <3>2. CASE u # t
      BY <1>2, <2>1, <3>2 DEF ChangesInv
    <3> QED
      BY <3>1, <3>2
  <2>2. ASSUME NEW u \in Teller, Says(u, "transcript")', Speech(u)'.change = conv.changes
        PROVE  Speech(u)'.screen.entries = conv.entries
    <3>1. CASE u = t
      BY <2>2, <3>1, NoticesAre DEF Readies, Says
    <3>2. CASE u # t
      BY <1>2, <2>2, <3>2 DEF ChangesInv, Says
    <3> QED
      BY <3>1, <3>2
  <2>3. pushed.newest <= conv.changes
    BY DEF ChangesInv
  <2> QED
    BY <1>1, <2>1, <2>2, <2>3 DEF ChangesInv
<1>12. ToldInv'
  <2>1. Brings(t)'
    BY <1>1, <1>3 DEF Readies, Brings, Dated
  <2>2. \A u \in Teller : Brings(u) => Brings(u)'
    BY <1>1, <1>2, <2>1 DEF Brings
  <2>3. pushed'.newest = conv'.changes \/ \E u \in Teller : Brings(u)'
    BY <1>1, <2>2 DEF ToldInv
  <2>4. conv'.sending => pushed'.newest = conv'.changes \/ \E u \in {"pump", "dart"} : Brings(u)'
    BY <1>1, <1>6, <2>2 DEF ToldInv
  <2> QED
    BY <2>3, <2>4 DEF ToldInv
<1>13. Shown' = Shown
  BY <1>1, Zenon DEF Shown
<1>14. TurnInv'
  <2>1. Follows' <=> Follows
    BY <1>1, Zenon DEF Follows, NoCalls
  <2>2. pushed'.newest = conv'.changes /\ Follows' => Shown'.entries = conv'.entries
    BY <1>1, <1>13, <2>1, Zenon DEF TurnInv
  <2>3. ASSUME Says("pump", "assistant")', Speech("pump")'.change = conv'.changes
        PROVE  /\ pushed'.newest < conv'.changes /\ Follows' => Completes(Shown, Speech("pump"))'
               /\ \A u \in Teller :
                    Says(u, "transcript")' /\ Speech(u)'.change = conv'.changes - 1 /\ NoCalls(conv'.entries)
                      => Completes(Speech(u).screen, Speech("pump"))'
    <3>1. /\ Says("pump", "assistant") /\ Speech("pump").change = conv.changes
          /\ Speech("pump")' = Speech("pump")
      BY <1>1, <1>7, <1>8, <2>3, Zenon
    <3>2. pushed'.newest < conv'.changes /\ Follows' => Completes(Shown, Speech("pump"))'
      BY <1>1, <1>13, <2>1, <3>1, Zenon DEF TurnInv, Completes
    <3>3. ASSUME NEW u \in Teller, Says(u, "transcript")', Speech(u)'.change = conv'.changes - 1,
                 NoCalls(conv'.entries)
          PROVE  Completes(Speech(u).screen, Speech("pump"))'
      <4>1. u # t
        <5> SUFFICES ASSUME u = t
                     PROVE  FALSE
          OBVIOUS
        <5>1. Speech(t)'.change = conv.changes
          BY <3>3, NoticesAre DEF Readies, Says
        <5> QED
          BY <1>1, <1>6, <3>3, <5>1
      <4>2. Says(u, "transcript") /\ Speech(u)' = Speech(u)
        BY <1>2, <3>3, <4>1 DEF Says
      <4>3. Completes(Speech(u).screen, Speech("pump"))
        BY <1>1, <3>1, <3>3, <4>2, Zenon DEF TurnInv
      <4> QED
        BY <1>1, <3>1, <4>2, <4>3, Zenon DEF Completes
    <3> QED
      BY <3>2, <3>3
  <2> QED
    BY <2>2, <2>3, Zenon DEF TurnInv
<1>15. IdleInv'
  <2>1. Rest' = Rest
    <3>1. (~Done("task")' /\ Mute(Speech("task")')) <=> (~Done("task") /\ Mute(Speech("task")))
      BY <1>2, <1>4, <1>5, <1>6, Zenon
    <3>2. ~Done("task") /\ Mute(Speech("task")) => telling'["task"] = telling["task"]
      BY <1>2, <1>4, <1>6, Zenon
    <3> QED
      BY <1>7, <3>1, <3>2, Zenon DEF Rest
  <2> QED
    BY <1>1, <2>1, Zenon DEF IdleInv, Settles
<1> QED
  BY <1>9, <1>10, <1>11, <1>12, <1>14, <1>15

LEMMA FailsKeeps ==
  ASSUME FeedInv, DeliveryFails
  PROVE  FeedInv'
<1> DEFINE said == <<Snapshot, Restore, Failure>>
<1>1. FeedTypeOK /\ TellersInv
  BY DEF FeedInv
<1>2. Retells("task", said)
  BY DEF DeliveryFails, Retells, Teller
<1> HIDE DEF said
<1>3. Around
  <2>1. left' \in [DOMAIN FeedBudget -> Nat]
    BY <1>1, UsesIs, FeedAssumption DEF DeliveryFails
  <2>2. delivering' \subseteq Nat /\ feed' = feed /\ pushed' = pushed /\ app' \in Screen
    BY <1>1 DEF DeliveryFails, FeedTypeOK
  <2>3. missed' \in BOOLEAN
    BY <1>1, Zenon DEF DeliveryFails, FeedTypeOK
  <2> QED
    BY <2>1, <2>2, <2>3 DEF Around
<1>4. ASSUME NEW p \in OnScreen, Becomes(Finished(Without(p)), 0, FALSE, 0)
      PROVE  FeedInv'
  BY <1>2, <1>3, <1>4, LostKeeps DEF said
<1>5. CASE UNCHANGED conv
  <2>1. FeedTypeOK'
    <3>1. telling' \in [Teller -> Seq(Notice)]
      BY <1>1, <1>2, RetellsIs
    <3> QED
      BY <1>1, <1>3, <1>5, <3>1, Zenon DEF FeedTypeOK, Around
  <2>2. TellersInv'
    BY <1>1, <1>2, RetellsTellers
  <2>3. Readies("task")
    <3>1. feed' = feed /\ app' = app /\ pushed' = pushed /\ missed' = missed
      BY DEF DeliveryFails
    <3> QED
      BY <1>1, <1>2, <1>5, <3>1, RetellsIs DEF Readies, Retells
  <2> QED
    BY <2>1, <2>2, <2>3, ReadiesKeeps
<1> QED
  <2>1. \/ \E p \in OnScreen : Becomes(Finished(Without(p)), 0, FALSE, 0)
        \/ UNCHANGED conv
    BY Zenon DEF DeliveryFails
  <2> QED
    BY <1>4, <1>5, <2>1

LEMMA SnapshotsKeep ==
  ASSUME FeedInv, NEW t \in Teller, Snapshots(t)
  PROVE  FeedInv'
<1> DEFINE q == telling[t]
           new == [kind |-> "transcript", change |-> conv.changes,
                   screen |-> [entries |-> conv.entries, sending |-> conv.sending]]
           said == <<new>> \o Tail(q)
<1>1. FeedTypeOK /\ TellersInv
  BY DEF FeedInv
<1>2. new \in Notice
  <2>1. conv.changes \in Nat /\ conv.entries \in Seq(Entry) /\ conv.sending \in BOOLEAN
    BY <1>1, ConvIs
  <2> DEFINE screen == [entries |-> conv.entries, sending |-> conv.sending]
  <2>2. screen \in Screen
    BY <2>1, Zenon DEF Screen
  <2> HIDE DEF screen
  <2>3. [kind |-> "transcript", change |-> conv.changes, screen |-> screen] \in Notice
    BY <2>1, <2>2 DEF Notice
  <2> QED
    BY <2>3 DEF screen
<1>3. new.kind = "transcript" /\ new.change = conv.changes /\ new.screen.entries = conv.entries
  OBVIOUS
<1> HIDE DEF new
<1>4. ~Done(t) /\ Speech(t) = Snapshot
  BY DEF Snapshots, Speech
<1>5. /\ q \in Seq(Notice) /\ Speech(t) = q[1] /\ Tail(q) \in Seq(Notice)
      /\ Len(q) \in Nat \ {0} /\ Len(Tail(q)) = Len(q) - 1
      /\ \A i \in DOMAIN Tail(q) : i + 1 \in DOMAIN q /\ Tail(q)[i] = q[i + 1]
  BY <1>1, <1>4, SpeechIs
<1>6. Tells(t, said) /\ said \in Seq(Notice)
  BY <1>2, <1>5 DEF Snapshots, new
<1>7. /\ Len(said) = Len(q) /\ said[1] = new /\ Head(said) = new /\ said # <<>>
      /\ DOMAIN said = 1 .. Len(q) /\ DOMAIN q = 1 .. Len(q)
      /\ \A i \in 2 .. Len(q) : said[i] = q[i]
  <2> DEFINE r == Tail(q)
             n == Len(q)
  <2>1. /\ <<new>> \in Seq(Notice) /\ Len(<<new>>) = 1 /\ <<new>>[1] = new /\ r \in Seq(Notice)
        /\ Len(r) = n - 1 /\ n \in Nat \ {0} /\ DOMAIN r = 1 .. (n - 1) /\ DOMAIN q = 1 .. n
        /\ \A i \in 1 .. (n - 1) : r[i] = q[i + 1]
    BY <1>2, <1>5
  <2> HIDE DEF r, n
  <2>2. /\ Len(said) = 1 + Len(r)
        /\ \A i \in 1 .. 1 + Len(r) : said[i] = IF i <= 1 THEN <<new>>[i] ELSE r[i - 1]
    <3>1. said = <<new>> \o r
      BY DEF r
    <3> HIDE DEF said
    <3> DEFINE head == <<new>>
    <3> HIDE DEF head
    <3>2. /\ Len(head \o r) = Len(head) + Len(r)
          /\ \A i \in 1 .. Len(head) + Len(r) :
               (head \o r)[i] = IF i <= Len(head) THEN head[i] ELSE r[i - Len(head)]
      <4>1. head \in Seq(Notice)
        BY <2>1 DEF head
      <4> QED
        BY <2>1, <4>1, ConcatProperties
    <3>3. Len(head) = 1
      BY <2>1 DEF head
    <3> QED
      BY <3>1, <3>2, <3>3 DEF head
  <2>3. ASSUME NEW i \in 2 .. n
        PROVE  said[i] = q[i]
    <3>1. i \in 1 .. 1 + Len(r) /\ ~(i <= 1) /\ i - 1 \in 1 .. (n - 1) /\ (i - 1) + 1 = i
      BY <2>1
    <3> QED
      BY <2>1, <2>2, <3>1
  <2>4. Len(said) = n /\ 1 \in 1 .. 1 + Len(r) /\ 1 <= 1
    BY <2>1, <2>2
  <2>5. said[1] = new
    BY <2>1, <2>2, <2>4
  <2> QED
    BY <1>6, <2>1, <2>3, <2>4, <2>5 DEF n
<1> HIDE DEF said
<1>8. FeedTypeOK'
  <2>1. telling' \in [Teller -> Seq(Notice)]
    BY <1>1, <1>6, TellsIs
  <2> QED
    BY <1>1, <2>1, Zenon DEF FeedTypeOK, Snapshots
<1>9. TellersInv'
  <2>1. Whole(new) /\ ~Mute(q[1])
    BY <1>3, <1>4, <1>5, NoticesAre DEF Whole, Mute
  <2>2. \A i \in 1 .. Len(q) : i = 1 \/ i \in 2 .. Len(q)
    BY <1>5
  <2>3. DartSays(q) => DartSays(said)
    BY <1>7, <2>1, <2>2 DEF DartSays
  <2>4. PumpSays(q) => PumpSays(said)
    BY <1>7, <2>1, <2>2 DEF PumpSays
  <2>5. TaskSays(q) => TaskSays(said)
    <3> SUFFICES ASSUME TaskSays(q)
                 PROVE  TaskSays(said)
      OBVIOUS
    <3>1. Len(q) <= 3
      BY DEF TaskSays
    <3>2. Len(q) = 3
      <4>1. 1 \in DOMAIN q
        BY <1>5, <1>7
      <4> QED
        BY <2>1, <4>1 DEF TaskSays
    <3>3. \A i \in DOMAIN said : Mute(said[i]) \/ i = 1
      BY <1>7, <2>2 DEF TaskSays
    <3> QED
      BY <1>7, <2>1, <3>2, <3>3 DEF TaskSays
  <2>6. telling'[t] = said /\ \A u \in Teller \ {t} : telling'[u] = telling[u]
    BY <1>1, <1>6, OthersSpeak
  <2>7. \A u \in Teller : u = t \/ telling'[u] = telling[u]
    BY <2>6
  <2>8. "pump" \in Teller /\ "dart" \in Teller /\ "task" \in Teller
    BY DEF Teller
  <2>9. DartSays(telling["dart"]) /\ PumpSays(telling["pump"]) /\ TaskSays(telling["task"])
    BY <1>1 DEF TellersInv
  <2>10. DartSays(telling'["dart"])
    BY <2>3, <2>6, <2>7, <2>8, <2>9, Zenon
  <2>11. PumpSays(telling'["pump"])
    BY <2>4, <2>6, <2>7, <2>8, <2>9, Zenon
  <2>12. TaskSays(telling'["task"])
    BY <2>5, <2>6, <2>7, <2>8, <2>9, Zenon
  <2> QED
    BY <2>10, <2>11, <2>12, Zenon DEF TellersInv
<1>10. Readies(t)
  <2>1. /\ conv' = conv /\ feed' = feed /\ app' = app /\ pushed' = pushed /\ missed' = missed
    BY DEF Snapshots
  <2>2. Speech(t)' = new /\ ~Done(t)'
    BY <1>1, <1>6, <1>7, OthersSpeak
  <2>3. \A u \in Teller \ {t} :
          telling'[u] = telling[u] /\ Speech(u)' = Speech(u) /\ (Done(u)' <=> Done(u))
    BY <1>1, <1>6, OthersSpeak
  <2> QED
    BY <1>3, <1>4, <2>1, <2>2, <2>3 DEF Readies
<1> QED
  BY <1>8, <1>9, <1>10, ReadiesKeeps

LEMMA PollsKeep ==
  ASSUME FeedInv, AppPolls
  PROVE  FeedInv'
<1> USE DEF FeedInv
<1>1. /\ app' = Shown /\ feed' = <<>> /\ conv' = conv /\ delivering' = delivering
      /\ telling' = telling /\ pushed' = pushed /\ missed' = missed /\ left' = left
  BY DEF AppPolls, Shown, DrawnFrom
<1>2. app \in Screen /\ feed \in Seq(Notice)
  BY DEF FeedTypeOK
<1>3. Shown \in Screen
  BY <1>2, DrawnIs DEF Shown
<1>4. Shown' = Shown
  BY <1>1, <1>3, DrawnIs DEF Shown
<1>5. FeedTypeOK'
  <2>1. feed' \in Seq(Notice) /\ Len(feed') <= MaxQueued
    BY <1>1, FeedAssumption
  <2> QED
    BY <1>1, <1>3, <2>1, Zenon DEF FeedTypeOK
<1>6. EntriesInv' /\ TellersInv'
  BY <1>1, Zenon DEF EntriesInv, NoCalls, TellersInv
<1>7. TextInv' /\ ChangesInv' /\ ToldInv'
  <2>1. TextInv'
    BY <1>1, Zenon DEF TextInv, Says, Speech, Done
  <2>2. ChangesInv'
    BY <1>1, Zenon DEF ChangesInv, Says, Speech, Done
  <2>3. ToldInv'
    BY <1>1, Zenon DEF ToldInv, Brings, Speech, Done
  <2> QED
    BY <2>1, <2>2, <2>3
<1>8. TurnInv'
  BY <1>1, <1>4, Zenon DEF TurnInv, Says, Speech, Done, Completes, Follows, NoCalls
<1>9. IdleInv'
  <2> SUFFICES ASSUME pushed'.newest = conv'.changes, ~pushed'.overtaken, ~conv'.sending
               PROVE  \E k \in 0 .. Len(feed') :
                        Settles(feed', k, app', conv'.entries) /\ (k # 0 => (Len(feed') - k) + Rest' <= 3)
    BY DEF IdleInv
  <2>1. PICK k \in 0 .. Len(feed) : Settles(feed, k, app, conv.entries)
    BY <1>1 DEF IdleInv
  <2>2. Shown.entries = conv.entries
    BY <1>2, <2>1, SettledIsDrawn DEF Shown
  <2>3. Len(feed') = 0 /\ 0 \in 0 .. 0 /\ \A i \in (0 + 1) .. 0 : FALSE
    BY <1>1
  <2>4. Settles(feed', 0, app', conv'.entries)
    BY <1>1, <2>2, <2>3 DEF Settles
  <2> QED
    BY <2>3, <2>4
<1> QED
  BY <1>5, <1>6, <1>7, <1>8, <1>9

-----------------------------------------------------------------------------
(* The text that streams, and the text the app is to be told.                *)

LEMMA CompletesBy ==
  ASSUME NEW screen \in Screen, NEW i \in DOMAIN screen.entries, Distinct(screen.entries),
         NEW text \in Nat
  PROVE  WithText(screen, screen.entries[i].id, text).entries
           = [screen.entries EXCEPT ![i] = [screen.entries[i] EXCEPT !.text = text]]
<1> DEFINE es == screen.entries
           m == [es[i] EXCEPT !.text = text]
           changed == [es EXCEPT ![i] = m]
           drawn == WithText(screen, es[i].id, text).entries
<1>1. es \in Seq(Entry) /\ i \in DOMAIN es
  BY DEF Screen
<1>2. es[i] \in Entry
  BY <1>1
<1>3. m \in Entry
  BY <1>2 DEF Entry
<1>4. drawn \in Seq(Entry) /\ DOMAIN drawn = DOMAIN es
      /\ \A j \in DOMAIN es :
           drawn[j] = IF es[j].id = es[i].id THEN [es[j] EXCEPT !.text = text] ELSE es[j]
  <2> DEFINE d == WithText(screen, es[i].id, text)
  <2>1. Rewritten(d, screen, es[i].id, text)
    BY WithTextIs
  <2> HIDE DEF d
  <2>2. d.entries \in Seq(Entry)
    BY <2>1 DEF Rewritten, Screen
  <2>3. DOMAIN d.entries = DOMAIN es
        /\ \A j \in DOMAIN es :
             d.entries[j] = IF es[j].id = es[i].id THEN [es[j] EXCEPT !.text = text] ELSE es[j]
    BY <2>1 DEF Rewritten
  <2> QED
    BY <2>2, <2>3 DEF d
<1> HIDE DEF drawn, m
<1>5. changed \in Seq(Entry) /\ DOMAIN changed = DOMAIN es
      /\ \A j \in DOMAIN es : changed[j] = IF j = i THEN m ELSE es[j]
  BY <1>1, <1>3
<1> HIDE DEF changed
<1>6. ASSUME NEW j \in DOMAIN es
      PROVE  drawn[j] = changed[j]
  <2>1. CASE j = i
    BY <1>1, <1>4, <1>5, <2>1 DEF m
  <2>2. CASE j # i
    <3>1. es[j].id # es[i].id
      BY <1>1, <2>2 DEF Distinct
    <3> QED
      BY <1>4, <1>5, <2>2, <3>1
  <2> QED
    BY <2>1, <2>2
<1>7. drawn = changed
  BY <1>4, <1>5, <1>6
<1> QED
  BY <1>7 DEF drawn, changed, m

LEMMA SameEntry ==
  ASSUME NEW x \in Entry, NEW y \in Entry, x.id = y.id, x.by = y.by, x.text = y.text,
         x.open <=> y.open, x.calls = y.calls
  PROVE  x = y
<1>1. x.open = y.open
  BY Zenon DEF Entry
<1> QED
  BY <1>1 DEF Entry

LEMMA DeltaKeeps ==
  ASSUME FeedInv, FoldsDelta
  PROVE  FeedInv'
<1> DEFINE es == conv.entries
           n == Len(es)
           I == {j \in 1 .. n : es[j].open /\ es[j].calls = 0}
           i == SelectLastInSeq(es, LAMBDA m : m.open /\ m.calls = 0)
           text == conv.streamed + 1
           id == IF i = 0 THEN NewId ELSE es[i].id
           e == Streamed(id, text, 0)
           s == [kind |-> "assistant", id |-> id, text |-> text, change |-> conv'.changes]
           more == IF i = 0 THEN 1 ELSE 0
           new == IF i = 0 THEN Append(es, e) ELSE [es EXCEPT ![i] = e]
<1> USE DEF FeedInv
<1>1. /\ es \in Seq(Entry) /\ n \in Nat /\ DOMAIN es = 1 .. n /\ \A j \in 1 .. n : es[j] \in Entry
      /\ conv.streamed \in Nat /\ text \in Nat /\ conv.made \in Nat /\ NewId \in Nat
      /\ NewId = conv.made + 1 /\ conv.changes \in Nat /\ Numbered(es, conv.made)
      /\ conv.made + 1 \in Nat /\ 0 \in Nat /\ 1 \in Nat /\ TRUE \in BOOLEAN
  BY ConvIs DEF NewId, EntriesInv
<1>2. i = IF I = {} THEN 0 ELSE Max(I)
  BY DEF SelectLastInSeq
<1>3. /\ PutsInto(i, e, text) /\ Tells("pump", <<s>>) /\ Done("pump") /\ Done("dart") /\ conv.sending
      /\ feed' = feed /\ app' = app /\ pushed' = pushed /\ missed' = missed
  BY DEF FoldsDelta, Folds
<1> HIDE DEF i, text
<1>4. /\ I = {} <=> i = 0
      /\ i # 0 => i \in I
  <2>1. I \in SUBSET (1 .. n)
    OBVIOUS
  <2> HIDE DEF I, n
  <2>2. I # {} => Max(I) \in I /\ Max(I) \in 1 .. n
    BY <1>1, <2>1, MaxIn
  <2>3. I # {} => Max(I) # 0
    BY <1>1, <2>2
  <2> QED
    BY <1>2, <2>2, <2>3
<1>5. i # 0 => i \in DOMAIN es /\ es[i] \in Entry /\ es[i].open /\ es[i].calls = 0
  <2> SUFFICES ASSUME i # 0
               PROVE  i \in DOMAIN es /\ es[i] \in Entry /\ es[i].open /\ es[i].calls = 0
    OBVIOUS
  <2>1. i \in I
    BY <1>4, Zenon
  <2>2. i \in DOMAIN es /\ es[i] \in Entry /\ es[i].calls = 0
    BY <1>1, <2>1
  <2>3. es[i].open
    BY <2>1, Zenon
  <2> QED
    BY <2>2, <2>3
<1>6. id \in Nat /\ e \in Entry /\ e.id = id /\ e.by = "assistant" /\ e.open /\ e.text = text /\ e.calls = 0
  <2>1. id \in Nat
    BY <1>1, <1>5 DEF Entry
  <2> HIDE DEF id
  <2>2. Streamed(id, text, 0).text = text
    BY <1>1, <2>1 DEF Streamed
  <2>3. /\ e \in Entry /\ e.id = id /\ e.by = "assistant" /\ e.text = text /\ e.calls = 0
    BY <1>1, <2>1, <2>2, StreamedIs
  <2>4. e.open
    BY <1>1, <2>1, StreamedIs, Zenon
  <2> QED
    BY <2>1, <2>3, <2>4
<1> HIDE DEF e
<1>7. /\ new \in Seq(Entry) /\ Numbered(new, conv.made + more) /\ more \in Nat
      /\ i # 0 => DOMAIN new = DOMAIN es /\ \A j \in DOMAIN es : new[j] = IF j = i THEN e ELSE es[j]
      /\ i = 0 => Len(new) = n + 1 /\ new[n + 1] = e /\ \A j \in DOMAIN es : new[j] = es[j]
  <2>1. CASE i = 0
    <3>1. conv.made < e.id /\ e.id <= conv.made + 1 /\ new = Append(es, e) /\ more = 1
      BY <1>1, <1>6, <2>1
    <3> HIDE DEF es, id, more, new
    <3>2. /\ Append(es, e) \in Seq(Entry) /\ Numbered(Append(es, e), conv.made + 1)
          /\ Len(Append(es, e)) = Len(es) + 1 /\ Append(es, e)[Len(es) + 1] = e
          /\ \A j \in DOMAIN es : Append(es, e)[j] = es[j]
      BY <1>1, <1>6, <3>1, NumberedAppend
    <3> QED
      BY <1>1, <2>1, <3>1, <3>2
  <2>2. CASE i # 0
    <3>1. i \in DOMAIN es /\ e.id = es[i].id /\ new = [es EXCEPT ![i] = e] /\ more = 0
          /\ conv.made + more = conv.made
      BY <1>1, <1>5, <1>6, <2>2
    <3> HIDE DEF es, id, more, new
    <3>2. /\ [es EXCEPT ![i] = e] \in Seq(Entry) /\ Numbered([es EXCEPT ![i] = e], conv.made)
          /\ DOMAIN [es EXCEPT ![i] = e] = DOMAIN es
          /\ \A j \in DOMAIN es : [es EXCEPT ![i] = e][j] = IF j = i THEN e ELSE es[j]
      BY <1>1, <1>6, <3>1, NumberedExcept
    <3> QED
      BY <1>1, <2>2, <3>1, <3>2
  <2> QED
    BY <2>1, <2>2
<1>8. Becomes(new, text, TRUE, more)
  BY <1>3, Zenon DEF PutsInto
<1> HIDE DEF new, id
<1>9. /\ conv' \in [entries : Seq(Entry), sending : BOOLEAN, streamed : Nat, made : Nat, changes : Nat]
      /\ conv'.entries = new /\ conv'.sending = TRUE
      /\ conv'.made = conv.made + more /\ conv'.changes = conv.changes + 1
  BY <1>1, <1>7, <1>8, BecomesIs
<1>10. PICK at \in DOMAIN new : new[at] = e
  <2>1. CASE i = 0
    <3>1. n + 1 \in DOMAIN new
      BY <1>1, <1>7, <2>1
    <3> QED
      BY <1>7, <2>1, <3>1
  <2>2. CASE i # 0
    BY <1>5, <1>7, <2>2
  <2> QED
    BY <2>1, <2>2
<1>11. /\ s \in Notice /\ s.kind = "assistant" /\ s.id = id /\ s.text = text
       /\ s.change = conv.changes + 1 /\ conv.changes + 1 \in Nat
  BY <1>1, <1>6, <1>9 DEF Notice
<1> HIDE DEF s
<1>12. /\ <<s>> \in Seq(Notice) /\ Head(<<s>>) = s /\ <<s>> # <<>>
       /\ "pump" \in Teller /\ "dart" \in Teller /\ "task" \in Teller
       /\ Teller = {"pump", "dart", "task"}
  BY <1>11 DEF Teller
<1>13. /\ telling'["pump"] = <<s>> /\ Speech("pump")' = s /\ ~Done("pump")'
       /\ \A u \in Teller \ {"pump"} :
            telling'[u] = telling[u] /\ Speech(u)' = Speech(u) /\ (Done(u)' <=> Done(u))
  BY <1>3, <1>12, OthersSpeak
<1>14. FeedTypeOK'
  <2>1. telling' \in [Teller -> Seq(Notice)]
    BY <1>3, <1>12, TellsIs
  <2>2. left' \in [DOMAIN FeedBudget -> Nat]
    BY UsesIs, FeedAssumption DEF FoldsDelta
  <2>3. delivering' \subseteq Nat
    BY DEF FoldsDelta, Folds, FeedTypeOK
  <2> QED
    BY <1>3, <1>9, <2>1, <2>2, <2>3, Zenon DEF FeedTypeOK
<1>15. EntriesInv'
  <2>1. Numbered(conv'.entries, conv'.made)
    BY <1>7, <1>9, Zenon
  <2>2. \E j \in DOMAIN conv'.entries : conv'.entries[j].open
    BY <1>6, <1>9, <1>10, Zenon
  <2> QED
    BY <2>1, <2>2, Zenon DEF EntriesInv, NoCalls
<1>16. TellersInv'
  <2>1. PumpSays(<<s>>)
    BY <1>11 DEF PumpSays
  <2>2. telling'["dart"] = telling["dart"] /\ telling'["task"] = telling["task"]
    BY <1>12, <1>13
  <2> QED
    BY <1>13, <2>1, <2>2, Zenon DEF TellersInv
<1>17. pushed.newest = conv.changes
  BY <1>3 DEF ToldInv, Brings
<1>18. TextInv'
  <2>1. s.id <= conv'.made
    <3>1. i # 0 => es[i].id <= conv.made
      BY <1>1, <1>5 DEF Numbered
    <3>2. id <= conv.made + more
      BY <1>1, <1>6, <3>1 DEF id
    <3> QED
      BY <1>9, <1>11, <3>2
  <2>2. Harmless(s, conv'.entries)
    <3>1. \A j \in DOMAIN new : new[j].id = id => new[j].text = text
      BY <1>6, <1>7, <1>10 DEF Numbered, Distinct
    <3> QED
      BY <1>9, <1>11, <3>1 DEF Harmless
  <2>3. conv'.sending /\ pushed'.newest >= conv'.changes - 1
    BY <1>1, <1>3, <1>9, <1>17
  <2> QED
    BY <1>13, <2>1, <2>2, <2>3 DEF TextInv
<1>19. ASSUME NEW u \in Teller \ {"pump"}, ~Done(u), Dated(Speech(u))
       PROVE  Speech(u).change \in Nat /\ Speech(u).change <= conv.changes
  <2>1. Speech(u) \in Notice
    BY <1>19, SpeechIs
  <2> QED
    BY <1>19, <2>1, NoticeIs DEF ChangesInv, Dated
<1>20. ChangesInv'
  <2>1. ASSUME NEW u \in Teller, ~Done(u)', Dated(Speech(u)')
        PROVE  Speech(u)'.change <= conv.changes + 1
    <3>1. CASE u = "pump"
      BY <1>1, <1>11, <1>13, <3>1
    <3>2. CASE u # "pump"
      BY <1>1, <1>13, <1>19, <2>1, <3>2
    <3> QED
      BY <3>1, <3>2
  <2>2. ASSUME NEW u \in Teller, Says(u, "transcript")'
        PROVE  Speech(u)'.change # conv.changes + 1
    <3>1. u # "pump"
      BY <1>11, <1>13, <2>2 DEF Says
    <3>2. ~Done(u) /\ Dated(Speech(u)) /\ Speech(u)' = Speech(u)
      BY <1>13, <2>2, <3>1 DEF Says, Dated
    <3> QED
      BY <1>1, <1>19, <3>1, <3>2
  <2>3. pushed'.newest <= conv'.changes
    BY <1>1, <1>3, <1>9, <1>17
  <2> QED
    BY <1>9, <2>1, <2>2, <2>3 DEF ChangesInv
<1>21. ToldInv'
  <2>1. Brings("pump")'
    BY <1>9, <1>11, <1>13 DEF Brings, Dated
  <2> QED
    BY <1>12, <2>1 DEF ToldInv
<1>22. ASSUME NEW screen \in Screen, screen.entries = es, NoCalls(new)
       PROVE  WithText(screen, id, text).entries = new
  <2>1. NoCalls(es)
    <3>1. CASE i = 0
      <4>1. \A j \in DOMAIN es : new[j] = es[j] /\ j \in DOMAIN new
        BY <1>1, <1>7, <3>1
      <4> QED
        BY <1>22, <4>1 DEF NoCalls
    <3>2. CASE i # 0
      <4>1. \A j \in DOMAIN es : j # i => new[j] = es[j] /\ j \in DOMAIN new
        BY <1>7, <3>2
      <4> QED
        BY <1>5, <1>22, <3>2, <4>1 DEF NoCalls
    <3> QED
      BY <3>1, <3>2
  <2>2. i # 0
    <3>1. PICK j \in DOMAIN es : es[j].open
      BY <1>3, <2>1 DEF EntriesInv
    <3>2. j \in I
      BY <1>1, <2>1, <3>1 DEF NoCalls
    <3> QED
      BY <1>4, <3>2
  <2>3. i \in DOMAIN es /\ es[i] \in Entry /\ es[i].open /\ es[i].calls = 0
    BY <1>5, <2>2
  <2>4. es[i].by = "assistant"
    BY <1>1, <2>3, Zenon DEF Numbered
  <2>5. id = es[i].id
    BY <2>2 DEF id
  <2>6. [es[i] EXCEPT !.text = text] = e
    <3> DEFINE m == [es[i] EXCEPT !.text = text]
    <3>1. /\ m \in Entry /\ m.id = id /\ m.by = "assistant" /\ m.text = text /\ m.calls = 0
          /\ m.open = es[i].open
      BY <1>1, <2>3, <2>4, <2>5 DEF Entry
    <3> HIDE DEF m
    <3>2. m.open <=> e.open
      BY <1>6, <2>3, <3>1, Zenon
    <3> QED
      BY <1>6, <3>1, <3>2, SameEntry DEF m
  <2>7. new = [es EXCEPT ![i] = e]
    BY <2>2 DEF new
  <2>8. WithText(screen, screen.entries[i].id, text).entries
          = [screen.entries EXCEPT ![i] = [screen.entries[i] EXCEPT !.text = text]]
    <3>1. Distinct(screen.entries) /\ i \in DOMAIN screen.entries
      BY <1>1, <1>22, <2>3 DEF Numbered
    <3> QED
      BY <1>1, <3>1, CompletesBy
  <2> QED
    BY <1>22, <2>5, <2>6, <2>7, <2>8, Zenon
<1>23. TurnInv'
  <2>1. pushed'.newest # conv'.changes
    BY <1>1, <1>3, <1>9, <1>17
  <2>2. Shown' = Shown /\ Shown \in Screen
    <3>1. app \in Screen /\ feed \in Seq(Notice)
      BY DEF FeedTypeOK
    <3> QED
      BY <1>3, <3>1, DrawnIs DEF Shown
  <2>3. ASSUME Follows'
        PROVE  Completes(Shown, Speech("pump"))'
    <3>1. NoCalls(new) /\ ~pushed.overtaken /\ ~missed
      BY <1>3, <1>9, <2>3, Zenon DEF Follows, NoCalls
    <3>2. NoCalls(es)
      <4>1. CASE i = 0
        <5>1. \A j \in DOMAIN es : new[j] = es[j] /\ j \in DOMAIN new
          BY <1>1, <1>7, <4>1
        <5> QED
          BY <3>1, <5>1 DEF NoCalls
      <4>2. CASE i # 0
        <5>1. \A j \in DOMAIN es : j # i => new[j] = es[j] /\ j \in DOMAIN new
          BY <1>7, <4>2
        <5> QED
          BY <1>5, <3>1, <4>2, <5>1 DEF NoCalls
      <4> QED
        BY <4>1, <4>2
    <3>3. Shown.entries = es
      BY <1>3, <1>17, <3>1, <3>2 DEF TurnInv, Follows
    <3>4. WithText(Shown, id, text).entries = new
      BY <1>22, <2>2, <3>1, <3>3
    <3> QED
      BY <1>9, <1>11, <1>13, <2>2, <3>4, Zenon DEF Completes
  <2>4. ASSUME NEW u \in Teller, Says(u, "transcript")', Speech(u)'.change = conv'.changes - 1,
               NoCalls(conv'.entries)
        PROVE  Completes(Speech(u).screen, Speech("pump"))'
    <3>1. u # "pump"
      BY <1>11, <1>13, <2>4 DEF Says
    <3>2. Says(u, "transcript") /\ Speech(u)' = Speech(u)
      BY <1>13, <2>4, <3>1 DEF Says
    <3>3. Speech(u).change = conv.changes
      BY <1>1, <1>9, <2>4, <3>2
    <3>4. Speech(u).screen.entries = es /\ Speech(u).screen \in Screen
      <4>1. Speech(u) \in Notice
        BY <3>2, SpeechIs DEF Says
      <4> QED
        BY <3>2, <3>3, <4>1, NoticeIs DEF ChangesInv, Says
    <3>5. WithText(Speech(u).screen, id, text).entries = new
      BY <1>9, <1>22, <2>4, <3>4
    <3> QED
      BY <1>9, <1>11, <1>13, <3>2, <3>5, Zenon DEF Completes
  <2> QED
    BY <2>1, <2>3, <2>4, Zenon DEF TurnInv
<1>24. IdleInv'
  BY <1>9 DEF IdleInv
<1> QED
  BY <1>14, <1>15, <1>16, <1>18, <1>20, <1>21, <1>23, <1>24

-----------------------------------------------------------------------------
(* A push.                                                                   *)

LEMMA SettlesAppend ==
  ASSUME NEW kept \in Seq(Notice), NEW e \in Notice, NEW k, NEW screen, NEW es,
         Settles(kept, k, screen, es), Harmless(e, es)
  PROVE  Settles(Append(kept, e), k, screen, es)
<1> DEFINE n == Len(kept)
           q == Append(kept, e)
<1>1. /\ n \in Nat /\ Len(q) = n + 1 /\ q[n + 1] = e /\ \A i \in 1 .. n : q[i] = kept[i]
      /\ k \in 0 .. n
  BY DEF Settles
<1> HIDE DEF q, n
<1>2. k \in 0 .. n + 1
  BY <1>1
<1>3. k # 0 => q[k] = kept[k]
  BY <1>1
<1>4. ASSUME NEW i \in (k + 1) .. (n + 1)
      PROVE  Harmless(q[i], es)
  <2>1. CASE i = n + 1
    BY <1>1, <2>1
  <2>2. CASE i # n + 1
    <3>1. i \in 1 .. n /\ i \in (k + 1) .. n
      BY <1>1, <2>2
    <3>2. Harmless(kept[i], es)
      BY <3>1 DEF Settles, n
    <3> QED
      BY <1>1, <3>1, <3>2
  <2> QED
    BY <2>1, <2>2
<1> QED
  BY <1>1, <1>2, <1>3, <1>4 DEF Settles, q

LEMMA SettlesTail ==
  ASSUME NEW q \in Seq(Notice), q # <<>>, NEW k, NEW screen, NEW es,
         Settles(q, k, screen, es), k # 1
  PROVE  Settles(Tail(q), IF k = 0 THEN 0 ELSE k - 1, screen, es)
<1> DEFINE n == Len(q)
           r == Tail(q)
           l == IF k = 0 THEN 0 ELSE k - 1
<1>1. /\ n \in Nat \ {0} /\ Len(r) = n - 1 /\ \A i \in 1 .. (n - 1) : r[i] = q[i + 1]
      /\ k \in 0 .. n
  BY EmptySeq DEF Settles
<1> HIDE DEF r, n
<1>2. l \in 0 .. (n - 1) /\ (l = 0 <=> k = 0) /\ (l # 0 => l \in 1 .. (n - 1) /\ l + 1 = k)
  BY <1>1
<1>3. k # 0 => r[l] = q[k]
  BY <1>1, <1>2
<1>4. ASSUME NEW i \in (l + 1) .. (n - 1)
      PROVE  Harmless(r[i], es)
  <2>1. i \in 1 .. (n - 1) /\ i + 1 \in (k + 1) .. n
    BY <1>1, <1>2
  <2>2. Harmless(q[i + 1], es)
    BY <2>1 DEF Settles, n
  <2> QED
    BY <1>1, <2>1, <2>2
<1> HIDE DEF l
<1>5. Settles(r, l, screen, es)
  BY <1>1, <1>2, <1>3, <1>4 DEF Settles
<1> QED
  BY <1>5 DEF r, l

LEMMA SettlesFront ==
  ASSUME NEW kept \in Seq(Notice), NEW before \in Notice, before.kind = "assistant",
         NEW k, NEW screen, NEW es, Settles(Append(kept, before), k, screen, es)
  PROVE  Settles(kept, k, screen, es)
<1> DEFINE n == Len(kept)
           q == Append(kept, before)
<1>1. /\ n \in Nat /\ Len(q) = n + 1 /\ q[n + 1] = before /\ \A i \in 1 .. n : q[i] = kept[i]
      /\ k \in 0 .. n + 1
  BY DEF Settles
<1>2. Settles(q, k, screen, es)
  OBVIOUS
<1> HIDE DEF q, n
<1>3. k # n + 1
  BY <1>1, <1>2 DEF Settles
<1>4. k \in 0 .. n /\ (k # 0 => q[k] = kept[k])
  BY <1>1, <1>3
<1>5. ASSUME NEW i \in (k + 1) .. n
      PROVE  Harmless(kept[i], es)
  <2>1. i \in 1 .. n /\ i \in (k + 1) .. (n + 1)
    BY <1>1
  <2>2. Harmless(q[i], es)
    BY <1>1, <1>2, <2>1 DEF Settles
  <2> QED
    BY <1>1, <2>1, <2>2
<1> QED
  BY <1>2, <1>4, <1>5 DEF Settles, n

(* The queue lets go of its oldest only, and that is not the transcript that *)
(* settles it.                                                               *)
LEMMA CappedIs ==
  ASSUME NEW q \in Seq(Notice), Len(q) \in 1 .. MaxQueued + 1
  PROVE  /\ Capped(q) \in Seq(Notice) /\ Len(Capped(q)) <= MaxQueued
         /\ Len(q) <= MaxQueued => Capped(q) = q
         /\ Len(q) > MaxQueued => Capped(q) = Tail(q) /\ q # <<>> /\ Len(Capped(q)) = Len(q) - 1
<1>1. MaxQueued \in Nat /\ MaxQueued >= 4 /\ Len(q) \in Nat
  BY FeedAssumption
<1>2. CASE Len(q) > MaxQueued
  <2>1. q # <<>>
    BY <1>1, <1>2
  <2> DEFINE r == Tail(q)
  <2>2. r \in Seq(Notice) /\ Len(r) = Len(q) - 1
    BY <2>1, HeadTailProperties
  <2>3. Capped(q) = r
    BY <1>2 DEF Capped
  <2> HIDE DEF r
  <2>4. Len(Capped(q)) <= MaxQueued
    BY <1>1, <2>2, <2>3
  <2>5. Capped(q) = Tail(q)
    BY <2>3 DEF r
  <2> DEFINE c == Capped(q)
  <2>6. c \in Seq(Notice) /\ Len(c) = Len(q) - 1 /\ Len(c) <= MaxQueued /\ c = Tail(q)
    BY <2>2, <2>3, <2>4, <2>5
  <2>7. ~(Len(q) <= MaxQueued)
    BY <1>1, <1>2
  <2> HIDE DEF c
  <2> QED
    BY <2>1, <2>6, <2>7, Zenon DEF c
<1>3. CASE ~(Len(q) > MaxQueued)
  <2>1. Capped(q) = q
    BY <1>3 DEF Capped
  <2> QED
    BY <1>1, <1>3, <2>1
<1> QED
  BY <1>2, <1>3

LEMMA StaysSettled ==
  ASSUME NEW kept \in Seq(Notice), Len(kept) <= MaxQueued, NEW e \in Notice, NEW k, NEW screen, NEW es,
         Settles(kept, k, screen, es), Harmless(e, es), NEW r \in 1 .. 3,
         k # 0 => (Len(kept) - k) + r <= 3
  PROVE  \E l \in 0 .. Len(Capped(Append(kept, e))) :
           /\ Settles(Capped(Append(kept, e)), l, screen, es)
           /\ l # 0 => (Len(Capped(Append(kept, e))) - l) + (r - 1) <= 3
<1> DEFINE n == Len(kept)
           q == Append(kept, e)
           c == Capped(q)
<1>1. /\ n \in Nat /\ MaxQueued \in Nat /\ MaxQueued >= 4 /\ n <= MaxQueued
      /\ q \in Seq(Notice) /\ Len(q) = n + 1 /\ k \in 0 .. n
  BY FeedAssumption DEF Settles
<1>2. Settles(q, k, screen, es)
  BY SettlesAppend
<1> HIDE DEF q, n
<1>3. Len(q) \in 1 .. MaxQueued + 1
  BY <1>1
<1>4. /\ c \in Seq(Notice) /\ Len(c) <= MaxQueued
      /\ Len(q) <= MaxQueued => c = q
      /\ Len(q) > MaxQueued => c = Tail(q) /\ q # <<>> /\ Len(c) = Len(q) - 1
  BY <1>1, <1>3, CappedIs
<1> HIDE DEF c
<1>5. k # 0 => (n - k) + r <= 3
  BY DEF n
<1>6. CASE Len(q) <= MaxQueued
  <2>1. k \in 0 .. Len(c) /\ (k # 0 => (Len(c) - k) + (r - 1) <= 3)
    BY <1>1, <1>4, <1>5, <1>6
  <2>2. Settles(c, k, screen, es)
    BY <1>2, <1>4, <1>6
  <2> QED
    BY <2>1, <2>2 DEF q, c
<1>7. CASE Len(q) > MaxQueued
  <2> DEFINE l == IF k = 0 THEN 0 ELSE k - 1
  <2>1. k # 1
    BY <1>1, <1>5, <1>7
  <2>2. Settles(c, l, screen, es)
    BY <1>1, <1>2, <1>4, <1>7, <2>1, SettlesTail
  <2>3. l \in 0 .. Len(c) /\ (l # 0 => (Len(c) - l) + (r - 1) <= 3)
    BY <1>1, <1>4, <1>5, <1>7, <2>1
  <2> HIDE DEF l
  <2> QED
    BY <2>2, <2>3 DEF q, c
<1> QED
  BY <1>1, <1>6, <1>7

LEMMA RestIs ==
  ASSUME FeedTypeOK, TellersInv
  PROVE  /\ Rest \in 0 .. 3
         /\ Says("pump", "assistant") => Rest \in 1 .. 3
         /\ ~Done("task") /\ Mute(Speech("task")) => Rest \in 1 .. 3
<1> DEFINE q == telling["task"]
           a == IF Says("pump", "assistant") THEN 1 ELSE 0
           b == IF ~Done("task") /\ Mute(Speech("task")) THEN Len(q) ELSE 0
<1>1. "task" \in Teller
  BY DEF Teller
<1>2. ASSUME ~Done("task"), Mute(Speech("task"))
      PROVE  Len(q) \in 1 .. 2
  <2>1. Len(q) \in Nat \ {0} /\ Speech("task") = q[1]
    BY <1>1, <1>2, SpeechIs
  <2>2. Len(q) <= 3 /\ (Len(q) = 3 => Whole(q[1]))
    BY DEF TellersInv, TaskSays
  <2>3. ~Whole(q[1])
    BY <1>2, <2>1 DEF Mute, Whole
  <2> DEFINE n == Len(q)
  <2>4. n \in Nat \ {0} /\ n <= 3 /\ n # 3
    BY <2>1, <2>2, <2>3
  <2> HIDE DEF n
  <2>5. n \in 1 .. 2
    BY <2>4
  <2> QED
    BY <2>5 DEF n
<1>3. a \in 0 .. 1 /\ b \in 0 .. 2 /\ (Says("pump", "assistant") => a = 1)
      /\ (~Done("task") /\ Mute(Speech("task")) => b \in 1 .. 2)
  BY <1>2
<1>4. Rest = a + b
  BY DEF Rest
<1> HIDE DEF a, b
<1> QED
  BY <1>3, <1>4

(* Thread t pushes e: the queue, what the app will be shown, and the others. *)
Pushed(t, e) ==
  /\ t \in Teller /\ ~Done(t) /\ e = Speech(t) /\ e \in Notice /\ e.kind # "snapshot"
  /\ FeedTypeOK'
  /\ conv' = conv /\ app' = app /\ feed' = Capped(Queued(e, feed))
  /\ ~missed' => ~missed /\ Shown'.entries = DrawnOn(Shown, e).entries
  /\ telling'[t] = Tail(telling[t])
  /\ \A u \in Teller \ {t} :
       telling'[u] = telling[u] /\ Speech(u)' = Speech(u) /\ (Done(u)' <=> Done(u))
  /\ Done(t)' \/ (t = "task" /\ Mute(Speech(t)'))
  /\ e.kind = "assistant" => t = "pump"
  /\ Mute(e) => t = "task"

LEMMA PushIs ==
  ASSUME FeedInv, NEW t \in Teller, Pushes(t)
  PROVE  Pushed(t, Speech(t)) /\ TellersInv'
<1> USE DEF FeedInv
<1> DEFINE e == Speech(t)
           q == telling[t]
           r == Tail(q)
           n == Len(q)
           Q == Queued(e, feed)
<1>1. ~Done(t) /\ e # Snapshot
  BY DEF Pushes, Speech
<1>2. /\ q \in Seq(Notice) /\ e \in Notice /\ e = q[1] /\ 1 \in DOMAIN q /\ r \in Seq(Notice)
      /\ n \in Nat \ {0} /\ Len(r) = n - 1
      /\ \A i \in DOMAIN r : i + 1 \in DOMAIN q /\ r[i] = q[i + 1]
  BY <1>1, SpeechIs
<1>3. e.kind # "snapshot" /\ e.kind \in {"composer_restore", "error", "assistant", "transcript"}
  BY <1>1, <1>2, NoticeIs
<1>4. /\ feed' = Capped(Q) /\ missed' = (missed \/ Len(Q) > MaxQueued) /\ Tells(t, r)
      /\ conv' = conv /\ delivering' = delivering /\ app' = app /\ left' = left
      /\ pushed' = IF "change" \notin DOMAIN e THEN pushed
                   ELSE IF e.change < pushed.newest
                        THEN [pushed EXCEPT !.overtaken = (@ \/ e.kind = "transcript")]
                   ELSE [newest |-> e.change, overtaken |-> pushed.overtaken /\ e.kind = "assistant"]
  BY DEF Pushes, Speech
<1> HIDE DEF e
<1>5. /\ Q \in Seq(Notice) /\ Len(Q) \in 1 .. MaxQueued + 1
      /\ DrawnFrom(app, Q).entries = DrawnOn(Shown, e).entries
  BY <1>2, PushIsShown
<1> HIDE DEF Q
<1>6. /\ Capped(Q) \in Seq(Notice) /\ Len(Capped(Q)) <= MaxQueued
      /\ Len(Q) <= MaxQueued => Capped(Q) = Q
  BY <1>5, CappedIs
<1>7. /\ telling' \in [Teller -> Seq(Notice)] /\ telling'[t] = r
      /\ \A u \in Teller \ {t} :
           telling'[u] = telling[u] /\ Speech(u)' = Speech(u) /\ (Done(u)' <=> Done(u))
  BY <1>2, <1>4, TellsIs, OthersSpeak
<1>8. FeedTypeOK'
  <2>1. missed' \in BOOLEAN
    BY <1>4, Zenon
  <2>2. pushed' \in [newest : Nat, overtaken : BOOLEAN]
    <3>1. pushed \in [newest : Nat, overtaken : BOOLEAN]
      BY DEF FeedTypeOK
    <3>2. CASE "change" \notin DOMAIN e
      BY <1>4, <3>1, <3>2, Zenon
    <3>3. CASE "change" \in DOMAIN e /\ e.change < pushed.newest
      <4> DEFINE o == (pushed.overtaken \/ e.kind = "transcript")
      <4>1. o \in BOOLEAN /\ pushed' = [pushed EXCEPT !.overtaken = o]
        BY <1>4, <3>3, Zenon
      <4> HIDE DEF o
      <4> QED
        BY <3>1, <4>1
    <3>4. CASE "change" \in DOMAIN e /\ ~(e.change < pushed.newest)
      <4> DEFINE o == (pushed.overtaken /\ e.kind = "assistant")
      <4>1. o \in BOOLEAN /\ pushed' = [newest |-> e.change, overtaken |-> o]
        BY <1>4, <3>4, Zenon
      <4>2. e.change \in Nat
        BY <1>2, <3>4, NoticeIs
      <4> HIDE DEF o
      <4> QED
        BY <4>1, <4>2
    <3> QED
      BY <3>2, <3>3, <3>4
  <2> QED
    BY <1>4, <1>6, <1>7, <2>1, <2>2, Zenon DEF FeedTypeOK
<1>9. ~missed' => ~missed /\ Shown'.entries = DrawnOn(Shown, e).entries
  <2> SUFFICES ASSUME ~missed'
               PROVE  ~missed /\ Shown'.entries = DrawnOn(Shown, e).entries
    OBVIOUS
  <2>1. ~missed /\ ~(Len(Q) > MaxQueued)
    BY <1>4
  <2>2. Len(Q) <= MaxQueued
    BY <1>5, <2>1, FeedAssumption
  <2>3. feed' = Q
    BY <1>4, <1>6, <2>2
  <2> QED
    BY <1>4, <1>5, <2>1, <2>3, Zenon DEF Shown
<1>10. Teller = {"pump", "dart", "task"}
  BY DEF Teller
<1>11. /\ t = "dart" => Len(q) <= 1 /\ Whole(e)
       /\ t = "pump" => Len(q) <= 1 /\ (Whole(e) \/ e.kind = "assistant")
       /\ t = "task" => Len(q) <= 3 /\ (Mute(e) \/ Whole(e)) /\ \A i \in DOMAIN q : i # 1 => Mute(q[i])
  <2>1. t = "dart" => DartSays(q)
    BY DEF TellersInv
  <2>2. t = "pump" => PumpSays(q)
    BY DEF TellersInv
  <2>3. t = "task" => TaskSays(q)
    BY DEF TellersInv
  <2> HIDE DEF q
  <2> QED
    BY <1>2, <2>1, <2>2, <2>3 DEF DartSays, PumpSays, TaskSays, n
<1>12. t # "task" => r = <<>>
  <2> SUFFICES ASSUME t # "task"
               PROVE  r = <<>>
    OBVIOUS
  <2>1. n <= 1
    BY <1>10, <1>11
  <2> HIDE DEF r, n
  <2>2. Len(r) = 0
    BY <1>2, <2>1
  <2> QED
    BY <1>2, <2>2, EmptySeq
<1>13. t = "task" => /\ Len(r) <= 2 /\ \A i \in DOMAIN r : Mute(r[i])
                     /\ r # <<>> => Mute(Head(r))
  <2> SUFFICES ASSUME t = "task"
               PROVE  /\ Len(r) <= 2 /\ \A i \in DOMAIN r : Mute(r[i])
                      /\ r # <<>> => Mute(Head(r))
    OBVIOUS
  <2>1. n <= 3 /\ \A i \in DOMAIN q : i # 1 => Mute(q[i])
    BY <1>11
  <2>2. Len(r) <= 2
    BY <1>2, <2>1
  <2>3. \A i \in DOMAIN r : i + 1 # 1
    <3>1. DOMAIN r = 1 .. (n - 1)
      BY <1>2
    <3> QED
      BY <1>2, <3>1
  <2>4. \A i \in DOMAIN r : Mute(r[i])
    BY <1>2, <2>1, <2>3
  <2> HIDE DEF r
  <2>5. r # <<>> => Head(r) = r[1] /\ 1 \in DOMAIN r
    BY <1>2, EmptySeq
  <2> QED
    BY <2>2, <2>4, <2>5
<1>14. Done(t)' \/ (t = "task" /\ Mute(Speech(t)'))
  <2>1. (Done(t)' <=> r = <<>>) /\ Speech(t)' = Head(r)
    BY <1>2, <1>4, OthersSpeak
  <2> QED
    BY <1>12, <1>13, <2>1
<1>15. (e.kind = "assistant" => t = "pump") /\ (Mute(e) => t = "task")
  BY <1>10, <1>11 DEF Whole, Mute
<1>16. Pushed(t, e)
  <2>1. e = Speech(t)
    BY DEF e
  <2>2. feed' = Capped(Queued(e, feed))
    BY <1>4 DEF Q
  <2> HIDE DEF r, q
  <2>3. telling'[t] = Tail(telling[t])
    BY <1>7 DEF r, q
  <2> QED
    BY <1>1, <1>2, <1>3, <1>4, <1>7, <1>8, <1>9, <1>14, <1>15, <2>1, <2>2, <2>3, Zenon DEF Pushed
<1>17. TellersInv'
  <2>1. DartSays(<<>>) /\ PumpSays(<<>>)
    BY DEF DartSays, PumpSays
  <2>2. t = "task" => TaskSays(r)
    <3> SUFFICES ASSUME t = "task"
                 PROVE  TaskSays(r)
      OBVIOUS
    <3> DEFINE l == Len(r)
    <3>1. l \in Nat /\ l <= 2 /\ \A i \in DOMAIN r : Mute(r[i])
      BY <1>2, <1>13
    <3> HIDE DEF l
    <3>2. l <= 3 /\ l # 3
      BY <3>1
    <3> HIDE DEF r
    <3> QED
      BY <3>1, <3>2 DEF TaskSays, l
  <2>3. \A u \in Teller : u = t \/ telling'[u] = telling[u]
    BY <1>7
  <2>4. "pump" \in Teller /\ "dart" \in Teller /\ "task" \in Teller
    BY <1>10
  <2>5. DartSays(telling["dart"]) /\ PumpSays(telling["pump"]) /\ TaskSays(telling["task"])
    BY DEF TellersInv
  <2> HIDE DEF r, q
  <2>6. DartSays(telling'["dart"])
    <3>1. CASE t = "dart"
      <4>1. telling'["dart"] = <<>>
        BY <1>7, <1>12, <3>1, Zenon
      <4> QED
        BY <2>1, <4>1, Zenon
    <3>2. CASE t # "dart"
      BY <2>3, <2>4, <2>5, <3>2, Zenon
    <3> QED
      BY <3>1, <3>2
  <2>7. PumpSays(telling'["pump"])
    <3>1. CASE t = "pump"
      <4>1. telling'["pump"] = <<>>
        BY <1>7, <1>12, <3>1, Zenon
      <4> QED
        BY <2>1, <4>1, Zenon
    <3>2. CASE t # "pump"
      BY <2>3, <2>4, <2>5, <3>2, Zenon
    <3> QED
      BY <3>1, <3>2
  <2>8. TaskSays(telling'["task"])
    BY <1>7, <2>2, <2>3, <2>4, <2>5, Zenon
  <2> QED
    BY <2>6, <2>7, <2>8, Zenon DEF TellersInv
<1> QED
  BY <1>16, <1>17 DEF e

(* The newest change that was pushed. *)
Renews(e) ==
  /\ ~Dated(e) => pushed' = pushed
  /\ Dated(e) => e.change \in Nat /\ e.change <= conv.changes
  /\ Dated(e) /\ e.change < pushed.newest =>
       pushed'.newest = pushed.newest /\ (pushed'.overtaken <=> pushed.overtaken \/ e.kind = "transcript")
  /\ Dated(e) /\ ~(e.change < pushed.newest) =>
       pushed'.newest = e.change /\ (pushed'.overtaken <=> pushed.overtaken /\ e.kind = "assistant")
  /\ pushed.newest \in Nat /\ conv.changes \in Nat /\ pushed'.newest \in Nat
  /\ pushed'.newest >= pushed.newest /\ pushed'.newest <= conv.changes

LEMMA PushRenews ==
  ASSUME FeedInv, NEW t \in Teller, Pushes(t)
  PROVE  Renews(Speech(t))
<1> DEFINE e == Speech(t)
<1>1. ~Done(t)
  BY DEF Pushes
<1>2. e \in Notice
  BY <1>1, SpeechIs DEF FeedInv
<1>3. pushed' = IF "change" \notin DOMAIN e THEN pushed
                ELSE IF e.change < pushed.newest
                     THEN [pushed EXCEPT !.overtaken = (@ \/ e.kind = "transcript")]
                ELSE [newest |-> e.change, overtaken |-> pushed.overtaken /\ e.kind = "assistant"]
  BY DEF Pushes, Speech
<1>4. Dated(e) => e.change <= conv.changes
  BY <1>1 DEF FeedInv, ChangesInv
<1>5. /\ pushed \in [newest : Nat, overtaken : BOOLEAN] /\ pushed.newest \in Nat /\ conv.changes \in Nat
      /\ pushed.newest <= conv.changes
  BY ConvIs DEF FeedInv, FeedTypeOK, ChangesInv
<1> HIDE DEF e
<1>6. Dated(e) <=> "change" \in DOMAIN e
  BY <1>2, NoticeIs DEF Dated
<1>7. Dated(e) => e.change \in Nat
  BY <1>2, NoticeIs DEF Dated
<1>8. CASE ~Dated(e)
  <2>1. pushed' = pushed
    BY <1>3, <1>6, <1>8, Zenon
  <2> QED
    BY <1>5, <1>8, <2>1 DEF Renews, e
<1>9. CASE Dated(e) /\ e.change < pushed.newest
  <2> DEFINE o == (pushed.overtaken \/ e.kind = "transcript")
  <2>1. o \in BOOLEAN /\ pushed' = [pushed EXCEPT !.overtaken = o]
    BY <1>3, <1>6, <1>9, Zenon
  <2> HIDE DEF o
  <2>2. pushed'.newest = pushed.newest /\ pushed'.overtaken = o
    BY <1>5, <2>1
  <2>3. pushed'.overtaken <=> pushed.overtaken \/ e.kind = "transcript"
    BY <2>2, Zenon DEF o
  <2>4. pushed.newest >= pushed.newest
    BY <1>5
  <2> QED
    BY <1>4, <1>5, <1>7, <1>9, <2>2, <2>3, <2>4, Zenon DEF Renews, e
<1>10. CASE Dated(e) /\ ~(e.change < pushed.newest)
  <2> DEFINE o == (pushed.overtaken /\ e.kind = "assistant")
  <2>1. o \in BOOLEAN /\ pushed' = [newest |-> e.change, overtaken |-> o]
    BY <1>3, <1>6, <1>10, Zenon
  <2> HIDE DEF o
  <2>2. pushed'.newest = e.change /\ pushed'.overtaken = o
    BY <2>1
  <2>3. pushed'.overtaken <=> pushed.overtaken /\ e.kind = "assistant"
    BY <2>2, Zenon DEF o
  <2>4. e.change >= pushed.newest /\ e.change <= conv.changes
    BY <1>4, <1>5, <1>7, <1>10
  <2> QED
    BY <1>4, <1>5, <1>7, <1>10, <2>2, <2>3, <2>4, Zenon DEF Renews, e
<1> QED
  BY <1>8, <1>9, <1>10

LEMMA PushTells ==
  ASSUME FeedInv, FeedTypeOK', NEW t, NEW e, Pushed(t, e), Renews(e)
  PROVE  EntriesInv' /\ TextInv' /\ ChangesInv' /\ ToldInv'
<1> USE DEF FeedInv
<1>1. /\ conv' = conv /\ t \in Teller /\ e = Speech(t) /\ ~Done(t) /\ e.kind # "snapshot"
      /\ \A u \in Teller \ {t} :
           telling'[u] = telling[u] /\ Speech(u)' = Speech(u) /\ (Done(u)' <=> Done(u))
      /\ Done(t)' \/ Mute(Speech(t)')
  BY DEF Pushed
<1>2. /\ pushed.newest \in Nat /\ conv.changes \in Nat /\ pushed'.newest \in Nat
      /\ pushed'.newest >= pushed.newest /\ pushed'.newest <= conv.changes
  BY DEF Renews
<1>3. "pump" \in Teller /\ "dart" \in Teller
  BY DEF Teller
<1>4. ASSUME NEW u \in Teller, ~Done(u)', ~Mute(Speech(u)')
      PROVE  u # t /\ ~Done(u) /\ Speech(u)' = Speech(u)
  BY <1>1, <1>4
<1>5. EntriesInv'
  BY <1>1, Zenon DEF EntriesInv, NoCalls
<1>6. TextInv'
  <2> SUFFICES ASSUME Says("pump", "assistant")'
               PROVE  /\ Speech("pump")'.id <= conv'.made /\ Harmless(Speech("pump")', conv'.entries)
                      /\ Speech("pump")'.change = conv'.changes =>
                           conv'.sending /\ pushed'.newest >= conv'.changes - 1
    BY DEF TextInv
  <2>1. Says("pump", "assistant") /\ Speech("pump")' = Speech("pump")
    BY <1>3, <1>4 DEF Says, Mute
  <2>2. /\ Speech("pump").id <= conv.made /\ Harmless(Speech("pump"), conv.entries)
        /\ Speech("pump").change = conv.changes => conv.sending /\ pushed.newest >= conv.changes - 1
    BY <2>1 DEF TextInv
  <2>3. pushed.newest >= conv.changes - 1 => pushed'.newest >= conv.changes - 1
    BY <1>2
  <2> QED
    BY <1>1, <2>1, <2>2, <2>3
<1>7. ChangesInv'
  <2>1. ASSUME NEW u \in Teller, ~Done(u)', Dated(Speech(u)')
        PROVE  Speech(u)'.change <= conv'.changes
    <3>1. ~Mute(Speech(u)')
      BY <2>1 DEF Dated, Mute
    <3>2. ~Done(u) /\ Speech(u)' = Speech(u)
      BY <1>4, <2>1, <3>1
    <3> QED
      BY <1>1, <2>1, <3>2 DEF ChangesInv
  <2>2. ASSUME NEW u \in Teller, Says(u, "transcript")', Speech(u)'.change = conv'.changes
        PROVE  Speech(u)'.screen.entries = conv'.entries
    <3>1. ~Done(u)' /\ ~Mute(Speech(u)')
      BY <2>2 DEF Says, Mute
    <3>2. Says(u, "transcript") /\ Speech(u)' = Speech(u)
      BY <1>4, <2>2, <3>1 DEF Says
    <3> QED
      BY <1>1, <2>2, <3>2 DEF ChangesInv
  <2> QED
    BY <1>1, <1>2, <2>1, <2>2 DEF ChangesInv
<1>8. ToldInv'
  <2>1. pushed.newest = conv.changes => pushed'.newest = conv'.changes
    BY <1>1, <1>2
  <2>2. ASSUME NEW u \in Teller, Brings(u)
        PROVE  pushed'.newest = conv'.changes \/ Brings(u)'
    <3>1. CASE u = t
      <4>1. Dated(e) /\ e.change = conv.changes
        BY <1>1, <2>2, <3>1, NoticesAre DEF Brings
      <4>2. ~(e.change < pushed.newest) => pushed'.newest = e.change
        BY <4>1 DEF Renews
      <4>3. e.change < pushed.newest => pushed'.newest = conv.changes
        BY <1>2, <4>1
      <4> QED
        BY <1>1, <4>1, <4>2, <4>3
    <3>2. CASE u # t
      BY <1>1, <2>2, <3>2, Zenon DEF Brings
    <3> QED
      BY <3>1, <3>2
  <2>3. pushed'.newest = conv'.changes \/ \E u \in Teller : Brings(u)'
    BY <2>1, <2>2, Zenon DEF ToldInv
  <2>4. conv'.sending => pushed'.newest = conv'.changes \/ \E u \in {"pump", "dart"} : Brings(u)'
    <3>1. \A u \in {"pump", "dart"} : u \in Teller
      BY <1>3
    <3> QED
      BY <1>1, <2>1, <2>2, <3>1, Zenon DEF ToldInv
  <2> QED
    BY <2>3, <2>4, Zenon DEF ToldInv
<1> QED
  BY <1>5, <1>6, <1>7, <1>8

LEMMA SameText ==
  ASSUME NEW one \in Screen, NEW two \in Screen, one.entries = two.entries, NEW id, NEW text \in Nat
  PROVE  WithText(one, id, text).entries = WithText(two, id, text).entries
<1> DEFINE a == WithText(one, id, text)
           b == WithText(two, id, text)
<1>1. Rewritten(a, one, id, text) /\ Rewritten(b, two, id, text)
  BY WithTextIs
<1> HIDE DEF a, b
<1>2. /\ a.entries \in Seq(Entry) /\ b.entries \in Seq(Entry)
      /\ DOMAIN a.entries = DOMAIN one.entries /\ DOMAIN b.entries = DOMAIN one.entries
      /\ \A i \in DOMAIN one.entries : a.entries[i] = b.entries[i]
  <2>1. a \in Screen /\ b \in Screen
    BY <1>1 DEF Rewritten
  <2>2. a.entries \in Seq(Entry) /\ b.entries \in Seq(Entry)
    BY <2>1 DEF Screen
  <2>3. DOMAIN a.entries = DOMAIN one.entries /\ DOMAIN b.entries = DOMAIN one.entries
    BY <1>1 DEF Rewritten
  <2>4. \A i \in DOMAIN one.entries : a.entries[i] = b.entries[i]
    BY <1>1, Zenon DEF Rewritten
  <2> QED
    BY <2>2, <2>3, <2>4
<1>3. a.entries = b.entries
  BY <1>2
<1> QED
  BY <1>3 DEF a, b

LEMMA PushTurns ==
  ASSUME FeedInv, FeedTypeOK', NEW t, NEW e, Pushed(t, e), Renews(e)
  PROVE  TurnInv'
<1> USE DEF FeedInv
<1>1. /\ conv' = conv /\ t \in Teller /\ e = Speech(t) /\ ~Done(t) /\ e \in Notice
      /\ \A u \in Teller \ {t} :
           telling'[u] = telling[u] /\ Speech(u)' = Speech(u) /\ (Done(u)' <=> Done(u))
      /\ Done(t)' \/ Mute(Speech(t)')
      /\ ~missed' => ~missed /\ Shown'.entries = DrawnOn(Shown, e).entries
      /\ e.kind = "assistant" => t = "pump"
  BY DEF Pushed
<1>2. /\ pushed.newest \in Nat /\ conv.changes \in Nat /\ pushed'.newest \in Nat
      /\ pushed'.newest >= pushed.newest /\ pushed'.newest <= conv.changes
  BY DEF Renews
<1>3. Shown \in Screen /\ Shown' \in Screen
  <2>1. app \in Screen /\ feed \in Seq(Notice) /\ app' \in Screen /\ feed' \in Seq(Notice)
    BY DEF FeedTypeOK
  <2> QED
    BY <2>1, DrawnIs DEF Shown
<1>4. /\ e.kind = "transcript" => DrawnOn(Shown, e) = e.screen /\ e.screen \in Screen
      /\ e.kind = "assistant" => DrawnOn(Shown, e) = WithText(Shown, e.id, e.text)
      /\ ~Dated(e) => DrawnOn(Shown, e).entries = Shown.entries
  BY <1>1, <1>3, DrawnOnIs, NoticeIs DEF Dated
<1>5. Dated(e) <=> e.kind \in {"assistant", "transcript"}
  BY DEF Dated
<1>6. ASSUME NEW u \in Teller, ~Done(u)', ~Mute(Speech(u)')
      PROVE  u # t /\ ~Done(u) /\ Speech(u)' = Speech(u)
  BY <1>1, <1>6
<1>7. "pump" \in Teller
  BY DEF Teller
<1>8. Follows' => /\ ~pushed'.overtaken /\ conv.sending /\ ~missed /\ NoCalls(conv.entries)
                  /\ Shown'.entries = DrawnOn(Shown, e).entries
  BY <1>1, Zenon DEF Follows, NoCalls
<1>9. Follows' /\ ~(Dated(e) /\ ~(e.change < pushed.newest)) =>
        e.kind # "transcript" /\ Follows /\ pushed'.newest = pushed.newest
  <2> SUFFICES ASSUME Follows', ~(Dated(e) /\ ~(e.change < pushed.newest))
               PROVE  e.kind # "transcript" /\ Follows /\ pushed'.newest = pushed.newest
    OBVIOUS
  <2>1. CASE ~Dated(e)
    <3>1. pushed' = pushed
      BY <2>1 DEF Renews
    <3> QED
      BY <1>5, <1>8, <2>1, <3>1 DEF Follows
  <2>2. CASE Dated(e) /\ e.change < pushed.newest
    <3>1. pushed'.newest = pushed.newest /\ (pushed'.overtaken <=> pushed.overtaken \/ e.kind = "transcript")
      BY <2>2 DEF Renews
    <3> QED
      BY <1>8, <3>1, Zenon DEF Follows
  <2> QED
    BY <2>1, <2>2
<1>10. ASSUME pushed'.newest = conv.changes, Follows'
       PROVE  Shown'.entries = conv.entries
  <2>1. CASE Dated(e) /\ ~(e.change < pushed.newest)
    <3>1. e.change = conv.changes /\ (pushed'.overtaken <=> pushed.overtaken /\ e.kind = "assistant")
      BY <1>10, <2>1 DEF Renews
    <3>2. CASE e.kind = "transcript"
      <4>1. e.screen.entries = conv.entries
        BY <1>1, <3>1, <3>2 DEF ChangesInv, Says
      <4> QED
        BY <1>4, <1>8, <1>10, <3>2, <4>1
    <3>3. CASE e.kind = "assistant"
      <4>1. t = "pump" /\ Says("pump", "assistant") /\ Speech("pump") = e
        BY <1>1, <3>3 DEF Says
      <4>2. Follows
        BY <1>8, <1>10, <3>1, <3>3, Zenon DEF Follows
      <4>3. CASE pushed.newest = conv.changes
        <5>1. Shown.entries = conv.entries
          BY <4>2, <4>3 DEF TurnInv
        <5>2. Harmless(e, Shown.entries)
          BY <4>1, <5>1 DEF TextInv
        <5>3. DrawnOn(Shown, e).entries = Shown.entries
          BY <1>1, <1>3, <5>2, HarmlessDraws
        <5> QED
          BY <1>8, <1>10, <5>1, <5>3
      <4>4. CASE pushed.newest # conv.changes
        <5>1. pushed.newest < conv.changes
          BY <1>2, <4>4
        <5>2. Completes(Shown, e)
          BY <3>1, <4>1, <4>2, <5>1 DEF TurnInv
        <5> QED
          BY <1>4, <1>8, <1>10, <3>3, <5>2 DEF Completes
      <4> QED
        BY <4>3, <4>4
    <3> QED
      BY <1>5, <2>1, <3>2, <3>3
  <2>2. CASE ~(Dated(e) /\ ~(e.change < pushed.newest))
    <3>1. e.kind # "transcript" /\ Follows /\ pushed.newest = conv.changes
      BY <1>9, <1>10, <2>2
    <3>2. Shown.entries = conv.entries
      BY <3>1 DEF TurnInv
    <3>3. CASE e.kind = "assistant"
      <4>1. Says("pump", "assistant") /\ Speech("pump") = e
        BY <1>1, <3>3 DEF Says
      <4>2. Harmless(e, Shown.entries)
        BY <4>1, <3>2 DEF TextInv
      <4>3. DrawnOn(Shown, e).entries = Shown.entries
        BY <1>1, <1>3, <4>2, HarmlessDraws
      <4> QED
        BY <1>8, <1>10, <3>2, <4>3
    <3>4. CASE e.kind # "assistant"
      BY <1>4, <1>5, <1>8, <1>10, <3>1, <3>2, <3>4
    <3> QED
      BY <3>3, <3>4
  <2> QED
    BY <2>1, <2>2
<1>11. ASSUME Says("pump", "assistant")', Speech("pump")'.change = conv.changes
       PROVE  /\ pushed'.newest < conv'.changes /\ Follows' => Completes(Shown, Speech("pump"))'
              /\ \A u \in Teller :
                   Says(u, "transcript")' /\ Speech(u)'.change = conv'.changes - 1 /\ NoCalls(conv'.entries)
                     => Completes(Speech(u).screen, Speech("pump"))'
  <2> DEFINE s == Speech("pump")
  <2>1. s' = s /\ Says("pump", "assistant") /\ t # "pump" /\ s.change = conv.changes /\ s.text \in Nat
    <3>1. ~Done("pump")' /\ ~Mute(Speech("pump")')
      BY <1>11 DEF Says, Mute
    <3>2. Says("pump", "assistant") /\ s' = s /\ t # "pump"
      BY <1>6, <1>7, <1>11, <3>1 DEF Says
    <3> QED
      BY <1>11, <3>2, PumpSpeech
  <2>2. /\ pushed.newest >= conv.changes - 1 /\ conv.sending
        /\ pushed.newest < conv.changes /\ Follows => Completes(Shown, s)
        /\ \A u \in Teller :
             Says(u, "transcript") /\ Speech(u).change = conv.changes - 1 /\ NoCalls(conv.entries)
               => Completes(Speech(u).screen, s)
    BY <2>1 DEF TextInv, TurnInv
  <2> HIDE DEF s
  <2>3. ASSUME pushed'.newest < conv.changes, Follows'
        PROVE  Completes(Shown', s)
    <3>1. pushed.newest = conv.changes - 1 /\ pushed'.newest = conv.changes - 1 /\ pushed.newest < conv.changes
      BY <1>2, <2>2, <2>3
    <3>2. CASE Dated(e) /\ ~(e.change < pushed.newest)
      <4>1. e.kind = "transcript"
        BY <1>1, <1>5, <2>1, <3>2
      <4>2. e.change = conv.changes - 1
        BY <3>1, <3>2 DEF Renews
      <4>3. Completes(e.screen, s)
        BY <1>1, <1>8, <2>2, <2>3, <4>1, <4>2 DEF Says
      <4>4. Shown'.entries = e.screen.entries /\ e.screen \in Screen
        BY <1>4, <1>8, <2>3, <4>1
      <4> QED
        BY <1>3, <2>1, <4>3, <4>4, SameText DEF Completes
    <3>3. CASE ~(Dated(e) /\ ~(e.change < pushed.newest))
      <4>1. Follows /\ ~Dated(e)
        BY <1>1, <1>5, <1>9, <2>1, <2>3, <3>3
      <4>2. Completes(Shown, s)
        BY <2>2, <3>1, <4>1
      <4>3. Shown'.entries = Shown.entries
        BY <1>4, <1>8, <2>3, <4>1
      <4> QED
        BY <1>3, <2>1, <4>2, <4>3, SameText DEF Completes
    <3> QED
      BY <3>2, <3>3
  <2>4. ASSUME NEW u \in Teller, Says(u, "transcript")', Speech(u)'.change = conv.changes - 1,
               NoCalls(conv.entries)
        PROVE  Completes(Speech(u)'.screen, s)
    <3>1. ~Done(u)' /\ ~Mute(Speech(u)')
      BY <2>4 DEF Says, Mute
    <3>2. Says(u, "transcript") /\ Speech(u)' = Speech(u)
      BY <1>6, <2>4, <3>1 DEF Says
    <3> QED
      BY <2>2, <2>4, <3>2
  <2>5. pushed'.newest < conv'.changes /\ Follows' => Completes(Shown, Speech("pump"))'
    BY <1>1, <2>1, <2>3, Zenon DEF Completes, s
  <2>6. ASSUME NEW u \in Teller, Says(u, "transcript")', Speech(u)'.change = conv'.changes - 1,
               NoCalls(conv'.entries)
        PROVE  Completes(Speech(u).screen, Speech("pump"))'
    <3>1. NoCalls(conv.entries) /\ Speech(u)'.change = conv.changes - 1
      BY <1>1, <2>6, Zenon DEF NoCalls
    <3>2. Completes(Speech(u)'.screen, s)
      BY <2>4, <2>6, <3>1
    <3> QED
      BY <1>1, <2>1, <3>2, Zenon DEF Completes, s
  <2> QED
    BY <2>5, <2>6, Zenon
<1>12. pushed'.newest = conv'.changes /\ Follows' => Shown'.entries = conv'.entries
  BY <1>1, <1>10, Zenon
<1>13. Says("pump", "assistant")' /\ Speech("pump")'.change = conv'.changes =>
         /\ pushed'.newest < conv'.changes /\ Follows' => Completes(Shown, Speech("pump"))'
         /\ \A u \in Teller :
              Says(u, "transcript")' /\ Speech(u)'.change = conv'.changes - 1 /\ NoCalls(conv'.entries)
                => Completes(Speech(u).screen, Speech("pump"))'
  BY <1>1, <1>11, Zenon
<1> QED
  BY <1>12, <1>13, Zenon DEF TurnInv, NoCalls

LEMMA RestIsNext ==
  (FeedTypeOK /\ TellersInv => Rest \in 0 .. 3)'
<1>1. FeedTypeOK /\ TellersInv => Rest \in 0 .. 3
  BY RestIs
<1> QED
  BY <1>1, PTL

LEMMA PushRests ==
  ASSUME FeedInv, NEW t, NEW e, Pushed(t, e)
  PROVE  e.kind # "transcript" => Rest \in 1 .. 3 /\ Rest' = Rest - 1
<1> USE DEF FeedInv
<1> SUFFICES ASSUME e.kind # "transcript"
             PROVE  Rest \in 1 .. 3 /\ Rest' = Rest - 1
  OBVIOUS
<1>1. /\ t \in Teller /\ e = Speech(t) /\ ~Done(t) /\ e \in Notice /\ e.kind # "snapshot"
      /\ \A u \in Teller \ {t} :
           telling'[u] = telling[u] /\ Speech(u)' = Speech(u) /\ (Done(u)' <=> Done(u))
      /\ Done(t)' \/ (t = "task" /\ Mute(Speech(t)'))
      /\ telling'[t] = Tail(telling[t])
      /\ (e.kind = "assistant" => t = "pump") /\ (Mute(e) => t = "task")
  BY DEF Pushed
<1>2. /\ "pump" \in Teller /\ "task" \in Teller
      /\ Teller = {"pump", "dart", "task"}
  BY DEF Teller
<1> DEFINE a == IF Says("pump", "assistant") THEN 1 ELSE 0
           b == IF ~Done("task") /\ Mute(Speech("task")) THEN Len(telling["task"]) ELSE 0
<1>3. Rest = a + b /\ Rest' = a' + b'
  BY DEF Rest
<1>4. CASE e.kind = "assistant"
  <2>1. Says("pump", "assistant") /\ t = "pump" /\ Done("pump")'
    BY <1>1, <1>4 DEF Says
  <2>2. Rest \in 1 .. 3
    BY <2>1, RestIs
  <2>3. a = 1 /\ a' = 0
    BY <2>1 DEF Says
  <2>4. b' = b
    BY <1>1, <1>2, <2>1
  <2>5. b \in Nat
    <3>1. ~Done("task") => Len(telling["task"]) \in Nat
      BY <1>2, SpeechIs
    <3> QED
      BY <3>1
  <2> HIDE DEF a, b
  <2> QED
    BY <1>3, <2>2, <2>3, <2>4, <2>5
<1>5. CASE e.kind # "assistant"
  <2>1. Mute(e)
    BY <1>1, <1>5, NoticeIs DEF Mute
  <2>2. t = "task" /\ ~Done("task") /\ Mute(Speech("task"))
    BY <1>1, <2>1
  <2>3. Rest \in 1 .. 3
    BY <2>2, RestIs
  <2> DEFINE l == Len(telling["task"])
  <2>4. /\ l \in Nat \ {0} /\ Len(Tail(telling["task"])) = l - 1
        /\ Tail(telling["task"]) \in Seq(Notice)
    BY <1>2, <2>2, SpeechIs
  <2>5. b = l
    BY <2>2
  <2>6. b' = l - 1
    <3>1. telling'["task"] = Tail(telling["task"])
      BY <1>1, <2>2
    <3>2. CASE Done("task")'
      <4>1. Tail(telling["task"]) = <<>>
        BY <3>1, <3>2 DEF Done
      <4>2. l - 1 = 0
        BY <2>4, <4>1
      <4> QED
        BY <3>2, <4>2
    <3>3. CASE ~Done("task")'
      <4>1. Mute(Speech("task")')
        BY <1>1, <2>2, <3>3
      <4>2. b' = Len(Tail(telling["task"]))
        BY <3>1, <3>3, <4>1 DEF Mute
      <4> QED
        BY <2>4, <4>2
    <3> QED
      BY <3>2, <3>3
  <2>7. a' = a /\ a \in Nat
    BY <1>1, <1>2, <2>2 DEF Says
  <2> HIDE DEF a, b, l
  <2> QED
    BY <1>3, <2>3, <2>4, <2>5, <2>6, <2>7
<1> QED
  BY <1>4, <1>5

LEMMA PushIdles ==
  ASSUME FeedInv, FeedTypeOK', TellersInv', NEW t, NEW e, Pushed(t, e), Renews(e)
  PROVE  IdleInv'
<1> USE DEF FeedInv
<1>1. /\ conv' = conv /\ t \in Teller /\ e = Speech(t) /\ ~Done(t) /\ e \in Notice
      /\ e.kind # "snapshot" /\ app' = app /\ feed' = Capped(Queued(e, feed))
      /\ e.kind = "assistant" => t = "pump"
  BY DEF Pushed
<1>2. /\ pushed.newest \in Nat /\ conv.changes \in Nat /\ pushed'.newest \in Nat
      /\ pushed'.newest >= pushed.newest /\ pushed'.newest <= conv.changes
  BY DEF Renews
<1>3. app \in Screen /\ feed \in Seq(Notice) /\ Len(feed) <= MaxQueued /\ Len(feed) \in Nat
  BY DEF FeedTypeOK
<1>4. MaxQueued \in Nat /\ MaxQueued >= 4
  BY FeedAssumption
<1> SUFFICES ASSUME pushed'.newest = conv'.changes, ~pushed'.overtaken, ~conv'.sending
             PROVE  \E k \in 0 .. Len(feed') :
                      Settles(feed', k, app', conv'.entries) /\ (k # 0 => (Len(feed') - k) + Rest' <= 3)
  BY DEF IdleInv
<1>5. pushed'.newest = conv.changes /\ ~pushed'.overtaken /\ ~conv.sending
  BY <1>1
<1> DEFINE es == conv.entries
           q == Queued(e, feed)
<1>6. PICK kept \in Seq(Notice) :
        /\ q = Append(kept, e)
        /\ \/ ~Supersedes(e, feed) /\ kept = feed
           \/ /\ e.kind = "assistant"
              /\ \E before \in Notice :
                   /\ feed = Append(kept, before)
                   /\ before.kind = "assistant" /\ before.id = e.id
  BY <1>1, <1>3, QueuedIs
<1>7. Len(kept) \in Nat /\ Len(kept) <= Len(feed)
  BY <1>3, <1>6
<1>8. CASE e.kind = "transcript"
  <2>1. Dated(e) /\ ~(e.change < pushed.newest)
    BY <1>5, <1>8, Zenon DEF Renews, Dated
  <2>2. e.change = conv.changes
    BY <1>5, <2>1 DEF Renews
  <2>3. e.screen.entries = es
    BY <1>1, <1>8, <2>2 DEF ChangesInv, Says
  <2>4. Rest' \in 0 .. 3
    BY RestIsNext
  <2>5. /\ q \in Seq(Notice) /\ Len(q) = Len(kept) + 1 /\ q[Len(kept) + 1] = e
    BY <1>1, <1>6
  <2> HIDE DEF q
  <2>6. Len(q) \in 1 .. MaxQueued + 1
    BY <1>3, <1>4, <1>7, <2>5
  <2>7. /\ feed' \in Seq(Notice)
        /\ Len(q) <= MaxQueued => feed' = q
        /\ Len(q) > MaxQueued => feed' = Tail(q) /\ q # <<>> /\ Len(feed') = Len(q) - 1
    BY <1>1, <2>5, <2>6, CappedIs DEF q
  <2>8. Len(feed') \in Nat /\ Len(feed') # 0 /\ feed'[Len(feed')] = e
    <3>1. CASE Len(q) <= MaxQueued
      BY <1>7, <2>5, <2>7, <3>1
    <3>2. CASE Len(q) > MaxQueued
      <4>1. Len(Tail(q)) = Len(q) - 1 /\ \A i \in 1 .. Len(q) - 1 : Tail(q)[i] = q[i + 1]
        BY <2>5, <2>7, <3>2, HeadTailProperties
      <4>2. Len(q) - 1 \in 1 .. Len(q) - 1 /\ (Len(q) - 1) + 1 = Len(kept) + 1 /\ Len(q) - 1 # 0
        BY <1>4, <1>7, <2>5, <3>2
      <4> QED
        BY <2>5, <2>7, <3>2, <4>1, <4>2
    <3> QED
      BY <1>4, <2>6, <3>1, <3>2
  <2> DEFINE k == Len(feed')
  <2>9. k \in 0 .. k /\ (k - k) + Rest' <= 3 /\ \A i \in (k + 1) .. k : FALSE
    <3>1. k \in Nat
      BY <2>8
    <3> DEFINE r == Rest'
    <3>2. r \in 0 .. 3
      BY <2>4
    <3> HIDE DEF k, r
    <3>3. k \in 0 .. k /\ (k - k) + r <= 3 /\ \A i \in (k + 1) .. k : FALSE
      BY <3>1, <3>2
    <3> QED
      BY <3>3 DEF r
  <2>10. Settles(feed', k, app', conv'.entries)
    BY <1>1, <1>8, <2>3, <2>8, <2>9 DEF Settles
  <2> HIDE DEF k
  <2> QED
    BY <2>9, <2>10 DEF k
<1>9. CASE e.kind # "transcript"
  <2>1. Rest \in 1 .. 3 /\ Rest' = Rest - 1
    BY <1>9, PushRests
  <2>2. pushed.newest = conv.changes /\ ~pushed.overtaken /\ Harmless(e, es)
    <3>1. CASE e.kind = "assistant"
      <4>1. Says("pump", "assistant") /\ Speech("pump") = e /\ Dated(e)
        BY <1>1, <3>1 DEF Says, Dated
      <4>2. e.change # conv.changes /\ Harmless(e, es)
        BY <1>5, <4>1 DEF TextInv
      <4>3. e.change < pushed.newest
        BY <1>5, <4>1, <4>2 DEF Renews
      <4> QED
        BY <1>5, <4>1, <4>2, <4>3, Zenon DEF Renews
    <3>2. CASE e.kind # "assistant"
      <4>1. ~Dated(e)
        BY <1>9, <3>2 DEF Dated
      <4> QED
        BY <1>5, <1>9, <3>2, <4>1 DEF Renews, Harmless
    <3> QED
      BY <3>1, <3>2
  <2>3. PICK k \in 0 .. Len(feed) :
          Settles(feed, k, app, es) /\ (k # 0 => (Len(feed) - k) + Rest <= 3)
    BY <1>5, <2>2 DEF IdleInv
  <2>4. Settles(kept, k, app, es)
    <3>1. CASE kept = feed
      BY <2>3, <3>1
    <3>2. CASE kept # feed
      <4>1. PICK before \in Notice : feed = Append(kept, before) /\ before.kind = "assistant"
        BY <1>6, <3>2
      <4> QED
        BY <2>3, <4>1, SettlesFront
    <3> QED
      BY <3>1, <3>2
  <2>5. k # 0 => (Len(kept) - k) + Rest <= 3
    BY <1>3, <1>7, <2>1, <2>3
  <2>6. Len(kept) <= MaxQueued
    BY <1>3, <1>4, <1>7
  <2>7. \E l \in 0 .. Len(Capped(Append(kept, e))) :
          /\ Settles(Capped(Append(kept, e)), l, app, es)
          /\ l # 0 => (Len(Capped(Append(kept, e))) - l) + (Rest - 1) <= 3
    BY <1>1, <2>1, <2>2, <2>4, <2>5, <2>6, StaysSettled
  <2> QED
    BY <1>1, <1>6, <2>1, <2>7
<1> QED
  BY <1>8, <1>9

LEMMA PushesKeep ==
  ASSUME FeedInv, NEW t \in Teller, Pushes(t)
  PROVE  FeedInv'
<1> DEFINE e == Speech(t)
<1>1. Pushed(t, e) /\ TellersInv' /\ Renews(e)
  BY PushIs, PushRenews
<1> HIDE DEF e
<1>2. FeedTypeOK'
  BY <1>1 DEF Pushed
<1>3. EntriesInv' /\ TextInv' /\ ChangesInv' /\ ToldInv'
  BY <1>1, <1>2, PushTells
<1>4. TurnInv'
  BY <1>1, <1>2, PushTurns
<1>5. IdleInv'
  BY <1>1, <1>2, PushIdles
<1> QED
  BY <1>1, <1>2, <1>3, <1>4, <1>5 DEF FeedInv

LEMMA FeedInvInit ==
  FeedInit => FeedInv
<1> SUFFICES ASSUME FeedInit
             PROVE  FeedInv
  OBVIOUS
<1>1. /\ conv = [entries |-> <<>>, sending |-> FALSE, streamed |-> 0, made |-> 0, changes |-> 0]
      /\ delivering = {} /\ telling = [t \in Teller |-> <<>>] /\ feed = <<>>
      /\ app = [entries |-> <<>>, sending |-> FALSE]
      /\ pushed = [newest |-> 0, overtaken |-> FALSE] /\ missed = FALSE /\ left = FeedBudget
  BY DEF FeedInit
<1>2. \A t \in Teller : telling[t] = <<>> /\ Done(t)
  BY <1>1 DEF Done
<1>3. "pump" \in Teller /\ "dart" \in Teller /\ "task" \in Teller
  BY DEF Teller
<1>4. FeedTypeOK
  <2>1. telling \in [Teller -> Seq(Notice)]
    BY <1>1
  <2>2. feed \in Seq(Notice) /\ Len(feed) <= MaxQueued
    BY <1>1, FeedAssumption
  <2>3. app \in Screen /\ left \in [DOMAIN FeedBudget -> Nat]
    BY <1>1, FeedAssumption DEF Screen
  <2>4. /\ conv \in [entries : Seq(Entry), sending : BOOLEAN, streamed : Nat, made : Nat, changes : Nat]
        /\ pushed \in [newest : Nat, overtaken : BOOLEAN]
    <3>1. 0 \in Nat /\ FALSE \in BOOLEAN /\ <<>> \in Seq(Entry)
      OBVIOUS
    <3> QED
      BY <1>1, <3>1, Zenon
  <2>5. delivering \subseteq Nat
    BY <1>1
  <2>6. missed \in BOOLEAN
    BY <1>1, Zenon
  <2> QED
    BY <2>1, <2>2, <2>3, <2>4, <2>5, <2>6, Zenon DEF FeedTypeOK
<1>5. EntriesInv
  BY <1>1 DEF EntriesInv, Numbered, Distinct
<1>6. TellersInv
  BY <1>2, <1>3 DEF TellersInv, DartSays, PumpSays, TaskSays
<1>7. TextInv /\ ChangesInv /\ ToldInv
  BY <1>1, <1>2, <1>3 DEF TextInv, ChangesInv, ToldInv, Says
<1>8. TurnInv
  BY <1>1, <1>2, <1>3 DEF TurnInv, Follows, Says
<1>9. IdleInv
  <2>1. Len(feed) = 0 /\ 0 \in 0 .. 0 /\ \A i \in (0 + 1) .. 0 : FALSE
    BY <1>1
  <2>2. Settles(feed, 0, app, conv.entries)
    BY <1>1, <2>1 DEF Settles
  <2> QED
    BY <2>1, <2>2 DEF IdleInv
<1> QED
  BY <1>4, <1>5, <1>6, <1>7, <1>8, <1>9 DEF FeedInv

LEMMA FeedInvStep ==
  ASSUME FeedInv, [FeedNext]_feedVars
  PROVE  FeedInv'
<1>1. CASE AppSends
  BY <1>1, SendsKeeps
<1>2. CASE AppStartsChat
  BY <1>2, StartsKeeps
<1>3. CASE AppPolls
  BY <1>3, PollsKeep
<1>4. CASE DeliveryFails
  BY <1>4, FailsKeeps
<1>5. CASE FoldsDelta
  BY <1>5, DeltaKeeps
<1>6. CASE FoldsCall
  BY <1>6, CallKeeps
<1>7. CASE FoldsEnd
  BY <1>7, EndKeeps
<1>8. ASSUME NEW t \in Teller, Snapshots(t)
      PROVE  FeedInv'
  BY <1>8, SnapshotsKeep
<1>9. ASSUME NEW t \in Teller, Pushes(t)
      PROVE  FeedInv'
  BY <1>9, PushesKeep
<1>10. CASE UNCHANGED feedVars
  <2>1. /\ conv' = conv /\ delivering' = delivering /\ telling' = telling /\ feed' = feed
        /\ app' = app /\ pushed' = pushed /\ missed' = missed /\ left' = left
    BY <1>10 DEF feedVars
  <2>2. FeedTypeOK' /\ EntriesInv' /\ TellersInv'
    BY <2>1, Zenon DEF FeedInv, FeedTypeOK, EntriesInv, NoCalls, TellersInv
  <2>3. TextInv' /\ ChangesInv' /\ ToldInv'
    <3>1. TextInv'
      BY <2>1, Zenon DEF FeedInv, TextInv, Says, Speech, Done
    <3>2. ChangesInv'
      BY <2>1, Zenon DEF FeedInv, ChangesInv, Says, Speech, Done
    <3>3. ToldInv'
      BY <2>1, Zenon DEF FeedInv, ToldInv, Brings, Speech, Done
    <3> QED
      BY <3>1, <3>2, <3>3
  <2>4. TurnInv'
    BY <2>1, Zenon DEF FeedInv, TurnInv, Says, Speech, Done, Completes, Follows, NoCalls, Shown
  <2>5. IdleInv'
    BY <2>1, Zenon DEF FeedInv, IdleInv, Rest, Says, Speech, Done
  <2> QED
    BY <2>2, <2>3, <2>4, <2>5 DEF FeedInv
<1> QED
  BY <1>1, <1>2, <1>3, <1>4, <1>5, <1>6, <1>7, <1>8, <1>9, <1>10 DEF FeedNext

LEMMA FeedInvDraws ==
  FeedInv => AppDrawsTheCore
<1> SUFFICES ASSUME FeedInv, AllTold, ~pushed.overtaken,
                    conv.sending => ~missed /\ \A i \in DOMAIN conv.entries : conv.entries[i].calls = 0
             PROVE  app.entries = conv.entries
  BY DEF AppDrawsTheCore
<1>1. feed = <<>> /\ \A t \in Teller : Done(t)
  BY DEF AllTold
<1>2. pushed.newest = conv.changes
  BY <1>1 DEF FeedInv, ToldInv, Brings
<1>3. CASE conv.sending
  <2>1. Follows
    BY <1>3 DEF Follows, NoCalls
  <2>2. Shown.entries = conv.entries
    BY <1>2, <2>1 DEF FeedInv, TurnInv
  <2>3. Shown = app
    BY <1>1, DrawnIs DEF Shown, FeedInv, FeedTypeOK
  <2> QED
    BY <2>2, <2>3
<1>4. CASE ~conv.sending
  <2>1. PICK k \in 0 .. Len(feed) : Settles(feed, k, app, conv.entries)
    BY <1>2, <1>4 DEF FeedInv, IdleInv
  <2>2. k = 0
    BY <1>1
  <2> QED
    BY <2>1, <2>2 DEF Settles
<1> QED
  BY <1>3, <1>4

(* The types of the phone's feed hold in every reachable state.              *)
THEOREM FeedTypeCorrect ==
  FeedInit /\ [][FeedNext]_feedVars => []FeedTypeOK
<1>1. FeedInv => FeedTypeOK
  BY DEF FeedInv
<1>2. FeedInv /\ [FeedNext]_feedVars => FeedInv'
  BY FeedInvStep
<1> QED
  BY <1>1, <1>2, FeedInvInit, PTL

(* Once the app was told everything it draws what the core has: push,        *)
(* push_transcript and the poll that draws what is queued.                   *)
THEOREM PhoneDrawsTheCore ==
  FeedInit /\ [][FeedNext]_feedVars => []AppDrawsTheCore
<1>1. FeedInv /\ [FeedNext]_feedVars => FeedInv'
  BY FeedInvStep
<1> QED
  BY <1>1, FeedInvInit, FeedInvDraws, PTL

-----------------------------------------------------------------------------
(***************************************************************************)
(* The conversation.  Its positions count prompts, so everything is said   *)
(* of positions: the turn of a message is the number of prompts up to it.  *)
(* ConvInv says what lies behind ReplyReadsInOrder and ReplyKeptTogether:  *)
(* until a turn is told late, what each stream holds is exactly the start  *)
(* of the reply that it told, and the open bubbles are those of the turn   *)
(* in flight, the last message one of them; in a turn that made no call    *)
(* after text, every bubble but the last has calls and no text.  After     *)
(* that, a bubble can be open only in a turn that is no longer Orderly.    *)
(*                                                                         *)
(* KeepInv says what lies behind KeptByMerge, what the transcript finds on *)
(* screen when it is read again: in a turn that is answered, or all told,  *)
(* the reply is whole in one message, or in none, and behind it are only   *)
(* files; and from the first turn told late on, no text is of an earlier   *)
(* turn.  MergeInv then says how far the cursor is while the history is    *)
(* merged message by message.                                              *)
(***************************************************************************)
LEMMA LastOneIs ==
  ASSUME NEW n \in Nat, NEW T \in SUBSET (1 .. n), NEW k,
         k = IF T # {} THEN Max(T) ELSE 0
  PROVE  (k \in T /\ (\A m \in T : m <= k)) \/ (k = 0 /\ T = {})
<1>1. CASE T # {}
  <2>1. T \subseteq 0 .. n /\ T \subseteq Nat
    OBVIOUS
  <2>2. PICK m \in T : \A x \in T : x <= m
    BY <1>1, <2>1, GreatestNumber
  <2>3. Max(T) = m
    BY <2>1, <2>2, MaxIs
  <2> QED
    BY <1>1, <2>2, <2>3
<1> QED
  BY <1>1

-----------------------------------------------------------------------------
(* The turn a message was drawn in.                                          *)

IsPrompt(m) == m.by = "user"

LEMMA MessageIs ==
  ASSUME NEW m \in Message
  PROVE  IsReply(m) <=> ~IsPrompt(m)
BY DEF Message, IsReply, IsPrompt

LEMMA TurnCounts ==
  ASSUME NEW ms, NEW i \in Nat
  PROVE  /\ TurnOf(ms, i) \in Nat /\ TurnOf(ms, 0) = 0
         /\ TurnOf(ms, i + 1) = TurnOf(ms, i) + (IF IsPrompt(ms[i + 1]) THEN 1 ELSE 0)
<1> DEFINE C(n) == {j \in 1 .. n : ms[j].by = "user"}
<1>1. \A n \in Nat : IsFiniteSet(C(n)) /\ Cardinality(C(n)) \in Nat
  <2> SUFFICES ASSUME NEW n \in Nat
               PROVE  IsFiniteSet(C(n)) /\ Cardinality(C(n)) \in Nat
    OBVIOUS
  <2>1. IsFiniteSet(1 .. n)
    BY FS_Interval
  <2>2. C(n) \in SUBSET (1 .. n)
    OBVIOUS
  <2> HIDE DEF C
  <2> QED
    BY <2>1, <2>2, FS_Subset, FS_CardinalityType
<1>2. C(0) = {}
  OBVIOUS
<1>3. i + 1 \in Nat /\ i + 1 \notin C(i)
  OBVIOUS
<1>4. C(i + 1) = IF IsPrompt(ms[i + 1]) THEN C(i) \cup {i + 1} ELSE C(i)
  BY DEF IsPrompt
<1>5. \A n : TurnOf(ms, n) = Cardinality(C(n))
  BY DEF TurnOf
<1> HIDE DEF C
<1>6. Cardinality(C(0)) = 0
  BY <1>2, FS_EmptySet
<1>7. Cardinality(C(i) \cup {i + 1}) = Cardinality(C(i)) + 1
  BY <1>1, <1>3, FS_AddElement
<1> QED
  BY <1>1, <1>4, <1>5, <1>6, <1>7

LEMMA TurnsGrow ==
  ASSUME NEW ms, NEW n \in Nat, NEW i \in 0 .. n
  PROVE  TurnOf(ms, i) <= TurnOf(ms, n)
<1> DEFINE T == {k \in 0 .. n : \A j \in 0 .. k : TurnOf(ms, j) <= TurnOf(ms, k)}
<1>1. 0 \in T
  BY TurnCounts
<1>2. ASSUME NEW k \in 1 .. n, k - 1 \in T
      PROVE  k \in T
  <2>1. k - 1 \in Nat /\ k - 1 + 1 = k /\ k \in 0 .. n /\ k \in Nat
    OBVIOUS
  <2>2. TurnOf(ms, k - 1) \in Nat /\ TurnOf(ms, k) \in Nat /\ TurnOf(ms, k - 1) <= TurnOf(ms, k)
    BY <2>1, TurnCounts
  <2>3. \A j \in 0 .. k : j \in Nat /\ TurnOf(ms, j) \in Nat /\ (j = k \/ j \in 0 .. (k - 1))
    BY TurnCounts
  <2> QED
    BY <1>2, <2>1, <2>2, <2>3
<1> HIDE DEF T
<1>3. n \in T
  <2>1. n \in 0 .. n
    OBVIOUS
  <2> QED
    BY <1>1, <1>2, <2>1, Induction
<1> QED
  BY <1>3 DEF T

(* The same prompts at the same positions make the same turns.               *)
LEMMA SameTurns ==
  ASSUME NEW ms, NEW others, NEW i \in Nat,
         \A j \in 1 .. i : IsPrompt(ms[j]) <=> IsPrompt(others[j])
  PROVE  TurnOf(ms, i) = TurnOf(others, i)
BY DEF TurnOf, IsPrompt

Prompts(ms) == TurnOf(ms, Len(ms))

LEMMA TurnAppend ==
  ASSUME NEW ms \in Seq(Message), NEW m \in Message
  PROVE  /\ Append(ms, m) \in Seq(Message) /\ Len(Append(ms, m)) = Len(ms) + 1
         /\ \A i \in DOMAIN ms : Append(ms, m)[i] = ms[i] /\ TurnOf(Append(ms, m), i) = TurnOf(ms, i)
         /\ Append(ms, m)[Len(ms) + 1] = m
         /\ Prompts(Append(ms, m)) = Prompts(ms) + (IF IsPrompt(m) THEN 1 ELSE 0)
         /\ TurnOf(Append(ms, m), Len(ms) + 1) = Prompts(Append(ms, m))
         /\ DOMAIN ms = 1 .. Len(ms) /\ DOMAIN Append(ms, m) = 1 .. (Len(ms) + 1) /\ Len(ms) \in Nat
<1> DEFINE n == Len(ms)
           more == Append(ms, m)
<1>1. /\ more \in Seq(Message) /\ Len(more) = n + 1 /\ n \in Nat /\ DOMAIN ms = 1 .. n
      /\ DOMAIN more = 1 .. (n + 1)
      /\ \A i \in 1 .. n : more[i] = ms[i]
      /\ more[n + 1] = m
  BY AppendProperties, LenProperties
<1> HIDE DEF more, n
<1>2. \A i \in 0 .. n : TurnOf(more, i) = TurnOf(ms, i)
  <2> TAKE i \in 0 .. n
  <2>1. i \in Nat /\ \A j \in 1 .. i : j \in 1 .. n
    BY <1>1
  <2> QED
    BY <1>1, <2>1, SameTurns
<1>3. n \in 0 .. n /\ \A i \in 1 .. n : i \in 0 .. n
  BY <1>1
<1>4. TurnOf(more, n + 1) = TurnOf(more, n) + (IF IsPrompt(m) THEN 1 ELSE 0)
  BY <1>1, TurnCounts
<1> QED
  BY <1>1, <1>2, <1>3, <1>4 DEF Prompts, n, more

LEMMA TurnBounds ==
  ASSUME NEW ms \in Seq(Message), NEW i \in DOMAIN ms
  PROVE  /\ i \in Nat /\ i \in 1 .. Len(ms) /\ Len(ms) \in Nat /\ ms[i] \in Message
         /\ TurnOf(ms, i) \in Nat /\ Prompts(ms) \in Nat /\ TurnOf(ms, i) <= Prompts(ms)
<1>1. i \in Nat /\ i \in 1 .. Len(ms) /\ Len(ms) \in Nat /\ i \in 0 .. Len(ms) /\ ms[i] \in Message
  BY LenProperties
<1> QED
  BY <1>1, TurnCounts, TurnsGrow DEF Prompts

(* A prompt begins a turn: what is before it is of an earlier one.           *)
LEMMA PromptBegins ==
  ASSUME NEW ms \in Seq(Message), NEW k \in DOMAIN ms, IsPrompt(ms[k]),
         NEW i \in DOMAIN ms, i < k
  PROVE  TurnOf(ms, i) < TurnOf(ms, k)
<1>1. k - 1 \in Nat /\ i \in 0 .. (k - 1) /\ k - 1 + 1 = k
  BY TurnBounds
<1>2. TurnOf(ms, i) <= TurnOf(ms, k - 1) /\ TurnOf(ms, k) = TurnOf(ms, k - 1) + 1
  BY <1>1, TurnsGrow, TurnCounts
<1>3. TurnOf(ms, i) \in Nat /\ TurnOf(ms, k - 1) \in Nat
  BY <1>1, TurnBounds, TurnCounts
<1> QED
  BY <1>2, <1>3

-----------------------------------------------------------------------------
(* The streams of a reply.                                                   *)

Part == Turn \X (0 .. (ReplyParts + 1))

LEMMA PrefixIs ==
  ASSUME NEW S, NEW s \in Seq(S), NEW t \in Seq(S)
  PROVE  IsPrefix(s, t) <=> Len(s) <= Len(t) /\ \A k \in 1 .. Len(s) : s[k] = t[k]
<1>1. Len(s) \in Nat /\ Len(t) \in Nat /\ DOMAIN s = 1 .. Len(s) /\ DOMAIN t = 1 .. Len(t)
  BY LenProperties
<1>2. SubSeq(s, 1, Len(s)) = s
  BY SubSeqFull
<1>3. ASSUME Len(s) <= Len(t)
      PROVE  s = SubSeq(t, 1, Len(s)) <=> \A k \in 1 .. Len(s) : s[k] = t[k]
  <2> DEFINE u == SubSeq(t, 1, Len(s))
  <2>1. 1 \in Int /\ Len(s) \in Int /\ \A i \in 1 .. Len(s) : t[i] \in S
    <3>1. \A i \in 1 .. Len(s) : i \in 1 .. Len(t)
      BY <1>1, <1>3
    <3> QED
      BY <1>1, <3>1, ElementOfSeq
  <2>2. u \in Seq(S) /\ Len(u) = (IF 1 <= Len(s) THEN Len(s) - 1 + 1 ELSE 0)
        /\ \A i \in 1 .. (Len(s) - 1 + 1) : u[i] = t[1 + i - 1]
    BY <2>1, SubSeqProperties
  <2>3. Len(u) = Len(s) /\ \A i \in 1 .. Len(s) : u[i] = t[i]
    BY <1>1, <2>2
  <2> HIDE DEF u
  <2>4. (\A k \in 1 .. Len(s) : s[k] = t[k]) => s = u
    BY <2>2, <2>3, SeqEqual
  <2> QED
    BY <2>3, <2>4 DEF u
<1> QED
  BY <1>2, <1>3 DEF IsPrefix

LEMMA ReverseIs ==
  ASSUME NEW S, NEW s \in Seq(S)
  PROVE  /\ Reverse(s) \in Seq(S) /\ Len(Reverse(s)) = Len(s)
         /\ \A k \in 1 .. Len(s) : Reverse(s)[k] = s[Len(s) - k + 1]
<1>1. Len(s) \in Nat /\ DOMAIN s = 1 .. Len(s) /\ \A i \in 1 .. Len(s) : s[i] \in S
  BY LenProperties
<1>2. \A k \in 1 .. Len(s) : Len(s) - k + 1 \in 1 .. Len(s)
  BY <1>1
<1>3. Reverse(s) = [i \in 1 .. Len(s) |-> s[(Len(s) - i) + 1]]
  BY DEF Reverse
<1> DEFINE r == [i \in 1 .. Len(s) |-> s[(Len(s) - i) + 1]]
<1>4. \A k \in 1 .. Len(s) : s[(Len(s) - k) + 1] \in S
  BY <1>1, <1>2
<1>5. r \in Seq(S) /\ Len(r) = Len(s)
  BY <1>1, <1>4
<1> QED
  BY <1>3, <1>5

LEMMA SuffixIs ==
  ASSUME NEW S, NEW s \in Seq(S), NEW t \in Seq(S)
  PROVE  IsSuffix(s, t) <=>
           Len(s) <= Len(t) /\ \A k \in 1 .. Len(s) : s[k] = t[Len(t) - Len(s) + k]
<1>1. Len(s) \in Nat /\ Len(t) \in Nat
  BY LenProperties
<1>2. IsSuffix(s, t) <=> Len(s) <= Len(t) /\ \A k \in 1 .. Len(s) : Reverse(s)[k] = Reverse(t)[k]
  <2>1. /\ Reverse(s) \in Seq(S) /\ Reverse(t) \in Seq(S)
        /\ Len(Reverse(s)) = Len(s) /\ Len(Reverse(t)) = Len(t)
    BY ReverseIs
  <2>2. IsPrefix(Reverse(s), Reverse(t)) <=>
          Len(Reverse(s)) <= Len(Reverse(t)) /\ \A k \in 1 .. Len(Reverse(s)) : Reverse(s)[k] = Reverse(t)[k]
    BY <2>1, PrefixIs
  <2> QED
    BY <2>1, <2>2 DEF IsSuffix
<1>3. ASSUME Len(s) <= Len(t)
      PROVE  (\A k \in 1 .. Len(s) : Reverse(s)[k] = Reverse(t)[k])
               <=> \A k \in 1 .. Len(s) : s[k] = t[Len(t) - Len(s) + k]
  <2>1. \A k \in 1 .. Len(s) : /\ k \in 1 .. Len(t) /\ Len(s) - k + 1 \in 1 .. Len(s)
                               /\ Len(s) - (Len(s) - k + 1) + 1 = k
                               /\ Len(t) - (Len(s) - k + 1) + 1 = Len(t) - Len(s) + k
                               /\ Len(s) - k + 1 \in 1 .. Len(t)
    BY <1>1, <1>3
  <2>2. \A k \in 1 .. Len(s) : Reverse(s)[Len(s) - k + 1] = s[k]
                               /\ Reverse(t)[Len(s) - k + 1] = t[Len(t) - Len(s) + k]
    BY <2>1, ReverseIs
  <2>3. \A k \in 1 .. Len(s) : Reverse(s)[k] = s[Len(s) - k + 1] /\ Reverse(t)[k] = t[Len(t) - k + 1]
    BY <2>1, ReverseIs
  <2>4. \A k \in 1 .. Len(s) : Len(t) - Len(s) + (Len(s) - k + 1) = Len(t) - k + 1
    BY <1>1
  <2>5. ASSUME \A k \in 1 .. Len(s) : Reverse(s)[k] = Reverse(t)[k]
        PROVE  \A k \in 1 .. Len(s) : s[k] = t[Len(t) - Len(s) + k]
    BY <2>1, <2>2, <2>5
  <2>6. ASSUME \A k \in 1 .. Len(s) : s[k] = t[Len(t) - Len(s) + k]
        PROVE  \A k \in 1 .. Len(s) : Reverse(s)[k] = Reverse(t)[k]
    <3> TAKE k \in 1 .. Len(s)
    <3>1. s[Len(s) - k + 1] = t[Len(t) - Len(s) + (Len(s) - k + 1)]
      BY <2>1, <2>6
    <3> QED
      BY <2>3, <2>4, <3>1
  <2> QED
    BY <2>5, <2>6
<1> QED
  BY <1>2, <1>3

(* A segment of a turn's reply.                                              *)
Segment(t, i, j) == SubSeq(Reply(t), i, j)

LEMMA SegmentIs ==
  ASSUME NEW t \in Turn, NEW i \in 1 .. (ReplyParts + 1), NEW j \in 0 .. ReplyParts
  PROVE  /\ Segment(t, i, j) \in Text
         /\ Len(Segment(t, i, j)) = IF i <= j THEN j - i + 1 ELSE 0
         /\ \A k \in 1 .. (j - i + 1) : Segment(t, i, j)[k] = <<t, i + k - 1>>
         /\ j < i => Segment(t, i, j) = <<>>
<1>1. ReplyParts \in Nat
  BY ConversationAssumption
<1>2. \A k \in i .. j : Reply(t)[k] = <<t, k>> /\ Reply(t)[k] \in Turn \X (0 .. (ReplyParts + 1))
  BY <1>1 DEF Reply
<1>3. i \in Int /\ j \in Int
  BY <1>1
<1> DEFINE g == Segment(t, i, j)
<1>4. /\ g \in Text /\ Len(g) = (IF i <= j THEN j - i + 1 ELSE 0)
      /\ \A k \in 1 .. (j - i + 1) : g[k] = Reply(t)[i + k - 1]
  BY <1>2, <1>3, SubSeqProperties DEF Segment, Text
<1>5. \A k \in 1 .. (j - i + 1) : i + k - 1 \in i .. j
  BY <1>3
<1>6. j < i => g = <<>>
  BY <1>3, SubSeqEmpty DEF Segment
<1> QED
  BY <1>2, <1>4, <1>5, <1>6

LEMMA ReplyIs ==
  ASSUME NEW t \in Turn
  PROVE  Reply(t) \in Text /\ Len(Reply(t)) = ReplyParts /\ Reply(t) # <<>> /\ Prompt(t) \in Text
         /\ Error(t) \in Text /\ Error(t) # <<>>
         /\ \A j \in 0 .. ReplyParts : IsPrefix(Segment(t, 1, j), Reply(t))
         /\ IsPrefix(Reply(t), Reply(t))
<1>1. ReplyParts \in Nat /\ ReplyParts >= 1
  BY ConversationAssumption
<1>2. \A k \in 1 .. ReplyParts : <<t, k>> \in Turn \X (0 .. (ReplyParts + 1))
  BY <1>1
<1>3. Reply(t) \in Text /\ Len(Reply(t)) = ReplyParts /\ \A k \in 1 .. ReplyParts : Reply(t)[k] = <<t, k>>
  BY <1>1, <1>2 DEF Reply, Text
<1>4. Reply(t) # <<>>
  BY <1>1, <1>3
<1>5. ASSUME NEW j \in 0 .. ReplyParts
      PROVE  IsPrefix(Segment(t, 1, j), Reply(t))
  <2> DEFINE g == Segment(t, 1, j)
  <2>1. g \in Text /\ Len(g) = (IF 1 <= j THEN j - 1 + 1 ELSE 0)
        /\ \A k \in 1 .. (j - 1 + 1) : g[k] = <<t, 1 + k - 1>>
    BY <1>1, SegmentIs
  <2> HIDE DEF g
  <2>2. Len(g) = j /\ \A k \in 1 .. j : g[k] = <<t, k>>
    BY <1>1, <2>1
  <2>3. j <= ReplyParts /\ \A k \in 1 .. j : k \in 1 .. ReplyParts
    BY <1>1
  <2>4. Len(g) <= Len(Reply(t)) /\ \A k \in 1 .. Len(g) : g[k] = Reply(t)[k]
    BY <1>3, <2>2, <2>3
  <2>5. IsPrefix(g, Reply(t))
    BY <1>3, <2>1, <2>4, PrefixIs DEF Text
  <2> QED
    BY <2>5 DEF g
<1>6. Prompt(t) \in Text /\ Error(t) \in Text /\ Error(t) # <<>>
  BY <1>1 DEF Prompt, Error, Text
<1>7. IsPrefix(Reply(t), Reply(t))
  BY <1>1, <1>3, PrefixIs DEF Text
<1> QED
  BY <1>3, <1>4, <1>5, <1>6, <1>7

LEMMA OverlapIs ==
  ASSUME NEW buffer \in Text, NEW chunk \in Text
  PROVE  LET fits(n) == /\ n \in 0 .. Len(chunk) /\ n <= Len(buffer)
                        /\ IsSuffix(SubSeq(chunk, 1, n), buffer)
         IN  /\ fits(Overlap(buffer, chunk)) /\ Overlap(buffer, chunk) \in Nat
             /\ \A n : fits(n) => n <= Overlap(buffer, chunk)
<1> DEFINE fits(n) == n \in 0 .. Len(chunk) /\ n <= Len(buffer) /\ IsSuffix(SubSeq(chunk, 1, n), buffer)
           N == {n \in 0 .. Len(chunk) : n <= Len(buffer) /\ IsSuffix(SubSeq(chunk, 1, n), buffer)}
<1>1. Len(chunk) \in Nat /\ Len(buffer) \in Nat
  BY LenProperties DEF Text
<1>2. 0 \in N
  <2>1. SubSeq(chunk, 1, 0) = <<>>
    BY SubSeqEmpty
  <2>2. <<>> \in Text /\ Len(<<>>) = 0 /\ buffer \in Text
    BY DEF Text
  <2>3. Len(<<>>) <= Len(buffer) /\ \A k \in 1 .. Len(<<>>) : <<>>[k] = buffer[Len(buffer) - Len(<<>>) + k]
    BY <1>1, <2>2
  <2>4. IsSuffix(<<>>, buffer)
    BY <2>2, <2>3, SuffixIs DEF Text
  <2>5. 0 \in 0 .. Len(chunk) /\ 0 <= Len(buffer)
    BY <1>1
  <2>6. IsSuffix(SubSeq(chunk, 1, 0), buffer)
    BY <2>1, <2>4, Zenon
  <2> QED
    BY <2>5, <2>6, Zenon
<1>3. N \subseteq 0 .. Len(chunk) /\ N \subseteq Nat /\ N # {}
  BY <1>2
<1>4. Overlap(buffer, chunk) = Max(N)
  BY DEF Overlap
<1>5. \A n : fits(n) <=> n \in N
  OBVIOUS
<1> HIDE DEF N, fits
<1>6. PICK m \in N : \A n \in N : n <= m
  BY <1>1, <1>3, GreatestNumber
<1>7. Max(N) = m
  BY <1>3, <1>6, MaxIs
<1>8. fits(Overlap(buffer, chunk)) /\ Overlap(buffer, chunk) \in Nat
      /\ \A n : fits(n) => n <= Overlap(buffer, chunk)
  BY <1>3, <1>4, <1>5, <1>6, <1>7
<1> QED
  BY <1>8 DEF fits

LEMMA MergedIsText ==
  ASSUME NEW buffer \in Text, NEW chunk \in Text
  PROVE  MergeStreamChunk(buffer, chunk) \in Text
<1> DEFINE o == Overlap(buffer, chunk)
<1>1. o \in Nat /\ o \in 0 .. Len(chunk) /\ Len(chunk) \in Nat
  BY OverlapIs, LenProperties DEF Text
<1>2. \A i \in (o + 1) .. Len(chunk) : chunk[i] \in Part
  <2>1. \A i \in (o + 1) .. Len(chunk) : i \in 1 .. Len(chunk)
    BY <1>1
  <2> QED
    BY <2>1, ElementOfSeq DEF Text, Part
<1>3. SubSeq(chunk, o + 1, Len(chunk)) \in Text
  BY <1>1, <1>2, SubSeqProperties DEF Text, Part
<1>4. buffer \o SubSeq(chunk, o + 1, Len(chunk)) \in Text
  BY <1>3, ConcatProperties DEF Text
<1> QED
  BY <1>4 DEF MergeStreamChunk

(* What was told of a reply and a chunk that goes on, repeats or replays it. *)
LEMMA MergeGoesOn ==
  ASSUME NEW t \in Turn, NEW a \in 0 .. ReplyParts, NEW i \in 1 .. (a + 1),
         NEW j \in {a, a + 1} \cap 1 .. ReplyParts, i <= j
  PROVE  MergeStreamChunk(Segment(t, 1, a), Segment(t, i, j)) = Segment(t, 1, j)
<1> DEFINE buffer == Segment(t, 1, a)
           chunk == Segment(t, i, j)
           o == Overlap(buffer, chunk)
<1>1. /\ ReplyParts \in Nat /\ a \in Nat /\ i \in Nat /\ j \in Nat /\ i <= a + 1 /\ i >= 1 /\ j >= 1
      /\ i \in 1 .. (ReplyParts + 1) /\ j \in 0 .. ReplyParts /\ j \in {a, a + 1} /\ 1 \in 1 .. (ReplyParts + 1)
  BY ConversationAssumption
<1>2. buffer \in Text /\ Len(buffer) = a /\ \A k \in 1 .. a : buffer[k] = <<t, k>>
  <2>1. buffer \in Text /\ Len(buffer) = (IF 1 <= a THEN a - 1 + 1 ELSE 0)
        /\ \A k \in 1 .. (a - 1 + 1) : buffer[k] = <<t, 1 + k - 1>>
    BY <1>1, SegmentIs
  <2> HIDE DEF buffer
  <2> QED
    BY <1>1, <2>1
<1>3. chunk \in Text /\ Len(chunk) = j - i + 1 /\ \A k \in 1 .. (j - i + 1) : chunk[k] = <<t, i + k - 1>>
  BY <1>1, SegmentIs
<1> HIDE DEF buffer, chunk
<1>4. CASE IsPrefix(buffer, chunk)
  <2>1. i = 1
    <3>1. CASE a = 0
      BY <1>1, <3>1
    <3>2. CASE a # 0
      <4>0. Len(buffer) <= Len(chunk) /\ \A k \in 1 .. Len(buffer) : buffer[k] = chunk[k]
        <5>1. buffer \in Seq(Part) /\ chunk \in Seq(Part)
          BY <1>2, <1>3 DEF Text, Part
        <5>2. IsPrefix(buffer, chunk) <=>
                Len(buffer) <= Len(chunk) /\ \A k \in 1 .. Len(buffer) : buffer[k] = chunk[k]
          BY <5>1, PrefixIs
        <5> QED
          BY <1>4, <5>2
      <4>1. a <= j - i + 1 /\ \A k \in 1 .. a : buffer[k] = chunk[k]
        BY <1>2, <1>3, <4>0
      <4>2. 1 \in 1 .. a /\ 1 \in 1 .. (j - i + 1)
        BY <1>1, <3>2, <4>1
      <4>3. <<t, 1>> = <<t, i + 1 - 1>>
        BY <1>2, <1>3, <4>1, <4>2
      <4> QED
        BY <1>1, <4>3
    <3> QED
      BY <3>1, <3>2
  <2> QED
    BY <1>4, <2>1 DEF MergeStreamChunk, buffer, chunk
<1>5. CASE ~IsPrefix(buffer, chunk) /\ IsSuffix(chunk, buffer)
  <2>0. Len(chunk) <= Len(buffer)
        /\ \A k \in 1 .. Len(chunk) : chunk[k] = buffer[Len(buffer) - Len(chunk) + k]
    BY <1>2, <1>3, <1>5, SuffixIs, Zenon DEF Text
  <2>1. j - i + 1 <= a /\ \A k \in 1 .. (j - i + 1) : chunk[k] = buffer[a - (j - i + 1) + k]
    BY <1>2, <1>3, <2>0
  <2>2. j - i + 1 \in 1 .. (j - i + 1) /\ a - (j - i + 1) + (j - i + 1) = a /\ a \in 1 .. a
    BY <1>1, <2>1
  <2>3. <<t, i + (j - i + 1) - 1>> = <<t, a>>
    BY <1>2, <1>3, <2>1, <2>2
  <2>4. j = a
    BY <1>1, <2>3
  <2> QED
    BY <1>5, <2>4 DEF MergeStreamChunk, buffer, chunk
<1>6. CASE ~IsPrefix(buffer, chunk) /\ ~IsSuffix(chunk, buffer)
  <2>1. j = a + 1
    <3>1. SUFFICES ASSUME j = a
                   PROVE  IsSuffix(chunk, buffer)
      BY <1>1, <1>6
    <3>2. \A k \in 1 .. (j - i + 1) : a - (j - i + 1) + k = i + k - 1 /\ i + k - 1 \in 1 .. a
      BY <1>1, <3>1
    <3>3. Len(chunk) <= Len(buffer)
      BY <1>1, <1>2, <1>3, <3>1
    <3>4. \A k \in 1 .. Len(chunk) : chunk[k] = buffer[Len(buffer) - Len(chunk) + k]
      BY <1>2, <1>3, <3>2
    <3> QED
      BY <1>2, <1>3, <3>3, <3>4, SuffixIs DEF Text
  <2> DEFINE m == a - i + 1
             shared == SubSeq(chunk, 1, m)
  <2>2. m \in Nat /\ m <= Len(buffer) /\ m \in 0 .. Len(chunk) /\ Len(chunk) = m + 1
    BY <1>1, <1>2, <1>3, <2>1
  <2>3. \A n \in 0 .. Len(chunk) : /\ SubSeq(chunk, 1, n) \in Text /\ Len(SubSeq(chunk, 1, n)) = n
                                   /\ \A k \in 1 .. n : SubSeq(chunk, 1, n)[k] = <<t, i + k - 1>>
    <3> TAKE n \in 0 .. Len(chunk)
    <3>1. n \in Int /\ 1 \in Int /\ Len(chunk) \in Nat /\ \A k \in 1 .. n : k \in 1 .. Len(chunk)
      BY <2>2
    <3>2. \A k \in 1 .. n : chunk[k] \in Part
      BY <1>3, <3>1, ElementOfSeq DEF Text, Part
    <3>3. /\ SubSeq(chunk, 1, n) \in Seq(Part) /\ Len(SubSeq(chunk, 1, n)) = (IF 1 <= n THEN n - 1 + 1 ELSE 0)
          /\ \A k \in 1 .. (n - 1 + 1) : SubSeq(chunk, 1, n)[k] = chunk[1 + k - 1]
      BY <3>1, <3>2, SubSeqProperties
    <3>4. n \in Nat /\ (IF 1 <= n THEN n - 1 + 1 ELSE 0) = n /\ n - 1 + 1 = n /\ \A k \in 1 .. n : 1 + k - 1 = k
      OBVIOUS
    <3>5. \A k \in 1 .. n : chunk[k] = <<t, i + k - 1>>
      BY <1>3, <3>1
    <3> HIDE DEF m
    <3> QED
      BY <3>3, <3>4, <3>5 DEF Text, Part
  <2>4. IsSuffix(shared, buffer)
    <3>1. shared \in Text /\ Len(shared) = m /\ \A k \in 1 .. m : shared[k] = <<t, i + k - 1>>
      BY <2>2, <2>3
    <3>2. \A k \in 1 .. m : a - m + k = i + k - 1 /\ i + k - 1 \in 1 .. a
      BY <1>1
    <3> HIDE DEF m, shared
    <3>3. Len(shared) <= Len(buffer) /\ \A k \in 1 .. Len(shared) : shared[k] = buffer[Len(buffer) - Len(shared) + k]
      BY <1>2, <2>2, <3>1, <3>2
    <3> QED
      BY <1>2, <3>1, <3>3, SuffixIs DEF Text
  <2>5. o \in Nat /\ o \in 0 .. Len(chunk) /\ o <= Len(buffer) /\ IsSuffix(SubSeq(chunk, 1, o), buffer) /\ m <= o
    BY <1>2, <1>3, <2>2, <2>4, OverlapIs
  <2> HIDE DEF o, shared
  <2>6. o = m
    <3>1. CASE o = 0
      BY <2>2, <2>5, <3>1
    <3>2. CASE o # 0
      <4>1. SubSeq(chunk, 1, o) \in Text /\ Len(SubSeq(chunk, 1, o)) = o
            /\ \A k \in 1 .. o : SubSeq(chunk, 1, o)[k] = <<t, i + k - 1>>
        BY <2>3, <2>5
      <4> DEFINE piece == SubSeq(chunk, 1, o)
      <4>0. piece \in Text /\ IsSuffix(piece, buffer) /\ Len(piece) = o
        BY <2>5, <4>1
      <4> HIDE DEF piece
      <4>6. \A k \in 1 .. Len(piece) : piece[k] = buffer[Len(buffer) - Len(piece) + k]
        BY <1>2, <4>0, SuffixIs, Zenon DEF Text
      <4>7. \A k \in 1 .. o : piece[k] = buffer[a - o + k]
        BY <1>2, <4>0, <4>6
      <4>2. \A k \in 1 .. o : SubSeq(chunk, 1, o)[k] = buffer[a - o + k]
        BY <4>7 DEF piece
      <4>3. o \in 1 .. o /\ a - o + o = a /\ a \in 1 .. a
        BY <1>1, <1>2, <2>5, <3>2
      <4>4. <<t, i + o - 1>> = <<t, a>>
        BY <1>2, <4>1, <4>2, <4>3
      <4>5. i + o - 1 = a
        BY <4>4
      <4> QED
        BY <1>1, <2>5, <4>5
    <3> QED
      BY <3>1, <3>2
  <2> DEFINE rest == SubSeq(chunk, m + 1, Len(chunk))
  <2>7. rest \in Text /\ Len(rest) = 1 /\ rest[1] = <<t, a + 1>>
    <3>1. m + 1 \in Int /\ Len(chunk) \in Int /\ m + 1 \in 1 .. Len(chunk) /\ m + 1 = Len(chunk)
          /\ \A k \in (m + 1) .. Len(chunk) : k = m + 1
      BY <2>2
    <3>2. \A k \in (m + 1) .. Len(chunk) : chunk[k] \in Part
      BY <1>3, <3>1, ElementOfSeq DEF Text, Part
    <3> HIDE DEF m
    <3>3. /\ rest \in Seq(Part) /\ Len(rest) = (IF m + 1 <= Len(chunk) THEN Len(chunk) - (m + 1) + 1 ELSE 0)
          /\ \A k \in 1 .. (Len(chunk) - (m + 1) + 1) : rest[k] = chunk[m + 1 + k - 1]
      BY <3>1, <3>2, SubSeqProperties
    <3>4. rest \in Seq(Part) /\ Len(rest) = 1 /\ rest[1] = chunk[m + 1]
      BY <2>2, <3>1, <3>3
    <3>5. chunk[m + 1] = <<t, i + (m + 1) - 1>>
      BY <1>3, <3>1
    <3>6. i + (m + 1) - 1 = a + 1
      BY <1>1 DEF m
    <3> QED
      BY <3>4, <3>5, <3>6 DEF Text, Part
  <2> HIDE DEF rest, m
  <2>8. Segment(t, 1, j) \in Text /\ Len(Segment(t, 1, j)) = a + 1
        /\ \A k \in 1 .. (a + 1) : Segment(t, 1, j)[k] = <<t, k>>
    <3>1. Segment(t, 1, j) \in Text /\ Len(Segment(t, 1, j)) = (IF 1 <= j THEN j - 1 + 1 ELSE 0)
          /\ \A k \in 1 .. (j - 1 + 1) : Segment(t, 1, j)[k] = <<t, 1 + k - 1>>
      BY <1>1, SegmentIs
    <3> QED
      BY <1>1, <2>1, <3>1
  <2>9. buffer \o rest = Segment(t, 1, j)
    <3>1. /\ buffer \o rest \in Seq(Part) /\ Len(buffer \o rest) = a + 1
          /\ \A k \in 1 .. (a + 1) : (buffer \o rest)[k] = IF k <= a THEN buffer[k] ELSE rest[k - a]
      <4>1. /\ buffer \o rest \in Seq(Part) /\ Len(buffer \o rest) = Len(buffer) + Len(rest)
            /\ \A k \in 1 .. Len(buffer) + Len(rest) :
                 (buffer \o rest)[k] = IF k <= Len(buffer) THEN buffer[k] ELSE rest[k - Len(buffer)]
        <5>1. buffer \in Seq(Part) /\ rest \in Seq(Part)
          BY <1>2, <2>7 DEF Text, Part
        <5> QED
          BY <5>1, ConcatProperties
      <4> QED
        BY <1>2, <2>7, <4>1
    <3>2. \A k \in 1 .. (a + 1) : (k <= a /\ k \in 1 .. a) \/ (k = a + 1 /\ k - a = 1 /\ ~(k <= a))
      BY <1>1
    <3>3. \A k \in 1 .. (a + 1) : (buffer \o rest)[k] = <<t, k>>
      BY <1>2, <2>7, <3>1, <3>2
    <3> QED
      BY <2>8, <3>1, <3>3, SeqEqual DEF Text, Part
  <2> QED
    BY <1>6, <2>6, <2>9 DEF MergeStreamChunk, o, rest, buffer, chunk
<1> QED
  BY <1>4, <1>5, <1>6

LEMMA BestIs ==
  ASSUME NEW bs \in [Source -> Text]
  PROVE  /\ BestStreamText(bs) = <<>> \/ \E s \in Source : BestStreamText(bs) = bs[s]
         /\ BestStreamText(bs) \in Text
<1> DEFINE T == {i \in 1 .. Len(Sources) : \A r \in Source : Len(bs[r]) <= Len(bs[Sources[i]])}
           k == IF T # {} THEN Max(T) ELSE 0
<1>1. Len(Sources) \in Nat /\ DOMAIN Sources = 1 .. Len(Sources)
  BY ConversationAssumption, LenProperties
<1>2. T \in SUBSET (1 .. Len(Sources))
  OBVIOUS
<1>3. BestStreamText(bs) = IF k = 0 THEN <<>> ELSE bs[Sources[k]]
  BY DEF BestStreamText, SelectLastInSeq
<1> HIDE DEF T
<1>4. k = 0 \/ k \in 1 .. Len(Sources)
  BY <1>1, <1>2, LastOneIs
<1> HIDE DEF k
<1>5. k \in 1 .. Len(Sources) => Sources[k] \in Source
  BY <1>1 DEF Source, ToSet
<1>6. <<>> \in Text
  BY DEF Text
<1> QED
  BY <1>3, <1>4, <1>5, <1>6

LEMMA ChunkIs ==
  ASSUME NEW s \in Source, turn \in Turn, told \in [Source -> 0 .. ReplyParts], NEW chunk \in Chunk(s)
  PROVE  /\ chunk \in Text /\ Last(chunk)[2] \in 0 .. ReplyParts /\ Last(chunk)[2] # 0
         /\ MergeStreamChunk(Segment(turn, 1, told[s]), chunk) = Segment(turn, 1, Last(chunk)[2])
<1>1. ReplyParts \in Nat /\ told[s] \in 0 .. ReplyParts
  BY ConversationAssumption
<1>2. PICK i \in 1 .. (told[s] + 1), j \in {told[s], told[s] + 1} \cap 1 .. ReplyParts :
        chunk = SubSeq(Reply(turn), i, j) /\ chunk # <<>>
  BY DEF Chunk
<1>3. i \in 1 .. (ReplyParts + 1) /\ j \in 0 .. ReplyParts /\ chunk = Segment(turn, i, j) /\ j # 0
  BY <1>1, <1>2 DEF Segment
<1>4. i <= j
  <2>1. ~(j < i)
    BY <1>2, <1>3, SegmentIs
  <2> QED
    BY <1>3, <2>1
<1>5. chunk \in Text /\ Len(chunk) = j - i + 1 /\ \A k \in 1 .. (j - i + 1) : chunk[k] = <<turn, i + k - 1>>
  BY <1>3, <1>4, SegmentIs
<1>6. Last(chunk) = <<turn, j>>
  <2>1. j - i + 1 \in 1 .. (j - i + 1) /\ i + (j - i + 1) - 1 = j
    BY <1>3, <1>4
  <2> QED
    BY <1>5, <2>1 DEF Last
<1>7. MergeStreamChunk(Segment(turn, 1, told[s]), Segment(turn, i, j)) = Segment(turn, 1, j)
  BY <1>1, <1>2, <1>4, MergeGoesOn
<1> QED
  BY <1>3, <1>5, <1>6, <1>7

-----------------------------------------------------------------------------
(* The messages at some of the positions, in their order.                    *)

Keeps(ms, is, kept, i) == IF i \in is THEN Append(kept, ms[i]) ELSE kept

KeptInSteps(g, ms, is) ==
  /\ g \in [0 .. Len(ms) -> Seq(Message)] /\ g[0] = <<>>
  /\ \A i \in 1 .. Len(ms) : g[i] = Keeps(ms, is, g[i - 1], i)

LEMMA ThoseInSteps ==
  ASSUME NEW ms \in Seq(Message), NEW is
  PROVE  \E g : KeptInSteps(g, ms, is) /\ Those(ms, is) = g[Len(ms)]
<1> DEFINE n == Len(ms)
           X == Seq(Message)
           step == [x \in X \X (1 .. n) |-> Keeps(ms, is, x[1], x[2])]
           Body(it) == it = [t \in SUBSET (1 .. n) |->
                              IF t = {} THEN <<>> ELSE Keeps(ms, is, it[t \ {Max(t)}], Max(t))]
           iter == CHOOSE it : Body(it)
           ps == [i \in DOMAIN ms |-> i]
           Loop(it) == it = [t \in SUBSET (1 .. n) |->
                              IF t = {} THEN <<>>
                              ELSE IF ps[Max(t)] \in is
                                     THEN Append(it[t \ {Max(t)}], ms[ps[Max(t)]])
                                     ELSE it[t \ {Max(t)}]]
<1>1. n \in Nat /\ DOMAIN ms = 1 .. n /\ \A i \in 1 .. n : ms[i] \in Message
  BY LenProperties
<1>2. Those(ms, is) = (CHOOSE it : Loop(it))[1 .. n]
  BY <1>1 DEF Those, FoldLeft, MapThenFoldSet
<1> HIDE DEF n
<1>3. \A t \in SUBSET (1 .. n) : t # {} => Max(t) \in 1 .. n
  BY <1>1, MaxIn
<1>4. \A it : Loop(it) <=> Body(it)
  <2> TAKE it
  <2>1. ASSUME NEW t \in SUBSET (1 .. n), t # {}
        PROVE  (IF ps[Max(t)] \in is THEN Append(it[t \ {Max(t)}], ms[ps[Max(t)]]) ELSE it[t \ {Max(t)}])
                 = Keeps(ms, is, it[t \ {Max(t)}], Max(t))
    <3>1. ps[Max(t)] = Max(t)
      BY <1>1, <1>3, <2>1
    <3> HIDE DEF ps
    <3> QED
      BY <3>1 DEF Keeps
  <2> HIDE DEF ps
  <2>2. [t \in SUBSET (1 .. n) |-> IF t = {} THEN <<>> ELSE
            IF ps[Max(t)] \in is THEN Append(it[t \ {Max(t)}], ms[ps[Max(t)]]) ELSE it[t \ {Max(t)}]]
        = [t \in SUBSET (1 .. n) |-> IF t = {} THEN <<>> ELSE Keeps(ms, is, it[t \ {Max(t)}], Max(t))]
    BY <2>1
  <2> QED
    BY <2>2, Zenon
<1>5. (CHOOSE it : Loop(it)) = iter
  <2> HIDE DEF Loop, Body
  <2> QED
    BY <1>4, Zenon
<1> HIDE DEF Loop, ps
<1>6. step \in [X \X (1 .. n) -> X] /\ <<>> \in X
  <2>1. \A x \in X, i \in 1 .. n : Keeps(ms, is, x, i) \in X
    <3> TAKE x \in X, i \in 1 .. n
    <3>1. Append(x, ms[i]) \in X
      BY <1>1, AppendProperties
    <3> HIDE DEF X
    <3> QED
      BY <3>1 DEF Keeps
  <2> HIDE DEF X
  <2>2. step \in [X \X (1 .. n) -> X]
    BY <2>1
  <2> QED
    BY <2>2 DEF X
<1>7. \A x \in X, i \in 1 .. n : step[<<x, i>>] = Keeps(ms, is, x, i)
  <2> HIDE DEF X
  <2> QED OBVIOUS
<1> HIDE DEF step, X
<1>8. PICK it0 \in [SUBSET (1 .. n) -> X] : Iterates(it0, n, <<>>, step)
  BY <1>1, <1>6, IteratesExist
<1>9. Body(it0)
  <2>1. ASSUME NEW t \in SUBSET (1 .. n)
        PROVE  it0[t] = IF t = {} THEN <<>> ELSE Keeps(ms, is, it0[t \ {Max(t)}], Max(t))
    <3>1. CASE t # {}
      <4>1. Max(t) \in 1 .. n /\ t \ {Max(t)} \in SUBSET (1 .. n)
        BY <1>1, <3>1, MaxIn
      <4>2. it0[t \ {Max(t)}] \in X
        BY <4>1
      <4>3. step[<<it0[t \ {Max(t)}], Max(t)>>] = Keeps(ms, is, it0[t \ {Max(t)}], Max(t))
        BY <1>7, <4>1, <4>2
      <4> QED
        BY <1>8, <3>1, <4>3, Zenon DEF Iterates
    <3>2. CASE t = {}
      BY <1>8, <3>2 DEF Iterates
    <3> QED
      BY <3>1, <3>2
  <2>2. it0 = [t \in SUBSET (1 .. n) |-> it0[t]]
    OBVIOUS
  <2> QED
    BY <2>1, <2>2
<1>10. Body(iter)
  <2> HIDE DEF Body
  <2> QED BY <1>9, Zenon
<1>11. \A t \in SUBSET (1 .. n) :
        iter[t] = IF t = {} THEN <<>> ELSE Keeps(ms, is, iter[t \ {Max(t)}], Max(t))
  <2> HIDE DEF iter
  <2> QED BY <1>10
<1> HIDE DEF iter, Body
<1>12. FoldsOver(iter, X, <<>>, n, step)
  BY <1>1, <1>6, <1>7, <1>11, MaxIn DEF FoldsOver
<1>13. PICK g : GoesOn(g, X, <<>>, n, step) /\ g[n] = iter[1 .. n]
  BY <1>12, FoldGoes
<1>14. \A i \in 1 .. n : g[i] = Keeps(ms, is, g[i - 1], i)
  <2>1. \A i \in 1 .. n : g[i - 1] \in X
    BY <1>1, <1>13 DEF GoesOn
  <2> QED
    BY <1>7, <1>13, <2>1 DEF GoesOn
<1>15. KeptInSteps(g, ms, is)
  BY <1>13, <1>14 DEF n, X, GoesOn, KeptInSteps
<1> QED
  BY <1>2, <1>5, <1>13, <1>15, Zenon DEF n

LEMMA ThoseAre ==
  ASSUME NEW ms \in Seq(Message), NEW is
  PROVE  /\ Those(ms, is) \in Seq(Message)
         /\ \A x \in DOMAIN Those(ms, is) : \E p \in DOMAIN ms \cap is : Those(ms, is)[x] = ms[p]
<1>1. PICK g : KeptInSteps(g, ms, is) /\ Those(ms, is) = g[Len(ms)]
  BY ThoseInSteps
<1> DEFINE n == Len(ms)
           T == {i \in 0 .. n : \A x \in DOMAIN g[i] : \E p \in DOMAIN ms \cap is : g[i][x] = ms[p]}
<1>2. n \in Nat /\ n \in 0 .. n /\ DOMAIN ms = 1 .. n /\ \A i \in 1 .. n : ms[i] \in Message
  BY LenProperties
<1>3. \A i \in 0 .. n : g[i] \in Seq(Message)
  BY <1>1 DEF KeptInSteps
<1>4. 0 \in T
  BY <1>1, <1>2 DEF KeptInSteps
<1>5. ASSUME NEW i \in 1 .. n, i - 1 \in T
      PROVE  i \in T
  <2>1. g[i] = Keeps(ms, is, g[i - 1], i) /\ i - 1 \in 0 .. n /\ i \in 0 .. n
    BY <1>1 DEF KeptInSteps
  <2>2. CASE i \in is
    <3>1. g[i] = Append(g[i - 1], ms[i]) /\ i \in DOMAIN ms \cap is
      BY <1>2, <2>1, <2>2 DEF Keeps
    <3>2. \A x \in DOMAIN g[i] : (x \in DOMAIN g[i - 1] /\ g[i][x] = g[i - 1][x]) \/ g[i][x] = ms[i]
      BY <1>2, <1>3, <2>1, <3>1, TurnAppend
    <3> QED
      BY <1>5, <2>1, <3>1, <3>2
  <2>3. CASE i \notin is
    BY <1>5, <2>1, <2>3 DEF Keeps
  <2> QED
    BY <2>2, <2>3
<1> HIDE DEF T
<1>6. n \in T
  BY <1>2, <1>4, <1>5, Induction
<1> QED
  BY <1>1, <1>2, <1>3, <1>6 DEF T

(* k is made of the messages of ms in is up to position n, in their order.   *)
SomeOf(k, ms, is, n, f) ==
  /\ f \in [DOMAIN k -> 1 .. n]
  /\ \A x \in DOMAIN k : k[x] = ms[f[x]] /\ TurnOf(k, x) = TurnOf(ms, f[x])
  /\ \A x, y \in DOMAIN k : x < y => f[x] < f[y]
  /\ \A i \in 1 .. n : i \in is => \E x \in DOMAIN k : f[x] = i
  /\ Prompts(k) = TurnOf(ms, n)

LEMMA ThoseKeepTurns ==
  ASSUME NEW ms \in Seq(Message), NEW is, \A i \in DOMAIN ms : IsPrompt(ms[i]) => i \in is
  PROVE  \E f : SomeOf(Those(ms, is), ms, is, Len(ms), f)
<1>1. PICK g : KeptInSteps(g, ms, is) /\ Those(ms, is) = g[Len(ms)]
  BY ThoseInSteps
<1> DEFINE n == Len(ms)
           T == {i \in 0 .. n : \E f : SomeOf(g[i], ms, is, i, f)}
<1>2. n \in Nat /\ n \in 0 .. n /\ DOMAIN ms = 1 .. n /\ \A i \in 1 .. n : ms[i] \in Message
  BY LenProperties
<1>3. \A i \in 0 .. n : g[i] \in Seq(Message)
  BY <1>1 DEF KeptInSteps
<1>4. 0 \in T
  <2>1. g[0] = <<>> /\ DOMAIN <<>> = {} /\ Len(<<>>) = 0
    BY <1>1 DEF KeptInSteps
  <2>2. Prompts(<<>>) = TurnOf(ms, 0)
    BY <2>1, TurnCounts DEF Prompts
  <2>3. <<>> \in [{} -> 1 .. 0]
    BY <2>1
  <2>4. SomeOf(<<>>, ms, is, 0, <<>>)
    BY <2>1, <2>2, <2>3 DEF SomeOf
  <2> QED
    BY <1>2, <2>1, <2>4
<1>5. ASSUME NEW i \in 1 .. n, i - 1 \in T
      PROVE  i \in T
  <2>1. /\ g[i] = Keeps(ms, is, g[i - 1], i) /\ i - 1 \in 0 .. n /\ i \in 0 .. n
        /\ i - 1 \in Nat /\ i - 1 + 1 = i
    BY <1>1 DEF KeptInSteps
  <2> DEFINE k == g[i - 1]
  <2>2. k \in Seq(Message)
    BY <1>3, <2>1
  <2>3. PICK f : SomeOf(k, ms, is, i - 1, f)
    BY <1>5
  <2>4. /\ TurnOf(ms, i) = TurnOf(ms, i - 1) + (IF IsPrompt(ms[i]) THEN 1 ELSE 0)
        /\ TurnOf(ms, i) \in Nat /\ TurnOf(ms, i - 1) \in Nat
    <3>1. TurnOf(ms, i - 1 + 1) = TurnOf(ms, i - 1) + (IF IsPrompt(ms[i - 1 + 1]) THEN 1 ELSE 0)
      BY <2>1, TurnCounts
    <3> QED
      BY <2>1, <3>1, TurnCounts
  <2> HIDE DEF k
  <2>5. ASSUME i \in is
        PROVE  \E h : SomeOf(g[i], ms, is, i, h)
    <3> DEFINE more == Append(k, ms[i])
               h == [x \in DOMAIN more |-> IF x = Len(k) + 1 THEN i ELSE f[x]]
    <3>1. /\ g[i] = more /\ Len(k) \in Nat /\ DOMAIN k = 1 .. Len(k) /\ DOMAIN more = 1 .. (Len(k) + 1)
          /\ \A x \in DOMAIN k : more[x] = k[x] /\ TurnOf(more, x) = TurnOf(k, x)
          /\ more[Len(k) + 1] = ms[i]
          /\ Prompts(more) = Prompts(k) + (IF IsPrompt(ms[i]) THEN 1 ELSE 0)
          /\ TurnOf(more, Len(k) + 1) = Prompts(more)
      BY <1>2, <2>1, <2>2, <2>5, TurnAppend DEF Keeps, k
    <3> HIDE DEF more
    <3>2. \A x \in DOMAIN more : x \in DOMAIN k \/ x = Len(k) + 1
      BY <3>1
    <3>3. \A x \in DOMAIN k : h[x] = f[x] /\ f[x] \in 1 .. (i - 1) /\ x # Len(k) + 1 /\ f[x] # i /\ x \in DOMAIN more
      BY <2>3, <3>1 DEF SomeOf
    <3>4. h[Len(k) + 1] = i /\ Len(k) + 1 \in DOMAIN more
      BY <3>1
    <3>5. h \in [DOMAIN more -> 1 .. i]
      <4>0. (\A y \in 1 .. (i - 1) : y \in 1 .. i) /\ i \in 1 .. i
        BY <1>2
      <4>1. \A x \in DOMAIN k : f[x] \in 1 .. i
        BY <3>3, <4>0
      <4>2. i \in 1 .. i
        BY <4>0
      <4>3. \A x \in DOMAIN more : (IF x = Len(k) + 1 THEN i ELSE f[x]) \in 1 .. i
        BY <3>2, <4>1, <4>2
      <4> QED
        BY <4>3
    <3> HIDE DEF h
    <3>6. Prompts(more) = TurnOf(ms, i)
      BY <2>3, <2>4, <3>1 DEF SomeOf
    <3>7. \A x \in DOMAIN more : more[x] = ms[h[x]] /\ TurnOf(more, x) = TurnOf(ms, h[x])
      BY <2>3, <3>1, <3>2, <3>3, <3>4, <3>6 DEF SomeOf
    <3>8. ASSUME NEW x \in DOMAIN more, NEW y \in DOMAIN more, x < y
          PROVE  h[x] < h[y]
      <4>1. x \in DOMAIN k
        BY <3>1, <3>8
      <4>2. CASE y \in DOMAIN k
        BY <2>3, <3>3, <3>8, <4>1, <4>2 DEF SomeOf
      <4>3. CASE y = Len(k) + 1
        <5>1. f[x] \in 1 .. (i - 1) /\ h[y] = i
          BY <3>3, <3>4, <4>1, <4>3
        <5> QED
          BY <3>3, <4>1, <5>1
      <4> QED
        BY <3>2, <4>2, <4>3
    <3>9. ASSUME NEW z \in 1 .. i, z \in is
          PROVE  \E x \in DOMAIN more : h[x] = z
      <4>1. CASE z = i
        BY <3>4, <4>1
      <4>2. CASE z # i
        <5>1. z \in 1 .. (i - 1)
          BY <4>2
        <5>2. PICK x \in DOMAIN k : f[x] = z
          BY <2>3, <3>9, <5>1 DEF SomeOf
        <5> QED
          BY <3>3, <5>2
      <4> QED
        BY <4>1, <4>2
    <3>10. SomeOf(more, ms, is, i, h)
      BY <3>5, <3>6, <3>7, <3>8, <3>9 DEF SomeOf
    <3> QED
      BY <3>1, <3>10
  <2>6. ASSUME i \notin is
        PROVE  SomeOf(g[i], ms, is, i, f)
    <3>1. g[i] = k /\ ~IsPrompt(ms[i])
      BY <1>2, <2>1, <2>6 DEF Keeps, k
    <3>2. Prompts(k) = TurnOf(ms, i) /\ f \in [DOMAIN k -> 1 .. i]
      BY <2>3, <2>4, <3>1 DEF SomeOf
    <3>3. \A z \in 1 .. i : z \in is => z \in 1 .. (i - 1)
      BY <2>6
    <3> QED
      BY <2>3, <3>1, <3>2, <3>3 DEF SomeOf
  <2> QED
    BY <2>1, <2>5, <2>6
<1> HIDE DEF T
<1>6. n \in T
  BY <1>2, <1>4, <1>5, Induction
<1> QED
  BY <1>1, <1>6 DEF T

-----------------------------------------------------------------------------
(* What a list of messages has to be like.                                   *)

Prompted(ms, n) ==
  /\ Prompts(ms) = n
  /\ \A i \in DOMAIN ms : IsPrompt(ms[i]) => ms[i].text = Prompt(TurnOf(ms, i))

Reads(text, t) == IsPrefix(text, Reply(t)) \/ text = Error(t)

WellTold(ms, n, ordered, single) ==
  /\ Prompted(ms, n)
  /\ \A t \in ordered : \A i \in Texts(ms, t) : Reads(ms[i].text, t)
  /\ \A t \in single : \A i, j \in Texts(ms, t) : i = j

LEMMA ReadsTyped ==
  ASSUME NEW text, NEW t
  PROVE  Reads(text, t) \in BOOLEAN
BY DEF Reads

LEMMA SomeOfIsToldSo ==
  ASSUME NEW ms, NEW k \in Seq(Message), NEW is, NEW f, SomeOf(k, ms, is, Len(ms), f),
         DOMAIN ms = 1 .. Len(ms),
         NEW n, NEW ordered, NEW single, WellTold(ms, n, ordered, single)
  PROVE  WellTold(k, n, ordered, single)
<1>1. \A x \in DOMAIN k : f[x] \in DOMAIN ms /\ k[x] = ms[f[x]] /\ TurnOf(k, x) = TurnOf(ms, f[x])
  BY DEF SomeOf
<1>2. \A t, x : x \in Texts(k, t) => x \in DOMAIN k /\ f[x] \in Texts(ms, t)
  BY <1>1 DEF Texts
<1>3. Prompted(k, n)
  BY <1>1 DEF WellTold, Prompted, SomeOf, Prompts
<1>4. \A t \in ordered : \A i \in Texts(k, t) : Reads(k[i].text, t)
  BY <1>1, <1>2 DEF WellTold
<1>5. \A t \in single : \A i, j \in Texts(k, t) : i = j
  <2>1. \A x, y \in DOMAIN k : f[x] = f[y] => x = y
    <3>1. DOMAIN k = 1 .. Len(k) /\ Len(k) \in Nat
      BY LenProperties
    <3>2. \A x \in DOMAIN k : f[x] \in 1 .. Len(ms)
      BY DEF SomeOf
    <3>3. \A x, y \in DOMAIN k : x < y \/ y < x \/ x = y
      BY <3>1
    <3> QED
      BY <3>2, <3>3 DEF SomeOf
  <2> QED
    BY <1>2, <2>1 DEF WellTold
<1> QED
  BY <1>3, <1>4, <1>5 DEF WellTold

LEMMA StoppedIs ==
  ASSUME NEW ms \in Seq(Message)
  PROVE  /\ Stopped(ms) \in Seq(Message) /\ DOMAIN Stopped(ms) = DOMAIN ms /\ Len(Stopped(ms)) = Len(ms)
         /\ \A i \in DOMAIN ms : /\ Stopped(ms)[i].by = ms[i].by /\ Stopped(ms)[i].text = ms[i].text
                                 /\ ~IsOpen(Stopped(ms)[i])
         /\ \A i \in Nat : i <= Len(ms) => TurnOf(Stopped(ms), i) = TurnOf(ms, i)
<1>1. Len(ms) \in Nat /\ DOMAIN ms = 1 .. Len(ms) /\ \A i \in 1 .. Len(ms) : ms[i] \in Message
  BY LenProperties
<1>2. \A m \in Message : /\ [m EXCEPT !.streaming = FALSE] \in Message
                         /\ [m EXCEPT !.streaming = FALSE].by = m.by
                         /\ [m EXCEPT !.streaming = FALSE].text = m.text
                         /\ [m EXCEPT !.streaming = FALSE].streaming = FALSE
  BY DEF Message
<1> DEFINE s == Stopped(ms)
<1>3. DOMAIN s = 1 .. Len(ms)
      /\ \A i \in 1 .. Len(ms) : s[i] = IF IsReply(ms[i]) THEN [ms[i] EXCEPT !.streaming = FALSE] ELSE ms[i]
  BY <1>1 DEF Stopped
<1>4. \A i \in 1 .. Len(ms) : s[i] \in Message /\ s[i].by = ms[i].by /\ s[i].text = ms[i].text /\ ~IsOpen(s[i])
  BY <1>1, <1>2, <1>3 DEF IsOpen, IsReply
<1>5. s \in Seq(Message) /\ Len(s) = Len(ms)
  <2>1. s = [i \in 1 .. Len(ms) |-> IF IsReply(ms[i]) THEN [ms[i] EXCEPT !.streaming = FALSE] ELSE ms[i]]
    BY <1>1 DEF Stopped
  <2>2. \A i \in 1 .. Len(ms) : (IF IsReply(ms[i]) THEN [ms[i] EXCEPT !.streaming = FALSE] ELSE ms[i]) \in Message
    BY <1>1, <1>2
  <2> HIDE DEF s
  <2> QED
    BY <1>1, <2>1, <2>2
<1> HIDE DEF s
<1>6. ASSUME NEW i \in Nat, i <= Len(ms)
      PROVE  TurnOf(s, i) = TurnOf(ms, i)
  <2>1. \A j \in 1 .. i : j \in 1 .. Len(ms)
    BY <1>1, <1>6
  <2>2. \A j \in 1 .. i : IsPrompt(s[j]) <=> IsPrompt(ms[j])
    BY <1>4, <2>1 DEF IsPrompt
  <2> QED
    BY <2>2, SameTurns
<1> QED
  BY <1>1, <1>3, <1>4, <1>5, <1>6 DEF s

LEMMA StoppedToldSo ==
  ASSUME NEW ms \in Seq(Message), NEW n, NEW ordered, NEW single, WellTold(ms, n, ordered, single)
  PROVE  WellTold(Stopped(ms), n, ordered, single)
<1> DEFINE s == Stopped(ms)
<1>1. /\ DOMAIN s = DOMAIN ms /\ Len(s) = Len(ms) /\ Len(ms) \in Nat
      /\ \A i \in DOMAIN ms : s[i].by = ms[i].by /\ s[i].text = ms[i].text
      /\ \A i \in Nat : i <= Len(ms) => TurnOf(s, i) = TurnOf(ms, i)
  BY StoppedIs, LenProperties
<1>2. \A i \in DOMAIN ms : TurnOf(s, i) = TurnOf(ms, i)
  BY <1>1, TurnBounds
<1> HIDE DEF s
<1>3. \A t : Texts(s, t) = Texts(ms, t)
  BY <1>1, <1>2 DEF Texts, IsReply
<1>4. \A t : Texts(ms, t) \subseteq DOMAIN ms
  BY DEF Texts
<1>5. Prompted(s, n)
  BY <1>1, <1>2 DEF WellTold, Prompted, Prompts, IsPrompt
<1>6. WellTold(s, n, ordered, single)
  BY <1>1, <1>3, <1>4, <1>5 DEF WellTold
<1> QED
  BY <1>6 DEF s

LEMMA PrunedIs ==
  ASSUME NEW ms \in Seq(Message), NEW n, NEW ordered, NEW single, WellTold(ms, n, ordered, single)
  PROVE  /\ Pruned(ms) \in Seq(Message) /\ WellTold(Pruned(ms), n, ordered, single)
         /\ \A x \in DOMAIN Pruned(ms) : \E p \in DOMAIN ms : Pruned(ms)[x] = ms[p]
<1> DEFINE is == {i \in DOMAIN ms : ~IsEmptyShell(ms[i])}
<1>1. \A i \in DOMAIN ms : IsPrompt(ms[i]) => i \in is
  BY DEF IsPrompt, IsEmptyShell, IsReply
<1>2. Pruned(ms) = Those(ms, is) /\ DOMAIN ms = 1 .. Len(ms)
  BY LenProperties DEF Pruned
<1> HIDE DEF is
<1>3. PICK f : SomeOf(Those(ms, is), ms, is, Len(ms), f)
  BY <1>1, ThoseKeepTurns
<1>4. /\ Those(ms, is) \in Seq(Message)
      /\ \A x \in DOMAIN Those(ms, is) : \E p \in DOMAIN ms : Those(ms, is)[x] = ms[p]
  BY ThoseAre
<1>5. WellTold(Those(ms, is), n, ordered, single)
  BY <1>2, <1>3, <1>4, SomeOfIsToldSo
<1> QED
  BY <1>2, <1>4, <1>5

LEMMA FinishTurnKeeps ==
  ASSUME NEW ms \in Seq(Message), NEW n, NEW ordered, NEW single, WellTold(ms, n, ordered, single),
         FinishTurn(ms)
  PROVE  /\ messages' \in Seq(Message) /\ WellTold(messages', n, ordered, single)
         /\ \A i \in DOMAIN messages' : ~IsOpen(messages'[i])
<1> DEFINE s == Stopped(ms)
<1>1. /\ s \in Seq(Message) /\ WellTold(s, n, ordered, single) /\ \A i \in DOMAIN s : ~IsOpen(s[i])
  BY StoppedIs, StoppedToldSo
<1>2. messages' = Pruned(s)
  BY DEF FinishTurn
<1> HIDE DEF s
<1> QED
  BY <1>1, <1>2, PrunedIs

-----------------------------------------------------------------------------
(* A reply is put into a bubble, or into one of its own.                     *)

PutAt(ms, p, m, more) ==
  /\ more \in Seq(Message) /\ DOMAIN more = DOMAIN ms \cup {p} /\ more[p] = m
  /\ \A i \in DOMAIN ms : TurnOf(more, i) = TurnOf(ms, i) /\ (i # p => more[i] = ms[i])
  /\ Prompts(more) = Prompts(ms)
  /\ p \in DOMAIN ms => Len(more) = Len(ms) /\ IsReply(ms[p])
  /\ p \notin DOMAIN ms => p = Len(ms) + 1 /\ Len(more) = p /\ TurnOf(more, p) = Prompts(ms)

LEMMA PutIs ==
  ASSUME NEW ms \in Seq(Message), NEW m \in Message, IsReply(m),
         NEW i, i = 0 \/ (i \in DOMAIN ms /\ IsReply(ms[i]))
  PROVE  PutAt(ms, IF i = 0 THEN Len(ms) + 1 ELSE i, m, IF i = 0 THEN Append(ms, m) ELSE [ms EXCEPT ![i] = m])
<1>1. Len(ms) \in Nat /\ DOMAIN ms = 1 .. Len(ms) /\ ~IsPrompt(m)
  BY LenProperties, MessageIs
<1>2. CASE i = 0
  <2> DEFINE more == Append(ms, m)
  <2>1. /\ more \in Seq(Message) /\ Len(more) = Len(ms) + 1 /\ more[Len(ms) + 1] = m
        /\ \A j \in DOMAIN ms : more[j] = ms[j] /\ TurnOf(more, j) = TurnOf(ms, j)
        /\ Prompts(more) = Prompts(ms) + (IF IsPrompt(m) THEN 1 ELSE 0)
        /\ TurnOf(more, Len(ms) + 1) = Prompts(more) /\ DOMAIN more = 1 .. (Len(ms) + 1)
    BY TurnAppend
  <2> HIDE DEF more
  <2>2. Prompts(ms) \in Nat
    BY <1>1, TurnCounts DEF Prompts
  <2>3. Prompts(more) = Prompts(ms) /\ DOMAIN more = DOMAIN ms \cup {Len(ms) + 1}
        /\ Len(ms) + 1 \notin DOMAIN ms
    BY <1>1, <2>1, <2>2
  <2>4. PutAt(ms, Len(ms) + 1, m, more)
    BY <2>1, <2>3 DEF PutAt
  <2> QED
    BY <1>2, <2>4 DEF more
<1>3. CASE i # 0 /\ i \in DOMAIN ms /\ IsReply(ms[i])
  <2> DEFINE more == [ms EXCEPT ![i] = m]
  <2>1. /\ more \in Seq(Message) /\ Len(more) = Len(ms)
        /\ \A j \in 1 .. Len(ms) : more[j] = IF j = i THEN m ELSE ms[j]
    BY <1>1, <1>3, ExceptSeq
  <2>2. DOMAIN more = DOMAIN ms
    OBVIOUS
  <2> HIDE DEF more
  <2>3. ~IsPrompt(ms[i])
    BY <1>3 DEF IsPrompt, IsReply
  <2>4. \A j \in 0 .. Len(ms) : TurnOf(more, j) = TurnOf(ms, j)
    <3> TAKE j \in 0 .. Len(ms)
    <3>1. j \in Nat /\ \A x \in 1 .. j : x \in 1 .. Len(ms)
      BY <1>1
    <3>2. \A x \in 1 .. j : IsPrompt(more[x]) <=> IsPrompt(ms[x])
      BY <1>1, <2>1, <2>3, <3>1
    <3> QED
      BY <3>1, <3>2, SameTurns
  <2>5. Len(ms) \in 0 .. Len(ms) /\ \A j \in DOMAIN ms : j \in 0 .. Len(ms)
    BY <1>1
  <2>6. PutAt(ms, i, m, more)
    BY <1>1, <1>3, <2>1, <2>2, <2>4, <2>5 DEF PutAt, Prompts
  <2> QED
    BY <1>3, <2>6 DEF more
<1> QED
  BY <1>2, <1>3

LEMMA PutToldSo ==
  ASSUME NEW ms, NEW p, NEW m, NEW more, PutAt(ms, p, m, more), IsReply(m),
         NEW n, NEW ordered, NEW single, WellTold(ms, n, ordered, single),
         NEW ordered1, NEW single1, ordered1 \subseteq ordered, single1 \subseteq single,
         TurnOf(more, p) \in ordered1 => m.text = <<>> \/ Reads(m.text, TurnOf(more, p)),
         TurnOf(more, p) \in single1 => m.text = <<>> \/ \A i \in Texts(ms, TurnOf(more, p)) : i = p
  PROVE  WellTold(more, n, ordered1, single1)
<1>1. \A t, i : i \in Texts(more, t) =>
        \/ i # p /\ i \in Texts(ms, t) /\ more[i] = ms[i]
        \/ i = p /\ TurnOf(more, p) = t /\ m.text # <<>> /\ more[i] = m
  BY DEF Texts, PutAt
<1>2. Prompted(more, n)
  <2>1. ~IsPrompt(m)
    BY DEF IsPrompt, IsReply
  <2> QED
    BY <2>1 DEF WellTold, Prompted, PutAt
<1>3. ASSUME NEW t \in ordered1, NEW i \in Texts(more, t)
      PROVE  Reads(more[i].text, t)
  BY <1>1, <1>3 DEF WellTold
<1>4. ASSUME NEW t \in single1, NEW i \in Texts(more, t), NEW j \in Texts(more, t)
      PROVE  i = j
  BY <1>1, <1>4 DEF WellTold
<1> QED
  BY <1>2, <1>3, <1>4 DEF WellTold

-----------------------------------------------------------------------------
(* The invariant.                                                            *)

(* A turn is told out of order from the first one told late.                 *)
LateBy(lates, t) == \E l \in lates : l <= t
InOrder == sending /\ late = {}

HistoryInv == late \cup answered \cup mixed \subseteq 1 .. turn
RepliesInv == WellTold(messages, turn, Orderly, Orderly \ mixed)

(* Only the turn that is told has open bubbles, or one told late.            *)
OpenInv ==
  \A i \in DOMAIN messages : IsOpen(messages[i]) =>
    LateBy(late, TurnOf(messages, i)) \/ (InOrder /\ TurnOf(messages, i) = turn)

StreamsInv ==
  late = {} => streams = IF sending THEN [s \in Source |-> Segment(turn, 1, told[s])] ELSE Silent

(* Every reply of the turn but the last made calls and has no text.          *)
Alone(ms, t) ==
  /\ \A i \in DOMAIN ms :
       i # Len(ms) /\ IsReply(ms[i]) /\ TurnOf(ms, i) = t => ms[i].calls # {} /\ ms[i].text = <<>>
  /\ Last(ms).text # <<>> => Last(ms).calls = {}

LastInv ==
  InOrder => /\ messages # <<>> /\ IsOpen(Last(messages)) /\ turn > 0
             /\ (\A s \in Source : told[s] = 0) => Texts(messages, turn) = {}
             /\ turn \notin mixed => Alone(messages, turn)

ConvInv ==
  /\ ConversationTypeOK /\ HistoryInv /\ RepliesInv /\ OpenInv /\ StreamsInv /\ LastInv

LEMMA LastIs ==
  ASSUME ConvInv, messages # <<>>
  PROVE  /\ Len(messages) \in DOMAIN messages /\ Last(messages) = messages[Len(messages)]
         /\ TurnOf(messages, Len(messages)) = turn
<1>1. Len(messages) \in DOMAIN messages
  BY EmptySeq, LenProperties DEF ConvInv, ConversationTypeOK
<1>2. Prompts(messages) = turn
  BY DEF ConvInv, RepliesInv, WellTold, Prompted
<1> QED
  BY <1>1, <1>2 DEF Last, Prompts

LEMMA OrderlyNow ==
  ASSUME ConvInv, InOrder
  PROVE  turn \in Orderly /\ turn \in Turn
BY DEF ConvInv, ConversationTypeOK, InOrder, LastInv, Orderly, Turn

LEMMA AloneTexts ==
  ASSUME ConvInv, InOrder, turn \notin mixed
  PROVE  /\ \A i \in Texts(messages, turn) : i = Len(messages)
         /\ Last(messages).calls # {} => Texts(messages, turn) = {} /\ Last(messages).text = <<>>
         /\ \A i \in DOMAIN messages : IsOpen(messages[i]) /\ messages[i].calls = {} => i = Len(messages)
<1>1. Alone(messages, turn) /\ messages # <<>> /\ IsOpen(Last(messages))
  BY DEF ConvInv, LastInv
<1>2. \A i \in Texts(messages, turn) :
        i \in DOMAIN messages /\ IsReply(messages[i]) /\ messages[i].text # <<>> /\ TurnOf(messages, i) = turn
  BY DEF Texts
<1>3. \A i \in Texts(messages, turn) : i = Len(messages)
  BY <1>1, <1>2 DEF Alone
<1>4. Last(messages).calls # {} => Last(messages).text = <<>>
  BY <1>1 DEF Alone
<1>5. Last(messages).text = <<>> => Texts(messages, turn) = {}
  BY <1>2, <1>3 DEF Last
<1>6. \A i \in DOMAIN messages : IsOpen(messages[i]) => TurnOf(messages, i) = turn /\ IsReply(messages[i])
  BY DEF ConvInv, OpenInv, LateBy, InOrder, IsOpen
<1> QED
  BY <1>1, <1>3, <1>4, <1>5, <1>6 DEF Alone

-----------------------------------------------------------------------------
(* Where an event's bubble is.                                               *)

LastIn(i, T) == (i \in T /\ \A j \in T : j <= i) \/ (i = 0 /\ T = {})

LEMMA LastInTop ==
  ASSUME NEW n \in Nat, NEW T \in SUBSET (1 .. n), n \in T, NEW i, LastIn(i, T)
  PROVE  i = n /\ i # 0
<1>1. i \in 1 .. n /\ n <= i
  BY DEF LastIn
<1> QED
  BY <1>1

LEMMA Bubbles ==
  ASSUME messages \in Seq(Message)
  PROVE  /\ LastIn(SelectLastInSeq(messages, IsOpen), {i \in DOMAIN messages : IsOpen(messages[i])})
         /\ LastIn(SelectLastInSeq(messages, LAMBDA m : IsOpen(m) /\ m.calls = {}),
                   {i \in DOMAIN messages : IsOpen(messages[i]) /\ messages[i].calls = {}})
         /\ LastIn(SelectLastInSeq(messages, LAMBDA m : IsOpen(m) /\ m.text = <<>>),
                   {i \in DOMAIN messages : IsOpen(messages[i]) /\ messages[i].text = <<>>})
<1> DEFINE n == Len(messages)
           A == {i \in 1 .. n : IsOpen(messages[i])}
           B == {i \in 1 .. n : IsOpen(messages[i]) /\ messages[i].calls = {}}
           C == {i \in 1 .. n : IsOpen(messages[i]) /\ messages[i].text = <<>>}
           M(T) == IF T # {} THEN Max(T) ELSE 0
<1>1. n \in Nat /\ DOMAIN messages = 1 .. n
  BY LenProperties
<1>2. SelectLastInSeq(messages, IsOpen) = M(A)
  BY DEF SelectLastInSeq
<1>3. SelectLastInSeq(messages, LAMBDA m : IsOpen(m) /\ m.calls = {}) = M(B)
  BY DEF SelectLastInSeq
<1>4. SelectLastInSeq(messages, LAMBDA m : IsOpen(m) /\ m.text = <<>>) = M(C)
  BY DEF SelectLastInSeq
<1>5. A \in SUBSET (1 .. n) /\ B \in SUBSET (1 .. n) /\ C \in SUBSET (1 .. n)
  OBVIOUS
<1>6. /\ A = {i \in DOMAIN messages : IsOpen(messages[i])}
      /\ B = {i \in DOMAIN messages : IsOpen(messages[i]) /\ messages[i].calls = {}}
      /\ C = {i \in DOMAIN messages : IsOpen(messages[i]) /\ messages[i].text = <<>>}
  BY <1>1
<1> HIDE DEF A, B, C, n
<1>7. LastIn(M(A), A) /\ LastIn(M(B), B) /\ LastIn(M(C), C)
  BY <1>1, <1>5, LastOneIs DEF LastIn
<1> HIDE DEF M
<1> QED
  BY <1>2, <1>3, <1>4, <1>6, <1>7

LEMMA SaidIs ==
  ASSUME NEW who \in {"user", "assistant"}, NEW text \in Text
  PROVE  /\ Said(who, text) \in Message
         /\ Said(who, text).by = who /\ Said(who, text).text = text
         /\ Said(who, text).streaming = FALSE /\ Said(who, text).calls = {}
BY DEF Said, Message

LEMMA PlaceholderIs ==
  /\ Placeholder \in Message /\ IsOpen(Placeholder) /\ IsReply(Placeholder)
  /\ Placeholder.text = <<>> /\ Placeholder.calls = {}
<1> DEFINE said == Said("assistant", <<>>)
<1>1. said \in Message /\ said.by = "assistant" /\ said.text = <<>> /\ said.calls = {}
  <2>1. <<>> \in Text
    BY DEF Text
  <2> QED
    BY <2>1, SaidIs
<1>2. Placeholder = [said EXCEPT !.streaming = TRUE]
  BY DEF Placeholder
<1> HIDE DEF said
<1> QED
  BY <1>1, <1>2 DEF Message, IsOpen, IsReply

LEMMA BubbleIs ==
  ASSUME messages \in Seq(Message), NEW i,
         i = 0 \/ (i \in DOMAIN messages /\ IsOpen(messages[i]))
  PROVE  Bubble(i) \in Message /\ IsOpen(Bubble(i)) /\ IsReply(Bubble(i))
<1>1. i \in DOMAIN messages => messages[i] \in Message
  BY LenProperties
<1> QED
  BY <1>1, PlaceholderIs DEF Bubble, IsOpen

LEMMA FilledIn ==
  ASSUME NEW m \in Message, IsOpen(m)
  PROVE  /\ \A text \in Text : LET filled == [m EXCEPT !.text = text]
                               IN  filled \in Message /\ IsOpen(filled) /\ filled.text = text
                                   /\ filled.calls = m.calls
         /\ \A calls \in SUBSET ToolCalls : LET filled == [m EXCEPT !.calls = calls]
                               IN  filled \in Message /\ IsOpen(filled) /\ filled.text = m.text
         /\ \A files \in SUBSET Files : LET filled == [m EXCEPT !.files = files]
                               IN  filled \in Message /\ IsOpen(filled) /\ filled.text = m.text
                                   /\ filled.calls = m.calls
BY DEF Message, IsOpen, IsReply

(* A bubble changes: m stands at p, which was an open bubble or is new.      *)
Puts(p, m) ==
  /\ PutAt(messages, p, m, messages')
  /\ IsOpen(m)
  /\ p \in DOMAIN messages => IsOpen(messages[p])
  /\ sending' = sending /\ turn' = turn

LEMMA PutsIs ==
  ASSUME messages \in Seq(Message), NEW m \in Message, IsOpen(m), NEW i,
         i = 0 \/ (i \in DOMAIN messages /\ IsOpen(messages[i])), PutInto(i, m),
         sending' = sending /\ turn' = turn
  PROVE  Puts(IF i = 0 THEN Len(messages) + 1 ELSE i, m)
<1>1. i \in DOMAIN messages => IsReply(messages[i])
  BY DEF IsOpen
<1>2. PutAt(messages, IF i = 0 THEN Len(messages) + 1 ELSE i, m, messages')
  BY <1>1, PutIs DEF PutInto, IsOpen
<1>3. Len(messages) + 1 \notin DOMAIN messages
  BY LenProperties
<1> QED
  BY <1>2, <1>3 DEF Puts

(* Once a turn was told late, what is told is told of no orderly turn.       *)
LEMMA TalkIsLate ==
  ASSUME ConvInv, Talks, ~InOrder, turn' = turn, sending' = sending
  PROVE  /\ late' # {} /\ late \subseteq late' /\ late' \subseteq 1 .. turn /\ LateBy(late', turn)
         /\ ~InOrder' /\ Orderly' \subseteq Orderly
         /\ \A t \in Nat : LateBy(late', t) => t \notin Orderly'
         /\ \A t : LateBy(late, t) => LateBy(late', t)
<1>1. turn \in Nat /\ turn > 0 /\ late \subseteq 1 .. turn /\ sending \in BOOLEAN
  BY DEF ConvInv, ConversationTypeOK, HistoryInv, Talks
<1>2. late' # {} /\ late \subseteq late' /\ late' \subseteq 1 .. turn
  BY <1>1 DEF Talks, InOrder
<1>3. \A t \in Nat : LateBy(late', t) => t \notin Orderly'
  <2>1. late' \subseteq Nat
    BY <1>1, <1>2
  <2> QED
    BY <2>1 DEF LateBy, Orderly
<1>4. LateBy(late', turn)
  <2>1. PICK l \in late' : TRUE
    BY <1>2
  <2>2. l <= turn
    BY <1>1, <1>2, <2>1
  <2> QED
    BY <2>2 DEF LateBy
<1> QED
  BY <1>1, <1>2, <1>3, <1>4 DEF InOrder, Orderly, LateBy

LEMMA LatePut ==
  ASSUME ConvInv, Talks, ~InOrder, turn' = turn, sending' = sending,
         mixed \subseteq mixed', mixed' \cup answered' \subseteq 1 .. turn,
         messages' = messages \/ \E p, m : Puts(p, m)
  PROVE  HistoryInv' /\ RepliesInv' /\ OpenInv' /\ StreamsInv' /\ LastInv' /\ messages' \in Seq(Message)
<1>1. messages \in Seq(Message) /\ turn \in Nat
  BY DEF ConvInv, ConversationTypeOK
<1>2. HistoryInv' /\ StreamsInv' /\ LastInv'
  BY TalkIsLate DEF HistoryInv, StreamsInv, LastInv
<1>3. Orderly' \ mixed' \subseteq Orderly \ mixed /\ Orderly' \subseteq Orderly
  BY TalkIsLate
<1>4. ASSUME messages' = messages
      PROVE  RepliesInv' /\ OpenInv'
  <2>1. WellTold(messages', turn', Orderly', Orderly' \ mixed')
    BY <1>3, <1>4 DEF ConvInv, RepliesInv, WellTold
  <2>2. OpenInv'
    BY <1>4, TalkIsLate DEF ConvInv, OpenInv
  <2> QED
    BY <2>1, <2>2 DEF RepliesInv
<1>5. ASSUME NEW p, NEW m, Puts(p, m)
      PROVE  RepliesInv' /\ OpenInv' /\ messages' \in Seq(Message)
  <2>1. PutAt(messages, p, m, messages') /\ IsReply(m) /\ messages' \in Seq(Message)
    BY <1>5 DEF Puts, PutAt, IsOpen
  <2>2. Prompts(messages) = turn
    BY DEF ConvInv, RepliesInv, WellTold, Prompted
  <2>3. LateBy(late', TurnOf(messages', p))
    <3>1. CASE p \in DOMAIN messages
      BY <1>5, <2>1, <3>1, TalkIsLate DEF Puts, PutAt, ConvInv, OpenInv
    <3>2. CASE p \notin DOMAIN messages
      BY <2>1, <2>2, <3>2, TalkIsLate DEF PutAt
    <3> QED
      BY <3>1, <3>2
  <2>4. TurnOf(messages', p) \in Nat
    BY <2>1, TurnBounds DEF PutAt
  <2>5. TurnOf(messages', p) \notin Orderly'
    BY <2>3, <2>4, TalkIsLate
  <2>6. WellTold(messages', turn', Orderly', Orderly' \ mixed')
    BY <1>3, <2>1, <2>5, PutToldSo DEF ConvInv, RepliesInv
  <2>7. ASSUME NEW i \in DOMAIN messages', IsOpen(messages'[i])
        PROVE  LateBy(late', TurnOf(messages', i))
    <3>1. CASE i = p
      BY <2>3, <3>1
    <3>2. CASE i # p
      <4>1. i \in DOMAIN messages /\ messages'[i] = messages[i] /\ TurnOf(messages', i) = TurnOf(messages, i)
        BY <2>1, <2>7, <3>2 DEF PutAt
      <4> QED
        BY <2>7, <4>1, TalkIsLate DEF ConvInv, OpenInv
    <3> QED
      BY <3>1, <3>2
  <2> QED
    BY <2>1, <2>6, <2>7 DEF RepliesInv, OpenInv
<1> QED
  BY <1>1, <1>2, <1>4, <1>5

LEMMA TypesOf ==
  ASSUME ConvInv
  PROVE  /\ messages \in Seq(Message) /\ streams \in [Source -> Text] /\ sending \in BOOLEAN
         /\ turn \in 0 .. MaxTurns /\ turn \in Nat /\ told \in [Source -> 0 .. ReplyParts] /\ ends \in 0 .. 2
         /\ answered \subseteq Turn /\ late \subseteq Turn /\ mixed \subseteq Turn
         /\ MaxTurns \in Nat /\ ReplyParts \in Nat
         /\ late \cup answered \cup mixed \subseteq 1 .. turn
         /\ Prompts(messages) = turn
BY ConversationAssumption DEF ConvInv, ConversationTypeOK, HistoryInv, RepliesInv, WellTold, Prompted

LEMMA TalksIs ==
  ASSUME ConvInv, Talks, turn' = turn, sending' = sending
  PROVE  /\ late' \subseteq Turn /\ late' \subseteq 1 .. turn /\ turn \in Turn
         /\ InOrder => late' = {} /\ InOrder' /\ Orderly' = Orderly
BY TypesOf DEF Talks, InOrder, Turn, Orderly

LEMMA OrderPut ==
  ASSUME ConvInv, InOrder, Talks, NEW p, NEW m, Puts(p, m),
         mixed \subseteq mixed', mixed' \cup answered' \subseteq 1 .. turn,
         m.text = <<>> \/ Reads(m.text, turn),
         turn \notin mixed' => m.text = <<>> \/ \A i \in Texts(messages, turn) : i = p
  PROVE  /\ HistoryInv' /\ RepliesInv' /\ OpenInv' /\ messages' \in Seq(Message) /\ InOrder' /\ late' = {}
         /\ messages' # <<>> /\ IsOpen(Last(messages')) /\ TurnOf(messages', p) = turn
         /\ Last(messages') = messages'[Len(messages')] /\ Len(messages') \in DOMAIN messages'
         /\ p \notin DOMAIN messages => p = Len(messages') /\ p = Len(messages) + 1
         /\ p \in DOMAIN messages => Len(messages') = Len(messages)
         /\ Last(messages) = messages[Len(messages)] /\ Len(messages) \in DOMAIN messages
<1>1. /\ PutAt(messages, p, m, messages') /\ IsReply(m) /\ IsOpen(m) /\ turn' = turn /\ sending' = sending
      /\ p \in DOMAIN messages => IsOpen(messages[p])
  BY DEF Puts, IsOpen
<1>2. late' = {} /\ InOrder' /\ Orderly' = Orderly /\ late = {} /\ late' \subseteq 1 .. turn
  BY <1>1, TalksIs DEF InOrder
<1>3. HistoryInv'
  BY <1>1, <1>2 DEF HistoryInv
<1>4. messages # <<>> /\ IsOpen(Last(messages)) /\ Last(messages) = messages[Len(messages)]
      /\ Len(messages) \in DOMAIN messages
  BY LastIs DEF ConvInv, LastInv
<1>5. TurnOf(messages', p) = turn
  <2>1. p \in DOMAIN messages => TurnOf(messages, p) = turn
    BY <1>1, <1>2 DEF ConvInv, OpenInv, LateBy
  <2> QED
    BY <1>1, <2>1, TypesOf DEF PutAt
<1>6. WellTold(messages', turn', Orderly', Orderly' \ mixed')
  <2>1. WellTold(messages, turn, Orderly, Orderly \ mixed)
    BY DEF ConvInv, RepliesInv
  <2>2. turn \in Orderly' \ mixed' => turn \notin mixed'
    OBVIOUS
  <2>3. Orderly' \ mixed' \subseteq Orderly \ mixed /\ Orderly' \subseteq Orderly
    BY <1>2
  <2> QED
    BY <1>1, <1>5, <2>1, <2>2, <2>3, PutToldSo
<1>7. ASSUME NEW i \in DOMAIN messages', IsOpen(messages'[i])
      PROVE  TurnOf(messages', i) = turn
  <2>1. CASE i = p
    BY <1>5, <2>1
  <2>2. CASE i # p
    <3>1. i \in DOMAIN messages /\ messages'[i] = messages[i] /\ TurnOf(messages', i) = TurnOf(messages, i)
      BY <1>1, <2>2 DEF PutAt
    <3> QED
      BY <1>2, <1>7, <3>1 DEF ConvInv, OpenInv, LateBy
  <2> QED
    BY <2>1, <2>2
<1>8. OpenInv'
  BY <1>1, <1>2, <1>7 DEF OpenInv
<1>9. messages' \in Seq(Message) /\ Len(messages') \in DOMAIN messages' /\ messages' # <<>>
  <2>1. messages' \in Seq(Message) /\ Len(messages') \in DOMAIN messages'
    BY <1>1, <1>4 DEF PutAt
  <2>2. DOMAIN <<>> = {}
    OBVIOUS
  <2> QED
    BY <2>1, <2>2
<1>10. IsOpen(messages'[Len(messages')])
  <2>1. CASE p = Len(messages')
    BY <1>1, <2>1 DEF PutAt
  <2>2. CASE p # Len(messages')
    <3>1. Len(messages') = Len(messages) /\ messages'[Len(messages)] = messages[Len(messages)]
      BY <1>1, <1>4, <2>2 DEF PutAt
    <3> QED
      BY <1>4, <3>1
  <2> QED
    BY <2>1, <2>2
<1>11. /\ p \notin DOMAIN messages => p = Len(messages') /\ p = Len(messages) + 1
       /\ p \in DOMAIN messages => Len(messages') = Len(messages)
  BY <1>1 DEF PutAt
<1> QED
  BY <1>2, <1>3, <1>4, <1>5, <1>6, <1>8, <1>9, <1>10, <1>11 DEF RepliesInv, Last

-----------------------------------------------------------------------------
(* The steps.                                                                *)

LEMMA StartMessageStep ==
  ASSUME ConvInv, StartMessage
  PROVE  ConvInv'
<1>1. /\ Talks /\ turn' = turn /\ sending' = sending /\ mixed' = mixed /\ answered' = answered
      /\ streams' = streams /\ told' = told /\ ends' = ends /\ sending
  BY DEF StartMessage
<1>2. late' \subseteq Turn
  BY <1>1, TalksIs
<1>3. CASE InOrder
  <2>1. messages' = messages /\ late' = late
    BY <1>3, <1>1, TalksIs DEF StartMessage, ConvInv, LastInv, InOrder
  <2> QED
    BY <1>1, <2>1 DEF ConvInv, ConversationTypeOK, HistoryInv, RepliesInv, OpenInv, StreamsInv, LastInv,
       InOrder, Orderly
<1>4. CASE ~InOrder
  <2>1. messages' = messages \/ \E p, m : Puts(p, m)
    <3>1. SUFFICES ASSUME messages' = Append(messages, Placeholder)
                   PROVE  \E p, m : Puts(p, m)
      BY DEF StartMessage
    <3>2. PutInto(0, Placeholder)
      BY <3>1 DEF PutInto
    <3> QED
      BY <1>1, <3>2, PutsIs, PlaceholderIs, TypesOf
  <2>2. HistoryInv' /\ RepliesInv' /\ OpenInv' /\ StreamsInv' /\ LastInv' /\ messages' \in Seq(Message)
    BY <1>1, <1>4, <2>1, LatePut, TypesOf
  <2> QED
    BY <1>1, <1>2, <2>2, TypesOf DEF ConvInv, ConversationTypeOK
<1> QED
  BY <1>3, <1>4

LEMMA AppendAttachmentStep ==
  ASSUME ConvInv, NEW file \in Files, AppendAttachment(file)
  PROVE  ConvInv'
<1> DEFINE i == SelectLastInSeq(messages, IsOpen)
           m == [Bubble(i) EXCEPT !.files = @ \cup {file}]
           p == IF i = 0 THEN Len(messages) + 1 ELSE i
<1>1. /\ Talks /\ turn' = turn /\ sending' = sending /\ mixed' = mixed /\ answered' = answered
      /\ streams' = streams /\ told' = told /\ ends' = ends /\ messages \in Seq(Message)
      /\ messages' = messages \/ PutInto(i, m)
  BY TypesOf DEF AppendAttachment
<1>2. LastIn(i, {j \in DOMAIN messages : IsOpen(messages[j])})
  BY <1>1, Bubbles
<1> HIDE DEF i
<1>3. i = 0 \/ (i \in DOMAIN messages /\ IsOpen(messages[i]))
  BY <1>2 DEF LastIn
<1>4. m \in Message /\ IsOpen(m) /\ m.text = Bubble(i).text /\ m.calls = Bubble(i).calls
  <2>1. Bubble(i) \in Message /\ IsOpen(Bubble(i))
    BY <1>1, <1>3, BubbleIs
  <2>2. Bubble(i).files \cup {file} \in SUBSET Files
    BY <2>1 DEF Message
  <2> QED
    BY <2>1, <2>2, FilledIn
<1> HIDE DEF m
<1>5. messages' = messages \/ Puts(p, m)
  BY <1>1, <1>3, <1>4, PutsIs
<1> HIDE DEF p
<1>6. late' \subseteq Turn
  BY <1>1, TalksIs
<1>7. CASE ~InOrder
  <2>1. HistoryInv' /\ RepliesInv' /\ OpenInv' /\ StreamsInv' /\ LastInv' /\ messages' \in Seq(Message)
    BY <1>1, <1>5, <1>7, LatePut, TypesOf
  <2> QED
    BY <1>1, <1>6, <2>1, TypesOf DEF ConvInv, ConversationTypeOK
<1>8. CASE InOrder /\ messages' = messages
  <2>1. late' = late
    BY <1>1, <1>8, TalksIs DEF InOrder
  <2> QED
    BY <1>1, <1>8, <2>1 DEF ConvInv, ConversationTypeOK, HistoryInv, RepliesInv, OpenInv, StreamsInv, LastInv,
       InOrder, Orderly
<1>9. CASE InOrder /\ Puts(p, m)
  <2>1. /\ messages # <<>> /\ Len(messages) \in DOMAIN messages /\ IsOpen(messages[Len(messages)])
        /\ Last(messages) = messages[Len(messages)] /\ TurnOf(messages, Len(messages)) = turn
        /\ Len(messages) \in Nat /\ DOMAIN messages = 1 .. Len(messages)
    BY <1>1, <1>9, LastIs, LenProperties DEF ConvInv, LastInv
  <2>2. i = Len(messages) /\ p = Len(messages) /\ i # 0
    <3> DEFINE T == {j \in DOMAIN messages : IsOpen(messages[j])}
    <3>1. T \in SUBSET (1 .. Len(messages)) /\ Len(messages) \in T
      BY <2>1
    <3> HIDE DEF T
    <3>2. i = Len(messages) /\ i # 0
      BY <1>2, <2>1, <3>1, LastInTop DEF T
    <3> QED
      BY <3>2 DEF p
  <2>3. m.text = messages[p].text /\ m.calls = messages[p].calls /\ IsReply(messages[p])
    BY <1>4, <2>1, <2>2 DEF Bubble, IsOpen
  <2>4. m.text = <<>> \/ (p \in Texts(messages, turn))
    BY <2>1, <2>2, <2>3 DEF Texts
  <2>5. m.text = <<>> \/ Reads(m.text, turn)
    BY <1>9, <2>3, <2>4, OrderlyNow DEF ConvInv, RepliesInv, WellTold
  <2>6. turn \notin mixed' => \A j \in Texts(messages, turn) : j = p
    BY <1>1, <1>9, <2>2, AloneTexts
  <2>7. /\ HistoryInv' /\ RepliesInv' /\ OpenInv' /\ messages' \in Seq(Message) /\ InOrder' /\ late' = {}
        /\ messages' # <<>> /\ IsOpen(Last(messages')) /\ TurnOf(messages', p) = turn
        /\ Last(messages') = messages'[Len(messages')] /\ Len(messages') = Len(messages)
    BY <1>1, <1>9, <2>1, <2>2, <2>5, <2>6, OrderPut, TypesOf
  <2>8. /\ DOMAIN messages' = DOMAIN messages /\ messages'[p] = m
        /\ \A j \in DOMAIN messages : TurnOf(messages', j) = TurnOf(messages, j) /\ (j # p => messages'[j] = messages[j])
    BY <1>9, <2>1, <2>2 DEF Puts, PutAt
  <2>9. Texts(messages', turn) = Texts(messages, turn)
    BY <1>4, <2>3, <2>8 DEF Texts, IsOpen
  <2>10. Alone(messages, turn) => Alone(messages', turn)
    BY <2>1, <2>2, <2>3, <2>7, <2>8 DEF Alone
  <2>11. LastInv' /\ StreamsInv'
    BY <1>1, <1>9, <2>7, <2>9, <2>10 DEF ConvInv, LastInv, StreamsInv, InOrder
  <2> QED
    BY <1>1, <1>6, <2>7, <2>11, TypesOf DEF ConvInv, ConversationTypeOK
<1> QED
  BY <1>5, <1>7, <1>8, <1>9

(* What is the same about the last bubble in every event that fills one.     *)
LEMMA LastBubble ==
  ASSUME ConvInv, InOrder
  PROVE  /\ messages # <<>> /\ Len(messages) \in DOMAIN messages /\ IsOpen(messages[Len(messages)])
         /\ Last(messages) = messages[Len(messages)] /\ TurnOf(messages, Len(messages)) = turn
         /\ Len(messages) \in Nat /\ DOMAIN messages = 1 .. Len(messages)
         /\ messages[Len(messages)] \in Message /\ IsReply(messages[Len(messages)])
BY TypesOf, LastIs, LenProperties DEF ConvInv, LastInv, IsOpen

LEMMA AppendToolCallStep ==
  ASSUME ConvInv, NEW call \in ToolCalls, AppendToolCall(call)
  PROVE  ConvInv'
<1> DEFINE i == SelectLastInSeq(messages, LAMBDA m : IsOpen(m) /\ m.text = <<>>)
           m == [Bubble(i) EXCEPT !.calls = @ \cup {call}]
           p == IF i = 0 THEN Len(messages) + 1 ELSE i
           T == {j \in DOMAIN messages : IsOpen(messages[j]) /\ messages[j].text = <<>>}
<1>1. /\ Talks /\ turn' = turn /\ sending' = sending /\ answered' = answered
      /\ mixed' = (IF \A s \in Source : told[s] = 0 THEN mixed ELSE mixed \cup {turn})
      /\ streams' = streams /\ told' = told /\ ends' = ends /\ messages \in Seq(Message)
      /\ messages' = messages \/ PutInto(i, m)
  BY TypesOf DEF AppendToolCall
<1>2. LastIn(i, T)
  BY <1>1, Bubbles
<1> HIDE DEF i
<1>3. i = 0 \/ (i \in DOMAIN messages /\ IsOpen(messages[i]) /\ messages[i].text = <<>>)
  BY <1>2 DEF LastIn
<1>4. m \in Message /\ IsOpen(m) /\ m.text = <<>>
  <2>1. Bubble(i) \in Message /\ IsOpen(Bubble(i))
    BY <1>1, <1>3, BubbleIs
  <2>2. Bubble(i).calls \cup {call} \in SUBSET ToolCalls
    BY <2>1 DEF Message
  <2>3. Bubble(i).text = <<>>
    BY <1>3, PlaceholderIs DEF Bubble
  <2> QED
    BY <2>1, <2>2, <2>3, FilledIn
<1> HIDE DEF m
<1>5. messages' = messages \/ Puts(p, m)
  BY <1>1, <1>3, <1>4, PutsIs
<1> HIDE DEF p
<1>6. late' \subseteq Turn /\ mixed \subseteq mixed' /\ mixed' \subseteq 1 .. turn /\ mixed' \subseteq Turn
      /\ answered' \subseteq 1 .. turn
  <2>1. late' \subseteq Turn /\ turn \in Turn /\ turn \in 1 .. turn
    BY <1>1, TalksIs DEF Turn
  <2> QED
    BY <1>1, <2>1, TypesOf
<1>7. CASE ~InOrder
  <2>1. HistoryInv' /\ RepliesInv' /\ OpenInv' /\ StreamsInv' /\ LastInv' /\ messages' \in Seq(Message)
    BY <1>1, <1>5, <1>6, <1>7, LatePut
  <2> QED
    BY <1>1, <1>6, <2>1, TypesOf DEF ConvInv, ConversationTypeOK
<1>8. turn' \notin mixed' => turn \notin mixed /\ \A s \in Source : told[s] = 0
  BY <1>1
<1>9. CASE InOrder /\ messages' = messages
  <2>1. late' = late /\ Orderly' = Orderly /\ InOrder'
    BY <1>1, <1>9, TalksIs DEF InOrder
  <2>2. RepliesInv' /\ HistoryInv'
    BY <1>1, <1>6, <1>9, <2>1, TypesOf DEF ConvInv, RepliesInv, WellTold, HistoryInv
  <2>3. LastInv'
    BY <1>1, <1>8, <1>9 DEF ConvInv, LastInv
  <2>4. OpenInv' /\ StreamsInv'
    BY <1>1, <1>9, <2>1 DEF ConvInv, OpenInv, StreamsInv
  <2> QED
    BY <1>1, <1>6, <1>9, <2>2, <2>3, <2>4, TypesOf DEF ConvInv, ConversationTypeOK
<1>10. CASE InOrder /\ Puts(p, m)
  <2>1. /\ HistoryInv' /\ RepliesInv' /\ OpenInv' /\ messages' \in Seq(Message) /\ InOrder' /\ late' = {}
        /\ messages' # <<>> /\ IsOpen(Last(messages')) /\ TurnOf(messages', p) = turn
        /\ Last(messages') = messages'[Len(messages')]
        /\ p \in DOMAIN messages => Len(messages') = Len(messages)
    BY <1>1, <1>4, <1>6, <1>10, OrderPut
  <2>2. /\ DOMAIN messages' = DOMAIN messages \cup {p} /\ messages'[p] = m
        /\ \A j \in DOMAIN messages : TurnOf(messages', j) = TurnOf(messages, j) /\ (j # p => messages'[j] = messages[j])
    BY <1>10 DEF Puts, PutAt
  <2>3. Texts(messages', turn) \subseteq Texts(messages, turn)
    BY <1>4, <2>2 DEF Texts
  <2>4. turn' \notin mixed' => Alone(messages', turn)
    <3>1. SUFFICES ASSUME turn' \notin mixed'
                   PROVE  Alone(messages', turn)
      OBVIOUS
    <3>2. Alone(messages, turn) /\ Texts(messages, turn) = {}
      BY <1>8, <1>10, <3>1 DEF ConvInv, LastInv
    <3>3. messages[Len(messages)].text = <<>> /\ Len(messages) \in T /\ T \in SUBSET (1 .. Len(messages))
          /\ Len(messages) \in DOMAIN messages /\ Len(messages) \in Nat
      BY <1>10, <3>2, LastBubble DEF Texts
    <3> HIDE DEF T
    <3>4. i = Len(messages) /\ i # 0
      BY <1>2, <3>3, LastInTop
    <3>5. p = Len(messages) /\ Len(messages') = Len(messages) /\ DOMAIN messages' = DOMAIN messages
      BY <2>1, <2>2, <3>3, <3>4 DEF p
    <3>6. Last(messages').text = <<>>
      BY <1>4, <2>1, <2>2, <3>5
    <3> QED
      BY <2>2, <3>2, <3>5, <3>6 DEF Alone
  <2>5. LastInv' /\ StreamsInv'
    BY <1>1, <1>10, <2>1, <2>3, <2>4 DEF ConvInv, LastInv, StreamsInv, InOrder
  <2> QED
    BY <1>1, <1>6, <2>1, <2>5, TypesOf DEF ConvInv, ConversationTypeOK
<1> QED
  BY <1>5, <1>7, <1>9, <1>10

LEMMA ApplyDeltaStep ==
  ASSUME ConvInv, NEW s \in Source, ApplyDelta(s)
  PROVE  ConvInv'
<1> DEFINE i == SelectLastInSeq(messages, LAMBDA m : IsOpen(m) /\ m.calls = {})
           best == BestStreamText(streams')
           m == [Bubble(i) EXCEPT !.text = best]
           p == IF i = 0 THEN Len(messages) + 1 ELSE i
           T == {j \in DOMAIN messages : IsOpen(messages[j]) /\ messages[j].calls = {}}
<1>1. PICK chunk \in Chunk(s) :
        /\ Talks /\ turn' = turn /\ sending' = sending /\ answered' = answered /\ mixed' = mixed /\ ends' = ends
        /\ told' = [told EXCEPT ![s] = Last(chunk)[2]]
        /\ streams' = [streams EXCEPT ![s] = MergeStreamChunk(streams[s], chunk)]
        /\ PutInto(i, m)
  BY DEF ApplyDelta
<1>2. late' \subseteq Turn /\ turn \in Turn
  BY <1>1, TalksIs
<1>3. /\ chunk \in Text /\ Last(chunk)[2] \in 0 .. ReplyParts /\ Last(chunk)[2] # 0
      /\ MergeStreamChunk(Segment(turn, 1, told[s]), chunk) = Segment(turn, 1, Last(chunk)[2])
  BY <1>2, ChunkIs, TypesOf
<1>4. told' \in [Source -> 0 .. ReplyParts] /\ streams' \in [Source -> Text] /\ told'[s] # 0
  <2>1. streams[s] \in Text
    BY TypesOf
  <2>2. MergeStreamChunk(streams[s], chunk) \in Text
    BY <1>3, <2>1, MergedIsText
  <2> QED
    BY <1>1, <1>3, <2>2, TypesOf
<1>5. best \in Text /\ (best = <<>> \/ \E r \in Source : best = streams'[r])
  BY <1>4, BestIs
<1>6. LastIn(i, T)
  BY TypesOf, Bubbles
<1> HIDE DEF i, best
<1>7. i = 0 \/ (i \in DOMAIN messages /\ IsOpen(messages[i]) /\ messages[i].calls = {})
  BY <1>6 DEF LastIn
<1>8. m \in Message /\ IsOpen(m) /\ m.text = best /\ m.calls = {}
  <2>1. Bubble(i) \in Message /\ IsOpen(Bubble(i))
    BY <1>7, TypesOf, BubbleIs
  <2>2. Bubble(i).calls = {}
    BY <1>7, PlaceholderIs DEF Bubble
  <2> QED
    BY <1>5, <2>1, <2>2, FilledIn
<1> HIDE DEF m
<1>9. Puts(p, m)
  BY <1>1, <1>7, <1>8, PutsIs, TypesOf
<1> HIDE DEF p
<1>10. mixed \subseteq mixed' /\ mixed' \cup answered' \subseteq 1 .. turn
  BY <1>1, TypesOf
<1>11. CASE ~InOrder
  <2>1. HistoryInv' /\ RepliesInv' /\ OpenInv' /\ StreamsInv' /\ LastInv' /\ messages' \in Seq(Message)
    BY <1>1, <1>9, <1>10, <1>11, LatePut
  <2> QED
    BY <1>1, <1>2, <1>4, <2>1, TypesOf DEF ConvInv, ConversationTypeOK
<1>12. CASE InOrder
  <2>1. streams = [r \in Source |-> Segment(turn, 1, told[r])]
    BY <1>12 DEF ConvInv, StreamsInv, InOrder
  <2>2. \A r \in Source : streams'[r] = Segment(turn, 1, told'[r])
    BY <1>1, <1>3, <2>1, TypesOf
  <2>3. streams' = [r \in Source |-> Segment(turn, 1, told'[r])]
    BY <1>4, <2>2
  <2>4. m.text = <<>> \/ Reads(m.text, turn)
    BY <1>2, <1>4, <1>5, <1>8, <2>2, ReplyIs DEF Reads
  <2>5. turn \notin mixed =>
          \/ p = Len(messages) /\ p \in DOMAIN messages
          \/ p \notin DOMAIN messages /\ Last(messages).calls # {}
    <3>1. SUFFICES ASSUME turn \notin mixed
                   PROVE  \/ p = Len(messages) /\ p \in DOMAIN messages
                          \/ p \notin DOMAIN messages /\ Last(messages).calls # {}
      OBVIOUS
    <3>2. CASE Last(messages).calls = {}
      <4>1. Len(messages) \in T /\ T \in SUBSET (1 .. Len(messages)) /\ Len(messages) \in DOMAIN messages
            /\ Len(messages) \in Nat
        BY <1>12, <3>2, LastBubble
      <4> HIDE DEF T
      <4>2. i = Len(messages) /\ i # 0
        BY <1>6, <4>1, LastInTop
      <4> QED
        BY <4>1, <4>2 DEF p
    <3>3. CASE Last(messages).calls # {}
      <4>1. i \notin DOMAIN messages
        BY <1>7, <1>12, <3>1, <3>3, AloneTexts, LastBubble
      <4>2. p = Len(messages) + 1 /\ Len(messages) + 1 \notin DOMAIN messages
        BY <1>7, <1>12, <4>1, LastBubble DEF p
      <4> QED
        BY <3>3, <4>2
    <3> QED
      BY <3>2, <3>3
  <2>6. turn \notin mixed' => \A j \in Texts(messages, turn) : j = p
    BY <1>1, <1>12, <2>5, AloneTexts
  <2>7. /\ HistoryInv' /\ RepliesInv' /\ OpenInv' /\ messages' \in Seq(Message) /\ InOrder' /\ late' = {}
        /\ messages' # <<>> /\ IsOpen(Last(messages')) /\ TurnOf(messages', p) = turn
        /\ Last(messages') = messages'[Len(messages')]
        /\ p \notin DOMAIN messages => p = Len(messages') /\ p = Len(messages) + 1
        /\ p \in DOMAIN messages => Len(messages') = Len(messages)
    BY <1>1, <1>9, <1>10, <1>12, <2>4, <2>6, OrderPut
  <2>8. /\ DOMAIN messages' = DOMAIN messages \cup {p} /\ messages'[p] = m
        /\ \A j \in DOMAIN messages : TurnOf(messages', j) = TurnOf(messages, j) /\ (j # p => messages'[j] = messages[j])
    BY <1>9 DEF Puts, PutAt
  <2>9. turn \notin mixed => Alone(messages', turn)
    <3>1. SUFFICES ASSUME turn \notin mixed
                   PROVE  Alone(messages', turn)
      OBVIOUS
    <3>2. Alone(messages, turn) /\ p = Len(messages')
      BY <1>12, <2>5, <2>7, <3>1 DEF ConvInv, LastInv
    <3>3. Last(messages') = m
      BY <2>7, <2>8, <3>2
    <3>4. p \notin DOMAIN messages => messages[Len(messages)].calls # {} /\ messages[Len(messages)].text = <<>>
      BY <1>12, <2>5, <3>1, AloneTexts, LastBubble
    <3>5. ASSUME NEW j \in DOMAIN messages', j # Len(messages'), IsReply(messages'[j]), TurnOf(messages', j) = turn
          PROVE  messages'[j].calls # {} /\ messages'[j].text = <<>>
      <4>1. j \in DOMAIN messages /\ messages'[j] = messages[j] /\ TurnOf(messages, j) = turn
        BY <2>8, <3>2, <3>5
      <4>2. CASE j = Len(messages)
        BY <2>7, <3>2, <3>4, <3>5, <4>1, <4>2
      <4>3. CASE j # Len(messages)
        BY <3>2, <3>5, <4>1, <4>3 DEF Alone
      <4> QED
        BY <4>2, <4>3
    <3> QED
      BY <1>8, <3>3, <3>5 DEF Alone
  <2>10. ~ \A r \in Source : told'[r] = 0
    BY <1>4
  <2>11. LastInv' /\ StreamsInv'
    <3>1. turn' = turn /\ mixed' = mixed /\ sending' /\ turn > 0
      BY <1>1, <1>2, <2>7 DEF Turn, InOrder
    <3>2. StreamsInv'
      BY <2>3, <3>1 DEF StreamsInv
    <3>3. LastInv'
      BY <2>7, <2>9, <2>10, <3>1 DEF LastInv
    <3> QED
      BY <3>2, <3>3
  <2> QED
    BY <1>1, <1>2, <1>4, <2>7, <2>11, TypesOf DEF ConvInv, ConversationTypeOK
<1> QED
  BY <1>11, <1>12

(* A turn that ends leaves no bubble open.                                   *)
LEMMA FinishStep ==
  ASSUME ConvInv, NEW ms \in Seq(Message), FinishTurn(ms),
         turn' = turn, mixed' = mixed, told' = told, late' \subseteq 1 .. turn, answered' \subseteq 1 .. turn,
         ends' \in 0 .. 2, WellTold(ms, turn, Orderly', Orderly' \ mixed)
  PROVE  ConvInv'
<1>1. /\ messages' \in Seq(Message) /\ WellTold(messages', turn, Orderly', Orderly' \ mixed)
      /\ \A i \in DOMAIN messages' : ~IsOpen(messages'[i])
  BY FinishTurnKeeps
<1>2. streams' = Silent /\ sending' = FALSE /\ Silent \in [Source -> Text]
  BY DEF FinishTurn, Silent, Text
<1>3. RepliesInv' /\ OpenInv'
  BY <1>1 DEF RepliesInv, OpenInv
<1>4. StreamsInv' /\ LastInv'
  BY <1>2 DEF StreamsInv, LastInv, InOrder
<1>5. HistoryInv' /\ mixed \subseteq 1 .. turn
  BY TypesOf DEF HistoryInv
<1>6. 1 .. turn \subseteq Turn
  BY TypesOf DEF Turn
<1>7. ConversationTypeOK'
  BY <1>1, <1>2, <1>5, <1>6, TypesOf DEF ConversationTypeOK
<1> QED
  BY <1>3, <1>4, <1>5, <1>7 DEF ConvInv

LEMMA FewerTold ==
  ASSUME ConvInv, NEW lates, late \subseteq lates, turn' = turn, late' = lates
  PROVE  WellTold(messages, turn, Orderly', Orderly' \ mixed) /\ Orderly' \subseteq Orderly
<1>1. Orderly' \subseteq Orderly
  BY DEF Orderly
<1> QED
  BY <1>1 DEF ConvInv, RepliesInv, WellTold

LEMMA GivesUpStep ==
  ASSUME ConvInv, GivesUp
  PROVE  ConvInv'
<1>1. /\ FinishTurn(messages) /\ turn' = turn /\ mixed' = mixed /\ told' = told /\ late' = late
      /\ answered' = answered /\ ends' = ends
  BY DEF GivesUp, tellerVars
<1>2. WellTold(messages, turn, Orderly', Orderly' \ mixed)
  BY <1>1, FewerTold
<1> QED
  BY <1>1, <1>2, FinishStep, TypesOf

(* The end is told with a final text, or with none.                          *)
LEMMA CompleteStep ==
  ASSUME ConvInv, NEW final \in Text, CompleteMessage(final), turn \in Turn,
         turn' = turn, mixed' = mixed, told' = told, late \subseteq late', late' \subseteq 1 .. turn,
         answered' \subseteq 1 .. turn, ends' \in 0 .. 2,
         InOrder /\ final # <<>> => Reads(final, turn),
         ~InOrder /\ final # <<>> => late' # {}
  PROVE  ConvInv'
<1> DEFINE active == SelectLastInSeq(messages, IsOpen)
           stopped == Stopped(messages)
           told1 == IF final = <<>> THEN stopped
                    ELSE IF active # 0 /\ messages[active].calls = {}
                      THEN [stopped EXCEPT ![active].text = final]
                      ELSE Append(stopped, Said("assistant", final))
<1>1. FinishTurn(told1)
  BY DEF CompleteMessage
<1>2. LastIn(active, {j \in DOMAIN messages : IsOpen(messages[j])})
  BY TypesOf, Bubbles
<1> HIDE DEF active
<1>3. active = 0 \/ (active \in DOMAIN messages /\ IsOpen(messages[active]))
  BY <1>2 DEF LastIn
<1>4. /\ stopped \in Seq(Message) /\ DOMAIN stopped = DOMAIN messages /\ Len(stopped) = Len(messages)
      /\ \A i \in DOMAIN messages : stopped[i].by = messages[i].by /\ stopped[i].text = messages[i].text
      /\ \A i \in Nat : i <= Len(messages) => TurnOf(stopped, i) = TurnOf(messages, i)
  BY TypesOf, StoppedIs
<1>5. Orderly' \subseteq Orderly /\ WellTold(messages, turn, Orderly', Orderly' \ mixed)
  BY FewerTold
<1>6. WellTold(stopped, turn, Orderly', Orderly' \ mixed)
  BY <1>5, TypesOf, StoppedToldSo
<1>7. \A i \in DOMAIN messages : TurnOf(stopped, i) = TurnOf(messages, i)
  BY <1>4, TypesOf, TurnBounds
<1>8. \A t : Texts(stopped, t) = Texts(messages, t)
  BY <1>4, <1>7 DEF Texts, IsReply
<1> HIDE DEF stopped
<1>9. CASE final = <<>>
  BY <1>1, <1>4, <1>6, <1>9, FinishStep
<1>10. CASE final # <<>>
  <2> DEFINE into == IF active # 0 /\ messages[active].calls = {} THEN active ELSE 0
             m == IF into # 0 THEN [stopped[active] EXCEPT !.text = final] ELSE Said("assistant", final)
             p == IF into = 0 THEN Len(stopped) + 1 ELSE into
  <2>1. into = 0 \/ (into \in DOMAIN messages /\ IsOpen(messages[into]) /\ messages[into].calls = {} /\ into = active)
    BY <1>3
  <2>2. told1 = IF into = 0 THEN Append(stopped, m) ELSE [stopped EXCEPT ![into] = m]
    <3>1. active # 0 /\ messages[active].calls = {} => into = active
      OBVIOUS
    <3> QED
      BY <1>10, <3>1
  <2> HIDE DEF told1, into
  <2>3. m \in Message /\ IsReply(m) /\ m.text = final
    <3>1. CASE into = 0
      BY <3>1, SaidIs DEF IsReply
    <3>2. CASE into # 0
      <4>1. stopped[active] \in Message /\ IsReply(stopped[active])
        BY <1>4, <2>1, <3>2, LenProperties DEF IsOpen, IsReply
      <4> QED
        BY <3>2, <4>1 DEF Message, IsReply
    <3> QED
      BY <3>1, <3>2
  <2> HIDE DEF m
  <2>4. into = 0 \/ (into \in DOMAIN stopped /\ IsReply(stopped[into]))
    BY <1>4, <2>1 DEF IsOpen, IsReply
  <2>5. PutAt(stopped, p, m, told1)
    BY <1>4, <2>2, <2>3, <2>4, PutIs
  <2>6. told1 \in Seq(Message)
    BY <2>5 DEF PutAt
  <2>7. TurnOf(told1, p) = IF into = 0 THEN turn ELSE TurnOf(messages, into)
    <3>1. Len(stopped) + 1 \notin DOMAIN stopped
      BY <1>4, LenProperties
    <3>2. Prompts(stopped) = turn
      BY <1>6 DEF WellTold, Prompted
    <3> QED
      BY <1>4, <1>7, <2>1, <2>5, <3>1, <3>2 DEF PutAt
  <2>8. CASE ~InOrder
    <3>1. LateBy(late', turn)
      <4>1. PICK l \in late' : TRUE
        BY <1>10, <2>8
      <4>2. l <= turn
        BY <4>1, TypesOf
      <4> QED
        BY <4>2 DEF LateBy
    <3>2. LateBy(late', TurnOf(told1, p))
      <4>1. CASE into = 0
        BY <2>7, <3>1, <4>1
      <4>2. CASE into # 0
        BY <2>1, <2>7, <2>8, <4>2 DEF ConvInv, OpenInv, LateBy
      <4> QED
        BY <4>1, <4>2
    <3>3. TurnOf(told1, p) \notin Orderly'
      <4>1. late' \subseteq Nat /\ TurnOf(told1, p) \in Nat
        BY <2>1, <2>7, TypesOf, TurnBounds
      <4> QED
        BY <3>2, <4>1 DEF LateBy, Orderly
    <3>4. WellTold(told1, turn, Orderly', Orderly' \ mixed)
      BY <1>6, <2>3, <2>5, <3>3, PutToldSo
    <3> QED
      BY <1>1, <2>6, <3>4, FinishStep
  <2>9. CASE InOrder
    <3>1. TurnOf(told1, p) = turn
      BY <2>1, <2>7, <2>9 DEF ConvInv, OpenInv, LateBy, InOrder
    <3>2. turn \notin mixed => \A i \in Texts(messages, turn) : i = p
      <4>1. SUFFICES ASSUME turn \notin mixed
                     PROVE  \A i \in Texts(messages, turn) : i = p
        OBVIOUS
      <4>2. active = Len(messages) /\ active # 0
        <5> DEFINE T == {j \in DOMAIN messages : IsOpen(messages[j])}
        <5>1. Len(messages) \in Nat /\ T \in SUBSET (1 .. Len(messages)) /\ Len(messages) \in T
          BY <2>9, LastBubble
        <5> HIDE DEF T
        <5> QED
          BY <1>2, <5>1, LastInTop DEF T
      <4>3. CASE Last(messages).calls = {}
        <5>1. into = active
          BY <2>9, <4>2, <4>3, LastBubble DEF into
        <5> QED
          BY <2>9, <4>1, <4>2, <5>1, AloneTexts
      <4>4. CASE Last(messages).calls # {}
        BY <2>9, <4>1, <4>4, AloneTexts
      <4> QED
        BY <4>3, <4>4
    <3>3. Reads(m.text, turn)
      BY <1>10, <2>3, <2>9
    <3>4. turn \in Orderly' \ mixed => \A i \in Texts(stopped, turn) : i = p
      BY <1>8, <3>2
    <3>5. WellTold(told1, turn, Orderly', Orderly' \ mixed)
      BY <1>6, <2>3, <2>5, <3>1, <3>3, <3>4, PutToldSo
    <3> QED
      BY <1>1, <2>6, <3>5, FinishStep
  <2> QED
    BY <2>8, <2>9
<1> QED
  BY <1>9, <1>10

LEMMA CompletedStep ==
  ASSUME ConvInv, NEW text \in {<<>>, Reply(turn)}, Completed(text)
  PROVE  ConvInv'
<1> DEFINE final == IF text = <<>> THEN BestStreamText(streams) ELSE text
<1>1. /\ turn > 0 /\ ends < 2 /\ CompleteMessage(final) /\ ends' = ends + 1
      /\ answered' = (IF ends = 0 THEN answered \cup {turn} ELSE answered)
      /\ IF text = <<>> THEN UNCHANGED late ELSE Talks
      /\ turn' = turn /\ told' = told /\ mixed' = mixed
  BY DEF Completed
<1>2. turn \in Turn /\ turn \in 1 .. turn
  BY <1>1, TypesOf DEF Turn
<1>3. ends' \in 0 .. 2 /\ answered' \subseteq 1 .. turn
  BY <1>1, <1>2, TypesOf
<1>4. late \subseteq late' /\ late' \subseteq 1 .. turn
  BY <1>1, <1>2, TypesOf DEF Talks
<1>5. BestStreamText(streams) \in Text
      /\ (BestStreamText(streams) = <<>> \/ \E s \in Source : BestStreamText(streams) = streams[s])
  BY BestIs, TypesOf
<1>6. final \in Text
  BY <1>2, <1>5, ReplyIs
<1>7. InOrder /\ final # <<>> => Reads(final, turn)
  <2>1. SUFFICES ASSUME InOrder, final # <<>>
                 PROVE  Reads(final, turn)
    OBVIOUS
  <2>2. streams = [s \in Source |-> Segment(turn, 1, told[s])]
    BY <2>1 DEF ConvInv, StreamsInv, InOrder
  <2>3. \A s \in Source : IsPrefix(streams[s], Reply(turn))
    BY <1>2, <2>2, ReplyIs, TypesOf
  <2> QED
    BY <1>2, <1>5, <2>1, <2>3, ReplyIs DEF Reads
<1>8. ~InOrder /\ final # <<>> => late' # {}
  <2>1. SUFFICES ASSUME ~InOrder, final # <<>>, late' = {}
                 PROVE  FALSE
    OBVIOUS
  <2>2. late = {} /\ ~sending
    BY <1>4, <2>1, TypesOf DEF InOrder
  <2>3. text = <<>>
    BY <1>1, <2>1, <2>2 DEF Talks
  <2>4. streams = Silent
    BY <2>2 DEF ConvInv, StreamsInv
  <2>5. \A s \in Source : streams[s] = <<>>
    BY <2>4 DEF Silent
  <2> QED
    BY <1>5, <2>1, <2>3, <2>5
<1> HIDE DEF final
<1> QED
  BY <1>1, <1>2, <1>3, <1>4, <1>6, <1>7, <1>8, CompleteStep

LEMMA TurnFailedStep ==
  ASSUME ConvInv, TurnFailed
  PROVE  ConvInv'
<1>1. /\ sending /\ CompleteMessage(Error(turn)) /\ ends' = 1 /\ turn' = turn /\ told' = told
      /\ answered' = answered /\ late' = late /\ mixed' = mixed
  BY DEF TurnFailed
<1>2. turn \in Turn
  <2>1. CASE late = {}
    BY <1>1, <2>1, OrderlyNow DEF InOrder
  <2>2. CASE late # {}
    BY <2>2, TypesOf DEF Turn
  <2> QED
    BY <2>1, <2>2
<1>3. Error(turn) \in Text
  BY <1>2, ReplyIs
<1>4. Reads(Error(turn), turn)
  BY DEF Reads
<1>5. ~InOrder => late' # {}
  BY <1>1 DEF InOrder
<1> QED
  BY <1>1, <1>2, <1>3, <1>4, <1>5, CompleteStep, TypesOf

LEMMA PairIs ==
  ASSUME NEW a \in Message, NEW b \in Message
  PROVE  <<a>> \in Seq(Message) /\ <<b>> \in Seq(Message) /\ <<a>> \o <<b>> = <<a, b>>
<1>1. <<a>> \in Seq(Message) /\ <<b>> \in Seq(Message) /\ <<a, b>> \in Seq(Message)
  OBVIOUS
<1>2. Len(<<a>>) = 1 /\ Len(<<b>>) = 1 /\ Len(<<a, b>>) = 2
      /\ <<a>>[1] = a /\ <<b>>[1] = b /\ <<a, b>>[1] = a /\ <<a, b>>[2] = b
  OBVIOUS
<1> DEFINE c == <<a>> \o <<b>>
<1>3. c \in Seq(Message) /\ Len(c) = 1 + 1
      /\ \A i \in 1 .. 1 + 1 : c[i] = IF i <= 1 THEN <<a>>[i] ELSE <<b>>[i - 1]
  BY <1>1, <1>2, ConcatProperties
<1> HIDE DEF c
<1>4. Len(c) = Len(<<a, b>>) /\ \A i \in 1 .. Len(c) : c[i] = <<a, b>>[i]
  BY <1>2, <1>3
<1>5. c = <<a, b>>
  BY <1>1, <1>3, <1>4, SeqEqual
<1> QED
  BY <1>1, <1>5 DEF c

LEMMA AppendTwo ==
  ASSUME NEW ms \in Seq(Message), NEW a \in Message, NEW b \in Message
  PROVE  ms \o <<a, b>> = Append(Append(ms, a), b)
<1>1. <<a>> \in Seq(Message) /\ <<b>> \in Seq(Message) /\ <<a>> \o <<b>> = <<a, b>>
  BY PairIs
<1>2. Append(ms, a) \in Seq(Message) /\ Append(ms, a) = ms \o <<a>>
  BY AppendProperties, AppendIsConcat
<1>3. Append(Append(ms, a), b) = Append(ms, a) \o <<b>>
  BY <1>2, AppendIsConcat
<1>4. (ms \o <<a>>) \o <<b>> = ms \o (<<a>> \o <<b>>)
  BY <1>1, ConcatAssociative
<1> QED
  BY <1>1, <1>2, <1>3, <1>4

(* A prompt begins a turn of which nothing was told.                         *)
LEMMA PromptToldSo ==
  ASSUME NEW ms \in Seq(Message), NEW n \in Nat, NEW ordered, NEW single, WellTold(ms, n, ordered, single),
         NEW ordered1, NEW single1, ordered1 \subseteq ordered \cup {n + 1}, single1 \subseteq single \cup {n + 1},
         NEW m \in Message, IsPrompt(m), m.text = Prompt(n + 1)
  PROVE  /\ WellTold(Append(ms, m), n + 1, ordered1, single1) /\ Append(ms, m) \in Seq(Message)
         /\ Texts(Append(ms, m), n + 1) = {}
         /\ \A i \in DOMAIN ms : TurnOf(ms, i) # n + 1
<1> DEFINE more == Append(ms, m)
<1>1. /\ more \in Seq(Message) /\ Len(more) = Len(ms) + 1 /\ more[Len(ms) + 1] = m
      /\ \A i \in DOMAIN ms : more[i] = ms[i] /\ TurnOf(more, i) = TurnOf(ms, i)
      /\ Prompts(more) = Prompts(ms) + 1 /\ TurnOf(more, Len(ms) + 1) = Prompts(more)
      /\ DOMAIN ms = 1 .. Len(ms) /\ DOMAIN more = 1 .. (Len(ms) + 1) /\ Len(ms) \in Nat
  BY TurnAppend
<1> HIDE DEF more
<1>2. \A i \in DOMAIN more : i \in DOMAIN ms \/ i = Len(ms) + 1
  BY <1>1
<1>3. Prompts(ms) = n /\ ~IsReply(m)
  BY MessageIs DEF WellTold, Prompted
<1>4. \A i \in DOMAIN ms : TurnOf(ms, i) # n + 1
  <2>1. \A i \in DOMAIN ms : TurnOf(ms, i) \in Nat /\ TurnOf(ms, i) <= n
    BY <1>3, TurnBounds
  <2> QED
    BY <2>1
<1>5. \A t : \A i \in Texts(more, t) : i \in Texts(ms, t) /\ t # n + 1 /\ more[i] = ms[i]
  BY <1>1, <1>2, <1>3, <1>4 DEF Texts
<1>6. Prompted(more, n + 1)
  BY <1>1, <1>2, <1>3 DEF WellTold, Prompted
<1>7. WellTold(more, n + 1, ordered1, single1)
  <2>1. ASSUME NEW t \in ordered1, NEW i \in Texts(more, t)
        PROVE  Reads(more[i].text, t)
    BY <1>5, <2>1 DEF WellTold
  <2>2. ASSUME NEW t \in single1, NEW i \in Texts(more, t), NEW j \in Texts(more, t)
        PROVE  i = j
    BY <1>5, <2>2 DEF WellTold
  <2> QED
    BY <1>6, <2>1, <2>2 DEF WellTold
<1>8. Texts(more, n + 1) = {}
  BY <1>5
<1> QED
  BY <1>1, <1>4, <1>7, <1>8 DEF more

LEMMA BeginTurnStep ==
  ASSUME ConvInv, BeginTurnWithPlaceholder
  PROVE  ConvInv'
<1> DEFINE u == Said("user", Prompt(turn + 1))
           asked == Append(messages, u)
<1>1. /\ ~sending /\ turn < MaxTurns /\ messages' = messages \o <<u, Placeholder>>
      /\ streams' = Silent /\ sending' = TRUE /\ turn' = turn + 1 /\ told' = [s \in Source |-> 0] /\ ends' = 0
      /\ answered' = answered /\ late' = late /\ mixed' = mixed
  BY DEF BeginTurnWithPlaceholder
<1>2. turn + 1 \in Turn /\ turn \in Nat
  BY <1>1, TypesOf DEF Turn
<1>3. u \in Message /\ IsPrompt(u) /\ u.text = Prompt(turn + 1)
  BY <1>2, SaidIs, ReplyIs DEF IsPrompt
<1> HIDE DEF u
<1>4. messages' = Append(asked, Placeholder)
  BY <1>1, <1>3, PlaceholderIs, AppendTwo, TypesOf
<1>5. Orderly' \subseteq Orderly \cup {turn + 1}
  <2>1. \A t \in 1 .. (turn + 1) : t \in 1 .. turn \/ t = turn + 1
    BY <1>2
  <2> QED
    BY <1>1, <2>1 DEF Orderly
<1>6. /\ WellTold(asked, turn + 1, Orderly', Orderly' \ mixed) /\ asked \in Seq(Message)
      /\ Texts(asked, turn + 1) = {} /\ \A i \in DOMAIN messages : TurnOf(messages, i) # turn + 1
  <2>1. WellTold(messages, turn, Orderly, Orderly \ mixed) /\ messages \in Seq(Message)
    BY TypesOf DEF ConvInv, RepliesInv
  <2>2. Orderly' \ mixed \subseteq (Orderly \ mixed) \cup {turn + 1}
    BY <1>5
  <2> QED
    BY <1>2, <1>3, <1>5, <2>1, <2>2, PromptToldSo
<1>7. /\ Len(asked) = Len(messages) + 1 /\ asked[Len(messages) + 1] = u
      /\ DOMAIN messages = 1 .. Len(messages) /\ DOMAIN asked = 1 .. (Len(messages) + 1)
      /\ \A i \in DOMAIN messages : asked[i] = messages[i] /\ TurnOf(asked, i) = TurnOf(messages, i)
      /\ Len(messages) \in Nat
  BY <1>3, TypesOf, TurnAppend
<1> HIDE DEF asked
<1> DEFINE p == Len(asked) + 1
<1>8. PutAt(asked, p, Placeholder, messages')
  <2>1. PutAt(asked, IF 0 = 0 THEN Len(asked) + 1 ELSE 0, Placeholder,
              IF 0 = 0 THEN Append(asked, Placeholder) ELSE [asked EXCEPT ![0] = Placeholder])
    BY <1>6, PlaceholderIs, PutIs
  <2> QED
    BY <1>4, <2>1
<1>9. WellTold(messages', turn + 1, Orderly', Orderly' \ mixed)
  BY <1>6, <1>8, PlaceholderIs, PutToldSo
<1>10. /\ messages' \in Seq(Message) /\ DOMAIN messages' = DOMAIN asked \cup {p} /\ messages'[p] = Placeholder
       /\ \A i \in DOMAIN asked : TurnOf(messages', i) = TurnOf(asked, i) /\ messages'[i] = asked[i]
       /\ Len(messages') = p /\ TurnOf(messages', p) = turn + 1 /\ p \notin DOMAIN asked
  <2>1. p \notin DOMAIN asked
    BY <1>7
  <2>2. Prompts(asked) = turn + 1
    BY <1>6 DEF WellTold, Prompted
  <2> QED
    BY <1>8, <2>1, <2>2 DEF PutAt
<1> HIDE DEF p
<1>11. \A i \in DOMAIN messages' :
         \/ i \in DOMAIN messages /\ messages'[i] = messages[i] /\ TurnOf(messages', i) = TurnOf(messages, i)
         \/ i = Len(messages) + 1 /\ messages'[i] = u
         \/ i = p
  BY <1>7, <1>10
<1>12. ~IsOpen(u) /\ ~IsReply(u)
  BY <1>3, MessageIs DEF IsOpen
<1>13. OpenInv'
  <2>1. ASSUME NEW i \in DOMAIN messages', IsOpen(messages'[i])
        PROVE  LateBy(late', TurnOf(messages', i)) \/ (InOrder' /\ TurnOf(messages', i) = turn')
    <3>1. CASE i \in DOMAIN messages /\ messages'[i] = messages[i] /\ TurnOf(messages', i) = TurnOf(messages, i)
      BY <1>1, <2>1, <3>1 DEF ConvInv, OpenInv, InOrder
    <3>2. CASE i = Len(messages) + 1 /\ messages'[i] = u
      BY <1>12, <2>1, <3>2
    <3>3. CASE i = p
      <4>1. CASE late = {}
        BY <1>1, <1>10, <3>3, <4>1 DEF InOrder
      <4>2. CASE late # {}
        <5>1. PICK l \in late : l \in 1 .. turn
          BY <4>2, TypesOf
        <5>2. l <= turn + 1
          BY <1>2, <5>1
        <5> QED
          BY <1>1, <1>10, <3>3, <5>1, <5>2 DEF LateBy
      <4> QED
        BY <4>1, <4>2
    <3> QED
      BY <1>11, <3>1, <3>2, <3>3
  <2> QED
    BY <2>1 DEF OpenInv
<1>14. StreamsInv'
  <2>1. Segment(turn + 1, 1, 0) = <<>>
    BY SubSeqEmpty DEF Segment
  <2>2. \A s \in Source : Segment(turn', 1, told'[s]) = <<>>
    BY <1>1, <2>1
  <2>3. Silent = [s \in Source |-> Segment(turn', 1, told'[s])]
    BY <2>2 DEF Silent
  <2> QED
    BY <1>1, <2>3 DEF StreamsInv
<1>15. Last(messages') = Placeholder /\ messages' # <<>>
  <2>1. DOMAIN <<>> = {}
    OBVIOUS
  <2> QED
    BY <1>10, <2>1 DEF Last
<1>16. Texts(messages', turn + 1) = {}
  BY <1>6, <1>10, PlaceholderIs DEF Texts
<1>17. Alone(messages', turn + 1)
  BY <1>6, <1>10, <1>11, <1>12, <1>15, PlaceholderIs DEF Alone
<1>18. LastInv'
  <2>1. turn' = turn + 1 /\ turn + 1 > 0
    BY <1>1, <1>2
  <2>2. IsOpen(Last(messages')) /\ messages' # <<>>
    BY <1>15, PlaceholderIs
  <2>3. Texts(messages', turn') = {} /\ Alone(messages', turn') /\ turn' > 0
    BY <1>16, <1>17, <2>1
  <2> QED
    BY <2>2, <2>3 DEF LastInv
<1>19. HistoryInv'
  <2>1. \A t \in 1 .. turn : t \in 1 .. (turn + 1)
    BY <1>2
  <2> QED
    BY <1>1, <2>1, TypesOf DEF HistoryInv
<1>20. ConversationTypeOK'
  <2>1. turn + 1 \in 0 .. MaxTurns /\ \A s \in Source : 0 \in 0 .. ReplyParts
    BY <1>1, TypesOf
  <2>2. Silent \in [Source -> Text]
    BY DEF Silent, Text
  <2> QED
    BY <1>1, <1>10, <2>1, <2>2, TypesOf DEF ConversationTypeOK
<1>21. RepliesInv'
  BY <1>1, <1>9 DEF RepliesInv
<1> QED
  BY <1>13, <1>14, <1>18, <1>19, <1>20, <1>21 DEF ConvInv

-----------------------------------------------------------------------------
(* The backend's history.                                                    *)

(* h tells n turns: each prompt, and behind it the reply when there was one. *)
Recorded(h, n) ==
  /\ h \in Seq(Message) /\ Prompts(h) = n
  /\ \A i \in DOMAIN h :
       /\ IsPrompt(h[i]) => h[i] = Said("user", Prompt(TurnOf(h, i)))
       /\ IsReply(h[i]) => h[i] = Said("assistant", Reply(TurnOf(h, i))) /\ i > 1 /\ IsPrompt(h[i - 1])

LEMMA ToldGoesOn ==
  ASSUME NEW h, NEW t \in Turn, Recorded(h, t - 1)
  PROVE  Recorded(h \o Told(t), t)
<1> DEFINE u == Said("user", Prompt(t))
           a == Said("assistant", Reply(t))
           more == Append(h, u)
           most == Append(more, a)
<1>1. /\ u \in Message /\ a \in Message /\ IsPrompt(u) /\ IsReply(a) /\ ~IsReply(u) /\ ~IsPrompt(a)
      /\ h \in Seq(Message) /\ t \in Nat /\ t - 1 + 1 = t /\ t + 0 = t
  <2>1. Prompt(t) \in Text /\ Reply(t) \in Text
    BY ReplyIs
  <2>2. u \in Message /\ u.by = "user" /\ a \in Message /\ a.by = "assistant"
    BY <2>1, SaidIs
  <2>3. t \in Nat /\ t - 1 + 1 = t /\ t + 0 = t
    BY ConversationAssumption DEF Turn
  <2> HIDE DEF u, a
  <2> QED
    BY <2>2, <2>3 DEF IsPrompt, IsReply, Recorded
<1>2. h \o Told(t) = IF t \in answered THEN most ELSE more
  <2>1. Told(t) = IF t \in answered THEN <<u, a>> ELSE <<u>>
    <3> HIDE DEF u, a
    <3>1. <<u>> \in Seq(Message) /\ <<u>> \o <<a>> = <<u, a>>
      BY <1>1, PairIs
    <3>2. <<u>> \o <<a>> = <<u, a>> /\ <<u>> \o <<>> = <<u>>
      BY <3>1, ConcatEmptySeq
    <3> QED
      BY <3>2 DEF Told, u, a
  <2> HIDE DEF u, a
  <2>2. h \o <<u, a>> = most /\ h \o <<u>> = more
    BY <1>1, AppendTwo, AppendIsConcat
  <2> HIDE DEF most, more
  <2> QED
    BY <2>1, <2>2
<1> HIDE DEF u, a
<1>3. Recorded(more, t)
  <2>1. /\ more \in Seq(Message) /\ Len(more) = Len(h) + 1 /\ more[Len(h) + 1] = u
        /\ \A i \in DOMAIN h : more[i] = h[i] /\ TurnOf(more, i) = TurnOf(h, i)
        /\ Prompts(more) = Prompts(h) + 1 /\ TurnOf(more, Len(h) + 1) = Prompts(more)
        /\ DOMAIN h = 1 .. Len(h) /\ DOMAIN more = 1 .. (Len(h) + 1) /\ Len(h) \in Nat
    BY <1>1, TurnAppend
  <2> HIDE DEF more
  <2>2. \A i \in DOMAIN more : i \in DOMAIN h \/ i = Len(h) + 1
    BY <2>1
  <2>3. Prompts(more) = t
    BY <1>1, <2>1 DEF Recorded
  <2>4. \A i \in DOMAIN h : i > 1 => i - 1 \in DOMAIN h
    BY <2>1
  <2> QED
    BY <1>1, <2>1, <2>2, <2>3, <2>4 DEF Recorded, u
<1>4. Recorded(most, t)
  <2>1. /\ most \in Seq(Message) /\ Len(most) = Len(more) + 1 /\ most[Len(more) + 1] = a
        /\ \A i \in DOMAIN more : most[i] = more[i] /\ TurnOf(most, i) = TurnOf(more, i)
        /\ Prompts(most) = Prompts(more) + 0 /\ TurnOf(most, Len(more) + 1) = Prompts(most)
        /\ DOMAIN more = 1 .. Len(more) /\ DOMAIN most = 1 .. (Len(more) + 1) /\ Len(more) \in Nat
    <3>1. more \in Seq(Message)
      BY <1>3 DEF Recorded
    <3> HIDE DEF more
    <3> QED
      BY <1>1, <3>1, TurnAppend
  <2>2. IsPrompt(more[Len(more)]) /\ Len(more) \in DOMAIN more /\ Len(more) >= 1
    <3>1. Len(more) = Len(h) + 1 /\ more[Len(h) + 1] = u /\ Len(h) \in Nat
      BY <1>1, TurnAppend
    <3> HIDE DEF more
    <3> QED
      BY <1>1, <2>1, <3>1
  <2> HIDE DEF more, most
  <2>3. \A i \in DOMAIN most : i \in DOMAIN more \/ i = Len(more) + 1
    BY <2>1
  <2>4. Prompts(most) = t
    BY <1>1, <1>3, <2>1 DEF Recorded
  <2>5. \A i \in DOMAIN more : i > 1 => i - 1 \in DOMAIN more
    BY <2>1
  <2>6. Len(more) + 1 > 1 /\ Len(more) + 1 - 1 = Len(more) /\ most[Len(more)] = more[Len(more)]
    BY <2>1, <2>2
  <2>7. ASSUME NEW i \in DOMAIN more
        PROVE  /\ IsPrompt(most[i]) => most[i] = Said("user", Prompt(TurnOf(most, i)))
               /\ IsReply(most[i]) => most[i] = Said("assistant", Reply(TurnOf(most, i))) /\ i > 1 /\ IsPrompt(most[i - 1])
    BY <1>3, <2>1, <2>5 DEF Recorded
  <2>8. LET i == Len(more) + 1
        IN  /\ IsPrompt(most[i]) => most[i] = Said("user", Prompt(TurnOf(most, i)))
            /\ IsReply(most[i]) => most[i] = Said("assistant", Reply(TurnOf(most, i))) /\ i > 1 /\ IsPrompt(most[i - 1])
    BY <1>1, <2>1, <2>2, <2>4, <2>6 DEF a
  <2> QED
    BY <2>1, <2>3, <2>4, <2>7, <2>8 DEF Recorded
<1> HIDE DEF more, most
<1> QED
  BY <1>2, <1>3, <1>4

HistoryInSteps(g) ==
  /\ g \in [0 .. turn -> Seq(Message)] /\ g[0] = <<>>
  /\ \A t \in 1 .. turn : g[t] = g[t - 1] \o Told(t)

LEMMA ToldIs ==
  ASSUME NEW t \in Turn
  PROVE  Told(t) \in Seq(Message)
<1>1. Said("user", Prompt(t)) \in Message /\ Said("assistant", Reply(t)) \in Message
  BY SaidIs, ReplyIs
<1> DEFINE u == <<Said("user", Prompt(t))>>
           a == IF t \in answered THEN <<Said("assistant", Reply(t))>> ELSE <<>>
<1>2. u \in Seq(Message) /\ a \in Seq(Message) /\ Told(t) = u \o a
  BY <1>1 DEF Told
<1> HIDE DEF u, a
<1> QED
  BY <1>2, ConcatProperties

LEMMA HistoryGoes ==
  ASSUME turn \in 0 .. MaxTurns
  PROVE  \E g : HistoryInSteps(g) /\ History = g[turn]
<1> DEFINE n == turn
           X == Seq(Message)
           step == [x \in X \X (1 .. n) |-> x[1] \o Told(x[2])]
           ps == [t \in 1 .. turn |-> t]
           Body(it) == it = [t \in SUBSET (1 .. n) |->
                              IF t = {} THEN <<>> ELSE it[t \ {Max(t)}] \o Told(Max(t))]
           Loop(it) == it = [t \in SUBSET (1 .. n) |->
                              IF t = {} THEN <<>> ELSE it[t \ {Max(t)}] \o Told(ps[Max(t)])]
           iter == CHOOSE it : Body(it)
<1>1. n \in Nat /\ \A t \in 1 .. n : t \in Turn
  BY ConversationAssumption DEF Turn
<1>2. History = (CHOOSE it : Loop(it))[1 .. n]
  BY <1>1 DEF History, FoldLeft, MapThenFoldSet
<1> HIDE DEF n
<1>3. \A t \in SUBSET (1 .. n) : t # {} => Max(t) \in 1 .. n
  BY <1>1, MaxIn
<1>4. \A it : Loop(it) <=> Body(it)
  <2> TAKE it
  <2>1. ASSUME NEW t \in SUBSET (1 .. n), t # {}
        PROVE  it[t \ {Max(t)}] \o Told(ps[Max(t)]) = it[t \ {Max(t)}] \o Told(Max(t))
    <3>1. ps[Max(t)] = Max(t)
      BY <1>3, <2>1 DEF n
    <3> HIDE DEF ps
    <3> QED
      BY <3>1
  <2> HIDE DEF ps
  <2>2. [t \in SUBSET (1 .. n) |-> IF t = {} THEN <<>> ELSE it[t \ {Max(t)}] \o Told(ps[Max(t)])]
        = [t \in SUBSET (1 .. n) |-> IF t = {} THEN <<>> ELSE it[t \ {Max(t)}] \o Told(Max(t))]
    BY <2>1
  <2> QED
    BY <2>2, Zenon
<1>5. (CHOOSE it : Loop(it)) = iter
  <2> HIDE DEF Loop, Body
  <2> QED
    BY <1>4, Zenon
<1> HIDE DEF Loop, ps
<1>6. step \in [X \X (1 .. n) -> X] /\ <<>> \in X
  <2>1. \A x \in X, i \in 1 .. n : x \o Told(i) \in X
    BY <1>1, ToldIs, ConcatProperties
  <2> HIDE DEF X
  <2>2. step \in [X \X (1 .. n) -> X]
    BY <2>1
  <2> QED
    BY <2>2 DEF X
<1>7. \A x \in X, i \in 1 .. n : step[<<x, i>>] = x \o Told(i)
  <2> HIDE DEF X
  <2> QED OBVIOUS
<1> HIDE DEF step, X
<1>8. PICK it0 \in [SUBSET (1 .. n) -> X] : Iterates(it0, n, <<>>, step)
  BY <1>1, <1>6, IteratesExist
<1>9. Body(it0)
  <2>1. ASSUME NEW t \in SUBSET (1 .. n)
        PROVE  it0[t] = IF t = {} THEN <<>> ELSE it0[t \ {Max(t)}] \o Told(Max(t))
    <3>1. CASE t # {}
      <4>1. Max(t) \in 1 .. n /\ t \ {Max(t)} \in SUBSET (1 .. n)
        BY <1>1, <3>1, MaxIn
      <4>2. it0[t \ {Max(t)}] \in X
        BY <4>1
      <4>3. step[<<it0[t \ {Max(t)}], Max(t)>>] = it0[t \ {Max(t)}] \o Told(Max(t))
        BY <1>7, <4>1, <4>2
      <4> QED
        BY <1>8, <3>1, <4>3, Zenon DEF Iterates
    <3>2. CASE t = {}
      BY <1>8, <3>2 DEF Iterates
    <3> QED
      BY <3>1, <3>2
  <2>2. it0 = [t \in SUBSET (1 .. n) |-> it0[t]]
    OBVIOUS
  <2> QED
    BY <2>1, <2>2
<1>10. Body(iter)
  <2> HIDE DEF Body
  <2> QED BY <1>9, Zenon
<1>11. \A t \in SUBSET (1 .. n) :
        iter[t] = IF t = {} THEN <<>> ELSE iter[t \ {Max(t)}] \o Told(Max(t))
  <2> HIDE DEF iter
  <2> QED BY <1>10
<1> HIDE DEF iter, Body
<1>12. FoldsOver(iter, X, <<>>, n, step)
  BY <1>1, <1>6, <1>7, <1>11, MaxIn DEF FoldsOver
<1>13. PICK g : GoesOn(g, X, <<>>, n, step) /\ g[n] = iter[1 .. n]
  BY <1>12, FoldGoes
<1>14. \A i \in 1 .. n : g[i] = g[i - 1] \o Told(i)
  <2>1. \A i \in 1 .. n : g[i - 1] \in X
    BY <1>1, <1>13 DEF GoesOn
  <2> QED
    BY <1>7, <1>13, <2>1 DEF GoesOn
<1>15. HistoryInSteps(g)
  BY <1>13, <1>14 DEF n, X, GoesOn, HistoryInSteps
<1> QED
  BY <1>2, <1>5, <1>13, <1>15, Zenon DEF n

LEMMA HistoryIs ==
  ASSUME turn \in 0 .. MaxTurns
  PROVE  Recorded(History, turn)
<1>1. PICK g : HistoryInSteps(g) /\ History = g[turn]
  BY HistoryGoes
<1> DEFINE T == {t \in 0 .. turn : Recorded(g[t], t)}
<1>2. turn \in Nat /\ turn \in 0 .. turn
  BY ConversationAssumption
<1>3. 0 \in T
  <2>1. g[0] = <<>> /\ DOMAIN <<>> = {} /\ Len(<<>>) = 0 /\ <<>> \in Seq(Message)
    BY <1>1 DEF HistoryInSteps
  <2>2. Prompts(<<>>) = 0
    BY <2>1, TurnCounts DEF Prompts
  <2>3. Recorded(<<>>, 0)
    BY <2>1, <2>2 DEF Recorded
  <2> QED
    BY <1>2, <2>1, <2>3
<1>4. ASSUME NEW t \in 1 .. turn, t - 1 \in T
      PROVE  t \in T
  <2>1. t \in Turn /\ t \in 0 .. turn
    BY ConversationAssumption DEF Turn
  <2>2. Recorded(g[t - 1] \o Told(t), t)
    BY <1>4, <2>1, ToldGoesOn
  <2> QED
    BY <1>1, <2>1, <2>2 DEF HistoryInSteps
<1> HIDE DEF T
<1>5. turn \in T
  BY <1>2, <1>3, <1>4, Induction
<1> QED
  BY <1>1, <1>5 DEF T

-----------------------------------------------------------------------------
(* What merge_transcript makes of the history and the screen.                *)

LEMMA MinIn ==
  ASSUME NEW T \in SUBSET Nat, T # {}
  PROVE  Min(T) \in T
<1>1. PICK n \in T : \A m \in T : n <= m
  BY LeastNumber
<1> QED
  BY <1>1 DEF Min

LEMMA CollectIs ==
  ASSUME messages \in Seq(Message), NEW m \in Message, NEW from \in Nat \ {0}, NEW to \in DOMAIN messages
  PROVE  /\ Collect(m, from, to) \in Message
         /\ Collect(m, from, to).by = m.by /\ Collect(m, from, to).text = m.text
         /\ Collect(m, from, to).streaming = m.streaming
<1> DEFINE gathered == IF IsReply(m) THEN {messages[i] : i \in from .. to} ELSE {messages[to]}
           calls == IF IsReply(m) THEN UNION {own.calls : own \in gathered} ELSE {}
           files == UNION {own.files : own \in gathered}
<1>1. \A i \in from .. to : i \in DOMAIN messages
  BY LenProperties
<1>2. gathered \subseteq Message
  BY <1>1, LenProperties
<1> HIDE DEF gathered
<1>3. calls \subseteq ToolCalls /\ files \subseteq Files
  BY <1>2 DEF Message
<1>4. Collect(m, from, to) = [m EXCEPT !.files = files, !.calls = calls]
  BY DEF Collect, gathered
<1> HIDE DEF calls, files
<1> QED
  BY <1>3, <1>4 DEF Message

LEMMA FilesOnlyIs ==
  ASSUME messages \in Seq(Message), NEW from, NEW to
  PROVE  /\ FilesOnly(from, to) \in Seq(Message)
         /\ \A x \in DOMAIN FilesOnly(from, to) :
              \E i \in DOMAIN messages \cap from .. to :
                FilesOnly(from, to)[x] = messages[i] /\ IsFileOnly(messages[i])
<1> DEFINE is == {i \in from .. to : IsFileOnly(messages[i])}
           found == Those(messages, is)
<1>1. /\ found \in Seq(Message)
      /\ \A x \in DOMAIN found : \E i \in DOMAIN messages \cap is : found[x] = messages[i]
  <2> HIDE DEF is
  <2> QED
    BY ThoseAre
<1>2. FilesOnly(from, to) = found
  BY DEF FilesOnly
<1>3. \A i \in is : i \in from .. to /\ IsFileOnly(messages[i])
  OBVIOUS
<1> HIDE DEF is, found
<1> QED
  BY <1>1, <1>2, <1>3

(* A merge under way: what is settled, and where to go on looking.           *)
Merged == [merged : Seq(Message), cursor : Nat \ {0}]

(* files are drawn messages without text that stand before m's own.          *)
Skipped(files, m) ==
  /\ files \in Seq(Message)
  /\ IsReply(m) => files = <<>>
  /\ \A x \in DOMAIN files : \E i, own \in DOMAIN messages :
       /\ files[x] = messages[i] /\ IsFileOnly(messages[i]) /\ i < own
       /\ messages[own].by = m.by /\ messages[own].text = m.text

LEMMA MergeIs ==
  ASSUME messages \in Seq(Message), NEW acc \in Merged, NEW m \in Message
  PROVE  /\ Merge(acc, m) \in Merged
         /\ \E files, c : /\ Merge(acc, m).merged = Append(acc.merged \o files, c)
                          /\ Skipped(files, m) /\ c \in Message
                          /\ c.by = m.by /\ c.text = m.text /\ c.streaming = m.streaming
<1> DEFINE T == {i \in acc.cursor .. Len(messages) : messages[i].by = m.by /\ messages[i].text = m.text}
           own == IF T # {} THEN Min(T) ELSE 0
           between == IF IsReply(m) THEN <<>> ELSE FilesOnly(acc.cursor, own - 1)
           c == Collect(m, acc.cursor, own)
<1>1. own = SelectInSubSeq(messages, acc.cursor, Len(messages), LAMBDA drawn : drawn.by = m.by /\ drawn.text = m.text)
  BY DEF SelectInSubSeq
<1>2. Merge(acc, m) = IF own = 0 THEN [acc EXCEPT !.merged = Append(@, m)]
                      ELSE [merged |-> Append(acc.merged \o between, c), cursor |-> own + 1]
  BY <1>1 DEF Merge
<1>3. acc.merged \in Seq(Message) /\ acc.cursor \in Nat \ {0} /\ Len(messages) \in Nat
      /\ DOMAIN messages = 1 .. Len(messages)
  BY LenProperties DEF Merged
<1>4. own # 0 => own \in DOMAIN messages /\ messages[own].by = m.by /\ messages[own].text = m.text /\ own \in Nat
  <2>1. T \subseteq Nat
    BY <1>3
  <2>2. \A i \in T : i \in DOMAIN messages /\ messages[i].by = m.by /\ messages[i].text = m.text
    BY <1>3
  <2> HIDE DEF T
  <2> QED
    BY <2>1, <2>2, MinIn
<1> HIDE DEF own
<1>5. CASE own = 0
  <2>1. Merge(acc, m) = [acc EXCEPT !.merged = Append(acc.merged, m)]
    BY <1>2, <1>5
  <2>2. Append(acc.merged, m) \in Seq(Message) /\ acc.merged \o <<>> = acc.merged
    BY <1>3, AppendProperties, ConcatEmptySeq
  <2>3. Merge(acc, m) \in Merged /\ Merge(acc, m).merged = Append(acc.merged \o <<>>, m)
    BY <2>1, <2>2 DEF Merged
  <2>4. Skipped(<<>>, m)
    BY DEF Skipped
  <2> QED
    BY <2>3, <2>4
<1>6. CASE own # 0
  <2>1. c \in Message /\ c.by = m.by /\ c.text = m.text /\ c.streaming = m.streaming
    BY <1>3, <1>4, <1>6, CollectIs
  <2>2. Skipped(between, m)
    <3>1. CASE IsReply(m)
      BY <3>1 DEF Skipped
    <3>2. CASE ~IsReply(m)
      <4>1. between = FilesOnly(acc.cursor, own - 1)
        BY <3>2
      <4> HIDE DEF between
      <4>2. between \in Seq(Message)
            /\ \A x \in DOMAIN between : \E i \in DOMAIN messages \cap acc.cursor .. (own - 1) :
                 between[x] = messages[i] /\ IsFileOnly(messages[i])
        BY <4>1, FilesOnlyIs
      <4>3. \A i \in acc.cursor .. (own - 1) : i < own
        BY <1>3, <1>4, <1>6
      <4> QED
        BY <1>4, <1>6, <3>2, <4>2, <4>3 DEF Skipped
    <3> QED
      BY <3>1, <3>2
  <2> HIDE DEF between, c
  <2>3. Append(acc.merged \o between, c) \in Seq(Message)
    <3>1. acc.merged \o between \in Seq(Message)
      BY <1>3, <2>2, ConcatProperties DEF Skipped
    <3> QED
      BY <2>1, <3>1, AppendProperties
  <2>4. Merge(acc, m) = [merged |-> Append(acc.merged \o between, c), cursor |-> own + 1]
    BY <1>2, <1>6
  <2>5. own + 1 \in Nat \ {0}
    BY <1>4, <1>6
  <2>6. Merge(acc, m) \in Merged /\ Merge(acc, m).merged = Append(acc.merged \o between, c)
    BY <2>3, <2>4, <2>5 DEF Merged
  <2> QED
    BY <2>1, <2>2, <2>6
<1> QED
  BY <1>5, <1>6

NothingMerged == [merged |-> <<>>, cursor |-> 1]

MergesInSteps(g, h) ==
  /\ g \in [0 .. Len(h) -> Merged] /\ g[0] = NothingMerged
  /\ \A i \in 1 .. Len(h) : g[i] = Merge(g[i - 1], h[i])

LEMMA MergeGoes ==
  ASSUME messages \in Seq(Message), NEW h \in Seq(Message)
  PROVE  \E g : MergesInSteps(g, h)
                /\ MergedTranscript(h) = g[Len(h)].merged \o FilesOnly(g[Len(h)].cursor, Len(messages))
<1> DEFINE n == Len(h)
           X == Merged
           b == NothingMerged
           step == [x \in X \X (1 .. n) |-> Merge(x[1], h[x[2]])]
           Body(it) == it = [t \in SUBSET (1 .. n) |->
                              IF t = {} THEN b ELSE Merge(it[t \ {Max(t)}], h[Max(t)])]
           iter == CHOOSE it : Body(it)
<1>1. n \in Nat /\ DOMAIN h = 1 .. n /\ \A i \in 1 .. n : h[i] \in Message
  BY LenProperties
<1>2. FoldLeft(Merge, [merged |-> <<>>, cursor |-> 1], h) = iter[1 .. n]
  BY <1>1 DEF FoldLeft, MapThenFoldSet, NothingMerged
<1> HIDE DEF n
<1>3. step \in [X \X (1 .. n) -> X] /\ b \in X
  <2>1. \A x \in X, i \in 1 .. n : Merge(x, h[i]) \in X
    BY <1>1, MergeIs
  <2>2. b \in X
    BY DEF NothingMerged, Merged
  <2> HIDE DEF X
  <2> QED
    BY <2>1, <2>2
<1> HIDE DEF b
<1>4. \A x \in X, i \in 1 .. n : step[<<x, i>>] = Merge(x, h[i])
  <2> HIDE DEF X
  <2> QED OBVIOUS
<1> HIDE DEF step, X
<1>5. PICK it0 \in [SUBSET (1 .. n) -> X] : Iterates(it0, n, b, step)
  BY <1>1, <1>3, IteratesExist
<1>6. Body(it0)
  <2>1. ASSUME NEW t \in SUBSET (1 .. n)
        PROVE  it0[t] = IF t = {} THEN b ELSE Merge(it0[t \ {Max(t)}], h[Max(t)])
    <3>1. CASE t # {}
      <4>1. Max(t) \in 1 .. n /\ t \ {Max(t)} \in SUBSET (1 .. n)
        BY <1>1, <3>1, MaxIn
      <4>2. it0[t \ {Max(t)}] \in X
        BY <4>1
      <4>3. step[<<it0[t \ {Max(t)}], Max(t)>>] = Merge(it0[t \ {Max(t)}], h[Max(t)])
        BY <1>4, <4>1, <4>2
      <4> QED
        BY <1>5, <3>1, <4>3, Zenon DEF Iterates
    <3>2. CASE t = {}
      BY <1>5, <3>2 DEF Iterates
    <3> QED
      BY <3>1, <3>2
  <2>2. it0 = [t \in SUBSET (1 .. n) |-> it0[t]]
    OBVIOUS
  <2> QED
    BY <2>1, <2>2
<1>7. Body(iter)
  <2> HIDE DEF Body
  <2> QED BY <1>6, Zenon
<1>8. \A t \in SUBSET (1 .. n) :
        iter[t] = IF t = {} THEN b ELSE Merge(iter[t \ {Max(t)}], h[Max(t)])
  <2> HIDE DEF iter
  <2> QED BY <1>7
<1> HIDE DEF iter, Body
<1>9. FoldsOver(iter, X, b, n, step)
  BY <1>1, <1>3, <1>4, <1>8, MaxIn DEF FoldsOver
<1>10. PICK g : GoesOn(g, X, b, n, step) /\ g[n] = iter[1 .. n]
  BY <1>9, FoldGoes
<1>11. \A i \in 1 .. n : g[i] = Merge(g[i - 1], h[i])
  <2>1. \A i \in 1 .. n : g[i - 1] \in X
    BY <1>1, <1>10 DEF GoesOn
  <2> QED
    BY <1>4, <1>10, <2>1 DEF GoesOn
<1>12. MergesInSteps(g, h)
  BY <1>10, <1>11 DEF n, X, b, GoesOn, MergesInSteps
<1>13. MergedTranscript(h) = iter[1 .. n].merged \o FilesOnly(iter[1 .. n].cursor, Len(messages))
  BY <1>2 DEF MergedTranscript
<1> QED
  BY <1>10, <1>12, <1>13, Zenon DEF n

(* The bubbles that are still open were told late.                           *)
OpenOnesLate(ms) == \A i \in DOMAIN ms : IsOpen(ms[i]) => LateBy(late, TurnOf(ms, i))

LEMMA LaterIsLate ==
  ASSUME late \subseteq Nat, NEW t \in Nat, NEW u \in Nat, t <= u, LateBy(late, t)
  PROVE  LateBy(late, u)
<1>1. PICK l \in late : l <= t
  BY DEF LateBy
<1>2. l \in Nat
  BY <1>1
<1>3. l <= u
  BY <1>1, <1>2
<1> QED
  BY <1>1, <1>3 DEF LateBy

(* Messages without text change nothing of what reads well.                  *)
LEMMA FilesToldSo ==
  ASSUME NEW ms \in Seq(Message), NEW n, NEW ordered, NEW single, WellTold(ms, n, ordered, single),
         OpenOnesLate(ms), NEW files \in Seq(Message),
         \A x \in DOMAIN files :
           IsReply(files[x]) /\ files[x].text = <<>> /\ (IsOpen(files[x]) => LateBy(late, n))
  PROVE  /\ ms \o files \in Seq(Message) /\ WellTold(ms \o files, n, ordered, single)
         /\ OpenOnesLate(ms \o files) /\ \A t : Texts(ms \o files, t) = Texts(ms, t)
<1> DEFINE more == ms \o files
<1>1. /\ more \in Seq(Message) /\ Len(more) = Len(ms) + Len(files) /\ Len(ms) \in Nat /\ Len(files) \in Nat
      /\ \A i \in 1 .. Len(ms) + Len(files) : more[i] = IF i <= Len(ms) THEN ms[i] ELSE files[i - Len(ms)]
      /\ DOMAIN ms = 1 .. Len(ms) /\ DOMAIN files = 1 .. Len(files) /\ DOMAIN more = 1 .. Len(ms) + Len(files)
  BY ConcatProperties, LenProperties
<1> HIDE DEF more
<1>2. \A i \in DOMAIN more :
        \/ i \in DOMAIN ms /\ more[i] = ms[i]
        \/ i > Len(ms) /\ i - Len(ms) \in DOMAIN files /\ more[i] = files[i - Len(ms)]
  BY <1>1
<1>3. \A i \in DOMAIN ms : i \in DOMAIN more /\ more[i] = ms[i]
  BY <1>1
<1>4. \A i \in 0 .. Len(ms) : TurnOf(more, i) = TurnOf(ms, i)
  <2> TAKE i \in 0 .. Len(ms)
  <2>1. i \in Nat /\ \A j \in 1 .. i : j \in DOMAIN ms
    BY <1>1
  <2> QED
    BY <1>3, <2>1, SameTurns
<1>5. ASSUME NEW i \in Len(ms) .. Len(ms) + Len(files)
      PROVE  TurnOf(more, i) = n
  <2>1. {j \in 1 .. i : more[j].by = "user"} = {j \in 1 .. Len(ms) : ms[j].by = "user"}
    <3>1. ASSUME NEW j \in 1 .. i, more[j].by = "user"
          PROVE  j \in 1 .. Len(ms) /\ ms[j].by = "user"
      <4>1. j \in DOMAIN more
        BY <1>1
      <4> QED
        BY <1>1, <1>2, <3>1, <4>1 DEF IsReply
    <3>2. ASSUME NEW j \in 1 .. Len(ms), ms[j].by = "user"
          PROVE  j \in 1 .. i /\ more[j].by = "user"
      BY <1>1, <1>3, <3>2
    <3> QED
      BY <3>1, <3>2
  <2>2. TurnOf(more, i) = TurnOf(ms, Len(ms))
    BY <2>1 DEF TurnOf
  <2> QED
    BY <2>2 DEF WellTold, Prompted, Prompts
<1>6. \A i \in DOMAIN ms : TurnOf(more, i) = TurnOf(ms, i)
  BY <1>1, <1>4
<1>7. \A i \in DOMAIN more : i > Len(ms) => TurnOf(more, i) = n
  BY <1>1, <1>5
<1>8. Prompts(more) = n
  BY <1>1, <1>5 DEF Prompts
<1>9. \A t : Texts(more, t) = Texts(ms, t)
  BY <1>2, <1>3, <1>6 DEF Texts
<1>10. \A x \in DOMAIN files : ~IsPrompt(files[x])
  BY DEF IsPrompt, IsReply
<1>11. Prompted(more, n)
  BY <1>2, <1>6, <1>8, <1>10 DEF WellTold, Prompted
<1>12. \A t : Texts(ms, t) \subseteq DOMAIN ms
  BY DEF Texts
<1>13. WellTold(more, n, ordered, single)
  BY <1>3, <1>9, <1>11, <1>12 DEF WellTold
<1>14. OpenOnesLate(more)
  BY <1>2, <1>6, <1>7 DEF OpenOnesLate
<1> QED
  BY <1>1, <1>9, <1>13, <1>14 DEF more

LEMMA SkippedAreLate ==
  ASSUME ConvInv, ~sending, NEW m \in Message, NEW n \in Nat, IsPrompt(m) => m.text = Prompt(n + 1),
         NEW files, Skipped(files, m), n + 1 \in Turn
  PROVE  \A x \in DOMAIN files :
           IsReply(files[x]) /\ files[x].text = <<>> /\ (IsOpen(files[x]) => LateBy(late, n))
<1> SUFFICES ASSUME NEW x \in DOMAIN files
             PROVE  IsReply(files[x]) /\ files[x].text = <<>> /\ (IsOpen(files[x]) => LateBy(late, n))
  OBVIOUS
<1>1. PICK i \in DOMAIN messages, own \in DOMAIN messages :
        /\ files[x] = messages[i] /\ IsFileOnly(messages[i]) /\ i < own
        /\ messages[own].by = m.by /\ messages[own].text = m.text
  BY DEF Skipped
<1>2. files # <<>> /\ ~IsReply(m)
  BY DEF Skipped
<1>3. IsPrompt(m) /\ IsPrompt(messages[own]) /\ messages[own].text = Prompt(n + 1)
  BY <1>1, <1>2, MessageIs DEF IsPrompt
<1>4. messages[own].text = Prompt(TurnOf(messages, own))
  BY <1>3 DEF ConvInv, RepliesInv, WellTold, Prompted
<1>5. TurnOf(messages, own) = n + 1
  BY <1>3, <1>4 DEF Prompt
<1>6. TurnOf(messages, i) < n + 1 /\ TurnOf(messages, i) \in Nat
  BY <1>1, <1>3, <1>5, PromptBegins, TurnBounds, TypesOf
<1>7. IsOpen(messages[i]) => LateBy(late, TurnOf(messages, i))
  BY DEF ConvInv, OpenInv, InOrder
<1>8. late \subseteq Nat
  BY TypesOf
<1>9. IsOpen(messages[i]) => LateBy(late, n)
  BY <1>6, <1>7, <1>8, LaterIsLate
<1> QED
  BY <1>1, <1>9 DEF IsFileOnly

(* What is settled after j of the reported messages.                         *)
SettledTo(ms, h, j) ==
  /\ WellTold(ms, TurnOf(h, j), Turn, Turn) /\ OpenOnesLate(ms)
  /\ j # 0 /\ IsPrompt(h[j]) => Texts(ms, TurnOf(h, j)) = {}

LEMMA MergeKeeps ==
  ASSUME ConvInv, ~sending, NEW h, Recorded(h, turn), NEW j \in 1 .. Len(h), NEW acc \in Merged,
         SettledTo(acc.merged, h, j - 1)
  PROVE  SettledTo(Merge(acc, h[j]).merged, h, j)
<1> DEFINE m == h[j]
           ms == acc.merged
           n == TurnOf(h, j - 1)
<1>1. /\ m \in Message /\ ms \in Seq(Message) /\ j \in DOMAIN h /\ j - 1 \in Nat /\ j # 0
      /\ n \in Nat /\ TurnOf(h, j) = n + (IF IsPrompt(m) THEN 1 ELSE 0)
      /\ TurnOf(h, j) <= turn /\ TurnOf(h, j) \in Nat /\ h \in Seq(Message)
  <2>1. h \in Seq(Message) /\ Prompts(h) = turn
    BY DEF Recorded
  <2>2. j \in DOMAIN h /\ j - 1 \in Nat /\ j - 1 + 1 = j /\ j # 0
    BY <2>1, LenProperties
  <2>3. h[j] \in Message /\ TurnOf(h, j) <= turn /\ TurnOf(h, j) \in Nat
    BY <2>1, <2>2, TurnBounds
  <2>4. TurnOf(h, j - 1) \in Nat /\ TurnOf(h, j - 1 + 1) = TurnOf(h, j - 1) + (IF IsPrompt(h[j - 1 + 1]) THEN 1 ELSE 0)
    BY <2>2, TurnCounts
  <2> QED
    BY <2>1, <2>2, <2>3, <2>4 DEF Merged
<1>2. /\ IsPrompt(m) => m.text = Prompt(n + 1) /\ n + 1 \in Turn /\ m.streaming = FALSE
      /\ ~IsPrompt(m) => /\ m.text = Reply(n) /\ n \in Turn /\ j > 1 /\ IsPrompt(h[j - 1]) /\ m.streaming = FALSE
  <2>1. /\ IsPrompt(m) => m = Said("user", Prompt(n + 1))
        /\ ~IsPrompt(m) => m = Said("assistant", Reply(n)) /\ j > 1 /\ IsPrompt(h[j - 1])
    BY <1>1, MessageIs DEF Recorded
  <2>2. ASSUME IsPrompt(m)
        PROVE  n + 1 \in Turn
    BY <1>1, <2>2, TypesOf DEF Turn
  <2>3. ASSUME ~IsPrompt(m)
        PROVE  n \in Turn
    <3>1. j - 1 \in Nat /\ j - 1 >= 1 /\ 1 \in 0 .. (j - 1) /\ j - 2 \in Nat /\ j - 2 + 1 = j - 1
      BY <1>1, <2>1, <2>3
    <3>2. TurnOf(h, j - 2) \in Nat /\ TurnOf(h, j - 2 + 1) = TurnOf(h, j - 2) + (IF IsPrompt(h[j - 2 + 1]) THEN 1 ELSE 0)
      BY <3>1, TurnCounts
    <3>3. n >= 1
      BY <2>1, <2>3, <3>1, <3>2
    <3> QED
      BY <1>1, <2>3, <3>3, TypesOf DEF Turn
  <2> HIDE DEF m
  <2> QED
    BY <2>1, <2>2, <2>3 DEF Said
<1>3. PICK files, c : /\ Merge(acc, m).merged = Append(ms \o files, c)
                      /\ Skipped(files, m) /\ c \in Message
                      /\ c.by = m.by /\ c.text = m.text /\ c.streaming = m.streaming
  BY <1>1, MergeIs, TypesOf
<1>4. WellTold(ms, n, Turn, Turn) /\ OpenOnesLate(ms)
  BY DEF SettledTo
<1>5. j - 1 # 0 /\ IsPrompt(h[j - 1]) => Texts(ms, n) = {}
  BY DEF SettledTo
<1>6. \A x \in DOMAIN files :
        IsReply(files[x]) /\ files[x].text = <<>> /\ (IsOpen(files[x]) => LateBy(late, n))
  <2>1. CASE IsPrompt(m)
    BY <1>1, <1>2, <1>3, <2>1, SkippedAreLate
  <2>2. CASE ~IsPrompt(m)
    <3>1. DOMAIN files = {}
      BY <1>1, <1>3, <2>2, MessageIs DEF Skipped
    <3> QED
      BY <3>1
  <2> QED
    BY <2>1, <2>2
<1>7. ~IsPrompt(m) => j - 1 # 0
  BY <1>1, <1>2
<1> HIDE DEF m, ms, n
<1> DEFINE shown == ms \o files
<1>8. /\ shown \in Seq(Message) /\ WellTold(shown, n, Turn, Turn) /\ OpenOnesLate(shown)
      /\ \A t : Texts(shown, t) = Texts(ms, t)
  BY <1>1, <1>3, <1>4, <1>6, FilesToldSo DEF Skipped
<1> HIDE DEF shown
<1> DEFINE more == Append(shown, c)
<1>9. /\ Len(more) = Len(shown) + 1 /\ more[Len(shown) + 1] = c
      /\ \A i \in DOMAIN shown : more[i] = shown[i] /\ TurnOf(more, i) = TurnOf(shown, i)
      /\ DOMAIN shown = 1 .. Len(shown) /\ DOMAIN more = 1 .. (Len(shown) + 1) /\ Len(shown) \in Nat
  BY <1>3, <1>8, TurnAppend
<1>10. c.streaming = FALSE
  BY <1>2, <1>3
<1>11. OpenOnesLate(more)
  <2>1. \A i \in DOMAIN more : i \in DOMAIN shown \/ more[i] = c
    BY <1>9
  <2> HIDE DEF more
  <2> QED
    BY <1>8, <1>9, <1>10, <2>1 DEF OpenOnesLate, IsOpen
<1>12. IsPrompt(c) <=> IsPrompt(m)
  BY <1>3 DEF IsPrompt
<1>13. CASE IsPrompt(m)
  <2>1. TurnOf(h, j) = n + 1
    BY <1>1, <1>13
  <2>2. WellTold(more, n + 1, Turn, Turn) /\ Texts(more, n + 1) = {}
    <3>1. Turn \subseteq Turn \cup {n + 1}
      OBVIOUS
    <3>2. c.text = Prompt(n + 1) /\ IsPrompt(c)
      BY <1>2, <1>3, <1>12, <1>13
    <3> QED
      BY <1>1, <1>3, <1>8, <3>1, <3>2, PromptToldSo
  <2> QED
    BY <1>3, <1>11, <2>1, <2>2 DEF SettledTo, shown, m
<1>14. CASE ~IsPrompt(m)
  <2>1. TurnOf(h, j) = n /\ n \in Turn
    BY <1>1, <1>2, <1>14
  <2>2. IsReply(c) /\ c.text = Reply(n)
    BY <1>2, <1>3, <1>12, <1>14, MessageIs
  <2>3. PutAt(shown, Len(shown) + 1, c, more)
    <3>1. PutAt(shown, IF 0 = 0 THEN Len(shown) + 1 ELSE 0, c, IF 0 = 0 THEN Append(shown, c) ELSE [shown EXCEPT ![0] = c])
      BY <1>3, <1>8, <2>2, PutIs
    <3> QED
      BY <3>1
  <2>4. TurnOf(more, Len(shown) + 1) = n
    <3>1. Len(shown) + 1 \notin DOMAIN shown /\ Prompts(shown) = n
      BY <1>8, <1>9 DEF WellTold, Prompted
    <3> QED
      BY <2>3, <3>1 DEF PutAt
  <2>5. Texts(shown, n) = {}
    BY <1>2, <1>5, <1>7, <1>8, <1>14
  <2>6. Reads(c.text, n)
    BY <2>1, <2>2, ReplyIs DEF Reads
  <2> HIDE DEF more
  <2>7. WellTold(more, n, Turn, Turn)
    BY <1>8, <2>2, <2>3, <2>4, <2>5, <2>6, PutToldSo
  <2>8. ~IsPrompt(h[j])
    BY <1>14 DEF m
  <2>9. Merge(acc, h[j]).merged = more
    BY <1>3 DEF more, shown, m
  <2> QED
    BY <1>11, <2>1, <2>7, <2>8, <2>9 DEF SettledTo
<1> QED
  BY <1>13, <1>14

LEMMA MergedInOrder ==
  ASSUME ConvInv, ~sending, NEW h, Recorded(h, turn), NEW g, MergesInSteps(g, h)
  PROVE  /\ Len(h) \in 0 .. Len(h)
         /\ \A j \in 0 .. Len(h) : g[j] \in Merged /\ SettledTo(g[j].merged, h, j)
<1> DEFINE T == {j \in 0 .. Len(h) : SettledTo(g[j].merged, h, j)}
<1>1. Len(h) \in Nat /\ h \in Seq(Message)
  BY LenProperties DEF Recorded
<1>2. \A j \in 0 .. Len(h) : g[j] \in Merged
  BY DEF MergesInSteps
<1>3. 0 \in T
  <2>1. g[0].merged = <<>> /\ <<>> \in Seq(Message) /\ DOMAIN <<>> = {} /\ Len(<<>>) = 0
    BY EmptySeq DEF MergesInSteps, NothingMerged
  <2>2. TurnOf(h, 0) = 0 /\ Prompts(<<>>) = 0
    BY <2>1, TurnCounts DEF Prompts
  <2>3. \A t : Texts(<<>>, t) = {}
    BY <2>1 DEF Texts
  <2>4. WellTold(<<>>, 0, Turn, Turn) /\ OpenOnesLate(<<>>)
    BY <2>1, <2>2, <2>3 DEF WellTold, Prompted, OpenOnesLate
  <2> QED
    BY <1>1, <2>1, <2>2, <2>4 DEF SettledTo
<1>4. ASSUME NEW j \in 1 .. Len(h), j - 1 \in T
      PROVE  j \in T
  <2>1. g[j - 1] \in Merged /\ SettledTo(g[j - 1].merged, h, j - 1)
    BY <1>2, <1>4
  <2>2. SettledTo(Merge(g[j - 1], h[j]).merged, h, j)
    BY <2>1, MergeKeeps
  <2>3. g[j] = Merge(g[j - 1], h[j]) /\ j \in 0 .. Len(h)
    BY <1>1 DEF MergesInSteps
  <2> QED
    BY <2>2, <2>3
<1>5. \A j \in 0 .. Len(h) : j \in T
  <2> HIDE DEF T
  <2> QED
    BY <1>1, <1>3, <1>4, Induction
<1> QED
  BY <1>1, <1>2, <1>5

(* merge_transcript settles every turn the backend remembers.                *)
LEMMA MergeTranscriptStep ==
  ASSUME ConvInv, MergeTranscript
  PROVE  ConvInv'
<1>1. /\ ~sending /\ sending' = sending /\ turn' = turn /\ told' = told /\ ends' = ends
      /\ answered' = answered /\ late' = late /\ mixed' = mixed /\ streams' = Silent
      /\ messages' = MergedTranscript(History)
  BY DEF MergeTranscript, tellerVars
<1>2. PICK h : h = History /\ Recorded(h, turn) /\ h \in Seq(Message) /\ Prompts(h) = turn
  BY HistoryIs, TypesOf DEF Recorded
<1>3. PICK g : MergesInSteps(g, h)
               /\ MergedTranscript(h) = g[Len(h)].merged \o FilesOnly(g[Len(h)].cursor, Len(messages))
  BY <1>2, MergeGoes, TypesOf
<1> DEFINE ms == g[Len(h)].merged
           files == FilesOnly(g[Len(h)].cursor, Len(messages))
<1>4. g[Len(h)] \in Merged /\ SettledTo(ms, h, Len(h))
  BY <1>1, <1>2, <1>3, MergedInOrder
<1>5. ms \in Seq(Message) /\ WellTold(ms, turn, Turn, Turn) /\ OpenOnesLate(ms)
  BY <1>2, <1>4 DEF Merged, SettledTo, Prompts
<1>6. /\ files \in Seq(Message)
      /\ \A x \in DOMAIN files : \E i \in DOMAIN messages : files[x] = messages[i] /\ IsFileOnly(messages[i])
  BY FilesOnlyIs, TypesOf
<1>7. messages' = ms \o files
  BY <1>1, <1>2, <1>3
<1> HIDE DEF ms, files
<1>8. ASSUME NEW x \in DOMAIN files
      PROVE  IsReply(files[x]) /\ files[x].text = <<>> /\ (IsOpen(files[x]) => LateBy(late, turn))
  <2>1. PICK i \in DOMAIN messages : files[x] = messages[i] /\ IsFileOnly(messages[i])
    BY <1>6
  <2>2. TurnOf(messages, i) \in Nat /\ TurnOf(messages, i) <= turn /\ turn \in Nat /\ late \subseteq Nat
    <3>1. late \subseteq Nat /\ turn \in Nat
      BY TypesOf DEF Turn
    <3> QED
      BY <3>1, TurnBounds, TypesOf
  <2>3. IsOpen(messages[i]) => LateBy(late, TurnOf(messages, i))
    BY <1>1 DEF ConvInv, OpenInv, InOrder
  <2> QED
    BY <2>1, <2>2, <2>3, LaterIsLate DEF IsFileOnly
<1>9. /\ messages' \in Seq(Message) /\ WellTold(messages', turn, Turn, Turn) /\ OpenOnesLate(messages')
  BY <1>5, <1>6, <1>7, <1>8, FilesToldSo
<1>10. Orderly' \subseteq Turn /\ Orderly' = Orderly
  BY <1>1, TypesOf DEF Orderly, Turn
<1>11. ConversationTypeOK'
  <2>1. Silent \in [Source -> Text]
    BY DEF Silent, Text
  <2> QED
    BY <1>1, <1>9, <2>1 DEF ConvInv, ConversationTypeOK
<1>12. HistoryInv'
  BY <1>1 DEF ConvInv, HistoryInv
<1>13. RepliesInv'
  <2>1. WellTold(messages', turn, Orderly', Orderly' \ mixed)
    BY <1>9, <1>10 DEF WellTold
  <2> QED
    BY <1>1, <2>1 DEF RepliesInv
<1>14. OpenInv'
  BY <1>1, <1>9 DEF OpenInv, OpenOnesLate
<1>15. StreamsInv' /\ LastInv'
  BY <1>1 DEF StreamsInv, LastInv, InOrder, Silent
<1> QED
  BY <1>11, <1>12, <1>13, <1>14, <1>15 DEF ConvInv

-----------------------------------------------------------------------------
LEMMA ConvInvInit == ConversationInit => ConvInv
<1> SUFFICES ASSUME ConversationInit PROVE ConvInv
  OBVIOUS
<1> USE DEF ConversationInit
<1>1. <<>> \in Seq(Message) /\ DOMAIN messages = {} /\ Len(messages) = 0 /\ messages = <<>>
  BY EmptySeq
<1>2. ConversationTypeOK
  <2>1. Silent \in [Source -> Text]
    BY DEF Silent, Text
  <2>2. ReplyParts \in Nat /\ MaxTurns \in Nat
    BY ConversationAssumption
  <2>3. told \in [Source -> 0 .. ReplyParts] /\ turn \in 0 .. MaxTurns /\ ends \in 0 .. 2
    BY <2>2
  <2> QED
    BY <1>1, <2>1, <2>3 DEF ConversationTypeOK
<1>3. Prompts(messages) = 0 /\ \A t : Texts(messages, t) = {}
  BY <1>1, TurnCounts DEF Prompts, Texts
<1>4. RepliesInv
  BY <1>1, <1>3 DEF RepliesInv, WellTold, Prompted
<1> QED
  BY <1>1, <1>2, <1>4 DEF ConvInv, HistoryInv, OpenInv, StreamsInv, LastInv, InOrder

LEMMA ConvInvNext == ConvInv /\ [ConversationNext]_convVars => ConvInv'
<1> SUFFICES ASSUME ConvInv, [ConversationNext]_convVars PROVE ConvInv'
  OBVIOUS
<1>1. CASE UNCHANGED convVars
  <2> USE <1>1 DEF convVars
  <2>1. ConversationTypeOK' /\ HistoryInv' /\ Orderly' = Orderly
    BY DEF ConvInv, ConversationTypeOK, HistoryInv, Orderly
  <2>2. RepliesInv' /\ OpenInv'
    BY <2>1 DEF ConvInv, RepliesInv, OpenInv, InOrder
  <2>3. StreamsInv' /\ LastInv'
    BY DEF ConvInv, StreamsInv, LastInv, Alone, InOrder
  <2> QED
    BY <2>1, <2>2, <2>3 DEF ConvInv
<1>2. CASE BeginTurnWithPlaceholder \/ GivesUp \/ StartMessage \/ TurnFailed \/ MergeTranscript
  BY <1>2, BeginTurnStep, GivesUpStep, StartMessageStep, TurnFailedStep, MergeTranscriptStep
<1>3. CASE \E s \in Source : ApplyDelta(s)
  BY <1>3, ApplyDeltaStep
<1>4. CASE \E call \in ToolCalls : AppendToolCall(call)
  BY <1>4, AppendToolCallStep
<1>5. CASE \E file \in Files : AppendAttachment(file)
  BY <1>5, AppendAttachmentStep
<1>6. CASE \E text \in {<<>>, Reply(turn)} : Completed(text)
  BY <1>6, CompletedStep
<1> QED
  BY <1>1, <1>2, <1>3, <1>4, <1>5, <1>6 DEF ConversationNext

ConversationSpec == ConversationInit /\ [][ConversationNext]_convVars

(* The conversation of chat.rs has its types: whatever a backend reports, in *)
(* whatever order, every message, stream and count is one of those declared. *)
THEOREM ConversationTypeCorrect == ConversationSpec => []ConversationTypeOK
<1>1. ConvInv => ConversationTypeOK
  BY DEF ConvInv
<1> QED
  BY <1>1, ConvInvInit, ConvInvNext, PTL DEF ConversationSpec

(* A turn's reply reads in order, from its start, or as its failure, however *)
(* many streams tell it, in whatever increments, snapshots, repeats and      *)
(* replays (merge_stream_chunk, best_stream_text), and after the transcript  *)
(* is merged: for any number of streams, turns, parts, calls and files.      *)
THEOREM RepliesReadInOrder == ConversationSpec => []ReplyReadsInOrder
<1>1. ConvInv => ReplyReadsInOrder
  BY DEF ConvInv, RepliesInv, WellTold, Reads, ReplyReadsInOrder
<1> QED
  BY <1>1, ConvInvInit, ConvInvNext, PTL DEF ConversationSpec

(* A turn that made no call after text has its reply in one bubble, though   *)
(* its end is told twice, it fails, is stopped, or the session is read again *)
(* (complete_message, finish_turn, merge_transcript).                        *)
THEOREM RepliesKeptTogether == ConversationSpec => []ReplyKeptTogether
<1>1. ASSUME ConvInv, NEW t \in Orderly \ mixed
      PROVE  Cardinality(Texts(messages, t)) <= 1
  <2> DEFINE them == Texts(messages, t)
  <2>1. \A i, j \in them : i = j
    BY <1>1 DEF ConvInv, RepliesInv, WellTold
  <2> HIDE DEF them
  <2>2. CASE them = {}
    BY <2>2, FS_EmptySet DEF them
  <2>3. CASE them # {}
    <3>1. PICK i : them = {i}
      BY <2>1, <2>3
    <3>2. Cardinality({i}) = 1
      BY FS_Singleton
    <3> QED
      BY <3>1, <3>2 DEF them
  <2> QED
    BY <2>2, <2>3
<1>2. ConvInv => ReplyKeptTogether
  BY <1>1 DEF ReplyKeptTogether
<1> QED
  BY <1>2, ConvInvInit, ConvInvNext, PTL DEF ConversationSpec

-----------------------------------------------------------------------------
(* What a transcript that is read again needs to find on screen.             *)

(* A prompt has neither calls nor files.                                     *)
Bare(ms) == \A i \in DOMAIN ms : IsPrompt(ms[i]) => ms[i].calls = {} /\ ms[i].files = {}

(* In a turn from the first one told late on, every text is of such a turn.  *)
PartsLate(lates, text) == \A k \in DOMAIN text : LateBy(lates, text[k][1])
TextsLate(lates, ms) ==
  \A i \in DOMAIN ms :
    IsReply(ms[i]) /\ LateBy(lates, TurnOf(ms, i)) => PartsLate(lates, ms[i].text)

(* The reply of turn t is at k, or nowhere; after it there are only files.   *)
ReplyAt(ms, t, k) ==
  /\ k # 0 => k \in DOMAIN ms /\ IsReply(ms[k]) /\ TurnOf(ms, k) = t /\ ms[k].text = Reply(t)
  /\ \A i \in DOMAIN ms : IsReply(ms[i]) /\ TurnOf(ms, i) = t /\ k < i => IsFileOnly(ms[i])
ReplyWhole(ms, t) == \E k \in Nat : ReplyAt(ms, t, k)

ToldAll == ends = 0 /\ \E s \in Source : told[s] = ReplyParts

(* The turns whose reply is in the history, or will be when their end is     *)
(* told without it.                                                          *)
Due == {t \in Orderly \ mixed : t \in answered \/ (t = turn /\ ToldAll)}

EndsInv == (sending => ends = 0) /\ (ends = 0 => turn \notin answered)

KeepInv ==
  /\ EndsInv /\ Bare(messages) /\ TextsLate(late, messages)
  /\ late # {} => \A s \in Source : PartsLate(late, streams[s])
  /\ \A t \in Due : ReplyWhole(messages, t)

(* more is ms with less, at most: in order, and with every text.             *)
Trimmed(ms, more, f) ==
  /\ f \in [DOMAIN more -> DOMAIN ms]
  /\ \A x \in DOMAIN more : /\ more[x].by = ms[f[x]].by /\ more[x].text = ms[f[x]].text
                            /\ more[x].calls = ms[f[x]].calls /\ more[x].files = ms[f[x]].files
                            /\ TurnOf(more, x) = TurnOf(ms, f[x])
  /\ \A x, y \in DOMAIN more : x < y => f[x] < f[y]
  /\ \A i \in DOMAIN ms : ms[i].text # <<>> => \E x \in DOMAIN more : f[x] = i

LEMMA StoppedTrims ==
  ASSUME NEW ms \in Seq(Message)
  PROVE  \E f : Trimmed(ms, Stopped(ms), f)
<1> DEFINE s == Stopped(ms)
           f == [i \in DOMAIN ms |-> i]
<1>1. /\ DOMAIN s = DOMAIN ms /\ Len(ms) \in Nat
      /\ \A i \in DOMAIN ms : s[i].by = ms[i].by /\ s[i].text = ms[i].text
      /\ \A i \in Nat : i <= Len(ms) => TurnOf(s, i) = TurnOf(ms, i)
  BY StoppedIs, LenProperties
<1>2. \A i \in DOMAIN ms : TurnOf(s, i) = TurnOf(ms, i)
  BY <1>1, TurnBounds
<1>3. \A i \in DOMAIN ms : s[i].calls = ms[i].calls /\ s[i].files = ms[i].files
  <2>1. \A m \in Message : [m EXCEPT !.streaming = FALSE].calls = m.calls
                           /\ [m EXCEPT !.streaming = FALSE].files = m.files
    BY DEF Message
  <2>2. \A i \in DOMAIN ms : ms[i] \in Message
    BY LenProperties
  <2>3. \A i \in DOMAIN ms : s[i] = [ms[i] EXCEPT !.streaming = FALSE] \/ s[i] = ms[i]
    BY DEF Stopped
  <2> HIDE DEF s
  <2> QED
    BY <2>1, <2>2, <2>3
<1> HIDE DEF s
<1>4. Trimmed(ms, s, f)
  BY <1>1, <1>2, <1>3 DEF Trimmed
<1> HIDE DEF f
<1> QED
  BY <1>4 DEF s

LEMMA PrunedTrims ==
  ASSUME NEW ms \in Seq(Message)
  PROVE  \E f : Trimmed(ms, Pruned(ms), f)
<1> DEFINE is == {i \in DOMAIN ms : ~IsEmptyShell(ms[i])}
           k == Those(ms, is)
<1>1. \A i \in DOMAIN ms : IsPrompt(ms[i]) \/ ms[i].text # <<>> => i \in is
  BY DEF IsPrompt, IsEmptyShell, IsReply
<1>2. Pruned(ms) = k /\ DOMAIN ms = 1 .. Len(ms)
  BY LenProperties DEF Pruned
<1> HIDE DEF is
<1>3. PICK f : SomeOf(k, ms, is, Len(ms), f)
  BY <1>1, ThoseKeepTurns
<1> HIDE DEF k
<1>4. Trimmed(ms, k, f)
  BY <1>1, <1>2, <1>3 DEF SomeOf, Trimmed
<1> QED
  BY <1>2, <1>4

LEMMA TrimmedKeeps ==
  ASSUME NEW ms \in Seq(Message), NEW more \in Seq(Message), NEW f, Trimmed(ms, more, f)
  PROVE  /\ Bare(ms) => Bare(more)
         /\ \A lates : TextsLate(lates, ms) => TextsLate(lates, more)
         /\ \A t \in Turn : ReplyWhole(ms, t) => ReplyWhole(more, t)
<1>1. \A x \in DOMAIN more : /\ f[x] \in DOMAIN ms
                            /\ more[x].by = ms[f[x]].by /\ more[x].text = ms[f[x]].text
                            /\ more[x].calls = ms[f[x]].calls /\ more[x].files = ms[f[x]].files
                            /\ TurnOf(more, x) = TurnOf(ms, f[x])
  BY DEF Trimmed
<1>2. ASSUME Bare(ms), NEW x \in DOMAIN more, IsPrompt(more[x])
      PROVE  more[x].calls = {} /\ more[x].files = {}
  <2>1. IsPrompt(ms[f[x]])
    BY <1>1, <1>2 DEF IsPrompt
  <2> QED
    BY <1>1, <1>2, <2>1 DEF Bare
<1>3. ASSUME NEW lates, TextsLate(lates, ms)
      PROVE  TextsLate(lates, more)
  BY <1>1, <1>3 DEF TextsLate, IsReply
<1>4. ASSUME NEW t \in Turn, ReplyWhole(ms, t)
      PROVE  ReplyWhole(more, t)
  <2>1. PICK k \in Nat : ReplyAt(ms, t, k)
    BY <1>4 DEF ReplyWhole
  <2>2. \A x \in DOMAIN more : IsReply(more[x]) /\ TurnOf(more, x) = t /\ k < f[x] => IsFileOnly(more[x])
    BY <1>1, <2>1 DEF ReplyAt, IsReply, IsFileOnly
  <2>3. /\ \A x \in DOMAIN more : x \in Nat /\ x # 0
        /\ \A i \in DOMAIN ms : i \in Nat /\ i > 0
    BY LenProperties
  <2>4. CASE k = 0
    <3>1. ReplyAt(more, t, 0)
      BY <1>1, <2>2, <2>3, <2>4 DEF ReplyAt
    <3> QED
      BY <3>1 DEF ReplyWhole
  <2>5. CASE k # 0
    <3>1. k \in DOMAIN ms /\ IsReply(ms[k]) /\ TurnOf(ms, k) = t /\ ms[k].text = Reply(t)
      BY <2>1, <2>5 DEF ReplyAt
    <3>2. PICK x \in DOMAIN more : f[x] = k
      BY <3>1, ReplyIs DEF Trimmed
    <3>3. IsReply(more[x]) /\ TurnOf(more, x) = t /\ more[x].text = Reply(t)
      BY <1>1, <3>1, <3>2 DEF IsReply
    <3>4. \A y \in DOMAIN more : x < y => k < f[y]
      BY <3>2 DEF Trimmed
    <3>5. ReplyAt(more, t, x)
      BY <2>2, <3>3, <3>4 DEF ReplyAt
    <3> QED
      BY <2>3, <3>5 DEF ReplyWhole
  <2> QED
    BY <2>4, <2>5
<1> QED
  BY <1>2, <1>3, <1>4 DEF Bare

LEMMA FinishTrims ==
  ASSUME NEW ms \in Seq(Message), FinishTurn(ms), messages' \in Seq(Message)
  PROVE  /\ Bare(ms) => Bare(messages')
         /\ \A lates : TextsLate(lates, ms) => TextsLate(lates, messages')
         /\ \A t \in Turn : ReplyWhole(ms, t) => ReplyWhole(messages', t)
<1> DEFINE s == Stopped(ms)
<1>1. messages' = Pruned(s) /\ s \in Seq(Message)
  BY StoppedIs DEF FinishTurn
<1>2. \E f : Trimmed(ms, s, f)
  BY StoppedTrims
<1> HIDE DEF s
<1>3. \E f : Trimmed(s, messages', f)
  BY <1>1, PrunedTrims
<1>4. /\ Bare(ms) => Bare(s)
      /\ \A lates : TextsLate(lates, ms) => TextsLate(lates, s)
      /\ \A t \in Turn : ReplyWhole(ms, t) => ReplyWhole(s, t)
  BY <1>1, <1>2, TrimmedKeeps
<1>5. /\ Bare(s) => Bare(messages')
      /\ \A lates : TextsLate(lates, s) => TextsLate(lates, messages')
      /\ \A t \in Turn : ReplyWhole(s, t) => ReplyWhole(messages', t)
  BY <1>1, <1>3, TrimmedKeeps
<1> QED
  BY <1>4, <1>5

-----------------------------------------------------------------------------
(* The parts of a text.                                                      *)

LEMMA ReadsParts ==
  ASSUME NEW t \in Turn, NEW text \in Text, Reads(text, t)
  PROVE  \A k \in DOMAIN text : text[k][1] = t
<1>1. Reply(t) \in Text /\ Len(Reply(t)) = ReplyParts
  BY ReplyIs
<1>2. Len(text) \in Nat /\ DOMAIN text = 1 .. Len(text)
  BY LenProperties DEF Text
<1>3. CASE IsPrefix(text, Reply(t))
  <2>1. Len(text) <= Len(Reply(t)) /\ \A k \in 1 .. Len(text) : text[k] = Reply(t)[k]
    BY <1>1, <1>3, PrefixIs DEF Text
  <2>2. \A k \in 1 .. Len(text) : k \in 1 .. ReplyParts
    BY <1>1, <1>2, <2>1
  <2>3. \A k \in 1 .. ReplyParts : Reply(t)[k] = <<t, k>>
    BY DEF Reply
  <2> QED
    BY <1>2, <2>1, <2>2, <2>3
<1>4. CASE text = Error(t)
  BY <1>4 DEF Error
<1> QED
  BY <1>3, <1>4 DEF Reads

LEMMA TurnIsLate ==
  ASSUME NEW t \in Turn, NEW text \in Text, Reads(text, t), NEW lates, LateBy(lates, t)
  PROVE  PartsLate(lates, text)
BY ReadsParts DEF PartsLate

LEMMA ChunkParts ==
  ASSUME NEW s \in Source, turn \in Turn, told \in [Source -> 0 .. ReplyParts], NEW chunk \in Chunk(s),
         NEW lates, LateBy(lates, turn)
  PROVE  PartsLate(lates, chunk)
<1>1. PICK i \in 1 .. (told[s] + 1), j \in {told[s], told[s] + 1} \cap 1 .. ReplyParts :
        chunk = Segment(turn, i, j) /\ chunk # <<>>
  BY DEF Chunk, Segment
<1>2. ReplyParts \in Nat
  BY ConversationAssumption
<1>3. i \in 1 .. (ReplyParts + 1) /\ j \in 0 .. ReplyParts /\ i \in Nat /\ j \in Nat
  BY <1>1, <1>2
<1>4. /\ chunk \in Text /\ Len(chunk) = IF i <= j THEN j - i + 1 ELSE 0
      /\ \A k \in 1 .. (j - i + 1) : chunk[k] = <<turn, i + k - 1>>
      /\ j < i => chunk = <<>>
  BY <1>1, <1>3, SegmentIs
<1>5. DOMAIN chunk = 1 .. (j - i + 1)
  <2>1. i <= j
    BY <1>1, <1>3, <1>4
  <2> QED
    BY <1>4, <2>1, LenProperties DEF Text
<1> QED
  BY <1>4, <1>5 DEF PartsLate

LEMMA MergedParts ==
  ASSUME NEW buffer \in Text, NEW chunk \in Text, NEW lates, PartsLate(lates, buffer), PartsLate(lates, chunk)
  PROVE  PartsLate(lates, MergeStreamChunk(buffer, chunk))
<1> DEFINE o == Overlap(buffer, chunk)
           rest == SubSeq(chunk, o + 1, Len(chunk))
<1>1. o \in Nat /\ o <= Len(chunk) /\ Len(chunk) \in Nat /\ Len(buffer) \in Nat
  BY OverlapIs, LenProperties DEF Text
<1> HIDE DEF o
<1>2. rest \in Text /\ \A k \in DOMAIN rest : \E j \in DOMAIN chunk : rest[k] = chunk[j]
  <2>1. CASE o + 1 <= Len(chunk)
    <3>1. /\ rest \in Text /\ Len(rest) = Len(chunk) - (o + 1) + 1
          /\ \A k \in 1 .. (Len(chunk) - (o + 1) + 1) : rest[k] = chunk[o + 1 + k - 1]
      BY <1>1, <2>1, SubSeqProperties DEF Text
    <3>2. DOMAIN rest = 1 .. Len(rest) /\ DOMAIN chunk = 1 .. Len(chunk)
      BY <3>1, LenProperties DEF Text
    <3>3. \A k \in 1 .. (Len(chunk) - (o + 1) + 1) : o + 1 + k - 1 \in 1 .. Len(chunk)
      BY <1>1
    <3> HIDE DEF rest
    <3> QED
      BY <3>1, <3>2, <3>3
  <2>2. CASE ~(o + 1 <= Len(chunk))
    <3>1. rest = <<>>
      BY <1>1, <2>2, SubSeqProperties DEF Text
    <3>2. <<>> \in Text /\ DOMAIN <<>> = {}
      BY DEF Text
    <3> HIDE DEF rest
    <3> QED
      BY <3>1, <3>2
  <2> QED
    BY <2>1, <2>2
<1>3. PartsLate(lates, rest)
  BY <1>2 DEF PartsLate
<1> HIDE DEF rest
<1>4. PartsLate(lates, buffer \o rest)
  <2>1. /\ DOMAIN (buffer \o rest) = 1 .. (Len(buffer) + Len(rest)) /\ Len(rest) \in Nat
        /\ \A k \in 1 .. (Len(buffer) + Len(rest)) :
             (buffer \o rest)[k] = IF k <= Len(buffer) THEN buffer[k] ELSE rest[k - Len(buffer)]
        /\ DOMAIN buffer = 1 .. Len(buffer) /\ DOMAIN rest = 1 .. Len(rest)
    BY <1>2, ConcatProperties, LenProperties DEF Text
  <2> DEFINE all == buffer \o rest
  <2> HIDE DEF all
  <2>2. \A k \in DOMAIN all : \/ k \in DOMAIN buffer /\ all[k] = buffer[k]
                              \/ k - Len(buffer) \in DOMAIN rest /\ all[k] = rest[k - Len(buffer)]
    BY <1>1, <2>1 DEF all
  <2>3. PartsLate(lates, all)
    BY <1>3, <2>2 DEF PartsLate
  <2> QED
    BY <2>3 DEF all
<1>5. MergeStreamChunk(buffer, chunk) = chunk \/ MergeStreamChunk(buffer, chunk) = buffer
      \/ MergeStreamChunk(buffer, chunk) = buffer \o rest
  BY DEF MergeStreamChunk, rest, o
<1> QED
  BY <1>4, <1>5

(* A reply put at p changes only what p says.                                *)
LEMMA PutKeeps ==
  ASSUME NEW ms \in Seq(Message), NEW p, NEW m, NEW more, PutAt(ms, p, m, more), IsReply(m)
  PROVE  /\ Bare(ms) => Bare(more)
         /\ \A lates : /\ TextsLate(lates, ms)
                       /\ LateBy(lates, TurnOf(more, p)) => PartsLate(lates, m.text)
                       => TextsLate(lates, more)
         /\ \A t \in Turn : TurnOf(more, p) # t /\ ReplyWhole(ms, t) => ReplyWhole(more, t)
<1>1. /\ DOMAIN more = DOMAIN ms \cup {p} /\ more[p] = m
      /\ \A i \in DOMAIN ms : TurnOf(more, i) = TurnOf(ms, i) /\ (i # p => more[i] = ms[i])
  BY DEF PutAt
<1>2. ASSUME Bare(ms), NEW i \in DOMAIN more, IsPrompt(more[i])
      PROVE  more[i].calls = {} /\ more[i].files = {}
  <2>1. i # p
    BY <1>1, <1>2 DEF IsPrompt, IsReply
  <2> QED
    BY <1>1, <1>2, <2>1 DEF Bare
<1>3. ASSUME NEW lates, TextsLate(lates, ms), LateBy(lates, TurnOf(more, p)) => PartsLate(lates, m.text)
      PROVE  TextsLate(lates, more)
  BY <1>1, <1>3 DEF TextsLate
<1>4. ASSUME NEW t \in Turn, TurnOf(more, p) # t, ReplyWhole(ms, t)
      PROVE  ReplyWhole(more, t)
  <2>1. PICK k \in Nat : ReplyAt(ms, t, k)
    BY <1>4 DEF ReplyWhole
  <2>2. ReplyAt(more, t, k)
    BY <1>1, <1>4, <2>1 DEF ReplyAt
  <2> QED
    BY <2>2 DEF ReplyWhole
<1> QED
  BY <1>2, <1>3, <1>4 DEF Bare

LEMMA PutWhole ==
  ASSUME NEW ms \in Seq(Message), NEW m, NEW more, NEW t \in Turn, IsReply(m), m.text = Reply(t),
         PutAt(ms, Len(more), m, more), TurnOf(more, Len(more)) = t
  PROVE  ReplyWhole(more, t)
<1>1. more \in Seq(Message) /\ more[Len(more)] = m /\ Len(more) \in DOMAIN more
  BY DEF PutAt
<1>2. DOMAIN more = 1 .. Len(more) /\ Len(more) \in Nat
  BY <1>1, LenProperties
<1>3. \A i \in DOMAIN more : ~(Len(more) < i)
  BY <1>2
<1>4. ReplyAt(more, t, Len(more))
  BY <1>1, <1>3 DEF ReplyAt
<1> QED
  BY <1>2, <1>4 DEF ReplyWhole

LEMMA PutSameText ==
  ASSUME NEW ms \in Seq(Message), NEW p \in DOMAIN ms, NEW m \in Message, NEW more, PutAt(ms, p, m, more),
         IsReply(m), m.text = ms[p].text, ms[p].files \subseteq m.files, NEW t \in Turn, ReplyWhole(ms, t)
  PROVE  ReplyWhole(more, t)
<1>1. /\ DOMAIN more = DOMAIN ms /\ more[p] = m /\ IsReply(ms[p])
      /\ \A i \in DOMAIN ms : TurnOf(more, i) = TurnOf(ms, i) /\ (i # p => more[i] = ms[i])
  BY DEF PutAt
<1>2. PICK k \in Nat : ReplyAt(ms, t, k)
  BY DEF ReplyWhole
<1>3. k # 0 => k \in DOMAIN more /\ IsReply(more[k]) /\ TurnOf(more, k) = t /\ more[k].text = Reply(t)
  BY <1>1, <1>2 DEF ReplyAt
<1>4. ASSUME NEW i \in DOMAIN more, IsReply(more[i]), TurnOf(more, i) = t, k < i
      PROVE  IsFileOnly(more[i])
  <2>1. IsFileOnly(ms[i])
    BY <1>1, <1>2, <1>4 DEF ReplyAt
  <2> QED
    BY <1>1, <2>1 DEF IsFileOnly
<1>5. ReplyAt(more, t, k)
  BY <1>3, <1>4 DEF ReplyAt
<1> QED
  BY <1>5 DEF ReplyWhole

LEMMA KeepTypes ==
  ASSUME ConvInv
  PROVE  /\ Due \subseteq Turn /\ Due \subseteq Orderly /\ ReplyParts # 0 /\ late \subseteq Nat
         /\ \A t \in Due : ~LateBy(late, t)
         /\ \A t \in Turn : t <= turn /\ ~LateBy(late, t) => t \in Orderly
         /\ \A i \in DOMAIN messages : messages[i] \in Message /\ TurnOf(messages, i) \in Nat
                                      /\ TurnOf(messages, i) <= turn
<1>1. late \subseteq Nat /\ turn \in 0 .. MaxTurns /\ MaxTurns \in Nat /\ messages \in Seq(Message)
      /\ Prompts(messages) = turn
  BY TypesOf DEF Turn
<1>2. Due \subseteq Turn /\ Due \subseteq Orderly
  BY <1>1 DEF Due, Orderly, Turn
<1>3. \A t \in Due : ~LateBy(late, t)
  <2>1. \A t \in Orderly : t \in Nat /\ \A l \in late : t < l
    BY DEF Orderly
  <2> QED
    BY <1>1, <1>2, <2>1 DEF LateBy
<1>4. \A t \in Turn : t <= turn /\ ~LateBy(late, t) => t \in Orderly
  BY <1>1 DEF LateBy, Orderly, Turn
<1>5. \A i \in DOMAIN messages : messages[i] \in Message /\ TurnOf(messages, i) \in Nat /\ TurnOf(messages, i) <= turn
  BY <1>1, TurnBounds
<1> QED
  BY <1>1, <1>2, <1>3, <1>4, <1>5, ConversationAssumption

(* The first event told late finds nothing older in what comes after it.     *)
LEMMA TalkedLate ==
  ASSUME ConvInv, KeepInv, Talks, turn' = turn
  PROVE  /\ TextsLate(late', messages)
         /\ LateBy(late', turn) \/ late' = {}
         /\ late' # {} => \A s \in Source : PartsLate(late', streams[s])
<1>1. late' = (IF sending THEN late ELSE {turn}) /\ (sending \/ late = {}) /\ turn \in Nat /\ turn > 0
      /\ late \subseteq 1 .. turn
  BY TypesOf DEF Talks
<1>2. LateBy(late', turn) \/ late' = {}
  <2>1. late' \subseteq 1 .. turn
    BY <1>1
  <2>2. \A l \in late' : l <= turn
    BY <1>1, <2>1
  <2> QED
    BY <2>2 DEF LateBy
<1>3. CASE sending
  BY <1>1, <1>2, <1>3 DEF KeepInv
<1>4. CASE ~sending
  <2>1. late = {} /\ late' = {turn}
    BY <1>1, <1>4
  <2>2. \A s \in Source : PartsLate(late', streams[s])
    <3>1. \A s \in Source : streams[s] = <<>>
      BY <1>4, <2>1 DEF ConvInv, StreamsInv, Silent
    <3> QED
      BY <3>1 DEF PartsLate
  <2>3. ASSUME NEW i \in DOMAIN messages, IsReply(messages[i]), LateBy(late', TurnOf(messages, i))
        PROVE  PartsLate(late', messages[i].text)
    <3>1. TurnOf(messages, i) = turn /\ messages[i] \in Message
      <4>1. turn <= TurnOf(messages, i)
        BY <2>1, <2>3 DEF LateBy
      <4> QED
        BY <1>1, <4>1, KeepTypes
    <3>2. CASE messages[i].text = <<>>
      BY <3>2 DEF PartsLate
    <3>3. CASE messages[i].text # <<>>
      <4>1. i \in Texts(messages, turn)
        BY <2>3, <3>1, <3>3 DEF Texts
      <4>2. turn \in Orderly /\ turn \in Turn
        BY <1>1, <2>1, TypesOf DEF Orderly, Turn
      <4>3. Reads(messages[i].text, turn)
        BY <4>1, <4>2 DEF ConvInv, RepliesInv, WellTold
      <4>4. messages[i].text \in Text
        BY <3>1 DEF Message
      <4>5. LateBy(late', turn)
        BY <2>3, <3>1
      <4> QED
        BY <4>2, <4>3, <4>4, <4>5, TurnIsLate
    <3> QED
      BY <3>2, <3>3
  <2> QED
    BY <1>2, <2>2, <2>3 DEF TextsLate
<1> QED
  BY <1>3, <1>4

LEMMA DueLater ==
  ASSUME ConvInv, ConvInv', turn' = turn, late \subseteq late', mixed \subseteq mixed',
         answered' \subseteq answered \cup {turn}
  PROVE  Orderly' \subseteq Orderly /\ Due' \ {turn} \subseteq Due
<1>1. Orderly' \subseteq Orderly
  BY DEF Orderly
<1> QED
  BY <1>1 DEF Due

(* What an event of the turn has to keep.                                    *)
LEMMA TalkKeeps ==
  ASSUME ConvInv, ConvInv', KeepInv, Talks,
         turn' = turn, sending' = sending, answered' = answered, ends' = ends, mixed \subseteq mixed',
         messages' = messages
           \/ \E p, m : Puts(p, m) /\ (LateBy(late', TurnOf(messages', p)) => PartsLate(late', m.text)),
         late' # {} => \A s \in Source : PartsLate(late', streams'[s]),
         InOrder /\ turn \in Due' => ReplyWhole(messages', turn)
  PROVE  KeepInv'
<1>1. late \subseteq late' /\ late' \subseteq 1 .. turn /\ messages \in Seq(Message)
  BY TalksIs, TypesOf DEF Talks
<1>2. TextsLate(late', messages) /\ Bare(messages) /\ (LateBy(late', turn) \/ late' = {})
  <2>1. Bare(messages)
    BY DEF KeepInv
  <2> QED
    BY <2>1, TalkedLate
<1>3. EndsInv'
  BY DEF KeepInv, EndsInv
<1>4. Bare(messages') /\ TextsLate(late', messages')
  <2>1. CASE messages' = messages
    BY <1>2, <2>1
  <2>2. CASE \E p, m : Puts(p, m) /\ (LateBy(late', TurnOf(messages', p)) => PartsLate(late', m.text))
    <3>1. PICK p, m : Puts(p, m) /\ (LateBy(late', TurnOf(messages', p)) => PartsLate(late', m.text))
      BY <2>2
    <3>2. PutAt(messages, p, m, messages') /\ IsReply(m)
      BY <3>1 DEF Puts, IsOpen
    <3> QED
      BY <1>1, <1>2, <3>1, <3>2, PutKeeps
  <2> QED
    BY <2>1, <2>2
<1>5. ASSUME NEW t \in Due'
      PROVE  ReplyWhole(messages', t)
  <2>1. t \in Turn /\ ~LateBy(late', t)
    <3>1. t \in 1 .. turn /\ \A l \in late' : t < l
      BY <1>5 DEF Due, Orderly
    <3>2. t \in Turn /\ \A l \in late' : ~(l <= t)
      BY <1>1, <3>1, TypesOf DEF Turn
    <3> QED
      BY <3>2 DEF LateBy
  <2>2. CASE t = turn
    <3>1. late' = {} /\ sending
      BY <1>1, <1>2, <2>1, <2>2 DEF Talks
    <3> QED
      BY <1>1, <1>5, <2>2, <3>1 DEF InOrder
  <2>3. CASE t # turn
    <3>1. t \in Due /\ ReplyWhole(messages, t)
      BY <1>1, <1>5, <2>3, DueLater DEF KeepInv
    <3>2. CASE messages' = messages
      BY <3>1, <3>2
    <3>3. CASE \E p, m : Puts(p, m)
      <4>1. PICK p, m : Puts(p, m)
        BY <3>3
      <4>2. PutAt(messages, p, m, messages') /\ IsReply(m) /\ IsOpen(messages'[p]) /\ p \in DOMAIN messages'
        BY <4>1 DEF Puts, IsOpen, PutAt
      <4>3. LateBy(late', TurnOf(messages', p)) \/ TurnOf(messages', p) = turn
        BY <4>2 DEF ConvInv, OpenInv
      <4>4. TurnOf(messages', p) # t
        BY <2>1, <2>3, <4>3
      <4> QED
        BY <1>1, <2>1, <3>1, <4>2, <4>4, PutKeeps
    <3> QED
      BY <3>2, <3>3
  <2> QED
    BY <2>2, <2>3
<1> QED
  BY <1>3, <1>4, <1>5 DEF KeepInv

(* A stream that told the whole reply is the best one.                       *)
LEMMA BestTold ==
  ASSUME NEW bs, NEW tolds \in [Source -> 0 .. ReplyParts], NEW t \in Turn,
         bs = [s \in Source |-> Segment(t, 1, tolds[s])],
         NEW s0 \in Source, tolds[s0] = ReplyParts
  PROVE  BestStreamText(bs) = Reply(t)
<1> DEFINE T == {i \in 1 .. Len(Sources) : \A r \in Source : Len(bs[r]) <= Len(bs[Sources[i]])}
           k == IF T # {} THEN Max(T) ELSE 0
<1>1. Len(Sources) \in Nat /\ DOMAIN Sources = 1 .. Len(Sources) /\ ReplyParts \in Nat
      /\ \A i \in 1 .. Len(Sources) : Sources[i] \in Source
  BY ConversationAssumption, LenProperties DEF Source, ToSet
<1>2. T \in SUBSET (1 .. Len(Sources))
  OBVIOUS
<1>3. BestStreamText(bs) = IF k = 0 THEN <<>> ELSE bs[Sources[k]]
  BY DEF BestStreamText, SelectLastInSeq
<1>4. \A r \in Source : bs[r] = Segment(t, 1, tolds[r]) /\ Len(bs[r]) = tolds[r]
  <2>1. \A r \in Source : Len(Segment(t, 1, tolds[r])) = IF 1 <= tolds[r] THEN tolds[r] - 1 + 1 ELSE 0
    BY <1>1, SegmentIs
  <2> QED
    BY <1>1, <2>1
<1>5. PICK i \in 1 .. Len(Sources) : s0 = Sources[i]
  BY <1>1 DEF Source, ToSet
<1>6. i \in T
  BY <1>1, <1>4, <1>5
<1> HIDE DEF T
<1>7. k \in T /\ k # 0
  <2>1. (k \in T /\ (\A m \in T : m <= k)) \/ (k = 0 /\ T = {})
    BY <1>1, <1>2, LastOneIs
  <2> HIDE DEF k
  <2> QED
    BY <1>2, <1>6, <2>1
<1> HIDE DEF k
<1>8. Sources[k] \in Source /\ Len(bs[s0]) <= Len(bs[Sources[k]])
  BY <1>1, <1>2, <1>7 DEF T
<1>9. tolds[Sources[k]] = ReplyParts
  BY <1>1, <1>4, <1>8
<1>10. bs[Sources[k]] = Segment(t, 1, ReplyParts)
  BY <1>4, <1>8, <1>9
<1>11. Segment(t, 1, ReplyParts) = Reply(t)
  BY <1>1, ReplyIs, SubSeqFull DEF Segment, Text
<1> QED
  BY <1>3, <1>7, <1>10, <1>11

LEMMA LateNonEmpty ==
  ASSUME NEW lates, turn \in Nat, lates \subseteq 1 .. turn, lates # {}
  PROVE  LateBy(lates, turn)
<1>1. \A l \in lates : l <= turn
  OBVIOUS
<1> QED
  BY <1>1 DEF LateBy

LEMMA KeepStart ==
  ASSUME ConvInv, ConvInv', KeepInv, StartMessage
  PROVE  KeepInv'
<1>1. /\ Talks /\ sending /\ turn' = turn /\ sending' = sending /\ answered' = answered /\ ends' = ends
      /\ mixed' = mixed /\ streams' = streams /\ told' = told
      /\ messages' = IF messages # <<>> /\ IsOpen(Last(messages)) THEN messages ELSE Append(messages, Placeholder)
  BY DEF StartMessage
<1>2. messages' = messages
        \/ \E p, m : Puts(p, m) /\ (LateBy(late', TurnOf(messages', p)) => PartsLate(late', m.text))
  <2>1. CASE messages' = messages
    BY <2>1
  <2>2. CASE messages' = Append(messages, Placeholder)
    <3>1. PutInto(0, Placeholder)
      BY <2>2 DEF PutInto
    <3>2. Puts(IF 0 = 0 THEN Len(messages) + 1 ELSE 0, Placeholder)
      BY <1>1, <3>1, PutsIs, PlaceholderIs, TypesOf
    <3>3. PartsLate(late', Placeholder.text)
      BY PlaceholderIs DEF PartsLate
    <3> QED
      BY <3>2, <3>3
  <2> QED
    BY <1>1, <2>1, <2>2
<1>3. late' # {} => \A s \in Source : PartsLate(late', streams'[s])
  BY <1>1, TalkedLate
<1>4. ASSUME InOrder, turn \in Due'
      PROVE  ReplyWhole(messages', turn)
  <2>1. messages' = messages
    BY <1>1, <1>4, LastBubble
  <2>2. turn \in Due
    <3>1. Orderly' = Orderly
      BY <1>1, <1>4, TalksIs
    <3> QED
      BY <1>1, <1>4, <3>1 DEF Due, ToldAll
  <2> QED
    BY <2>1, <2>2 DEF KeepInv
<1> QED
  BY <1>1, <1>2, <1>3, <1>4, TalkKeeps

LEMMA KeepAttachment ==
  ASSUME ConvInv, ConvInv', KeepInv, NEW file \in Files, AppendAttachment(file)
  PROVE  KeepInv'
<1> DEFINE i == SelectLastInSeq(messages, IsOpen)
           m == [Bubble(i) EXCEPT !.files = @ \cup {file}]
           p == IF i = 0 THEN Len(messages) + 1 ELSE i
<1>1. /\ Talks /\ turn' = turn /\ sending' = sending /\ mixed' = mixed /\ answered' = answered
      /\ streams' = streams /\ told' = told /\ ends' = ends /\ messages \in Seq(Message)
      /\ messages' = messages \/ PutInto(i, m)
  BY TypesOf DEF AppendAttachment
<1>2. LastIn(i, {j \in DOMAIN messages : IsOpen(messages[j])})
  BY <1>1, Bubbles
<1> HIDE DEF i
<1>3. i = 0 \/ (i \in DOMAIN messages /\ IsOpen(messages[i]))
  BY <1>2 DEF LastIn
<1>4. m \in Message /\ IsOpen(m) /\ m.text = Bubble(i).text /\ Bubble(i).files \subseteq m.files
  <2>1. Bubble(i) \in Message /\ IsOpen(Bubble(i))
    BY <1>1, <1>3, BubbleIs
  <2>2. Bubble(i).files \cup {file} \in SUBSET Files
    BY <2>1 DEF Message
  <2>3. m \in Message /\ IsOpen(m) /\ m.text = Bubble(i).text
    BY <2>1, <2>2, FilledIn
  <2>4. m.files = Bubble(i).files \cup {file}
    BY <2>1 DEF Message
  <2> QED
    BY <2>3, <2>4
<1> HIDE DEF m
<1>5. messages' = messages \/ Puts(p, m)
  BY <1>1, <1>3, <1>4, PutsIs
<1>6. i # 0 => p = i /\ p \in DOMAIN messages /\ m.text = messages[p].text /\ messages[p].files \subseteq m.files
               /\ IsReply(messages[p])
  BY <1>3, <1>4 DEF Bubble, IsOpen
<1>7. i = 0 => m.text = <<>>
  BY <1>4, PlaceholderIs DEF Bubble
<1> HIDE DEF p
<1>8. Puts(p, m) => (LateBy(late', TurnOf(messages', p)) => PartsLate(late', m.text))
  <2>1. CASE i = 0
    BY <1>7, <2>1 DEF PartsLate
  <2>2. CASE i # 0
    BY <1>1, <1>6, <2>2, TalkedLate DEF TextsLate, Puts, PutAt
  <2> QED
    BY <2>1, <2>2
<1>9. late' # {} => \A s \in Source : PartsLate(late', streams'[s])
  BY <1>1, TalkedLate
<1>10. ASSUME InOrder, turn \in Due'
      PROVE  ReplyWhole(messages', turn)
  <2>1. turn \in Due /\ turn \in Turn
    <3>1. Orderly' = Orderly /\ turn \in Turn
      BY <1>1, <1>10, TalksIs
    <3> QED
      BY <1>1, <1>10, <3>1 DEF Due, ToldAll
  <2>2. ReplyWhole(messages, turn)
    BY <2>1 DEF KeepInv
  <2>3. i # 0
    BY <1>2, <1>10, LastBubble DEF LastIn
  <2>4. CASE Puts(p, m)
    <3>1. PutAt(messages, p, m, messages') /\ IsReply(m)
      BY <2>4 DEF Puts, IsOpen
    <3> QED
      BY <1>1, <1>4, <1>6, <2>1, <2>2, <2>3, <3>1, PutSameText
  <2> QED
    BY <1>5, <2>2, <2>4
<1> QED
  BY <1>1, <1>5, <1>8, <1>9, <1>10, TalkKeeps

LEMMA KeepToolCall ==
  ASSUME ConvInv, ConvInv', KeepInv, NEW call \in ToolCalls, AppendToolCall(call)
  PROVE  KeepInv'
<1> DEFINE i == SelectLastInSeq(messages, LAMBDA m : IsOpen(m) /\ m.text = <<>>)
           m == [Bubble(i) EXCEPT !.calls = @ \cup {call}]
           p == IF i = 0 THEN Len(messages) + 1 ELSE i
           T == {j \in DOMAIN messages : IsOpen(messages[j]) /\ messages[j].text = <<>>}
<1>1. /\ Talks /\ turn' = turn /\ sending' = sending /\ answered' = answered
      /\ mixed' = (IF \A s \in Source : told[s] = 0 THEN mixed ELSE mixed \cup {turn})
      /\ streams' = streams /\ told' = told /\ ends' = ends /\ messages \in Seq(Message)
      /\ messages' = messages \/ PutInto(i, m)
  BY TypesOf DEF AppendToolCall
<1>2. LastIn(i, T)
  BY <1>1, Bubbles
<1> HIDE DEF i
<1>3. i = 0 \/ (i \in DOMAIN messages /\ IsOpen(messages[i]) /\ messages[i].text = <<>>)
  BY <1>2 DEF LastIn
<1>4. m \in Message /\ IsOpen(m) /\ m.text = <<>>
  <2>1. Bubble(i) \in Message /\ IsOpen(Bubble(i))
    BY <1>1, <1>3, BubbleIs
  <2>2. Bubble(i).calls \cup {call} \in SUBSET ToolCalls
    BY <2>1 DEF Message
  <2>3. Bubble(i).text = <<>>
    BY <1>3, PlaceholderIs DEF Bubble
  <2> QED
    BY <2>1, <2>2, <2>3, FilledIn
<1> HIDE DEF m
<1>5. messages' = messages \/ Puts(p, m)
  BY <1>1, <1>3, <1>4, PutsIs
<1> HIDE DEF p
<1>6. PartsLate(late', m.text)
  BY <1>4 DEF PartsLate
<1>7. late' # {} => \A s \in Source : PartsLate(late', streams'[s])
  BY <1>1, TalkedLate
<1>8. ~(InOrder /\ turn \in Due')
  <2> SUFFICES ASSUME InOrder, turn \in Due'
               PROVE  FALSE
    OBVIOUS
  <2>1. turn \notin answered
    BY DEF InOrder, KeepInv, EndsInv
  <2>2. turn \notin mixed' /\ (turn \in answered' \/ ToldAll')
    BY DEF Due
  <2>3. \A s \in Source : told[s] = 0
    BY <1>1, <2>2
  <2>4. \E s \in Source : told[s] = ReplyParts
    BY <1>1, <2>1, <2>2 DEF ToldAll
  <2> QED
    BY <2>3, <2>4, ConversationAssumption
<1>9. mixed \subseteq mixed'
  BY <1>1
<1> QED
  BY <1>1, <1>5, <1>6, <1>7, <1>8, <1>9, TalkKeeps

LEMMA KeepDelta ==
  ASSUME ConvInv, ConvInv', KeepInv, NEW s \in Source, ApplyDelta(s)
  PROVE  KeepInv'
<1> DEFINE i == SelectLastInSeq(messages, LAMBDA m : IsOpen(m) /\ m.calls = {})
           best == BestStreamText(streams')
           m == [Bubble(i) EXCEPT !.text = best]
           p == IF i = 0 THEN Len(messages) + 1 ELSE i
           T == {j \in DOMAIN messages : IsOpen(messages[j]) /\ messages[j].calls = {}}
<1>1. PICK chunk \in Chunk(s) :
        /\ Talks /\ turn' = turn /\ sending' = sending /\ answered' = answered /\ mixed' = mixed /\ ends' = ends
        /\ streams' = [streams EXCEPT ![s] = MergeStreamChunk(streams[s], chunk)]
        /\ PutInto(i, m)
  BY DEF ApplyDelta
<1>2. late' \subseteq Turn /\ turn \in Turn /\ late' \subseteq 1 .. turn /\ turn \in Nat
      /\ told \in [Source -> 0 .. ReplyParts] /\ streams \in [Source -> Text]
  BY <1>1, TalksIs, TypesOf
<1>3. chunk \in Text
  BY <1>2, ChunkIs
<1>4. streams' \in [Source -> Text] /\ told' \in [Source -> 0 .. ReplyParts] /\ messages' \in Seq(Message)
  BY DEF ConvInv, ConversationTypeOK
<1>5. best \in Text /\ (best = <<>> \/ \E r \in Source : best = streams'[r])
  BY <1>4, BestIs
<1>6. LastIn(i, T)
  BY TypesOf, Bubbles
<1> HIDE DEF i
<1>7. i = 0 \/ (i \in DOMAIN messages /\ IsOpen(messages[i]) /\ messages[i].calls = {})
  BY <1>6 DEF LastIn
<1>8. m \in Message /\ IsOpen(m) /\ m.text = best
  <2>1. Bubble(i) \in Message /\ IsOpen(Bubble(i))
    BY <1>7, TypesOf, BubbleIs
  <2> HIDE DEF best
  <2> QED
    BY <1>5, <2>1, FilledIn
<1> HIDE DEF m, best
<1>9. Puts(p, m)
  BY <1>1, <1>7, <1>8, PutsIs, TypesOf
<1> HIDE DEF p
<1>10. late' # {} => \A r \in Source : PartsLate(late', streams'[r])
  <2> SUFFICES ASSUME late' # {}, NEW r \in Source
               PROVE  PartsLate(late', streams'[r])
    OBVIOUS
  <2>1. LateBy(late', turn)
    BY <1>2, LateNonEmpty
  <2>2. PartsLate(late', streams[r])
    BY <1>1, TalkedLate
  <2>3. CASE r = s
    <3>1. PartsLate(late', chunk)
      BY <1>2, <2>1, ChunkParts
    <3>2. streams'[s] = MergeStreamChunk(streams[s], chunk)
      BY <1>1, <1>2
    <3> QED
      BY <1>2, <1>3, <2>2, <2>3, <3>1, <3>2, MergedParts
  <2>4. CASE r # s
    BY <1>1, <2>2, <2>4
  <2> QED
    BY <2>3, <2>4
<1>11. LateBy(late', TurnOf(messages', p)) => PartsLate(late', m.text)
  <2>1. LateBy(late', TurnOf(messages', p)) => late' # {}
    BY DEF LateBy
  <2>2. PartsLate(late', <<>>)
    BY DEF PartsLate
  <2> QED
    BY <1>5, <1>8, <1>10, <2>1, <2>2
<1>12. ASSUME InOrder, turn \in Due'
       PROVE  ReplyWhole(messages', turn)
  <2>1. InOrder' /\ late' = {} /\ sending'
    BY <1>1, <1>12, TalksIs DEF InOrder
  <2>2. turn \notin answered' /\ turn \notin mixed'
    BY <1>1, <1>12 DEF InOrder, KeepInv, EndsInv, Due
  <2>3. PICK s0 \in Source : told'[s0] = ReplyParts
    BY <1>12, <2>2 DEF Due, ToldAll
  <2>4. streams' = [r \in Source |-> Segment(turn, 1, told'[r])]
    BY <1>1, <2>1 DEF ConvInv, StreamsInv
  <2>5. best = Reply(turn)
    BY <1>2, <1>4, <2>3, <2>4, BestTold DEF best
  <2>6. PutAt(messages, p, m, messages') /\ IsReply(m)
    BY <1>8, <1>9 DEF Puts, IsOpen
  <2>7. p \in DOMAIN messages' /\ messages'[p] = m /\ TurnOf(messages', p) = turn
    <3>1. p \in DOMAIN messages' /\ messages'[p] = m
      BY <2>6 DEF PutAt
    <3> QED
      BY <1>1, <1>8, <2>1, <3>1 DEF ConvInv, OpenInv, LateBy
  <2>8. Alone(messages', turn)
    BY <1>1, <2>1, <2>2 DEF ConvInv, LastInv
  <2>9. p = Len(messages')
    BY <1>2, <1>8, <2>5, <2>6, <2>7, <2>8, ReplyIs DEF Alone
  <2> QED
    BY <1>2, <1>8, <2>5, <2>6, <2>7, <2>9, PutWhole, TypesOf
<1> QED
  BY <1>1, <1>9, <1>10, <1>11, <1>12, TalkKeeps

(* A message behind the others.                                              *)
LEMMA AppendKeeps ==
  ASSUME NEW ms \in Seq(Message), NEW m \in Message
  PROVE  /\ Bare(ms) /\ (IsPrompt(m) => m.calls = {} /\ m.files = {}) => Bare(Append(ms, m))
         /\ \A lates : /\ TextsLate(lates, ms)
                       /\ IsReply(m) /\ LateBy(lates, Prompts(ms)) => PartsLate(lates, m.text)
                       => TextsLate(lates, Append(ms, m))
         /\ \A t \in Nat : ReplyWhole(ms, t) /\ (IsReply(m) /\ Prompts(ms) = t => IsFileOnly(m))
                             => ReplyWhole(Append(ms, m), t)
<1> DEFINE more == Append(ms, m)
           n == Len(ms) + 1
<1>1. /\ more[n] = m /\ DOMAIN ms = 1 .. Len(ms) /\ DOMAIN more = 1 .. n /\ Len(ms) \in Nat
      /\ \A i \in DOMAIN ms : more[i] = ms[i] /\ TurnOf(more, i) = TurnOf(ms, i)
      /\ TurnOf(more, n) = Prompts(ms) + (IF IsPrompt(m) THEN 1 ELSE 0)
      /\ Prompts(ms) \in Nat
  <2>1. Prompts(ms) \in Nat
    BY LenProperties, TurnCounts DEF Prompts
  <2> QED
    BY <2>1, TurnAppend
<1> HIDE DEF more
<1>2. \A i \in DOMAIN more : i \in DOMAIN ms \/ i = n
  BY <1>1
<1>3. \A i \in DOMAIN ms : i \in DOMAIN more
  BY <1>1
<1>4. IsReply(m) => TurnOf(more, n) = Prompts(ms)
  BY <1>1, MessageIs
<1> HIDE DEF n
<1>5. ASSUME Bare(ms), IsPrompt(m) => m.calls = {} /\ m.files = {}
      PROVE  Bare(more)
  BY <1>1, <1>2, <1>5 DEF Bare
<1>6. ASSUME NEW lates, TextsLate(lates, ms), IsReply(m) /\ LateBy(lates, Prompts(ms)) => PartsLate(lates, m.text)
      PROVE  TextsLate(lates, more)
  BY <1>1, <1>2, <1>4, <1>6 DEF TextsLate
<1>7. ASSUME NEW t \in Nat, ReplyWhole(ms, t), IsReply(m) /\ Prompts(ms) = t => IsFileOnly(m)
      PROVE  ReplyWhole(more, t)
  <2>1. PICK k \in Nat : ReplyAt(ms, t, k)
    BY <1>7 DEF ReplyWhole
  <2>2. ReplyAt(more, t, k)
    BY <1>1, <1>2, <1>3, <1>4, <1>7, <2>1 DEF ReplyAt
  <2> QED
    BY <2>2 DEF ReplyWhole
<1> QED
  BY <1>5, <1>6, <1>7 DEF more

LEMMA PlaceholderHas == Placeholder.calls = {} /\ Placeholder.files = {}
<1> DEFINE said == Said("assistant", <<>>)
<1>1. said \in Message /\ said.calls = {} /\ said.files = {}
  <2>1. <<>> \in Text
    BY DEF Text
  <2> QED
    BY <2>1, SaidIs DEF Said
<1>2. Placeholder = [said EXCEPT !.streaming = TRUE]
  BY DEF Placeholder
<1> HIDE DEF said
<1> QED
  BY <1>1, <1>2 DEF Message

LEMMA SilentParts == ASSUME NEW lates, NEW s \in Source
                     PROVE  PartsLate(lates, Silent[s])
BY DEF Silent, PartsLate

LEMMA KeepBegin ==
  ASSUME ConvInv, ConvInv', KeepInv, BeginTurnWithPlaceholder
  PROVE  KeepInv'
<1> DEFINE u == Said("user", Prompt(turn + 1))
           asked == Append(messages, u)
<1>1. /\ ~sending /\ turn < MaxTurns /\ messages' = messages \o <<u, Placeholder>>
      /\ streams' = Silent /\ turn' = turn + 1 /\ told' = [s \in Source |-> 0] /\ ends' = 0
      /\ answered' = answered /\ late' = late /\ mixed' = mixed
  BY DEF BeginTurnWithPlaceholder
<1>2. turn + 1 \in Turn /\ turn \in Nat /\ answered \subseteq 1 .. turn /\ messages \in Seq(Message)
      /\ Prompts(messages) = turn /\ 1 .. turn \subseteq Turn
  BY <1>1, TypesOf DEF Turn
<1>3. u \in Message /\ IsPrompt(u) /\ u.calls = {} /\ u.files = {} /\ ~IsReply(u)
  <2>1. u \in Message /\ u.by = "user" /\ u.calls = {}
    BY <1>2, SaidIs, ReplyIs
  <2>2. u.files = {}
    BY DEF Said
  <2> HIDE DEF u
  <2> QED
    BY <2>1, <2>2 DEF IsPrompt, IsReply
<1> HIDE DEF u
<1>4. messages' = Append(asked, Placeholder)
  BY <1>1, <1>2, <1>3, PlaceholderIs, AppendTwo
<1>5. asked \in Seq(Message) /\ Prompts(asked) = turn + 1
  BY <1>2, <1>3, TurnAppend
<1>6. /\ Bare(messages) => Bare(asked)
      /\ \A lates : TextsLate(lates, messages) => TextsLate(lates, asked)
      /\ \A t \in Nat : ReplyWhole(messages, t) => ReplyWhole(asked, t)
  BY <1>2, <1>3, AppendKeeps
<1> HIDE DEF asked
<1>7. /\ Bare(asked) => Bare(messages')
      /\ \A lates : TextsLate(lates, asked) => TextsLate(lates, messages')
      /\ \A t \in Nat : ReplyWhole(asked, t) /\ t # turn + 1 => ReplyWhole(messages', t)
  <2>1. \A lates : PartsLate(lates, Placeholder.text)
    BY PlaceholderIs DEF PartsLate
  <2> QED
    BY <1>4, <1>5, <2>1, AppendKeeps, PlaceholderIs, PlaceholderHas
<1>8. Bare(messages') /\ TextsLate(late', messages')
  <2>1. Bare(messages)
    BY DEF KeepInv
  <2>2. TextsLate(late, messages)
    BY DEF KeepInv
  <2> QED
    BY <1>1, <1>6, <1>7, <2>1, <2>2
<1>9. EndsInv'
  <2>1. turn + 1 \notin answered
    BY <1>2
  <2> QED
    BY <1>1, <2>1 DEF EndsInv
<1>10. late' # {} => \A s \in Source : PartsLate(late', streams'[s])
  BY <1>1, SilentParts
<1>11. ASSUME NEW t \in Due'
       PROVE  ReplyWhole(messages', t)
  <2>1. ~ToldAll'
    BY <1>1, ConversationAssumption DEF ToldAll
  <2>2. t \in answered /\ t \notin mixed /\ \A l \in late : t < l
    BY <1>1, <1>11, <2>1 DEF Due, Orderly
  <2>3. t \in Due /\ t \in Nat /\ t # turn + 1
    BY <1>2, <2>2 DEF Due, Orderly
  <2>4. ReplyWhole(messages, t)
    BY <2>3 DEF KeepInv
  <2> QED
    BY <1>6, <1>7, <2>3, <2>4
<1> QED
  BY <1>8, <1>9, <1>10, <1>11 DEF KeepInv

LEMMA KeepGivesUp ==
  ASSUME ConvInv, ConvInv', KeepInv, GivesUp
  PROVE  KeepInv'
<1>1. /\ FinishTurn(messages) /\ turn' = turn /\ mixed' = mixed /\ told' = told /\ late' = late
      /\ answered' = answered /\ ends' = ends /\ streams' = Silent /\ sending' = FALSE
      /\ messages \in Seq(Message) /\ messages' \in Seq(Message)
  BY TypesOf DEF GivesUp, tellerVars, FinishTurn, ConvInv, ConversationTypeOK
<1>2. Bare(messages) /\ TextsLate(late, messages)
  BY DEF KeepInv
<1>3. /\ Bare(messages) => Bare(messages')
      /\ \A lates : TextsLate(lates, messages) => TextsLate(lates, messages')
      /\ \A t \in Turn : ReplyWhole(messages, t) => ReplyWhole(messages', t)
  BY <1>1, FinishTrims
<1>4. EndsInv'
  BY <1>1 DEF KeepInv, EndsInv
<1>5. late' # {} => \A s \in Source : PartsLate(late', streams'[s])
  BY <1>1, SilentParts
<1>6. Due' = Due
  BY <1>1 DEF Due, Orderly, ToldAll
<1>7. \A t \in Due : t \in Turn /\ ReplyWhole(messages, t)
  BY KeepTypes DEF KeepInv
<1>8. Bare(messages') /\ TextsLate(late', messages')
  BY <1>1, <1>2, <1>3
<1>9. \A t \in Due' : ReplyWhole(messages', t)
  BY <1>3, <1>6, <1>7
<1> QED
  BY <1>4, <1>5, <1>8, <1>9 DEF KeepInv

LEMMA KeepComplete ==
  ASSUME ConvInv, ConvInv', KeepInv, NEW final \in Text, CompleteMessage(final), turn \in Turn,
         turn' = turn, mixed' = mixed, late \subseteq late', late' \subseteq 1 .. turn,
         answered' \subseteq answered \cup {turn}, EndsInv', TextsLate(late', messages),
         late' # {} => PartsLate(late', final),
         turn \in Due' => (final = <<>> /\ turn \in Due) \/ (InOrder /\ final = Reply(turn))
  PROVE  KeepInv'
<1> DEFINE active == SelectLastInSeq(messages, IsOpen)
           stopped == Stopped(messages)
           told1 == IF final = <<>> THEN stopped
                    ELSE IF active # 0 /\ messages[active].calls = {}
                      THEN [stopped EXCEPT ![active].text = final]
                      ELSE Append(stopped, Said("assistant", final))
<1>1. FinishTurn(told1) /\ streams' = Silent
  BY DEF CompleteMessage, FinishTurn
<1>2. LastIn(active, {j \in DOMAIN messages : IsOpen(messages[j])})
  BY TypesOf, Bubbles
<1> HIDE DEF active
<1>3. active = 0 \/ (active \in DOMAIN messages /\ IsOpen(messages[active]))
  BY <1>2 DEF LastIn
<1>4. /\ stopped \in Seq(Message) /\ DOMAIN stopped = DOMAIN messages /\ Len(stopped) = Len(messages)
      /\ \A i \in DOMAIN messages : stopped[i].by = messages[i].by
      /\ \A i \in DOMAIN messages : TurnOf(stopped, i) = TurnOf(messages, i)
      /\ messages \in Seq(Message) /\ messages' \in Seq(Message)
      /\ DOMAIN messages = 1 .. Len(messages) /\ Len(messages) \in Nat
      /\ Prompts(stopped) = turn
  <2>1. messages \in Seq(Message) /\ messages' \in Seq(Message) /\ Prompts(messages) = turn
    BY TypesOf DEF ConvInv, ConversationTypeOK
  <2>2. \A i \in DOMAIN messages : i \in Nat /\ i <= Len(messages)
    BY <2>1, TurnBounds
  <2>3. DOMAIN messages = 1 .. Len(messages) /\ Len(messages) \in Nat
    BY <2>1, LenProperties
  <2>4. Len(messages) <= Len(messages)
    BY <2>3
  <2> QED
    BY <2>1, <2>2, <2>3, <2>4, StoppedIs DEF Prompts
<1>5. /\ Bare(stopped) /\ TextsLate(late', stopped)
      /\ \A t \in Turn : ReplyWhole(messages, t) => ReplyWhole(stopped, t)
  <2>1. \E f : Trimmed(messages, stopped, f)
    BY <1>4, StoppedTrims
  <2>2. Bare(messages)
    BY DEF KeepInv
  <2> HIDE DEF stopped
  <2> QED
    BY <1>4, <2>1, <2>2, TrimmedKeeps
<1> HIDE DEF stopped
<1>6. SUFFICES told1 \in Seq(Message) /\ Bare(told1) /\ TextsLate(late', told1) /\ \A t \in Due' : ReplyWhole(told1, t)
  <2>1. ASSUME told1 \in Seq(Message), Bare(told1), TextsLate(late', told1), \A t \in Due' : ReplyWhole(told1, t)
        PROVE  KeepInv'
    <3> HIDE DEF told1
    <3>1. /\ Bare(told1) => Bare(messages')
          /\ \A lates : TextsLate(lates, told1) => TextsLate(lates, messages')
          /\ \A t \in Turn : ReplyWhole(told1, t) => ReplyWhole(messages', t)
      BY <1>1, <1>4, <2>1, FinishTrims
    <3>2. Bare(messages') /\ TextsLate(late', messages')
      BY <2>1, <3>1
    <3>3. \A t \in Due' : t \in Turn
      BY TypesOf DEF Due, Orderly, Turn
    <3>4. \A t \in Due' : ReplyWhole(messages', t)
      BY <2>1, <3>1, <3>3
    <3>5. late' # {} => \A s \in Source : PartsLate(late', streams'[s])
      BY <1>1, SilentParts
    <3> QED
      BY <3>2, <3>4, <3>5 DEF KeepInv
  <2> QED
    BY <2>1
<1>7. \A t \in Due' : t \in Turn /\ ~LateBy(late', t) /\ (t # turn => ReplyWhole(stopped, t))
  <2> SUFFICES ASSUME NEW t \in Due'
               PROVE  t \in Turn /\ ~LateBy(late', t) /\ (t # turn => ReplyWhole(stopped, t))
    OBVIOUS
  <2>1. t \in 1 .. turn /\ \A l \in late' : t < l
    BY DEF Due, Orderly
  <2>2. t \in Turn /\ \A l \in late' : ~(l <= t)
    BY <2>1, TypesOf DEF Turn
  <2>3. ASSUME t # turn
        PROVE  ReplyWhole(stopped, t)
    <3>1. t \in Due
      BY <2>3, DueLater
    <3> QED
      BY <1>5, <2>2, <3>1 DEF KeepInv
  <2> QED
    BY <2>2, <2>3 DEF LateBy
<1>8. CASE final = <<>>
  <2>1. told1 = stopped
    BY <1>8
  <2>2. \A t \in Due' : ReplyWhole(stopped, t)
    <3>1. turn \in Due' => ReplyWhole(stopped, turn)
      <4>1. turn \in Due' => turn \in Due
        BY <1>8, ReplyIs
      <4> QED
        BY <1>5, <4>1 DEF KeepInv
    <3> QED
      BY <1>7, <3>1
  <2> QED
    BY <1>4, <1>5, <2>1, <2>2
<1>9. CASE final # <<>>
  <2> DEFINE into == IF active # 0 /\ messages[active].calls = {} THEN active ELSE 0
             m == IF into # 0 THEN [stopped[active] EXCEPT !.text = final] ELSE Said("assistant", final)
             p == IF into = 0 THEN Len(stopped) + 1 ELSE into
  <2>1. into = 0 \/ (into \in DOMAIN messages /\ IsOpen(messages[into]) /\ into = active)
    BY <1>3
  <2>2. told1 = IF into = 0 THEN Append(stopped, m) ELSE [stopped EXCEPT ![into] = m]
    <3>1. active # 0 /\ messages[active].calls = {} => into = active
      OBVIOUS
    <3> QED
      BY <1>9, <3>1
  <2> HIDE DEF told1, into
  <2>3. m \in Message /\ IsReply(m) /\ m.text = final
    <3>1. CASE into = 0
      BY <3>1, SaidIs DEF IsReply
    <3>2. CASE into # 0
      <4>1. stopped[active] \in Message /\ IsReply(stopped[active])
        BY <1>4, <2>1, <3>2, LenProperties DEF IsOpen, IsReply
      <4> QED
        BY <3>2, <4>1 DEF Message, IsReply
    <3> QED
      BY <3>1, <3>2
  <2> HIDE DEF m
  <2>4. into = 0 \/ (into \in DOMAIN stopped /\ IsReply(stopped[into]))
    BY <1>4, <2>1 DEF IsOpen, IsReply
  <2>5. PutAt(stopped, p, m, told1) /\ told1 \in Seq(Message)
    <3>1. PutAt(stopped, p, m, told1)
      BY <1>4, <2>2, <2>3, <2>4, PutIs
    <3> QED
      BY <3>1 DEF PutAt
  <2>6. TurnOf(told1, p) = turn \/ LateBy(late', TurnOf(told1, p))
    <3>1. CASE into = 0
      <4>1. Len(stopped) + 1 \notin DOMAIN stopped /\ p = Len(stopped) + 1
        BY <1>4, <3>1
      <4> QED
        BY <1>4, <2>5, <4>1 DEF PutAt
    <3>2. CASE into # 0
      <4>1. p = into /\ TurnOf(told1, p) = TurnOf(messages, into)
        BY <1>4, <2>1, <2>5, <3>2 DEF PutAt
      <4>2. LateBy(late, TurnOf(messages, into)) \/ TurnOf(messages, into) = turn
        BY <2>1, <3>2 DEF ConvInv, OpenInv
      <4> QED
        BY <4>1, <4>2 DEF LateBy
    <3> QED
      BY <3>1, <3>2
  <2>7. Bare(told1)
    BY <1>4, <1>5, <2>3, <2>5, PutKeeps
  <2>8. TextsLate(late', told1)
    <3>1. LateBy(late', TurnOf(told1, p)) => PartsLate(late', m.text)
      BY <2>3 DEF LateBy
    <3> QED
      BY <1>4, <1>5, <2>3, <2>5, <3>1, PutKeeps
  <2>9. ASSUME NEW t \in Due'
        PROVE  ReplyWhole(told1, t)
    <3>1. CASE t # turn
      <4>1. t \in Turn /\ ReplyWhole(stopped, t) /\ TurnOf(told1, p) # t
        BY <1>7, <2>6, <3>1
      <4> QED
        BY <1>4, <2>3, <2>5, <4>1, PutKeeps
    <3>2. CASE t = turn
      <4>1. InOrder /\ final = Reply(turn)
        BY <1>9, <2>9, <3>2
      <4>2. TurnOf(told1, p) = turn
        BY <1>7, <2>6, <2>9, <3>2, <4>1, KeepTypes DEF ConvInv, OpenInv, InOrder, LateBy
      <4>3. p = Len(told1)
        <5>1. CASE into = 0
          BY <1>4, <2>5, <5>1 DEF PutAt
        <5>2. CASE into # 0
          <6> DEFINE T == {j \in DOMAIN messages : IsOpen(messages[j])}
          <6>1. Len(messages) \in Nat /\ T \in SUBSET (1 .. Len(messages)) /\ Len(messages) \in T
            BY <4>1, LastBubble
          <6> HIDE DEF T
          <6>2. active = Len(messages)
            BY <1>2, <6>1, LastInTop DEF T
          <6> QED
            BY <1>4, <2>1, <2>5, <5>2, <6>2 DEF PutAt
        <5> QED
          BY <5>1, <5>2
      <4> QED
        BY <1>4, <2>3, <2>5, <3>2, <4>1, <4>2, <4>3, PutWhole
    <3> QED
      BY <3>1, <3>2
  <2> QED
    BY <2>5, <2>7, <2>8, <2>9
<1> QED
  BY <1>8, <1>9

LEMMA KeepCompleted ==
  ASSUME ConvInv, ConvInv', KeepInv, NEW text \in {<<>>, Reply(turn)}, Completed(text)
  PROVE  KeepInv'
<1> DEFINE best == BestStreamText(streams)
           final == IF text = <<>> THEN best ELSE text
<1>1. /\ turn > 0 /\ CompleteMessage(final) /\ ends' = ends + 1 /\ sending' = FALSE
      /\ answered' = (IF ends = 0 THEN answered \cup {turn} ELSE answered)
      /\ IF text = <<>> THEN late' = late ELSE Talks
      /\ turn' = turn /\ told' = told /\ mixed' = mixed
  BY DEF Completed, CompleteMessage, FinishTurn
<1>2. text = <<>> /\ ends = 0 => \E s \in Source : told[s] = ReplyParts
  BY DEF Completed
<1>3. turn \in Turn /\ turn \in 1 .. turn /\ turn \in Nat /\ ends \in Nat
  BY <1>1, TypesOf DEF Turn
<1>4. late \subseteq late' /\ late' \subseteq 1 .. turn /\ answered' \subseteq answered \cup {turn}
  BY <1>1, <1>3, TypesOf DEF Talks
<1>5. best \in Text /\ (best = <<>> \/ \E s \in Source : best = streams[s])
  BY BestIs, TypesOf
<1>6. final \in Text
  BY <1>3, <1>5, ReplyIs
<1>7. ends' # 0 /\ EndsInv'
  <2>1. ends' # 0
    BY <1>1, <1>3
  <2> QED
    BY <1>1, <2>1 DEF EndsInv
<1>8. TextsLate(late', messages)
  <2>1. CASE text = <<>>
    BY <1>1, <2>1 DEF KeepInv
  <2>2. CASE text # <<>>
    BY <1>1, <2>2, TalkedLate
  <2> QED
    BY <2>1, <2>2
<1>9. ASSUME late' # {}
      PROVE  PartsLate(late', final)
  <2>1. CASE text = <<>>
    <3>1. final = best /\ late' = late
      BY <1>1, <2>1
    <3>2. \A s \in Source : PartsLate(late, streams[s])
      BY <1>9, <3>1 DEF KeepInv
    <3>3. PartsLate(late, <<>>)
      BY DEF PartsLate
    <3> HIDE DEF final, best
    <3> QED
      BY <1>5, <3>1, <3>2, <3>3
  <2>2. CASE text # <<>>
    <3>1. LateBy(late', turn)
      BY <1>3, <1>4, <1>9, LateNonEmpty
    <3>2. Reply(turn) \in Text /\ Reads(Reply(turn), turn)
      BY <1>3, ReplyIs DEF Reads
    <3>3. final = Reply(turn)
      BY <2>2
    <3> HIDE DEF final
    <3> QED
      BY <1>3, <3>1, <3>2, <3>3, TurnIsLate
  <2> QED
    BY <2>1, <2>2
<1>10. ASSUME turn \in Due'
       PROVE  (final = <<>> /\ turn \in Due) \/ (InOrder /\ final = Reply(turn))
  <2>1. turn \in answered' /\ turn \notin mixed /\ \A l \in late' : turn < l
    BY <1>1, <1>7, <1>10 DEF Due, Orderly, ToldAll
  <2>2. late' = {} /\ late = {}
    BY <1>3, <1>4, <2>1
  <2>3. CASE InOrder
    <3>1. ends = 0 /\ sending
      BY <2>3 DEF KeepInv, EndsInv, InOrder
    <3>2. CASE text = <<>>
      <4>1. PICK s \in Source : told[s] = ReplyParts
        BY <1>2, <3>1, <3>2
      <4>2. streams = [r \in Source |-> Segment(turn, 1, told[r])]
        BY <2>2, <3>1 DEF ConvInv, StreamsInv
      <4>3. best = Reply(turn)
        BY <1>3, <4>1, <4>2, BestTold, TypesOf
      <4> QED
        BY <2>3, <3>2, <4>3
    <3>3. CASE text # <<>>
      BY <2>3, <3>3
    <3> QED
      BY <3>2, <3>3
  <2>4. CASE ~InOrder
    <3>1. ~sending
      BY <2>2, <2>4 DEF InOrder
    <3>2. text = <<>>
      BY <1>1, <1>3, <2>2, <3>1 DEF Talks
    <3>3. \A s \in Source : streams[s] = <<>>
      BY <2>2, <3>1 DEF ConvInv, StreamsInv, Silent
    <3>4. final = <<>>
      BY <1>5, <3>2, <3>3
    <3>5. turn \in answered \/ ToldAll
      BY <1>1, <1>2, <2>1, <3>2 DEF ToldAll
    <3>6. turn \in Due
      BY <1>3, <2>1, <2>2, <3>5 DEF Due, Orderly
    <3> QED
      BY <3>4, <3>6
  <2> QED
    BY <2>3, <2>4
<1> HIDE DEF final, best
<1> QED
  BY <1>1, <1>3, <1>4, <1>6, <1>7, <1>8, <1>9, <1>10, KeepComplete

LEMMA KeepFailed ==
  ASSUME ConvInv, ConvInv', KeepInv, TurnFailed
  PROVE  KeepInv'
<1>1. /\ sending /\ ends = 0 /\ CompleteMessage(Error(turn)) /\ ends' = 1 /\ turn' = turn /\ sending' = FALSE
      /\ answered' = answered /\ late' = late /\ mixed' = mixed
  BY DEF TurnFailed, CompleteMessage, FinishTurn
<1>2. turn \in Turn
  <2>1. CASE late = {}
    BY <1>1, <2>1, OrderlyNow DEF InOrder
  <2>2. CASE late # {}
    BY <2>2, TypesOf DEF Turn
  <2> QED
    BY <2>1, <2>2
<1>3. Error(turn) \in Text /\ Reads(Error(turn), turn) /\ turn \in Nat /\ late \subseteq 1 .. turn
  BY <1>2, ReplyIs, TypesOf DEF Reads
<1>4. EndsInv'
  BY <1>1 DEF EndsInv
<1>5. TextsLate(late', messages)
  BY <1>1 DEF KeepInv
<1>6. late' # {} => PartsLate(late', Error(turn))
  BY <1>1, <1>2, <1>3, LateNonEmpty, TurnIsLate
<1>7. turn \notin Due'
  BY <1>1 DEF Due, ToldAll, KeepInv, EndsInv
<1> QED
  BY <1>1, <1>2, <1>3, <1>4, <1>5, <1>6, <1>7, KeepComplete

-----------------------------------------------------------------------------
(* What was drawn in a turn: the calls, or the files, of its messages.       *)

Kinds == {"calls", "files"}
On(m, what) == IF what = "calls" THEN m.calls ELSE m.files
Has(ms, t, what, x) == \E i \in DOMAIN ms : TurnOf(ms, i) = t /\ x \in On(ms[i], what)
SameOn(ms, others, t) == \A what \in Kinds : \A x : Has(ms, t, what, x) <=> Has(others, t, what, x)

LEMMA DrawnSame ==
  ASSUME NEW ms, NEW others, NEW t, SameOn(ms, others, t)
  PROVE  Drawn(ms, t) = Drawn(others, t)
<1> DEFINE its(s) == {s[i] : i \in {j \in DOMAIN s : TurnOf(s, j) = t}}
           calls(s) == UNION {m.calls : m \in its(s)}
           files(s) == UNION {m.files : m \in its(s)}
<1>1. \A s, x : (x \in calls(s) <=> Has(s, t, "calls", x)) /\ (x \in files(s) <=> Has(s, t, "files", x))
  BY DEF Has, On
<1>2. \A s : Drawn(s, t) = <<calls(s), files(s)>>
  BY DEF Drawn
<1> HIDE DEF calls, files
<1>3. \A x : Has(ms, t, "calls", x) <=> Has(others, t, "calls", x)
  BY DEF SameOn, Kinds
<1>4. \A x : Has(ms, t, "files", x) <=> Has(others, t, "files", x)
  BY DEF SameOn, Kinds
<1>5. calls(ms) = calls(others)
  <2>1. \A x : x \in calls(ms) <=> x \in calls(others)
    BY <1>1, <1>3
  <2> QED
    BY <2>1
<1>6. files(ms) = files(others)
  <2>1. \A x : x \in files(ms) <=> x \in files(others)
    BY <1>1, <1>4
  <2> QED
    BY <2>1
<1> QED
  BY <1>2, <1>5, <1>6

LEMMA HasAppend ==
  ASSUME NEW ms \in Seq(Message), NEW m \in Message, NEW t, NEW what, NEW x
  PROVE  Has(Append(ms, m), t, what, x) <=>
           Has(ms, t, what, x) \/ (t = Prompts(Append(ms, m)) /\ x \in On(m, what))
<1> DEFINE more == Append(ms, m)
           n == Len(ms) + 1
<1>1. /\ more[n] = m /\ DOMAIN ms = 1 .. Len(ms) /\ DOMAIN more = 1 .. n /\ Len(ms) \in Nat
      /\ \A i \in DOMAIN ms : more[i] = ms[i] /\ TurnOf(more, i) = TurnOf(ms, i)
      /\ TurnOf(more, n) = Prompts(more)
  BY TurnAppend
<1> HIDE DEF more
<1>2. \A i : i \in DOMAIN more <=> i \in DOMAIN ms \/ i = n
  BY <1>1
<1> HIDE DEF n
<1>3. Has(more, t, what, x) <=> Has(ms, t, what, x) \/ (t = Prompts(more) /\ x \in On(m, what))
  BY <1>1, <1>2 DEF Has
<1> QED
  BY <1>3 DEF more

(* Replies behind the others are of the last turn.                           *)
LEMMA ConcatIs ==
  ASSUME NEW ms \in Seq(Message), NEW files \in Seq(Message), \A y \in DOMAIN files : IsReply(files[y])
  PROVE  /\ ms \o files \in Seq(Message) /\ Prompts(ms \o files) = Prompts(ms)
         /\ \A i \in DOMAIN ms : /\ i \in DOMAIN (ms \o files)
                                 /\ (ms \o files)[i] = ms[i] /\ TurnOf(ms \o files, i) = TurnOf(ms, i)
         /\ \A y \in DOMAIN files : /\ Len(ms) + y \in DOMAIN (ms \o files)
                                    /\ (ms \o files)[Len(ms) + y] = files[y]
                                    /\ TurnOf(ms \o files, Len(ms) + y) = Prompts(ms)
         /\ \A i \in DOMAIN (ms \o files) : i \in DOMAIN ms \/ \E y \in DOMAIN files : i = Len(ms) + y
<1> DEFINE more == ms \o files
<1>1. /\ more \in Seq(Message) /\ Len(more) = Len(ms) + Len(files) /\ Len(ms) \in Nat /\ Len(files) \in Nat
      /\ \A i \in 1 .. Len(ms) + Len(files) : more[i] = IF i <= Len(ms) THEN ms[i] ELSE files[i - Len(ms)]
      /\ DOMAIN ms = 1 .. Len(ms) /\ DOMAIN files = 1 .. Len(files) /\ DOMAIN more = 1 .. Len(ms) + Len(files)
  BY ConcatProperties, LenProperties
<1> HIDE DEF more
<1>2. \A i \in DOMAIN ms : i \in DOMAIN more /\ more[i] = ms[i]
  BY <1>1
<1>3. ASSUME NEW y \in DOMAIN files
      PROVE  Len(ms) + y \in DOMAIN more /\ more[Len(ms) + y] = files[y]
  <2>1. Len(ms) + y \in 1 .. Len(ms) + Len(files) /\ ~(Len(ms) + y <= Len(ms)) /\ Len(ms) + y - Len(ms) = y
    BY <1>1
  <2> QED
    BY <1>1, <2>1
<1>4. \A i \in DOMAIN more : i \in DOMAIN ms \/ \E y \in DOMAIN files : i = Len(ms) + y
  <2>1. \A i \in DOMAIN more : i \in DOMAIN ms \/ (i - Len(ms) \in DOMAIN files /\ i = Len(ms) + (i - Len(ms)))
    BY <1>1
  <2> QED
    BY <2>1
<1>5. \A i \in 0 .. Len(ms) : TurnOf(more, i) = TurnOf(ms, i)
  <2> TAKE i \in 0 .. Len(ms)
  <2>1. i \in Nat /\ \A j \in 1 .. i : j \in DOMAIN ms
    BY <1>1
  <2> QED
    BY <1>2, <2>1, SameTurns
<1>6. ASSUME NEW i \in Len(ms) .. Len(ms) + Len(files)
      PROVE  TurnOf(more, i) = Prompts(ms)
  <2>1. {j \in 1 .. i : more[j].by = "user"} = {j \in 1 .. Len(ms) : ms[j].by = "user"}
    <3>1. ASSUME NEW j \in 1 .. i, more[j].by = "user"
          PROVE  j \in 1 .. Len(ms) /\ ms[j].by = "user"
      <4>1. j \in DOMAIN more
        BY <1>1
      <4>2. ASSUME NEW y \in DOMAIN files, j = Len(ms) + y
            PROVE  FALSE
        BY <1>3, <3>1, <4>2 DEF IsReply
      <4> QED
        BY <1>1, <1>2, <1>4, <3>1, <4>1, <4>2
    <3>2. ASSUME NEW j \in 1 .. Len(ms), ms[j].by = "user"
          PROVE  j \in 1 .. i /\ more[j].by = "user"
      BY <1>1, <1>2, <3>2
    <3> QED
      BY <3>1, <3>2
  <2> QED
    BY <2>1 DEF TurnOf, Prompts
<1>7. Prompts(more) = Prompts(ms)
  BY <1>1, <1>6 DEF Prompts
<1>8. \A i \in DOMAIN ms : TurnOf(more, i) = TurnOf(ms, i)
  BY <1>1, <1>5
<1>9. \A y \in DOMAIN files : TurnOf(more, Len(ms) + y) = Prompts(ms)
  BY <1>1, <1>6
<1> QED
  BY <1>1, <1>2, <1>3, <1>4, <1>7, <1>8, <1>9 DEF more

LEMMA HasConcat ==
  ASSUME NEW ms \in Seq(Message), NEW files \in Seq(Message), \A y \in DOMAIN files : IsReply(files[y]),
         NEW t, NEW what, NEW x
  PROVE  Has(ms \o files, t, what, x) <=>
           Has(ms, t, what, x) \/ (t = Prompts(ms) /\ \E y \in DOMAIN files : x \in On(files[y], what))
<1> DEFINE more == ms \o files
<1>1. /\ \A i \in DOMAIN ms : /\ i \in DOMAIN more
                              /\ more[i] = ms[i] /\ TurnOf(more, i) = TurnOf(ms, i)
      /\ \A y \in DOMAIN files : /\ Len(ms) + y \in DOMAIN more
                                 /\ more[Len(ms) + y] = files[y]
                                 /\ TurnOf(more, Len(ms) + y) = Prompts(ms)
      /\ \A i \in DOMAIN more : i \in DOMAIN ms \/ \E y \in DOMAIN files : i = Len(ms) + y
  BY ConcatIs
<1> HIDE DEF more
<1>2. Has(more, t, what, x) <=>
        Has(ms, t, what, x) \/ (t = Prompts(ms) /\ \E y \in DOMAIN files : x \in On(files[y], what))
  <2>1. ASSUME Has(more, t, what, x)
        PROVE  Has(ms, t, what, x) \/ (t = Prompts(ms) /\ \E y \in DOMAIN files : x \in On(files[y], what))
    BY <1>1, <2>1 DEF Has
  <2>2. ASSUME Has(ms, t, what, x)
        PROVE  Has(more, t, what, x)
    BY <1>1, <2>2 DEF Has
  <2>3. ASSUME t = Prompts(ms), NEW y \in DOMAIN files, x \in On(files[y], what)
        PROVE  Has(more, t, what, x)
    BY <1>1, <2>3 DEF Has
  <2> QED
    BY <2>1, <2>2, <2>3
<1> QED
  BY <1>2 DEF more

-----------------------------------------------------------------------------
(* What is kept of a screen keeps every message it should.                   *)
LEMMA ThoseFind ==
  ASSUME NEW ms \in Seq(Message), NEW is
  PROVE  \A i \in DOMAIN ms \cap is : \E y \in DOMAIN Those(ms, is) : Those(ms, is)[y] = ms[i]
<1>1. PICK g : KeptInSteps(g, ms, is) /\ Those(ms, is) = g[Len(ms)]
  BY ThoseInSteps
<1> DEFINE n == Len(ms)
           T == {j \in 0 .. n : \A i \in 1 .. j : i \in is => \E y \in DOMAIN g[j] : g[j][y] = ms[i]}
<1>2. n \in Nat /\ n \in 0 .. n /\ DOMAIN ms = 1 .. n /\ \A i \in 1 .. n : ms[i] \in Message
  BY LenProperties
<1>3. \A i \in 0 .. n : g[i] \in Seq(Message)
  BY <1>1 DEF KeptInSteps
<1>4. 0 \in T
  BY <1>2
<1>5. ASSUME NEW j \in 1 .. n, j - 1 \in T
      PROVE  j \in T
  <2>1. g[j] = Keeps(ms, is, g[j - 1], j) /\ j - 1 \in 0 .. n /\ j \in 0 .. n
    BY <1>1 DEF KeptInSteps
  <2>2. ASSUME NEW i \in 1 .. j, i \in is
        PROVE  \E y \in DOMAIN g[j] : g[j][y] = ms[i]
    <3>1. i = j \/ i \in 1 .. (j - 1)
      OBVIOUS
    <3>2. CASE j \in is
      <4>1. g[j] = Append(g[j - 1], ms[j])
        BY <2>1, <3>2 DEF Keeps
      <4>2. /\ \A y \in DOMAIN g[j - 1] : y \in DOMAIN g[j] /\ g[j][y] = g[j - 1][y]
            /\ \E y \in DOMAIN g[j] : g[j][y] = ms[j]
        <5> DEFINE k == g[j - 1]
        <5>1. k \in Seq(Message) /\ ms[j] \in Message
          BY <1>2, <1>3, <2>1
        <5> HIDE DEF k
        <5>2. /\ \A y \in DOMAIN k : y \in DOMAIN Append(k, ms[j]) /\ Append(k, ms[j])[y] = k[y]
              /\ Len(k) + 1 \in DOMAIN Append(k, ms[j]) /\ Append(k, ms[j])[Len(k) + 1] = ms[j]
          BY <5>1, TurnAppend
        <5> QED
          BY <4>1, <5>2 DEF k
      <4> QED
        BY <1>5, <2>2, <3>1, <4>2
    <3>3. CASE j \notin is
      <4>1. g[j] = g[j - 1] /\ i # j
        BY <2>1, <2>2, <3>3 DEF Keeps
      <4> QED
        BY <1>5, <2>2, <3>1, <4>1
    <3> QED
      BY <3>2, <3>3
  <2> QED
    BY <2>1, <2>2
<1> HIDE DEF T
<1>6. n \in T
  BY <1>2, <1>4, <1>5, Induction
<1> QED
  BY <1>1, <1>2, <1>6 DEF T

LEMMA FilesFound ==
  ASSUME messages \in Seq(Message), NEW from, NEW to
  PROVE  \A i \in DOMAIN messages : i \in from .. to /\ IsFileOnly(messages[i]) =>
           \E y \in DOMAIN FilesOnly(from, to) : FilesOnly(from, to)[y] = messages[i]
<1> DEFINE is == {i \in from .. to : IsFileOnly(messages[i])}
           found == Those(messages, is)
<1>1. \A i \in DOMAIN messages \cap is : \E y \in DOMAIN found : found[y] = messages[i]
  <2> HIDE DEF is
  <2> QED
    BY ThoseFind
<1>2. FilesOnly(from, to) = found
  BY DEF FilesOnly
<1>3. \A i \in from .. to : IsFileOnly(messages[i]) => i \in is
  OBVIOUS
<1> HIDE DEF is, found
<1> QED
  BY <1>1, <1>2, <1>3

(* What a reported message collects.                                         *)
LEMMA CollectHas ==
  ASSUME NEW m \in Message, NEW from, NEW to, NEW what \in Kinds, NEW x
  PROVE  x \in On(Collect(m, from, to), what) <=>
           IF IsReply(m) THEN \E i \in from .. to : x \in On(messages[i], what)
           ELSE what = "files" /\ x \in messages[to].files
<1> DEFINE gathered == IF IsReply(m) THEN {messages[i] : i \in from .. to} ELSE {messages[to]}
           calls == IF IsReply(m) THEN UNION {own.calls : own \in gathered} ELSE {}
           files == UNION {own.files : own \in gathered}
           c == Collect(m, from, to)
<1>1. c = [m EXCEPT !.files = files, !.calls = calls]
  BY DEF Collect
<1>2. CASE IsReply(m)
  <2>1. (x \in calls <=> \E i \in from .. to : x \in messages[i].calls)
    BY <1>2
  <2>2. (x \in files <=> \E i \in from .. to : x \in messages[i].files)
    BY <1>2
  <2> HIDE DEF calls, files, c
  <2>3. c.calls = calls /\ c.files = files
    BY <1>1 DEF Message
  <2>4. CASE what = "calls"
    <3>1. x \in On(c, what) <=> \E i \in from .. to : x \in On(messages[i], what)
      BY <2>1, <2>3, <2>4 DEF On
    <3> QED
      BY <1>2, <3>1 DEF c
  <2>5. CASE what = "files"
    <3>1. x \in On(c, what) <=> \E i \in from .. to : x \in On(messages[i], what)
      BY <2>2, <2>3, <2>5 DEF On
    <3> QED
      BY <1>2, <3>1 DEF c
  <2> QED
    BY <2>4, <2>5 DEF Kinds
<1>3. CASE ~IsReply(m)
  <2>1. calls = {} /\ files = messages[to].files
    BY <1>3
  <2> HIDE DEF calls, files, c
  <2>2. c.calls = calls /\ c.files = files
    BY <1>1 DEF Message
  <2>3. x \in On(c, what) <=> what = "files" /\ x \in messages[to].files
    BY <2>1, <2>2 DEF On, Kinds
  <2> QED
    BY <1>3, <2>3 DEF c
<1> QED
  BY <1>2, <1>3

(* A reported message finds the first of its own from the cursor on, or none. *)
LEMMA MergeFinds ==
  ASSUME messages \in Seq(Message), NEW acc \in Merged, NEW m \in Message
  PROVE  \/ /\ \A i \in DOMAIN messages : acc.cursor <= i => ~(messages[i].by = m.by /\ messages[i].text = m.text)
            /\ Merge(acc, m).merged = Append(acc.merged, m) /\ Merge(acc, m).cursor = acc.cursor
         \/ \E own \in DOMAIN messages :
              /\ acc.cursor <= own /\ messages[own].by = m.by /\ messages[own].text = m.text
              /\ Merge(acc, m).merged
                   = Append(acc.merged \o (IF IsReply(m) THEN <<>> ELSE FilesOnly(acc.cursor, own - 1)),
                            Collect(m, acc.cursor, own))
              /\ Merge(acc, m).cursor = own + 1
<1> DEFINE T == {i \in acc.cursor .. Len(messages) : messages[i].by = m.by /\ messages[i].text = m.text}
           own == IF T # {} THEN Min(T) ELSE 0
           between == IF IsReply(m) THEN <<>> ELSE FilesOnly(acc.cursor, own - 1)
           c == Collect(m, acc.cursor, own)
<1>1. own = SelectInSubSeq(messages, acc.cursor, Len(messages), LAMBDA drawn : drawn.by = m.by /\ drawn.text = m.text)
  BY DEF SelectInSubSeq
<1>2. Merge(acc, m) = IF own = 0 THEN [acc EXCEPT !.merged = Append(@, m)]
                      ELSE [merged |-> Append(acc.merged \o between, c), cursor |-> own + 1]
  BY <1>1 DEF Merge
<1>3. acc.merged \in Seq(Message) /\ acc.cursor \in Nat \ {0} /\ Len(messages) \in Nat
      /\ DOMAIN messages = 1 .. Len(messages)
  BY LenProperties DEF Merged
<1>4. T \subseteq Nat \ {0} /\ \A i \in DOMAIN messages : acc.cursor <= i => i \in acc.cursor .. Len(messages)
  BY <1>3
<1>5. /\ own # 0 => own \in T
      /\ own = 0 => T = {}
  <2> HIDE DEF T
  <2> QED
    BY <1>4, MinIn
<1>6. CASE own = 0
  <2>1. \A i \in DOMAIN messages : acc.cursor <= i => ~(messages[i].by = m.by /\ messages[i].text = m.text)
    BY <1>4, <1>5, <1>6
  <2> HIDE DEF own, T
  <2>2. Merge(acc, m) = [acc EXCEPT !.merged = Append(acc.merged, m)]
    BY <1>2, <1>6
  <2>3. Merge(acc, m).merged = Append(acc.merged, m) /\ Merge(acc, m).cursor = acc.cursor
    BY <2>2 DEF Merged
  <2> QED
    BY <2>1, <2>3
<1>7. CASE own # 0
  <2>1. own \in DOMAIN messages /\ acc.cursor <= own /\ messages[own].by = m.by /\ messages[own].text = m.text
    <3>1. own \in T
      BY <1>5, <1>7
    <3> HIDE DEF own
    <3> QED
      BY <1>3, <3>1
  <2>2. Merge(acc, m) = [merged |-> Append(acc.merged \o between, c), cursor |-> own + 1]
    BY <1>2, <1>7
  <2> HIDE DEF own, T
  <2>3. Merge(acc, m).merged = Append(acc.merged \o between, c) /\ Merge(acc, m).cursor = own + 1
    <3> HIDE DEF between, c
    <3> QED
      BY <2>2
  <2> QED
    BY <2>1, <2>3
<1> QED
  BY <1>6, <1>7

(* Every turn has its prompt.                                                *)
LEMMA PromptStands ==
  ASSUME NEW ms \in Seq(Message), NEW t \in 1 .. Prompts(ms)
  PROVE  \E p \in DOMAIN ms : IsPrompt(ms[p]) /\ TurnOf(ms, p) = t
<1> DEFINE T == {i \in Nat : t <= TurnOf(ms, i)}
<1>1. Len(ms) \in Nat /\ DOMAIN ms = 1 .. Len(ms) /\ t \in Nat \ {0}
  BY LenProperties
<1>2. Prompts(ms) \in Nat /\ TurnOf(ms, 0) = 0 /\ \A i \in Nat : TurnOf(ms, i) \in Nat
  BY <1>1, TurnCounts DEF Prompts
<1>3. Len(ms) \in T
  BY <1>1, <1>2 DEF Prompts
<1>4. PICK p \in T : \A i \in T : p <= i
  <2> HIDE DEF T
  <2>1. T \subseteq Nat
    BY DEF T
  <2> QED
    BY <1>3, <2>1, LeastNumber
<1>5. p \in Nat /\ p <= Len(ms) /\ p # 0 /\ t <= TurnOf(ms, p)
  <2>1. p \in Nat /\ t <= TurnOf(ms, p)
    OBVIOUS
  <2>2. p <= Len(ms)
    BY <1>3, <1>4
  <2>3. ASSUME p = 0
        PROVE  FALSE
    BY <1>1, <1>2, <2>1, <2>3
  <2> QED
    BY <2>1, <2>2, <2>3
<1>6. p - 1 \in Nat /\ p - 1 + 1 = p /\ p - 1 \notin T
  <2>1. p - 1 \in Nat /\ p - 1 + 1 = p /\ ~(p <= p - 1)
    BY <1>5
  <2> HIDE DEF T
  <2> QED
    BY <1>4, <2>1
<1>7. TurnOf(ms, p - 1) < t /\ TurnOf(ms, p - 1) \in Nat
  <2>1. ~(t <= TurnOf(ms, p - 1))
    BY <1>6
  <2> QED
    BY <1>1, <1>2, <1>6, <2>1
<1>8. TurnOf(ms, p) = TurnOf(ms, p - 1) + (IF IsPrompt(ms[p]) THEN 1 ELSE 0)
  <2>1. TurnOf(ms, p - 1 + 1) = TurnOf(ms, p - 1) + (IF IsPrompt(ms[p - 1 + 1]) THEN 1 ELSE 0)
    BY <1>6, TurnCounts
  <2> QED
    BY <1>6, <2>1
<1>9. IsPrompt(ms[p]) /\ TurnOf(ms, p) = t
  BY <1>1, <1>5, <1>7, <1>8
<1> QED
  BY <1>1, <1>5, <1>9

(* In the history the reply of an answered turn is behind its prompt.        *)
Complete(h) ==
  \A i \in DOMAIN h : IsPrompt(h[i]) /\ TurnOf(h, i) \in answered => i + 1 \in DOMAIN h /\ IsReply(h[i + 1])

LEMMA CompleteGoesOn ==
  ASSUME NEW h, NEW t \in Turn, Recorded(h, t - 1), Complete(h)
  PROVE  Complete(h \o Told(t))
<1> DEFINE u == Said("user", Prompt(t))
           a == Said("assistant", Reply(t))
           more == Append(h, u)
           most == Append(more, a)
<1>1. /\ u \in Message /\ a \in Message /\ IsPrompt(u) /\ IsReply(a) /\ ~IsPrompt(a)
      /\ h \in Seq(Message) /\ t \in Nat /\ t - 1 + 1 = t /\ Prompts(h) = t - 1
  <2>1. Prompt(t) \in Text /\ Reply(t) \in Text
    BY ReplyIs
  <2>2. u \in Message /\ u.by = "user" /\ a \in Message /\ a.by = "assistant"
    BY <2>1, SaidIs
  <2>3. t \in Nat /\ t - 1 + 1 = t
    BY ConversationAssumption DEF Turn
  <2> HIDE DEF u, a
  <2> QED
    BY <2>2, <2>3 DEF IsPrompt, IsReply, Recorded
<1>2. h \o Told(t) = IF t \in answered THEN most ELSE more
  <2>1. Told(t) = IF t \in answered THEN <<u, a>> ELSE <<u>>
    <3> HIDE DEF u, a
    <3>1. <<u>> \in Seq(Message) /\ <<u>> \o <<a>> = <<u, a>>
      BY <1>1, PairIs
    <3>2. <<u>> \o <<a>> = <<u, a>> /\ <<u>> \o <<>> = <<u>>
      BY <3>1, ConcatEmptySeq
    <3> QED
      BY <3>2 DEF Told, u, a
  <2> HIDE DEF u, a
  <2>2. h \o <<u, a>> = most /\ h \o <<u>> = more
    BY <1>1, AppendTwo, AppendIsConcat
  <2> HIDE DEF most, more
  <2> QED
    BY <2>1, <2>2
<1> HIDE DEF u, a
<1>3. /\ more \in Seq(Message) /\ Len(more) = Len(h) + 1 /\ more[Len(h) + 1] = u
      /\ \A i \in DOMAIN h : more[i] = h[i] /\ TurnOf(more, i) = TurnOf(h, i)
      /\ TurnOf(more, Len(h) + 1) = t
      /\ DOMAIN h = 1 .. Len(h) /\ DOMAIN more = 1 .. (Len(h) + 1) /\ Len(h) \in Nat
  BY <1>1, TurnAppend
<1> HIDE DEF more
<1>4. /\ Len(most) = Len(more) + 1 /\ most[Len(more) + 1] = a
      /\ \A i \in DOMAIN more : most[i] = more[i] /\ TurnOf(most, i) = TurnOf(more, i)
      /\ DOMAIN most = 1 .. (Len(more) + 1) /\ Len(more) \in Nat
  BY <1>1, <1>3, TurnAppend
<1> HIDE DEF most
<1>5. \A i \in DOMAIN h : i \in DOMAIN more
  BY <1>3
<1>6. CASE t \notin answered
  <2>1. \A i \in DOMAIN more : i \in DOMAIN h \/ TurnOf(more, i) = t
    BY <1>3
  <2>2. Complete(more)
    BY <1>3, <1>5, <1>6, <2>1 DEF Complete
  <2> QED
    BY <1>2, <1>6, <2>2
<1>7. CASE t \in answered
  <2>1. \A i \in DOMAIN most : i \in DOMAIN h \/ i = Len(h) + 1 \/ i = Len(h) + 2
    BY <1>3, <1>4
  <2>2. \A i \in DOMAIN h : /\ i \in DOMAIN most /\ most[i] = h[i] /\ TurnOf(most, i) = TurnOf(h, i)
    <3>1. \A i \in DOMAIN more : i \in DOMAIN most
      BY <1>3, <1>4
    <3> QED
      BY <1>3, <1>4, <1>5, <3>1
  <2>3. Len(h) + 2 \in DOMAIN most /\ most[Len(h) + 2] = a /\ Len(h) + 1 + 1 = Len(h) + 2
    BY <1>3, <1>4
  <2>4. Complete(most)
    BY <1>1, <2>1, <2>2, <2>3 DEF Complete
  <2> QED
    BY <1>2, <1>7, <2>4
<1> QED
  BY <1>6, <1>7

LEMMA HistoryComplete ==
  ASSUME turn \in 0 .. MaxTurns
  PROVE  Recorded(History, turn) /\ Complete(History)
<1>1. PICK g : HistoryInSteps(g) /\ History = g[turn]
  BY HistoryGoes
<1> DEFINE T == {t \in 0 .. turn : Recorded(g[t], t) /\ Complete(g[t])}
<1>2. turn \in Nat /\ turn \in 0 .. turn
  BY ConversationAssumption
<1>3. 0 \in T
  <2>1. g[0] = <<>> /\ DOMAIN <<>> = {} /\ Len(<<>>) = 0 /\ <<>> \in Seq(Message)
    BY <1>1 DEF HistoryInSteps
  <2>2. Prompts(<<>>) = 0
    BY <2>1, TurnCounts DEF Prompts
  <2>3. Recorded(<<>>, 0) /\ Complete(<<>>)
    BY <2>1, <2>2 DEF Recorded, Complete
  <2> QED
    BY <1>2, <2>1, <2>3
<1>4. ASSUME NEW t \in 1 .. turn, t - 1 \in T
      PROVE  t \in T
  <2>1. t \in Turn /\ t \in 0 .. turn
    BY ConversationAssumption DEF Turn
  <2>2. Recorded(g[t - 1] \o Told(t), t) /\ Complete(g[t - 1] \o Told(t))
    BY <1>4, <2>1, ToldGoesOn, CompleteGoesOn
  <2>3. g[t] = g[t - 1] \o Told(t)
    BY <1>1 DEF HistoryInSteps
  <2> QED
    BY <2>1, <2>2, <2>3
<1> HIDE DEF T
<1>5. turn \in T
  BY <1>2, <1>3, <1>4, Induction
<1> QED
  BY <1>1, <1>5 DEF T

(* A turn that was not told late has its reply nowhere but in itself.        *)
LEMMA ReplyNotLater ==
  ASSUME ConvInv, KeepInv, NEW t \in Turn, ~LateBy(late, t), NEW i \in DOMAIN messages,
         IsReply(messages[i]), messages[i].text = Reply(t), t <= TurnOf(messages, i)
  PROVE  TurnOf(messages, i) = t
<1> DEFINE u == TurnOf(messages, i)
           text == messages[i].text
<1>1. /\ Reply(t) \in Text /\ Len(Reply(t)) = ReplyParts /\ Reply(t) # <<>>
      /\ ReplyParts \in Nat \ {0} /\ DOMAIN Reply(t) = 1 .. ReplyParts /\ Reply(t)[1] = <<t, 1>>
  <2>1. ReplyParts \in Nat \ {0} /\ DOMAIN Reply(t) = 1 .. ReplyParts /\ Reply(t)[1] = <<t, 1>>
    BY ConversationAssumption DEF Reply
  <2> QED
    BY <2>1, ReplyIs
<1>2. 1 \in DOMAIN text /\ text[1][1] = t /\ text \in Text /\ text # <<>>
  BY <1>1
<1>3. u \in Nat /\ u <= turn /\ turn \in 0 .. MaxTurns /\ MaxTurns \in Nat /\ t \in 1 .. MaxTurns
  BY KeepTypes, TypesOf DEF Turn
<1>4. u \in Turn
  BY <1>3 DEF Turn
<1> HIDE DEF text
<1>5. CASE LateBy(late, u)
  <2>1. PartsLate(late, text)
    BY <1>5 DEF KeepInv, TextsLate, text
  <2>2. LateBy(late, t)
    BY <1>2, <2>1 DEF PartsLate
  <2> QED
    BY <2>2
<1>6. CASE ~LateBy(late, u)
  <2>1. u \in Orderly
    BY <1>3, <1>4, <1>6, KeepTypes
  <2>2. i \in Texts(messages, u)
    BY <1>2 DEF Texts, text
  <2>3. Reads(text, u)
    BY <2>1, <2>2 DEF ConvInv, RepliesInv, WellTold, text
  <2>4. text[1][1] = u
    <3> HIDE DEF u
    <3> QED
      BY <1>2, <1>4, <2>3, ReadsParts
  <2> QED
    BY <1>2, <2>4
<1> QED
  BY <1>5, <1>6

(* What was merged has what was drawn in the turns before that of the last   *)
(* message merged.  While that one was not told late, the cursor stands in   *)
(* it: what was merged has what was drawn before the cursor, and behind the  *)
(* reply that was found, or that nobody drew, there are only files.          *)
Kept == (answered \cap Orderly) \ mixed

StandsIn(c, n) ==
  \A i \in DOMAIN messages :
    /\ i < c => TurnOf(messages, i) <= n
    /\ c <= i => n <= TurnOf(messages, i)
    /\ c <= i /\ IsPrompt(messages[i]) => n # TurnOf(messages, i)

DrawnBefore(c, n, what, x) ==
  \E i \in DOMAIN messages : i < c /\ TurnOf(messages, i) = n /\ x \in On(messages[i], what)
HasDrawn(ms, c, n) == \A what \in Kinds : \A x : Has(ms, n, what, x) <=> DrawnBefore(c, n, what, x)
OnlyFilesFrom(c, n) == \A i \in DOMAIN messages : c <= i /\ TurnOf(messages, i) = n => IsFileOnly(messages[i])

MergedUpTo(acc, h, j, n) ==
  /\ StandsIn(acc.cursor, n)
  /\ j # 0 /\ IsPrompt(h[j]) =>
       \A i \in DOMAIN messages : i < acc.cursor /\ TurnOf(messages, i) = n => IsPrompt(messages[i])
  /\ n \in Kept => HasDrawn(acc.merged, acc.cursor, n)
  /\ n \in Kept /\ j # 0 /\ IsReply(h[j]) => OnlyFilesFrom(acc.cursor, n)

MergeInv(acc, h, j) ==
  /\ \A t \in Kept : t < TurnOf(h, j) => SameOn(acc.merged, messages, t)
  /\ ~LateBy(late, TurnOf(h, j)) => MergedUpTo(acc, h, j, TurnOf(h, j))

LEMMA KeptIs ==
  ASSUME ConvInv
  PROVE  /\ Kept \subseteq Due /\ Kept \subseteq Turn /\ Kept \subseteq Nat \ {0} /\ Kept \subseteq answered
         /\ \A t \in Kept : ~LateBy(late, t) /\ t <= turn
<1>1. Kept \subseteq Due
  BY DEF Kept, Due
<1>2. Due \subseteq Turn /\ Turn \subseteq Nat \ {0} /\ \A t \in Due : ~LateBy(late, t)
  BY KeepTypes, TypesOf DEF Turn
<1>3. answered \subseteq 1 .. turn /\ Kept \subseteq answered
  BY TypesOf DEF Kept
<1>4. \A t \in 1 .. turn : t <= turn
  OBVIOUS
<1> QED
  BY <1>1, <1>2, <1>3, <1>4

(* What the history says at j.                                               *)
LEMMA RecordedAt ==
  ASSUME ConvInv, NEW h, Recorded(h, turn), NEW j \in 1 .. Len(h)
  PROVE  /\ h[j] \in Message /\ h[j].calls = {} /\ h[j].files = {} /\ j \in Nat \ {0} /\ j - 1 \in Nat
         /\ j \in DOMAIN h /\ (j - 1 # 0 => j - 1 \in DOMAIN h)
         /\ TurnOf(h, j - 1) \in Nat /\ TurnOf(h, j) \in Turn /\ TurnOf(h, j) <= turn
         /\ IsPrompt(h[j]) => TurnOf(h, j) = TurnOf(h, j - 1) + 1 /\ h[j].text = Prompt(TurnOf(h, j))
         /\ IsReply(h[j]) => /\ TurnOf(h, j) = TurnOf(h, j - 1) /\ h[j].text = Reply(TurnOf(h, j))
                             /\ j - 1 # 0 /\ IsPrompt(h[j - 1])
<1> DEFINE m == h[j]
           n == TurnOf(h, j - 1)
<1>1. /\ m \in Message /\ j \in DOMAIN h /\ j - 1 \in Nat /\ j \in Nat \ {0} /\ (j - 1 # 0 => j - 1 \in DOMAIN h)
      /\ n \in Nat /\ TurnOf(h, j) = n + (IF IsPrompt(m) THEN 1 ELSE 0)
      /\ TurnOf(h, j) <= turn /\ TurnOf(h, j) \in Nat
  <2>1. h \in Seq(Message) /\ Prompts(h) = turn
    BY DEF Recorded
  <2>2. /\ j \in DOMAIN h /\ j - 1 \in Nat /\ j - 1 + 1 = j /\ j \in Nat \ {0}
        /\ j - 1 # 0 => j - 1 \in DOMAIN h
    BY <2>1, LenProperties
  <2>3. h[j] \in Message /\ TurnOf(h, j) <= turn /\ TurnOf(h, j) \in Nat
    BY <2>1, <2>2, TurnBounds
  <2>4. TurnOf(h, j - 1) \in Nat /\ TurnOf(h, j - 1 + 1) = TurnOf(h, j - 1) + (IF IsPrompt(h[j - 1 + 1]) THEN 1 ELSE 0)
    BY <2>2, TurnCounts
  <2> QED
    BY <2>1, <2>2, <2>3, <2>4
<1>2. /\ IsPrompt(m) => m = Said("user", Prompt(TurnOf(h, j)))
      /\ ~IsPrompt(m) => m = Said("assistant", Reply(TurnOf(h, j))) /\ j > 1 /\ IsPrompt(h[j - 1])
  BY <1>1, MessageIs DEF Recorded
<1>3. IsReply(m) <=> ~IsPrompt(m)
  BY <1>1, MessageIs
<1>4. TurnOf(h, j) >= 1
  <2>1. CASE IsPrompt(m)
    BY <1>1, <2>1
  <2>2. CASE ~IsPrompt(m)
    <3>1. j - 2 \in Nat /\ j - 2 + 1 = j - 1
      BY <1>1, <1>2, <2>2
    <3>2. TurnOf(h, j - 2) \in Nat /\ TurnOf(h, j - 2 + 1) = TurnOf(h, j - 2) + (IF IsPrompt(h[j - 2 + 1]) THEN 1 ELSE 0)
      BY <3>1, TurnCounts
    <3> QED
      BY <1>1, <1>2, <2>2, <3>1, <3>2
  <2> QED
    BY <2>1, <2>2
<1>5. TurnOf(h, j) \in Turn
  BY <1>1, <1>4, TypesOf DEF Turn
<1>6. m.calls = {} /\ m.files = {}
  <2>1. m = Said("user", Prompt(TurnOf(h, j))) \/ m = Said("assistant", Reply(TurnOf(h, j)))
    BY <1>2
  <2> HIDE DEF m
  <2> QED
    BY <2>1 DEF Said
<1>7. /\ IsPrompt(m) => m.text = Prompt(TurnOf(h, j))
      /\ ~IsPrompt(m) => m.text = Reply(TurnOf(h, j))
  <2> HIDE DEF m
  <2> QED
    BY <1>2 DEF Said
<1> HIDE DEF m
<1>8. j > 1 => j - 1 # 0
  BY <1>1
<1> QED
  BY <1>1, <1>2, <1>3, <1>5, <1>6, <1>7, <1>8 DEF m

LEMMA AnsweredFollows ==
  ASSUME ConvInv, NEW h, Recorded(h, turn), Complete(h), NEW j \in 1 .. Len(h), IsPrompt(h[j]),
         TurnOf(h, j - 1) \in Kept
  PROVE  j - 1 # 0 /\ IsReply(h[j - 1])
<1>1. j - 1 # 0 /\ j - 1 \in DOMAIN h /\ j - 1 + 1 = j /\ h[j] \in Message
  <2>1. TurnOf(h, 0) = 0
    BY TurnCounts
  <2>2. TurnOf(h, j - 1) # 0
    BY KeptIs
  <2>3. j \in Nat
    BY RecordedAt
  <2>4. j - 1 # 0 /\ j - 1 + 1 = j
    BY <2>1, <2>2, <2>3
  <2> QED
    BY <2>4, RecordedAt
<1>2. h[j - 1] \in Message
  BY <1>1, TurnBounds DEF Recorded
<1>3. TurnOf(h, j - 1) \in answered
  BY KeptIs
<1>4. ~IsPrompt(h[j - 1])
  BY <1>1, <1>3, MessageIs DEF Complete
<1> QED
  BY <1>1, <1>2, <1>4, MessageIs

(* The files that are left of a turn complete it.                            *)
LEMMA RestAdded ==
  ASSUME ConvInv, NEW ms \in Seq(Message), NEW c \in Nat, NEW n, Prompts(ms) = n,
         HasDrawn(ms, c, n), OnlyFilesFrom(c, n), NEW to \in Int,
         \A i \in DOMAIN messages : c <= i /\ i <= to => TurnOf(messages, i) = n,
         \A i \in DOMAIN messages : TurnOf(messages, i) = n => i <= to
  PROVE  SameOn(ms \o FilesOnly(c, to), messages, n)
<1> DEFINE files == FilesOnly(c, to)
<1>1. messages \in Seq(Message) /\ \A i \in DOMAIN messages : i \in Nat
  BY TypesOf, LenProperties
<1>2. /\ files \in Seq(Message)
      /\ \A y \in DOMAIN files : \E i \in DOMAIN messages \cap c .. to :
           files[y] = messages[i] /\ IsFileOnly(messages[i])
      /\ \A i \in DOMAIN messages : i \in c .. to /\ IsFileOnly(messages[i]) =>
           \E y \in DOMAIN files : files[y] = messages[i]
  BY <1>1, FilesOnlyIs, FilesFound
<1> HIDE DEF files
<1>3. \A y \in DOMAIN files : IsReply(files[y])
  BY <1>2 DEF IsFileOnly
<1>4. ASSUME NEW what \in Kinds, NEW x
      PROVE  Has(ms \o files, n, what, x) <=> Has(messages, n, what, x)
  <2>1. Has(ms \o files, n, what, x) <=> Has(ms, n, what, x) \/ \E y \in DOMAIN files : x \in On(files[y], what)
    BY <1>2, <1>3, HasConcat
  <2>2. Has(ms, n, what, x) <=> DrawnBefore(c, n, what, x)
    BY DEF HasDrawn
  <2>3. ASSUME NEW y \in DOMAIN files, x \in On(files[y], what)
        PROVE  Has(messages, n, what, x)
    <3>1. PICK i \in DOMAIN messages \cap c .. to : files[y] = messages[i]
      BY <1>2
    <3>2. c <= i /\ i <= to
      OBVIOUS
    <3> QED
      BY <2>3, <3>1, <3>2 DEF Has
  <2>4. DrawnBefore(c, n, what, x) => Has(messages, n, what, x)
    BY DEF DrawnBefore, Has
  <2>5. ASSUME NEW i \in DOMAIN messages, TurnOf(messages, i) = n, x \in On(messages[i], what)
        PROVE  DrawnBefore(c, n, what, x) \/ \E y \in DOMAIN files : x \in On(files[y], what)
    <3>1. CASE i < c
      BY <2>5, <3>1 DEF DrawnBefore
    <3>2. CASE ~(i < c)
      <4>1. c <= i /\ i <= to /\ i \in c .. to
        BY <1>1, <2>5, <3>2
      <4>2. IsFileOnly(messages[i])
        BY <2>5, <4>1 DEF OnlyFilesFrom
      <4>3. \E y \in DOMAIN files : files[y] = messages[i]
        BY <1>2, <4>1, <4>2
      <4> QED
        BY <2>5, <4>3
    <3> QED
      BY <3>1, <3>2
  <2>6. Has(messages, n, what, x) => DrawnBefore(c, n, what, x) \/ \E y \in DOMAIN files : x \in On(files[y], what)
    BY <2>5 DEF Has
  <2> QED
    BY <2>1, <2>2, <2>3, <2>4, <2>6
<1> QED
  BY <1>4 DEF SameOn, files

(* What a merged message adds to the turns.                                  *)
LEMMA HasMerged ==
  ASSUME NEW ms \in Seq(Message), NEW files \in Seq(Message), \A y \in DOMAIN files : IsReply(files[y]),
         NEW m \in Message, NEW n, n = Prompts(ms) + (IF IsPrompt(m) THEN 1 ELSE 0)
  PROVE  \A t : \A what \in Kinds : \A x :
           Has(Append(ms \o files, m), t, what, x) <=>
             Has(ms \o files, t, what, x) \/ (t = n /\ x \in On(m, what))
<1> DEFINE more == ms \o files
<1>1. more \in Seq(Message) /\ Prompts(more) = Prompts(ms)
  BY ConcatIs
<1> HIDE DEF more
<1>2. Prompts(Append(more, m)) = n
  BY <1>1, TurnAppend
<1>3. \A t : \A what \in Kinds : \A x :
        Has(Append(more, m), t, what, x) <=> Has(more, t, what, x) \/ (t = n /\ x \in On(m, what))
  BY <1>1, <1>2, HasAppend
<1> QED
  BY <1>3 DEF more

LEMMA OlderSame ==
  ASSUME NEW ms \in Seq(Message), NEW files \in Seq(Message), \A y \in DOMAIN files : IsReply(files[y]),
         NEW m \in Message, NEW n, n = Prompts(ms) + (IF IsPrompt(m) THEN 1 ELSE 0),
         NEW t, t # n, t # Prompts(ms) \/ files = <<>>, NEW others, SameOn(ms, others, t)
  PROVE  SameOn(Append(ms \o files, m), others, t)
<1> SUFFICES ASSUME NEW what \in Kinds, NEW x
             PROVE  Has(Append(ms \o files, m), t, what, x) <=> Has(others, t, what, x)
  BY DEF SameOn
<1>1. Has(Append(ms \o files, m), t, what, x) <=> Has(ms \o files, t, what, x)
  BY HasMerged
<1>2. Has(ms \o files, t, what, x) <=> Has(ms, t, what, x)
  <2>1. CASE t # Prompts(ms)
    BY <2>1, HasConcat
  <2>2. CASE files = <<>>
    BY <2>2, ConcatEmptySeq
  <2> QED
    BY <2>1, <2>2
<1> QED
  BY <1>1, <1>2 DEF SameOn

(* A prompt is found, unless the turn before it was told late: its turn is   *)
(* complete with the files that are left of it.                              *)
LEMMA PromptFound ==
  ASSUME ConvInv, KeepInv, NEW h, Recorded(h, turn), Complete(h), NEW j \in 1 .. Len(h), NEW acc \in Merged,
         Prompts(acc.merged) = TurnOf(h, j - 1), MergeInv(acc, h, j - 1), IsPrompt(h[j]),
         ~LateBy(late, TurnOf(h, j - 1))
  PROVE  MergeInv(Merge(acc, h[j]), h, j)
<1> DEFINE m == h[j]
           o == TurnOf(h, j - 1)
           n == TurnOf(h, j)
           c == acc.cursor
           next == Merge(acc, m)
<1>1. /\ m \in Message /\ o \in Nat /\ n \in Turn /\ n <= turn /\ n = o + 1 /\ m.text = Prompt(n) /\ ~IsReply(m)
      /\ m.by = "user" /\ n \in Nat /\ n \in 1 .. turn
  <2>1. n \in Turn => n \in Nat /\ n >= 1
    BY DEF Turn
  <2>2. turn \in Nat
    BY TypesOf
  <2> QED
    BY <2>1, <2>2, RecordedAt, MessageIs DEF IsPrompt
<1>2. messages \in Seq(Message) /\ Prompts(messages) = turn /\ acc.merged \in Seq(Message) /\ c \in Nat \ {0}
      /\ \A i \in DOMAIN messages : i \in Nat /\ messages[i] \in Message /\ TurnOf(messages, i) \in Nat
  BY TypesOf, KeepTypes, LenProperties DEF Merged
<1>3. MergedUpTo(acc, h, j - 1, o) /\ \A t \in Kept : t < o => SameOn(acc.merged, messages, t)
  BY DEF MergeInv
<1>4. StandsIn(c, o)
  BY <1>3 DEF MergedUpTo
<1> HIDE DEF m, o, n, c, next
<1>5. PICK p \in DOMAIN messages : IsPrompt(messages[p]) /\ TurnOf(messages, p) = n
  BY <1>1, <1>2, PromptStands
<1>6. c <= p /\ messages[p].by = m.by /\ messages[p].text = m.text
  <2>1. ~(p < c)
    BY <1>1, <1>4, <1>5 DEF StandsIn
  <2>2. messages[p].text = Prompt(n)
    BY <1>5 DEF ConvInv, RepliesInv, WellTold, Prompted
  <2> QED
    BY <1>1, <1>2, <1>5, <2>1, <2>2 DEF IsPrompt
<1>7. PICK own \in DOMAIN messages :
        /\ c <= own /\ messages[own].by = m.by /\ messages[own].text = m.text
        /\ next.merged = Append(acc.merged \o FilesOnly(c, own - 1), Collect(m, c, own))
        /\ next.cursor = own + 1
  BY <1>1, <1>2, <1>6, MergeFinds DEF c, next
<1>8. IsPrompt(messages[own]) /\ TurnOf(messages, own) = n
  <2>1. IsPrompt(messages[own])
    BY <1>1, <1>7 DEF IsPrompt
  <2>2. messages[own].text = Prompt(TurnOf(messages, own))
    BY <2>1 DEF ConvInv, RepliesInv, WellTold, Prompted
  <2> QED
    BY <1>1, <1>7, <2>1, <2>2 DEF Prompt
<1>9. /\ \A i \in DOMAIN messages : i < own => TurnOf(messages, i) < n
      /\ \A i \in DOMAIN messages : own <= i => n <= TurnOf(messages, i)
      /\ \A i \in DOMAIN messages : own < i /\ IsPrompt(messages[i]) => n < TurnOf(messages, i)
  <2>1. \A i \in DOMAIN messages : i < own => TurnOf(messages, i) < n
    BY <1>2, <1>8, PromptBegins
  <2>2. ASSUME NEW i \in DOMAIN messages, own <= i
        PROVE  n <= TurnOf(messages, i)
    <3>1. i \in Nat /\ own \in 0 .. i
      BY <1>2, <2>2
    <3> QED
      BY <1>8, <3>1, TurnsGrow
  <2>3. \A i \in DOMAIN messages : own < i /\ IsPrompt(messages[i]) => n < TurnOf(messages, i)
    BY <1>2, <1>8, PromptBegins
  <2> QED
    BY <2>1, <2>2, <2>3
<1> DEFINE files == FilesOnly(c, own - 1)
           mine == Collect(m, c, own)
<1>10. files \in Seq(Message) /\ \A y \in DOMAIN files : IsReply(files[y])
  BY <1>2, FilesOnlyIs DEF IsFileOnly
<1>11. mine \in Message /\ IsPrompt(mine) /\ \A what \in Kinds : \A x : ~(x \in On(mine, what))
  <2>1. mine \in Message /\ mine.by = m.by
    BY <1>1, <1>2, CollectIs
  <2>2. messages[own].files = {}
    BY <1>8 DEF KeepInv, Bare
  <2>3. \A what \in Kinds : \A x : x \in On(mine, what) <=> what = "files" /\ x \in messages[own].files
    BY <1>1, CollectHas
  <2> HIDE DEF mine
  <2> QED
    BY <1>1, <2>1, <2>2, <2>3 DEF IsPrompt
<1> HIDE DEF files, mine
<1>12. Prompts(acc.merged) = o /\ n = Prompts(acc.merged) + (IF IsPrompt(mine) THEN 1 ELSE 0)
  BY <1>1, <1>11 DEF o
<1>13. next.merged = Append(acc.merged \o files, mine) /\ next.cursor = own + 1
  BY <1>7 DEF files, mine
<1>14. \A t : \A what \in Kinds : \A x :
         Has(next.merged, t, what, x) <=> Has(acc.merged \o files, t, what, x)
  <2>1. \A t : \A what \in Kinds : \A x :
          Has(Append(acc.merged \o files, mine), t, what, x) <=>
            Has(acc.merged \o files, t, what, x) \/ (t = n /\ x \in On(mine, what))
    <3> DEFINE ms == acc.merged
    <3>1. ms \in Seq(Message) /\ files \in Seq(Message) /\ mine \in Message
      BY <1>2, <1>10, <1>11
    <3>2. n = Prompts(ms) + (IF IsPrompt(mine) THEN 1 ELSE 0)
      BY <1>12
    <3>3. \A y \in DOMAIN files : IsReply(files[y])
      BY <1>10
    <3> HIDE DEF ms
    <3>4. \A t : \A what \in Kinds : \A x :
            Has(Append(ms \o files, mine), t, what, x) <=>
              Has(ms \o files, t, what, x) \/ (t = n /\ x \in On(mine, what))
      BY <3>1, <3>2, <3>3, HasMerged
    <3> QED
      BY <3>4 DEF ms
  <2> QED
    BY <1>11, <1>13, <2>1
<1>15. ASSUME NEW t \in Kept, t < n
       PROVE  SameOn(next.merged, messages, t)
  <2>1. t \in Nat
    BY KeptIs
  <2>2. CASE t < o
    <3>1. t # n /\ t # o /\ SameOn(acc.merged, messages, t)
      BY <1>1, <1>3, <2>1, <2>2
    <3> QED
      BY <1>2, <1>10, <1>11, <1>12, <1>13, <3>1, OlderSame
  <2>3. CASE t = o
    <3>1. HasDrawn(acc.merged, c, o)
      BY <1>3, <2>3 DEF MergedUpTo, c
    <3>2. OnlyFilesFrom(c, o)
      <4>1. j - 1 # 0 /\ IsReply(h[j - 1])
        BY <2>3, AnsweredFollows DEF o
      <4> QED
        BY <1>3, <2>3, <4>1 DEF MergedUpTo, c
    <3>3. ASSUME NEW i \in DOMAIN messages, c <= i, i <= own - 1
          PROVE  TurnOf(messages, i) = o
      <4>1. o <= TurnOf(messages, i)
        BY <1>4, <3>3 DEF StandsIn
      <4>2. i < own
        BY <1>2, <3>3
      <4>3. TurnOf(messages, i) < n
        BY <1>9, <4>2
      <4> QED
        BY <1>1, <1>2, <4>1, <4>3
    <3>4. ASSUME NEW i \in DOMAIN messages, TurnOf(messages, i) = o
          PROVE  i <= own - 1
      <4>1. ~(own <= i)
        BY <1>1, <1>9, <3>4
      <4> QED
        BY <1>2, <4>1
    <3>5. own - 1 \in Int /\ c \in Nat
      BY <1>2
    <3>6. SameOn(acc.merged \o files, messages, o)
      BY <1>2, <1>12, <3>1, <3>2, <3>3, <3>4, <3>5, RestAdded DEF files
    <3> QED
      BY <1>14, <2>3, <3>6 DEF SameOn
  <2> QED
    BY <1>1, <1>15, <2>1, <2>2, <2>3
<1>16. MergedUpTo(next, h, j, n)
  <2>1. StandsIn(own + 1, n)
    <3> SUFFICES ASSUME NEW i \in DOMAIN messages
                 PROVE  /\ i < own + 1 => TurnOf(messages, i) <= n
                        /\ own + 1 <= i => n <= TurnOf(messages, i)
                        /\ own + 1 <= i /\ IsPrompt(messages[i]) => n # TurnOf(messages, i)
      BY DEF StandsIn
    <3>1. i \in Nat /\ own \in Nat /\ TurnOf(messages, i) \in Nat
      BY <1>2
    <3>2. i < own + 1 => i < own \/ i = own
      BY <3>1
    <3>3. own + 1 <= i => own <= i /\ own < i
      BY <3>1
    <3> QED
      BY <1>1, <1>8, <1>9, <3>1, <3>2, <3>3
  <2>2. ASSUME NEW i \in DOMAIN messages, i < own + 1, TurnOf(messages, i) = n
        PROVE  i = own
    <3>1. ~(i < own)
      BY <1>1, <1>9, <2>2
    <3> QED
      BY <1>2, <2>2, <3>1
  <2>3. HasDrawn(next.merged, own + 1, n)
    <3> SUFFICES ASSUME NEW what \in Kinds, NEW x
                 PROVE  ~Has(next.merged, n, what, x) /\ ~DrawnBefore(own + 1, n, what, x)
      BY DEF HasDrawn
    <3>1. Has(next.merged, n, what, x) <=> Has(acc.merged \o files, n, what, x)
      BY <1>14
    <3>2. Has(acc.merged \o files, n, what, x) <=> Has(acc.merged, n, what, x)
      <4>1. n # Prompts(acc.merged)
        BY <1>1, <1>12
      <4> QED
        BY <1>2, <1>10, <4>1, HasConcat
    <3>3. ~Has(acc.merged, n, what, x)
      <4>1. \A i \in DOMAIN acc.merged : TurnOf(acc.merged, i) \in Nat /\ TurnOf(acc.merged, i) <= o
        BY <1>2, <1>12, TurnBounds
      <4> QED
        BY <1>1, <4>1 DEF Has
    <3>4. ~(x \in On(messages[own], what))
      <4>1. messages[own].calls = {} /\ messages[own].files = {}
        BY <1>8 DEF KeepInv, Bare
      <4> QED
        BY <4>1 DEF On
    <3> QED
      BY <2>2, <3>1, <3>2, <3>3, <3>4 DEF DrawnBefore
  <2>4. ~IsReply(h[j])
    BY <1>1 DEF m
  <2> QED
    BY <1>8, <1>13, <2>1, <2>2, <2>3, <2>4 DEF MergedUpTo
<1> QED
  BY <1>15, <1>16 DEF MergeInv, next, m, n

(* After a turn that was told late, the turns before it stay as they are.    *)
LEMMA PromptLate ==
  ASSUME ConvInv, KeepInv, NEW h, Recorded(h, turn), NEW j \in 1 .. Len(h), NEW acc \in Merged,
         Prompts(acc.merged) = TurnOf(h, j - 1), MergeInv(acc, h, j - 1), IsPrompt(h[j]),
         LateBy(late, TurnOf(h, j - 1))
  PROVE  MergeInv(Merge(acc, h[j]), h, j)
<1> DEFINE m == h[j]
           o == TurnOf(h, j - 1)
           n == TurnOf(h, j)
           next == Merge(acc, m)
<1>1. /\ m \in Message /\ o \in Nat /\ n \in Nat /\ n = o + 1 /\ ~IsReply(m) /\ LateBy(late, o)
      /\ acc.cursor \in Nat \ {0}
  <2>1. n \in Turn => n \in Nat
    BY DEF Turn
  <2> QED
    BY <2>1, RecordedAt, MessageIs DEF Merged
<1>2. messages \in Seq(Message) /\ acc.merged \in Seq(Message) /\ late \subseteq Nat /\ IsPrompt(m)
  BY TypesOf, KeepTypes DEF Merged
<1>3. \A t \in Kept : t < o => SameOn(acc.merged, messages, t)
  BY DEF MergeInv
<1>4. Prompts(acc.merged) = o
  OBVIOUS
<1> HIDE DEF m, o, n, next
<1>5. LateBy(late, n)
  <2>1. o <= n
    BY <1>1
  <2> QED
    BY <1>1, <1>2, <2>1, LaterIsLate
<1>6. \E files \in Seq(Message) : \E mine \in Message :
        /\ \A y \in DOMAIN files : IsReply(files[y])
        /\ IsPrompt(mine) /\ next.merged = Append(acc.merged \o files, mine)
  <2>1. CASE next.merged = Append(acc.merged, m)
    <3>1. <<>> \in Seq(Message) /\ acc.merged \o <<>> = acc.merged /\ DOMAIN <<>> = {}
      BY <1>2, ConcatEmptySeq
    <3> QED
      BY <1>1, <1>2, <2>1, <3>1
  <2>2. ASSUME NEW own \in DOMAIN messages,
               next.merged = Append(acc.merged \o FilesOnly(acc.cursor, own - 1), Collect(m, acc.cursor, own))
        PROVE  \E files \in Seq(Message) : \E mine \in Message :
                 /\ \A y \in DOMAIN files : IsReply(files[y])
                 /\ IsPrompt(mine) /\ next.merged = Append(acc.merged \o files, mine)
    <3> DEFINE files == FilesOnly(acc.cursor, own - 1)
               mine == Collect(m, acc.cursor, own)
    <3>1. files \in Seq(Message) /\ \A y \in DOMAIN files : IsReply(files[y])
      BY <1>2, FilesOnlyIs DEF IsFileOnly
    <3>2. mine \in Message /\ IsPrompt(mine)
      <4>1. mine \in Message /\ mine.by = m.by
        BY <1>1, <1>2, CollectIs
      <4> HIDE DEF mine
      <4> QED
        BY <1>2, <4>1 DEF IsPrompt
    <3> HIDE DEF files, mine
    <3> QED
      BY <2>2, <3>1, <3>2 DEF files, mine
  <2> QED
    BY <1>1, <1>2, <2>1, <2>2, MergeFinds DEF next
<1>7. PICK files \in Seq(Message), mine \in Message :
        /\ \A y \in DOMAIN files : IsReply(files[y])
        /\ IsPrompt(mine) /\ next.merged = Append(acc.merged \o files, mine)
  BY <1>6
<1>8. ASSUME NEW t \in Kept, t < n
      PROVE  SameOn(next.merged, messages, t)
  <2>1. t \in Nat /\ ~LateBy(late, t)
    BY KeptIs
  <2>2. t # o
    BY <1>1, <2>1
  <2>3. t < o /\ t # n
    BY <1>1, <1>8, <2>1, <2>2
  <2>4. n = Prompts(acc.merged) + (IF IsPrompt(mine) THEN 1 ELSE 0)
    BY <1>1, <1>4, <1>7
  <2>5. SameOn(acc.merged, messages, t)
    BY <1>3, <2>3
  <2> QED
    BY <1>2, <1>4, <1>7, <2>2, <2>3, <2>4, <2>5, OlderSame
<1> QED
  BY <1>5, <1>8 DEF MergeInv, next, m, n

(* A reply collects what was drawn since its prompt, or has nothing to       *)
(* collect: then nobody drew it, and its turn has only files left.           *)
LEMMA ReplyMerged ==
  ASSUME ConvInv, KeepInv, NEW h, Recorded(h, turn), NEW j \in 1 .. Len(h), NEW acc \in Merged,
         Prompts(acc.merged) = TurnOf(h, j - 1), MergeInv(acc, h, j - 1), IsReply(h[j])
  PROVE  MergeInv(Merge(acc, h[j]), h, j)
<1> DEFINE m == h[j]
           n == TurnOf(h, j)
           c == acc.cursor
           ms == acc.merged
           next == Merge(acc, m)
<1>1. /\ m \in Message /\ n \in Turn /\ n \in Nat /\ n = TurnOf(h, j - 1) /\ m.text = Reply(n) /\ IsReply(m)
      /\ ~IsPrompt(m) /\ m.calls = {} /\ m.files = {} /\ j - 1 # 0 /\ IsPrompt(h[j - 1])
  <2>1. n \in Turn => n \in Nat
    BY DEF Turn
  <2> QED
    BY <2>1, RecordedAt, MessageIs
<1>2. messages \in Seq(Message) /\ ms \in Seq(Message) /\ c \in Nat \ {0} /\ Prompts(ms) = n
      /\ \A i \in DOMAIN messages : /\ i \in Nat /\ i # 0 /\ messages[i] \in Message
                                   /\ TurnOf(messages, i) \in Nat
  <2>1. \A i \in DOMAIN messages : i \in Nat /\ i # 0
    BY TypesOf, LenProperties
  <2> QED
    BY <1>1, <2>1, TypesOf, KeepTypes DEF Merged
<1>3. \A t \in Kept : t < n => SameOn(ms, messages, t)
  BY <1>1 DEF MergeInv
<1>4. ~LateBy(late, n) => MergedUpTo(acc, h, j - 1, n)
  BY <1>1 DEF MergeInv
<1>5. \/ /\ \A i \in DOMAIN messages : c <= i => ~(messages[i].by = m.by /\ messages[i].text = m.text)
         /\ next.merged = Append(ms, m) /\ next.cursor = c
      \/ \E own \in DOMAIN messages :
           /\ c <= own /\ messages[own].by = m.by /\ messages[own].text = m.text
           /\ next.merged = Append(ms, Collect(m, c, own))
           /\ next.cursor = own + 1
  <2>1. ms \o <<>> = ms
    BY <1>2, ConcatEmptySeq
  <2> HIDE DEF m
  <2>2. \/ /\ \A i \in DOMAIN messages : acc.cursor <= i => ~(messages[i].by = m.by /\ messages[i].text = m.text)
           /\ Merge(acc, m).merged = Append(acc.merged, m) /\ Merge(acc, m).cursor = acc.cursor
        \/ \E own \in DOMAIN messages :
             /\ acc.cursor <= own /\ messages[own].by = m.by /\ messages[own].text = m.text
             /\ Merge(acc, m).merged
                  = Append(acc.merged \o (IF IsReply(m) THEN <<>> ELSE FilesOnly(acc.cursor, own - 1)),
                           Collect(m, acc.cursor, own))
             /\ Merge(acc, m).cursor = own + 1
    BY <1>1, <1>2, MergeFinds
  <2>3. \A own : Append(acc.merged \o (IF IsReply(m) THEN <<>> ELSE FilesOnly(acc.cursor, own - 1)),
                       Collect(m, acc.cursor, own)) = Append(ms, Collect(m, c, own))
    BY <1>1, <2>1
  <2> QED
    BY <2>2, <2>3
<1> HIDE DEF n, c, ms, next
<1>6. ASSUME NEW mine \in Message, IsReply(mine), next.merged = Append(ms, mine)
      PROVE  /\ \A t \in Kept : t < n => SameOn(next.merged, messages, t)
             /\ \A what \in Kinds : \A x :
                  Has(next.merged, n, what, x) <=> Has(ms, n, what, x) \/ x \in On(mine, what)
  <2>1. ~IsPrompt(mine)
    BY <1>6, MessageIs
  <2>2. Prompts(Append(ms, mine)) = n
    BY <1>1, <1>2, <2>1, TurnAppend
  <2>3. \A t : \A what \in Kinds : \A x :
          Has(Append(ms, mine), t, what, x) <=> Has(ms, t, what, x) \/ (t = n /\ x \in On(mine, what))
    BY <1>2, <2>2, HasAppend
  <2>4. ASSUME NEW t \in Kept, t < n
        PROVE  SameOn(next.merged, messages, t)
    <3>1. t # n
      BY <1>1, <2>4, KeptIs
    <3>2. SameOn(ms, messages, t)
      BY <1>3, <2>4
    <3>3. \A what \in Kinds : \A x : Has(Append(ms, mine), t, what, x) <=> Has(ms, t, what, x)
      BY <2>3, <3>1
    <3> QED
      BY <1>6, <3>2, <3>3 DEF SameOn
  <2> QED
    BY <1>6, <2>3, <2>4
<1>7. CASE /\ \A i \in DOMAIN messages : c <= i => ~(messages[i].by = m.by /\ messages[i].text = m.text)
           /\ next.merged = Append(ms, m) /\ next.cursor = c
  <2>1. /\ \A t \in Kept : t < n => SameOn(next.merged, messages, t)
        /\ \A what \in Kinds : \A x :
             Has(next.merged, n, what, x) <=> Has(ms, n, what, x) \/ x \in On(m, what)
    <3> HIDE DEF m
    <3> QED
      BY <1>1, <1>6, <1>7
  <2>2. ASSUME ~LateBy(late, n)
        PROVE  MergedUpTo(next, h, j, n)
    <3>1. StandsIn(c, n) /\ \A i \in DOMAIN messages : i < c /\ TurnOf(messages, i) = n => IsPrompt(messages[i])
      BY <1>1, <1>4, <2>2 DEF MergedUpTo, c
    <3>2. ASSUME n \in Kept
          PROVE  HasDrawn(next.merged, c, n) /\ OnlyFilesFrom(c, n)
      <4>1. HasDrawn(ms, c, n)
        BY <1>4, <2>2, <3>2 DEF MergedUpTo, c, ms
      <4>2. \A what \in Kinds : \A x : ~(x \in On(m, what))
        BY <1>1 DEF On
      <4>3. HasDrawn(next.merged, c, n)
        BY <2>1, <4>1, <4>2 DEF HasDrawn
      <4>4. n \in Due
        BY <3>2, KeptIs
      <4>5. PICK k \in Nat : ReplyAt(messages, n, k)
        BY <4>4 DEF KeepInv, ReplyWhole
      <4>6. k = 0
        <5> SUFFICES ASSUME k # 0
                     PROVE  FALSE
          OBVIOUS
        <5>1. k \in DOMAIN messages /\ IsReply(messages[k]) /\ TurnOf(messages, k) = n /\ messages[k].text = Reply(n)
          BY <4>5 DEF ReplyAt
        <5>2. ~(c <= k)
          BY <1>1, <1>7, <5>1 DEF IsReply
        <5>3. IsPrompt(messages[k])
          BY <1>2, <3>1, <5>1, <5>2
        <5> QED
          BY <1>2, <5>1, <5>3, MessageIs
      <4>7. ASSUME NEW i \in DOMAIN messages, c <= i, TurnOf(messages, i) = n
            PROVE  IsFileOnly(messages[i])
        <5>1. ~IsPrompt(messages[i])
          BY <3>1, <4>7 DEF StandsIn
        <5>2. IsReply(messages[i]) /\ 0 < i
          BY <1>2, <5>1, MessageIs
        <5> QED
          BY <4>5, <4>6, <4>7, <5>2 DEF ReplyAt
      <4> QED
        BY <4>3, <4>7 DEF OnlyFilesFrom
    <3>3. ~IsPrompt(h[j])
      BY <1>1
    <3> QED
      BY <1>7, <3>1, <3>2, <3>3 DEF MergedUpTo
  <2> QED
    BY <2>1, <2>2 DEF MergeInv, next, m, n
<1>8. ASSUME NEW own \in DOMAIN messages, c <= own, messages[own].by = m.by, messages[own].text = m.text,
             next.merged = Append(ms, Collect(m, c, own)), next.cursor = own + 1
      PROVE  MergeInv(Merge(acc, h[j]), h, j)
  <2> DEFINE mine == Collect(m, c, own)
  <2>1. mine \in Message /\ IsReply(mine)
    <3>1. mine \in Message /\ mine.by = m.by
      BY <1>1, <1>2, CollectIs
    <3> HIDE DEF mine
    <3> QED
      BY <1>1, <3>1 DEF IsReply
  <2>2. \A what \in Kinds : \A x : x \in On(mine, what) <=> \E i \in c .. own : x \in On(messages[i], what)
    BY <1>1, CollectHas
  <2> HIDE DEF mine
  <2>3. /\ \A t \in Kept : t < n => SameOn(next.merged, messages, t)
        /\ \A what \in Kinds : \A x :
             Has(next.merged, n, what, x) <=> Has(ms, n, what, x) \/ x \in On(mine, what)
    <3>1. next.merged = Append(ms, mine)
      BY <1>8 DEF mine
    <3> QED
      BY <1>6, <2>1, <3>1
  <2>4. ASSUME ~LateBy(late, n)
        PROVE  MergedUpTo(next, h, j, n)
    <3>1. StandsIn(c, n)
      BY <1>4, <2>4 DEF MergedUpTo, c
    <3>2. IsReply(messages[own]) /\ messages[own].text = Reply(n)
      BY <1>1, <1>8 DEF IsReply
    <3>3. TurnOf(messages, own) = n
      <4>1. n <= TurnOf(messages, own)
        BY <1>8, <3>1 DEF StandsIn
      <4> QED
        BY <1>1, <2>4, <3>2, <4>1, ReplyNotLater
    <3>4. \A i \in DOMAIN messages : i <= own => TurnOf(messages, i) <= n
      <4> TAKE i \in DOMAIN messages
      <4> HAVE i <= own
      <4>1. own \in Nat /\ i \in 0 .. own
        BY <1>2
      <4> QED
        BY <3>3, <4>1, TurnsGrow
    <3>5. /\ \A i \in DOMAIN messages : i < own + 1 => i <= own
          /\ \A i \in DOMAIN messages : own + 1 <= i => c <= i /\ own < i
      BY <1>2, <1>8
    <3>6. StandsIn(own + 1, n)
      BY <3>1, <3>4, <3>5 DEF StandsIn
    <3>7. ASSUME n \in Kept
          PROVE  HasDrawn(next.merged, own + 1, n) /\ OnlyFilesFrom(own + 1, n)
      <4>1. HasDrawn(ms, c, n)
        BY <1>4, <2>4, <3>7 DEF MergedUpTo, c, ms
      <4>2. \A i \in c .. own : i \in DOMAIN messages /\ TurnOf(messages, i) = n
        <5>1. \A i \in c .. own : i \in DOMAIN messages
          <6>1. DOMAIN messages = 1 .. Len(messages) /\ Len(messages) \in Nat
            BY <1>2, LenProperties
          <6> QED
            BY <1>2, <6>1
        <5>2. \A i \in c .. own : c <= i /\ i <= own
          OBVIOUS
        <5>3. \A i \in c .. own : n <= TurnOf(messages, i) /\ TurnOf(messages, i) <= n
          BY <3>1, <3>4, <5>1, <5>2 DEF StandsIn
        <5> QED
          BY <1>1, <1>2, <5>1, <5>3
      <4>3. \A i \in DOMAIN messages : i < own + 1 <=> i < c \/ i \in c .. own
        BY <1>2, <1>8
      <4>4. \A what \in Kinds : \A x :
              DrawnBefore(own + 1, n, what, x) <=>
                DrawnBefore(c, n, what, x) \/ \E i \in c .. own : x \in On(messages[i], what)
        BY <4>2, <4>3 DEF DrawnBefore
      <4>5. HasDrawn(next.merged, own + 1, n)
        BY <2>2, <2>3, <4>1, <4>4 DEF HasDrawn
      <4>6. n \in Due /\ n \in Orderly \ mixed
        BY <3>7, KeptIs DEF Kept
      <4>7. PICK k \in Nat : ReplyAt(messages, n, k)
        BY <4>6 DEF KeepInv, ReplyWhole
      <4>8. messages[own].text # <<>>
        BY <1>1, <3>2, ReplyIs
      <4>9. k = own
        <5>1. ~(k < own)
          BY <3>2, <3>3, <4>7, <4>8 DEF ReplyAt, IsFileOnly
        <5>2. k # 0
          BY <1>2, <5>1
        <5>3. k \in DOMAIN messages /\ IsReply(messages[k]) /\ TurnOf(messages, k) = n /\ messages[k].text = Reply(n)
          BY <4>7, <5>2 DEF ReplyAt
        <5>4. k \in Texts(messages, n) /\ own \in Texts(messages, n)
          BY <3>2, <3>3, <4>8, <5>3 DEF Texts
        <5> QED
          BY <4>6, <5>4 DEF ConvInv, RepliesInv, WellTold
      <4>10. ASSUME NEW i \in DOMAIN messages, own + 1 <= i, TurnOf(messages, i) = n
             PROVE  IsFileOnly(messages[i])
        <5>1. c <= i /\ k < i
          BY <3>5, <4>9, <4>10
        <5>2. ~IsPrompt(messages[i])
          BY <3>1, <4>10, <5>1 DEF StandsIn
        <5>3. IsReply(messages[i])
          BY <1>2, <5>2, MessageIs
        <5> QED
          BY <4>7, <4>10, <5>1, <5>3 DEF ReplyAt
      <4> QED
        BY <4>5, <4>10 DEF OnlyFilesFrom
    <3>8. ~IsPrompt(h[j])
      BY <1>1
    <3> QED
      BY <1>8, <3>6, <3>7, <3>8 DEF MergedUpTo
  <2> QED
    BY <2>3, <2>4 DEF MergeInv, next, m, n
<1> QED
  BY <1>5, <1>7, <1>8

LEMMA MergeInvGoesOn ==
  ASSUME ConvInv, KeepInv, NEW h, Recorded(h, turn), Complete(h), NEW j \in 1 .. Len(h), NEW acc \in Merged,
         Prompts(acc.merged) = TurnOf(h, j - 1), MergeInv(acc, h, j - 1)
  PROVE  MergeInv(Merge(acc, h[j]), h, j)
<1>1. IsReply(h[j]) \/ IsPrompt(h[j])
  BY RecordedAt, MessageIs
<1> QED
  BY <1>1, PromptFound, PromptLate, ReplyMerged

(* What is merged is fit to be merged again.                                 *)
Mended(ms) == Bare(ms) /\ \A t \in Nat : ReplyWhole(ms, t)

LEMMA FilesMended ==
  ASSUME NEW ms \in Seq(Message), Mended(ms), NEW files \in Seq(Message),
         \A y \in DOMAIN files : IsFileOnly(files[y])
  PROVE  Mended(ms \o files)
<1> DEFINE more == ms \o files
<1>1. \A y \in DOMAIN files : IsReply(files[y])
  BY DEF IsFileOnly
<1>2. /\ \A i \in DOMAIN ms : i \in DOMAIN more /\ more[i] = ms[i] /\ TurnOf(more, i) = TurnOf(ms, i)
      /\ \A y \in DOMAIN files : more[Len(ms) + y] = files[y]
      /\ \A i \in DOMAIN more : i \in DOMAIN ms \/ \E y \in DOMAIN files : i = Len(ms) + y
  BY <1>1, ConcatIs
<1>3. \A y \in DOMAIN files : ~IsPrompt(files[y])
  BY <1>1 DEF IsReply, IsPrompt
<1> HIDE DEF more
<1>4. \A i \in DOMAIN more : (i \in DOMAIN ms /\ more[i] = ms[i]) \/ (~IsPrompt(more[i]) /\ IsFileOnly(more[i]))
  BY <1>2, <1>3
<1>5. Bare(more)
  BY <1>4 DEF Mended, Bare
<1>6. ASSUME NEW t \in Nat
      PROVE  ReplyWhole(more, t)
  <2>1. PICK k \in Nat : ReplyAt(ms, t, k)
    BY DEF Mended, ReplyWhole
  <2>2. k # 0 => k \in DOMAIN more /\ IsReply(more[k]) /\ TurnOf(more, k) = t /\ more[k].text = Reply(t)
    BY <1>2, <2>1 DEF ReplyAt
  <2>3. ASSUME NEW i \in DOMAIN more, IsReply(more[i]), TurnOf(more, i) = t, k < i
        PROVE  IsFileOnly(more[i])
    <3>1. CASE i \in DOMAIN ms
      BY <1>2, <2>1, <2>3, <3>1 DEF ReplyAt
    <3>2. CASE i \notin DOMAIN ms
      BY <1>4, <3>2
    <3> QED
      BY <3>1, <3>2
  <2>4. ReplyAt(more, t, k)
    BY <2>2, <2>3 DEF ReplyAt
  <2> QED
    BY <2>4 DEF ReplyWhole
<1> QED
  BY <1>5, <1>6 DEF Mended, more

LEMMA MessageMended ==
  ASSUME NEW ms \in Seq(Message), Mended(ms), NEW m \in Message,
         IsPrompt(m) => m.calls = {} /\ m.files = {}, IsReply(m) => m.text = Reply(Prompts(ms))
  PROVE  Mended(Append(ms, m))
<1> DEFINE more == Append(ms, m)
           n == Prompts(ms)
           k == Len(ms) + 1
<1>1. /\ more[k] = m /\ DOMAIN more = 1 .. k /\ k \in Nat /\ k # 0
      /\ TurnOf(more, k) = n + (IF IsPrompt(m) THEN 1 ELSE 0) /\ n \in Nat
  <2>1. Len(ms) \in Nat /\ n \in Nat
    BY LenProperties, TurnCounts DEF Prompts
  <2> QED
    BY <2>1, TurnAppend
<1>2. Bare(ms) /\ \A t \in Nat : ReplyWhole(ms, t)
  BY DEF Mended
<1>3. Bare(more)
  BY <1>2, AppendKeeps
<1>4. ASSUME NEW t \in Nat
      PROVE  ReplyWhole(more, t)
  <2>1. CASE ~(IsReply(m) /\ n = t)
    BY <1>2, <2>1, AppendKeeps
  <2>2. CASE IsReply(m) /\ n = t
    <3>1. ~IsPrompt(m) /\ m.text = Reply(t)
      BY <2>2, MessageIs
    <3> HIDE DEF more, n, k
    <3>2. k \in DOMAIN more /\ IsReply(more[k]) /\ TurnOf(more, k) = t /\ more[k].text = Reply(t)
      BY <1>1, <2>2, <3>1
    <3>3. \A i \in DOMAIN more : ~(k < i)
      BY <1>1
    <3>4. ReplyAt(more, t, k)
      BY <3>2, <3>3 DEF ReplyAt
    <3> QED
      BY <1>1, <3>4 DEF ReplyWhole
  <2> QED
    BY <2>1, <2>2
<1> QED
  BY <1>3, <1>4 DEF Mended

LEMMA MendedGoesOn ==
  ASSUME ConvInv, KeepInv, NEW h, Recorded(h, turn), NEW j \in 1 .. Len(h), NEW acc \in Merged,
         Prompts(acc.merged) = TurnOf(h, j - 1), Mended(acc.merged)
  PROVE  Mended(Merge(acc, h[j]).merged)
<1> DEFINE m == h[j]
           n == TurnOf(h, j - 1)
           ms == acc.merged
           next == Merge(acc, m)
<1>1. /\ m \in Message /\ m.calls = {} /\ m.files = {} /\ (IsReply(m) => m.text = Reply(n))
      /\ (IsReply(m) <=> ~IsPrompt(m))
  BY RecordedAt, MessageIs
<1>2. messages \in Seq(Message) /\ ms \in Seq(Message) /\ Prompts(ms) = n /\ acc.cursor \in Nat \ {0} /\ Mended(ms)
  BY TypesOf DEF Merged
<1> HIDE DEF m, n
<1>3. CASE next.merged = Append(ms, m)
  <2>1. Mended(Append(ms, m))
    BY <1>1, <1>2, MessageMended
  <2> QED
    BY <1>3, <2>1 DEF m
<1>4. ASSUME NEW own \in DOMAIN messages, messages[own].by = m.by,
             next.merged = Append(ms \o (IF IsReply(m) THEN <<>> ELSE FilesOnly(acc.cursor, own - 1)),
                                  Collect(m, acc.cursor, own))
      PROVE  Mended(Merge(acc, h[j]).merged)
  <2> DEFINE files == IF IsReply(m) THEN <<>> ELSE FilesOnly(acc.cursor, own - 1)
             mine == Collect(m, acc.cursor, own)
  <2>1. files \in Seq(Message) /\ \A y \in DOMAIN files : IsFileOnly(files[y])
    <3>1. CASE IsReply(m)
      BY <3>1
    <3>2. CASE ~IsReply(m)
      BY <1>2, <3>2, FilesOnlyIs
    <3> QED
      BY <3>1, <3>2
  <2>2. mine \in Message /\ mine.by = m.by /\ mine.text = m.text
    BY <1>1, <1>2, CollectIs
  <2>3. \A what \in Kinds : \A x : ~IsReply(m) => (x \in On(mine, what) <=> what = "files" /\ x \in messages[own].files)
    BY <1>1, CollectHas
  <2>4. next.merged = Append(ms \o files, mine)
    BY <1>4
  <2> HIDE DEF files, mine, next
  <2>5. Mended(ms \o files) /\ ms \o files \in Seq(Message) /\ Prompts(ms \o files) = n
    <3>1. \A y \in DOMAIN files : IsReply(files[y])
      BY <2>1 DEF IsFileOnly
    <3> QED
      BY <1>2, <2>1, <3>1, FilesMended, ConcatIs
  <2>6. IsReply(mine) => mine.text = Reply(n)
    BY <1>1, <2>2 DEF IsReply
  <2>7. ASSUME IsPrompt(mine)
        PROVE  mine.calls = {} /\ mine.files = {}
    <3>1. IsPrompt(messages[own]) /\ ~IsReply(m)
      BY <1>1, <1>4, <2>2, <2>7 DEF IsPrompt
    <3>2. messages[own].files = {}
      BY <3>1 DEF KeepInv, Bare
    <3>3. \A x : ~(x \in On(mine, "calls")) /\ ~(x \in On(mine, "files"))
      BY <2>3, <3>1, <3>2 DEF Kinds
    <3>4. On(mine, "calls") = mine.calls /\ On(mine, "files") = mine.files
      BY DEF On
    <3> QED
      BY <3>3, <3>4
  <2>8. Mended(Append(ms \o files, mine))
    <3> DEFINE all == ms \o files
    <3>1. all \in Seq(Message) /\ Mended(all) /\ Prompts(all) = n
      BY <2>5
    <3> HIDE DEF all
    <3>2. Mended(Append(all, mine))
      BY <2>2, <2>6, <2>7, <3>1, MessageMended
    <3> QED
      BY <3>2 DEF all
  <2> QED
    BY <2>4, <2>8 DEF next, m
<1> QED
  BY <1>1, <1>2, <1>3, <1>4, MergeFinds

-----------------------------------------------------------------------------
(* The whole transcript is merged.                                           *)
LEMMA MergedKeeps ==
  ASSUME ConvInv, KeepInv, ~sending, NEW h, Recorded(h, turn), Complete(h), NEW g, MergesInSteps(g, h)
  PROVE  /\ MergeInv(g[Len(h)], h, Len(h)) /\ Mended(g[Len(h)].merged)
         /\ g[Len(h)] \in Merged /\ SettledTo(g[Len(h)].merged, h, Len(h))
<1> DEFINE T == {j \in 0 .. Len(h) : MergeInv(g[j], h, j) /\ Mended(g[j].merged)}
<1>1. Len(h) \in Nat /\ Len(h) \in 0 .. Len(h) /\ h \in Seq(Message)
  BY LenProperties DEF Recorded
<1>2. \A j \in 0 .. Len(h) : g[j] \in Merged /\ SettledTo(g[j].merged, h, j)
  BY MergedInOrder
<1>3. 0 \in T
  <2>1. g[0].merged = <<>> /\ g[0].cursor = 1 /\ DOMAIN <<>> = {}
    BY DEF MergesInSteps, NothingMerged
  <2>2. TurnOf(h, 0) = 0
    BY TurnCounts
  <2>3. \A t \in Kept : ~(t < 0) /\ t # 0
    BY KeptIs
  <2>4. StandsIn(1, 0)
    <3> SUFFICES ASSUME NEW i \in DOMAIN messages
                 PROVE  ~(i < 1) /\ 0 <= TurnOf(messages, i) /\ (IsPrompt(messages[i]) => 0 # TurnOf(messages, i))
      BY DEF StandsIn
    <3>1. i \in Nat /\ i >= 1 /\ i - 1 \in Nat /\ i - 1 + 1 = i
      BY TypesOf, TurnBounds
    <3>2. /\ TurnOf(messages, i - 1) \in Nat
          /\ TurnOf(messages, i - 1 + 1) = TurnOf(messages, i - 1) + (IF IsPrompt(messages[i - 1 + 1]) THEN 1 ELSE 0)
      BY <3>1, TurnCounts
    <3> QED
      BY <3>1, <3>2
  <2>5. MergeInv(g[0], h, 0)
    BY <2>1, <2>2, <2>3, <2>4 DEF MergeInv, MergedUpTo
  <2>6. Mended(<<>>)
    <3>1. \A t \in Nat : ReplyAt(<<>>, t, 0)
      BY <2>1 DEF ReplyAt
    <3> QED
      BY <2>1, <3>1 DEF Mended, Bare, ReplyWhole
  <2> QED
    BY <1>1, <2>1, <2>5, <2>6
<1>4. ASSUME NEW j \in 1 .. Len(h), j - 1 \in T
      PROVE  j \in T
  <2>1. MergeInv(g[j - 1], h, j - 1) /\ Mended(g[j - 1].merged) /\ j - 1 \in 0 .. Len(h) /\ j \in 0 .. Len(h)
    BY <1>4
  <2>2. g[j - 1] \in Merged /\ Prompts(g[j - 1].merged) = TurnOf(h, j - 1)
    BY <1>2, <2>1 DEF SettledTo, WellTold, Prompted
  <2>3. MergeInv(Merge(g[j - 1], h[j]), h, j) /\ Mended(Merge(g[j - 1], h[j]).merged)
    BY <2>1, <2>2, MergeInvGoesOn, MendedGoesOn
  <2>4. g[j] = Merge(g[j - 1], h[j])
    BY DEF MergesInSteps
  <2> QED
    BY <2>1, <2>3, <2>4
<1> HIDE DEF T
<1>5. Len(h) \in T
  BY <1>1, <1>3, <1>4, Induction
<1> QED
  BY <1>1, <1>2, <1>5 DEF T

(* Every turn that is kept has on screen what it had.                        *)
LEMMA MergeKeepsDrawn ==
  ASSUME ConvInv, KeepInv, MergeTranscript
  PROVE  \A t \in Kept : Drawn(messages', t) = Drawn(messages, t)
<1>1. ~sending /\ messages' = MergedTranscript(History)
  BY DEF MergeTranscript
<1>2. PICK h : h = History /\ Recorded(h, turn) /\ Complete(h) /\ h \in Seq(Message) /\ Prompts(h) = turn
  BY HistoryComplete, TypesOf DEF Recorded
<1>3. PICK g : MergesInSteps(g, h)
               /\ MergedTranscript(h) = g[Len(h)].merged \o FilesOnly(g[Len(h)].cursor, Len(messages))
  BY <1>2, MergeGoes, TypesOf
<1> DEFINE acc == g[Len(h)]
           ms == acc.merged
           c == acc.cursor
           files == FilesOnly(c, Len(messages))
<1>4. MergeInv(acc, h, Len(h)) /\ acc \in Merged /\ SettledTo(ms, h, Len(h))
  BY <1>1, <1>2, <1>3, MergedKeeps
<1>5. /\ ms \in Seq(Message) /\ c \in Nat \ {0} /\ Prompts(ms) = turn /\ TurnOf(h, Len(h)) = turn
      /\ messages \in Seq(Message) /\ Len(messages) \in Nat /\ turn \in Nat
  BY <1>2, <1>4, TypesOf, LenProperties DEF Merged, SettledTo, WellTold, Prompted, Prompts
<1>6. messages' = ms \o files /\ files \in Seq(Message) /\ \A y \in DOMAIN files : IsReply(files[y])
  BY <1>1, <1>2, <1>3, <1>5, FilesOnlyIs DEF IsFileOnly
<1> HIDE DEF acc, ms, c
<1>7. ASSUME NEW t \in Kept
      PROVE  SameOn(ms \o files, messages, t)
  <2>1. t \in Nat /\ t # 0 /\ t <= turn /\ ~LateBy(late, t) /\ t \in answered
    BY KeptIs
  <2>2. CASE t < turn
    <3>1. SameOn(ms, messages, t)
      BY <1>4, <1>5, <2>2 DEF MergeInv, ms
    <3>2. t # Prompts(ms)
      BY <1>5, <2>1, <2>2
    <3>3. \A what \in Kinds : \A x : Has(ms \o files, t, what, x) <=> Has(ms, t, what, x)
      <4> HIDE DEF files
      <4> QED
        BY <1>5, <1>6, <3>2, HasConcat
    <3> HIDE DEF files
    <3> QED
      BY <3>1, <3>3 DEF SameOn
  <2>3. CASE t = turn
    <3>1. MergedUpTo(acc, h, Len(h), turn)
      BY <1>4, <1>5, <2>1, <2>3 DEF MergeInv
    <3>2. Len(h) # 0 /\ Len(h) \in DOMAIN h /\ Len(h) + 1 \notin DOMAIN h
      <4>1. Len(h) \in Nat /\ DOMAIN h = 1 .. Len(h)
        BY <1>2, LenProperties
      <4>2. Len(h) # 0
        <5>1. TurnOf(h, 0) = 0
          BY TurnCounts
        <5> QED
          BY <1>5, <2>1, <2>3, <5>1
      <4> QED
        BY <4>1, <4>2
    <3>3. IsReply(h[Len(h)])
      <4>1. h[Len(h)] \in Message
        BY <1>2, <3>2, TurnBounds
      <4>2. ~IsPrompt(h[Len(h)])
        BY <1>2, <1>5, <2>1, <2>3, <3>2 DEF Complete
      <4> QED
        BY <4>1, <4>2, MessageIs
    <3>4. HasDrawn(ms, c, turn) /\ OnlyFilesFrom(c, turn) /\ StandsIn(c, turn)
      BY <2>3, <3>1, <3>2, <3>3 DEF MergedUpTo, ms, c
    <3>5. \A i \in DOMAIN messages : i <= Len(messages) /\ TurnOf(messages, i) \in Nat /\ TurnOf(messages, i) <= turn
      BY <1>5, TurnBounds, KeepTypes
    <3>6. \A i \in DOMAIN messages : c <= i => TurnOf(messages, i) = turn
      BY <1>5, <3>4, <3>5 DEF StandsIn
    <3>7. Len(messages) \in Int /\ c \in Nat
      BY <1>5
    <3> QED
      BY <1>5, <2>3, <3>4, <3>5, <3>6, <3>7, RestAdded DEF files
  <2> QED
    BY <1>5, <2>1, <2>2, <2>3
<1> HIDE DEF files
<1> QED
  BY <1>6, <1>7, DrawnSame

LEMMA KeepMerged ==
  ASSUME ConvInv, ConvInv', KeepInv, MergeTranscript
  PROVE  KeepInv'
<1>1. /\ ~sending /\ sending' = sending /\ turn' = turn /\ told' = told /\ ends' = ends
      /\ answered' = answered /\ late' = late /\ mixed' = mixed /\ streams' = Silent
      /\ messages' = MergedTranscript(History)
  BY DEF MergeTranscript, tellerVars
<1>2. PICK h : h = History /\ Recorded(h, turn) /\ Complete(h) /\ h \in Seq(Message) /\ Prompts(h) = turn
  BY HistoryComplete, TypesOf DEF Recorded
<1>3. PICK g : MergesInSteps(g, h)
               /\ MergedTranscript(h) = g[Len(h)].merged \o FilesOnly(g[Len(h)].cursor, Len(messages))
  BY <1>2, MergeGoes, TypesOf
<1> DEFINE ms == g[Len(h)].merged
           files == FilesOnly(g[Len(h)].cursor, Len(messages))
           more == ms \o files
<1>4. g[Len(h)] \in Merged /\ SettledTo(ms, h, Len(h)) /\ Mended(ms)
  BY <1>1, <1>2, <1>3, MergedKeeps
<1>5. ms \in Seq(Message) /\ WellTold(ms, turn, Turn, Turn)
  BY <1>2, <1>4 DEF Merged, SettledTo, Prompts
<1>6. files \in Seq(Message) /\ \A x \in DOMAIN files : IsFileOnly(files[x])
  BY FilesOnlyIs, TypesOf
<1>7. messages' = more
  BY <1>1, <1>2, <1>3
<1> HIDE DEF ms, files
<1>8. Mended(more)
  BY <1>4, <1>5, <1>6, FilesMended
<1>9. TextsLate(late, ms)
  <2> SUFFICES ASSUME NEW i \in DOMAIN ms, IsReply(ms[i]), LateBy(late, TurnOf(ms, i))
               PROVE  PartsLate(late, ms[i].text)
    BY DEF TextsLate
  <2> DEFINE u == TurnOf(ms, i)
  <2>1. u \in Nat /\ u <= turn /\ ms[i] \in Message
    BY <1>5, TurnBounds DEF WellTold, Prompted
  <2>2. u \in Turn
    <3>1. PICK l \in late : l <= u
      BY DEF LateBy
    <3>2. l \in Turn /\ turn \in 0 .. MaxTurns /\ MaxTurns \in Nat
      BY TypesOf
    <3> HIDE DEF u
    <3> QED
      BY <2>1, <3>1, <3>2 DEF Turn
  <2>3. CASE ms[i].text = <<>>
    BY <2>3 DEF PartsLate
  <2>4. CASE ms[i].text # <<>>
    <3>1. i \in Texts(ms, u)
      BY <2>4 DEF Texts
    <3>2. Reads(ms[i].text, u)
      BY <1>5, <2>2, <3>1 DEF WellTold
    <3>3. ms[i].text \in Text
      BY <2>1 DEF Message
    <3> HIDE DEF u
    <3>4. LateBy(late, u)
      BY DEF u
    <3> QED
      BY <2>2, <3>2, <3>3, <3>4, TurnIsLate
  <2> QED
    BY <2>3, <2>4
<1>10. TextsLate(late, more)
  <2>1. \A x \in DOMAIN files : IsReply(files[x]) /\ files[x].text = <<>>
    BY <1>6 DEF IsFileOnly
  <2>2. /\ \A i \in DOMAIN ms : more[i] = ms[i] /\ TurnOf(more, i) = TurnOf(ms, i)
        /\ \A y \in DOMAIN files : more[Len(ms) + y] = files[y]
        /\ \A i \in DOMAIN more : i \in DOMAIN ms \/ \E y \in DOMAIN files : i = Len(ms) + y
    BY <1>5, <1>6, <2>1, ConcatIs
  <2> HIDE DEF more
  <2>3. \A i \in DOMAIN more : i \in DOMAIN ms \/ more[i].text = <<>>
    BY <2>1, <2>2
  <2>4. PartsLate(late, <<>>)
    BY DEF PartsLate
  <2> QED
    BY <1>9, <2>2, <2>3, <2>4 DEF TextsLate
<1> HIDE DEF more
<1>11. EndsInv'
  BY <1>1 DEF KeepInv, EndsInv
<1>12. late' # {} => \A s \in Source : PartsLate(late', streams'[s])
  BY <1>1, SilentParts
<1>13. Due' \subseteq Nat
  <2>1. Due' = Due
    BY <1>1 DEF Due, Orderly, ToldAll
  <2>2. Due \subseteq Turn /\ Turn \subseteq Nat
    BY KeepTypes DEF Turn
  <2> QED
    BY <2>1, <2>2
<1>14. \A t \in Due' : ReplyWhole(messages', t)
  BY <1>7, <1>8, <1>13 DEF Mended
<1>15. Bare(messages') /\ TextsLate(late', messages')
  BY <1>1, <1>7, <1>8, <1>10 DEF Mended
<1> QED
  BY <1>11, <1>12, <1>14, <1>15 DEF KeepInv

LEMMA KeepInvInit == ConversationInit => KeepInv
<1> SUFFICES ASSUME ConversationInit PROVE KeepInv
  OBVIOUS
<1>1. messages = <<>> /\ late = {} /\ sending = FALSE /\ turn = 0 /\ ends = 0 /\ answered = {}
  BY DEF ConversationInit
<1>2. Due = {}
  BY <1>1 DEF Due, Orderly
<1>3. Bare(messages) /\ TextsLate(late, messages)
  BY <1>1 DEF Bare, TextsLate
<1> QED
  BY <1>1, <1>2, <1>3 DEF KeepInv, EndsInv

LEMMA KeepInvNext == ConvInv /\ KeepInv /\ [ConversationNext]_convVars => KeepInv'
<1> SUFFICES ASSUME ConvInv, KeepInv, [ConversationNext]_convVars PROVE KeepInv'
  OBVIOUS
<1>1. ConvInv'
  BY ConvInvNext
<1>2. CASE UNCHANGED convVars
  <2>1. /\ messages' = messages /\ streams' = streams /\ sending' = sending /\ turn' = turn /\ told' = told
        /\ ends' = ends /\ answered' = answered /\ late' = late /\ mixed' = mixed
    BY <1>2 DEF convVars
  <2>2. Due' = Due
    BY <2>1 DEF Due, Orderly, ToldAll
  <2>3. EndsInv'
    BY <2>1 DEF KeepInv, EndsInv
  <2> QED
    BY <2>1, <2>2, <2>3 DEF KeepInv
<1>3. CASE BeginTurnWithPlaceholder \/ GivesUp \/ StartMessage \/ TurnFailed \/ MergeTranscript
  BY <1>1, <1>3, KeepBegin, KeepGivesUp, KeepStart, KeepFailed, KeepMerged
<1>4. CASE \E s \in Source : ApplyDelta(s)
  BY <1>1, <1>4, KeepDelta
<1>5. CASE \E call \in ToolCalls : AppendToolCall(call)
  BY <1>1, <1>5, KeepToolCall
<1>6. CASE \E file \in Files : AppendAttachment(file)
  BY <1>1, <1>6, KeepAttachment
<1>7. CASE \E text \in {<<>>, Reply(turn)} : Completed(text)
  BY <1>1, <1>7, KeepCompleted
<1> QED
  BY <1>2, <1>3, <1>4, <1>5, <1>6, <1>7 DEF ConversationNext

(* Reading a session again keeps what was drawn: every call and file of an   *)
(* answered turn is on screen after merge_transcript, and in no other turn,  *)
(* for any number of turns, streams, calls and files, however the messages   *)
(* of the turn stand and however often the session is read again.            *)
THEOREM TranscriptKeepsDrawn == ConversationSpec => KeptByMerge
<1>1. ConvInv /\ KeepInv /\ MergeTranscript =>
        \A t \in (answered \cap Orderly) \ mixed : Drawn(messages', t) = Drawn(messages, t)
  BY MergeKeepsDrawn DEF Kept
<1>2. ConversationInit => ConvInv /\ KeepInv
  BY ConvInvInit, KeepInvInit
<1>3. ConvInv /\ KeepInv /\ [ConversationNext]_convVars => (ConvInv /\ KeepInv)'
  BY ConvInvNext, KeepInvNext
<1>4. ConvInv /\ KeepInv /\ [ConversationNext]_convVars =>
        [MergeTranscript => \A t \in (answered \cap Orderly) \ mixed : Drawn(messages', t) = Drawn(messages, t)]_convVars
  BY <1>1
<1> QED
  BY <1>2, <1>3, <1>4, PTL DEF ConversationSpec, KeptByMerge
=============================================================================
